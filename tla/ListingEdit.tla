----------------------------- MODULE ListingEdit -----------------------------
(***************************************************************************)
(* The fields of one listing on their way from the row to the form and      *)
(* back: GET, POST, PATCH and DELETE of handlers/properties.go and          *)
(* services/properties.go, and on the phone the steps of                    *)
(* add_property_screen.dart with loadForEdit, createProperty and submit of  *)
(* property_form_provider.dart.  Others delete the listing, or save a form   *)
(* of their own for it, at any time.                                        *)
(*                                                                         *)
(* ListingForm says which listing a save goes to and whether the button is  *)
(* on again, with the fields reduced to valid or not; here the listing is   *)
(* one and the fields are kept.                                             *)
(* contact is the owner's contact (the name differs in one thing: the       *)
(* details page does not follow it), area the plot or built-up area, place  *)
(* latitude and longitude, tags what is set in the form at once and always  *)
(* sent (category, type, direct owner, tags).  The description, which the   *)
(* location page edits, is left out.  Amounts are in tenths of a paisa (and *)
(* thousandths of a square metre): one digit more than the columns keep.    *)
(***************************************************************************)
EXTENDS Naturals

CONSTANTS
  Contact, Price, Area, Place, Tag,  \* what is typed into the fields
  None,        \* a blank text, a NULL column, no row
  Garbage,     \* a text that is no number
  Nowhere,     \* latitude and longitude 0
  Default,     \* the category, type and tags of a fresh form
  MaxEvents    \* bound on how often the screen is opened, a text typed over another, the row
               \* saved elsewhere or deleted, or a call lost, all together

ASSUME EditAssumption ==
  /\ Price \subseteq Nat /\ Area \subseteq Nat
  /\ MaxEvents \in Nat
  /\ Garbage # None /\ Default \in Tag
  /\ None \notin Contact \union Place \union Tag \union {Nowhere}
  /\ Nowhere \notin Place
  /\ \A v \in Contact \union Place \union Tag \union {None, Garbage, Nowhere} : v \notin Nat

VARIABLES
  row,     \* the row of properties, None before it is inserted
  role,    \* of the user of the phone
  phone,   \* the screen, the form and the call under way
  events   \* how many of the events happened that MaxEvents bounds

vars == <<row, role, phone, events>>

Field == {"contact", "price", "area", "place", "tags"}

\* Texts typed, or read from a photo, into a field.
Inputs(f) == CASE f = "contact" -> Contact \union {None}
               [] f = "price"   -> Price \union {None}
               [] f = "area"    -> Area \union {None, Garbage}
               [] f = "place"   -> Place \union {None}
               [] f = "tags"    -> Tag

\* What the form may hold as a text, and what the column may hold.
Text(f) == CASE f = "contact" -> Contact \union {None}
             [] f = "price"   -> Nat \union {None}
             [] f = "area"    -> Nat \union {None, Garbage}
             [] f = "place"   -> Place \union {None, Nowhere}
             [] f = "tags"    -> Tag
NumericColumn == {n \in Nat : n % 10 = 0}
Column(f) == CASE f = "price" -> NumericColumn
               [] f = "area"  -> NumericColumn \union {None}
               [] f = "place" -> Place \union {Nowhere}
               [] OTHER       -> Text(f)

Value == Contact \union Nat \union Place \union Tag \union {None, Garbage, Nowhere}
Texts == {t \in [Field -> Value] : \A f \in Field : t[f] \in Text(f)}
Columns == {t \in [Field -> Value] : \A f \in Field : t[f] \in Column(f)}
Blank == [f \in Field |-> IF f = "tags" THEN Default ELSE None]

\* own: the user of the phone created it.
Rows == [val : Columns, own : BOOLEAN, deleted : BOOLEAN]
Idle == [kind |-> "none", at |-> "idle", body |-> Blank, mine |-> {}, fresh |-> FALSE]
\* createProperty's POST, submit's POST and submit's PATCH.
Calls == [kind : {"none", "create", "insert", "patch"}, at : {"idle", "sent", "served", "refused"},
          body : Texts, mine : SUBSET Field, fresh : BOOLEAN]

\* loadForEdit's GET; early: the user has not gone on since; form: what the answer says;
\* fresh: the row is as it was when the server read it (history).
NoLoad == [at |-> "no", early |-> FALSE, form |-> Blank, fresh |-> FALSE]
Loads == [at : {"no", "asked", "answered"}, early : BOOLEAN, form : Texts, fresh : BOOLEAN]

Pages == {"closed", "category", "location", "details", "review"}
\* The fields with a controller of their own on a page.
On(p) == CASE p = "location" -> {"place"}
           [] p = "details"  -> {"contact", "price", "area"}
           [] OTHER          -> {}

\* here: the page that submit was pressed on is still the one on screen.  mine: the fields
\* whose text loadForEdit has not put there, or that were changed since; fresh: it answered
\* before the user went on, and the row is as it was when it was read; tiny: somebody, here or
\* elsewhere, typed a price above 0 and below half a paisa (histories).
TypeOK ==
  /\ row \in Rows \union {None}
  /\ role \in {"SUPER_ADMIN", "BROKER"}
  /\ phone \in [page : Pages, load : Loads, known : BOOLEAN, form : Texts, text : Texts,
                call : Calls, here : BOOLEAN, mine : SUBSET Field, fresh : BOOLEAN, tiny : BOOLEAN]
  /\ events \in 0 .. MaxEvents

Reset(d) == [d EXCEPT !.form = Blank, !.known = FALSE, !.mine = Field, !.fresh = FALSE]

\* The screen goes; what is under way goes on.
Gone(d) == [d EXCEPT !.page = "closed", !.load.early = FALSE, !.text = Blank, !.here = FALSE]

\* NUMERIC(15, 2) rounds what is stored in it to a hundredth.
Rounded(n) == IF n \in Nat THEN ((n + 5) \div 10) * 10 ELSE n

Init ==
  /\ \/ row = None
     \/ \E t \in [Field -> UNION {Inputs(f) : f \in Field}], own \in BOOLEAN :
          /\ \A f \in Field : t[f] \in Inputs(f)
          /\ t["contact"] # None /\ Rounded(t["price"]) \notin {None, 0} /\ t["area"] # Garbage
          /\ t["place"] # None
          /\ row = [val |-> [f \in Field |-> Rounded(t[f])], own |-> own, deleted |-> FALSE]
  /\ role \in {"SUPER_ADMIN", "BROKER"}
  /\ phone =
       [page |-> "closed", load |-> NoLoad, known |-> FALSE, form |-> Blank, text |-> Blank,
        call |-> Idle, here |-> FALSE, mine |-> Field, fresh |-> FALSE, tiny |-> FALSE]
  /\ events = 0

Alive == row # None /\ ~row.deleted
Event == events < MaxEvents /\ events' = events + 1

\* toStringAsFixed(0) of an amount that is known.
Whole(n) == IF n = None THEN None ELSE ((n + 500) \div 1000) * 1000

\* Mutant: the answer is not scrubbed.
GotAll(r) == [f \in Field |-> row.val[f]]

\* GET: only an admin is told who the owner is.
Got(r) == [f \in Field |-> IF f = "contact" /\ r # "SUPER_ADMIN" THEN None ELSE row.val[f]]

\* Mutant: an area that is not known is shown as 0.
ShownAsZero(r) ==
  [f \in Field |->
     CASE f = "area" /\ Got(r)[f] = None -> 0
       [] f = "area" /\ Got(r)[f] # None -> Whole(Got(r)[f])
       [] f = "price"                    -> Whole(Got(r)[f])
       [] OTHER                          -> Got(r)[f]]

\* What loadForEdit puts into the form.
Shown(r) == [f \in Field |-> IF f \in {"price", "area"} THEN Whole(Got(r)[f]) ELSE Got(r)[f]]

\* Mutant: nobody asks who the owner is.
CompleteButOwner(form) == form.price \notin {None, 0}

\* What submit and createProperty ask for before they send anything.
Complete(form) == form.contact # None /\ form.price \notin {None, 0}

-----------------------------------------------------------------------------
(* The screen.                                                              *)

Screen(d) == phone' = d /\ UNCHANGED <<row, role>>

\* The form is as it was left; only one listing is modelled.
OpenNew ==
  /\ phone.page = "closed" /\ (row = None \/ phone.known)
  /\ Screen([phone EXCEPT !.page = "category"])
  /\ Event

OpenEdit ==
  /\ phone.page = "closed" /\ row # None /\ phone.load = NoLoad
  /\ Screen([phone EXCEPT !.page = "category", !.load = [NoLoad EXCEPT !.at = "asked", !.early = TRUE]])
  /\ Event

Close ==
  /\ phone.page # "closed"
  /\ Screen(Gone(phone))
  /\ UNCHANGED events

\* The details page follows every change of the form.
Sync(d) ==
  IF d.page = "details"
  THEN [d EXCEPT !.text = [f \in Field |-> IF f \in On("details") THEN d.form[f] ELSE @[f]]]
  ELSE d

\* Page p comes up with the texts of the form.  (One that Flutter kept, because a text of it
\* had the focus, comes up as it was left: here, that is typed again.)
Enter(d, p) ==
  Screen([d EXCEPT !.page = p, !.here = FALSE,
                   !.text = [f \in Field |-> IF f \in On(p) THEN d.form[f] ELSE Blank[f]]])

Back ==
  /\ phone.page \in {"location", "details", "review"}
  /\ LET p == phone.page
     IN  Enter(phone, CASE p = "location" -> "category"
                              [] p = "details" -> "location"
                              [] p = "review" -> "details")
  /\ UNCHANGED events

\* A page's Next stores its texts in the form.
Store(d) ==
  [d EXCEPT !.form = [f \in Field |-> IF f \in On(d.page) THEN d.text[f] ELSE @[f]],
            !.mine = @ \union {f \in On(d.page) : d.text[f] # d.form[f]}]

Called(d, kind) ==
  [d EXCEPT !.call = [kind |-> kind, at |-> "sent", body |-> d.form, mine |-> d.mine, fresh |-> d.fresh]]

\* Only one listing is modelled, and one call at a time.
Room == row = None /\ phone.call = Idle

\* Step 3 creates a draft as soon as the required fields are there.
LeaveDetails(d) ==
  IF ~d.known /\ Complete(d.form)
  THEN Room /\ Enter(Called(d, "create"), "review")
  ELSE Enter(d, "review")

GoOn ==
  /\ LET d == Store(phone)
     IN  \/ d.page = "category" /\ Enter([d EXCEPT !.load.early = FALSE], "location")
         \/ d.page = "location" /\ Enter(d, "details")
         \/ d.page = "details" /\ LeaveDetails(d)
  /\ UNCHANGED events

Tiny(f, v) == f = "price" /\ v \in 1 .. 4

TypeText ==
  /\ \E f \in On(phone.page) : \E v \in Inputs(f) \ {phone.text[f]} :
       /\ Screen([phone EXCEPT !.text[f] = v, !.tiny = @ \/ Tiny(f, v)])
       /\ IF phone.text[f] = None THEN UNCHANGED events ELSE Event

\* Category, type and tags go to the form at once.
ChooseTags ==
  /\ phone.page \in {"category", "review"}
  /\ \E v \in Tag \ {phone.form.tags} :
       Screen(Sync([phone EXCEPT !.form.tags = v, !.mine = @ \union {"tags"}, !.here = FALSE]))
  /\ Event

\* What the OCR read from a photo, applied.
Autofill ==
  /\ phone.page = "review" /\ phone.known
  /\ \E f \in On("details") : \E v \in Inputs(f) \ {None, phone.form[f]} :
       Screen(Sync([phone EXCEPT !.form[f] = v, !.mine = @ \union {f}, !.here = FALSE,
                                 !.tiny = @ \/ Tiny(f, v)]))
  /\ Event

\* The progress of an upload is a change of the form too.
UploadProgress ==
  /\ phone.known
  /\ Sync(phone) # phone
  /\ Screen(Sync(phone))
  /\ UNCHANGED events

\* loadForEdit's answer replaces the form.
Loaded ==
  /\ phone.load.at = "answered"
  /\ Screen(Sync([phone EXCEPT !.load = NoLoad, !.known = TRUE, !.form = phone.load.form,
                                !.mine = {}, !.fresh = phone.load.early /\ phone.load.fresh]))
  /\ UNCHANGED events

\* The listing is gone, or the call or its answer is lost: the error is swallowed.
LoadFails ==
  /\ \/ phone.load.at = "asked" /\ ~Alive /\ UNCHANGED events
     \/ phone.load.at # "no" /\ Event
  /\ Screen([phone EXCEPT !.load = NoLoad])

\* The listing that createdPropertyId names is patched; without one it is created.
Submit ==
  /\ phone.page = "review" /\ phone.call = Idle /\ Complete(phone.form)
  /\ phone.known \/ Room
  /\ Screen(Sync([Called(phone, IF phone.known THEN "patch" ELSE "insert") EXCEPT !.here = TRUE]))
  /\ UNCHANGED events

-----------------------------------------------------------------------------
(* The server.                                                              *)

\* The server reads the row for loadForEdit.
ServeGet ==
  /\ phone.load.at = "asked" /\ Alive
  /\ Screen([phone EXCEPT !.load.at = "answered", !.load.form = Shown(role), !.load.fresh = TRUE])
  /\ UNCHANGED events

\* Mutant: the text of the area is sent as it is.
InsertedAsTyped(body) == [f \in Field |-> Rounded(body[f])]

\* An area that does not parse is sent as null, which POST stores as NULL.
Inserted(body) ==
  [f \in Field |-> IF f = "area" /\ body[f] = Garbage THEN None ELSE Rounded(body[f])]

\* submit's PATCH, Update and buildSetClauses, which validate nothing: a blank area is not
\* sent, one that does not parse is sent as null, which is read as 0, and a blank place as 0.
Patched(val, body) ==
  [f \in Field |->
     CASE f = "area" /\ body[f] = Garbage -> 0
       [] f = "area" /\ body[f] = None    -> val[f]
       [] f = "place" /\ body[f] = None   -> Nowhere
       [] OTHER                           -> Rounded(body[f])]

\* What was read of a row that is saved now is no longer what it holds.
Stale(d) == [d EXCEPT !.fresh = FALSE, !.load.fresh = FALSE, !.call.fresh = FALSE]

\* The handler answers; only a call that is not served leaves the row as it was.
Serve(at) ==
  LET d == [phone EXCEPT !.call = [Idle EXCEPT !.kind = phone.call.kind, !.at = at]]
  IN  phone' = IF at = "served" THEN Stale(d) ELSE d

\* Create: what the app does not check itself is the place.
ServePost ==
  /\ phone.call.kind \in {"create", "insert"} /\ phone.call.at = "sent"
  /\ IF phone.call.body.place \in {None, Nowhere}
     THEN Serve("refused") /\ UNCHANGED row
     ELSE Serve("served") /\ row' = [val |-> Inserted(phone.call.body), own |-> TRUE, deleted |-> FALSE]
  /\ UNCHANGED <<role, events>>

\* Patch: who created the row never changes, so that the check and the UPDATE are one step.
ServePatch ==
  /\ phone.call.kind = "patch" /\ phone.call.at = "sent"
  /\ IF Alive /\ (role = "SUPER_ADMIN" \/ row.own)
     THEN Serve("served") /\ row' = [row EXCEPT !.val = Patched(@, phone.call.body)]
     ELSE Serve("refused") /\ UNCHANGED row
  /\ UNCHANGED <<role, events>>

\* Anyone may delete.
Delete ==
  /\ Alive /\ row' = [row EXCEPT !.deleted = TRUE]
  /\ Event
  /\ UNCHANGED <<role, phone>>

\* Somebody else's form, loaded from the row as it is, with one text typed over.
SavedElsewhere ==
  /\ Alive /\ Event
  /\ \E f \in Field : \E v \in Inputs(f) :
       LET body == [Shown("SUPER_ADMIN") EXCEPT ![f] = v]
       IN  /\ Complete(body) /\ row' = [row EXCEPT !.val = Patched(@, body)]
           /\ phone' = [Stale(phone) EXCEPT !.tiny = @ \/ Tiny(f, v)]
  /\ UNCHANGED role

\* The answer to the draft, which nobody awaits.
DraftAnswered ==
  /\ phone.call.kind = "create" /\ phone.call.at \in {"served", "refused"}
  /\ Screen(IF phone.call.at = "served"
            THEN Sync([phone EXCEPT !.call = Idle, !.known = TRUE])
            ELSE [phone EXCEPT !.call = Idle])
  /\ UNCHANGED events

\* On success the screen is left and the form reset, if the page is still there.
SubmitSucceeds ==
  /\ phone.call.kind \in {"insert", "patch"} /\ phone.call.at = "served"
  /\ phone.call.kind = "patch" => Alive
  /\ LET d == [phone EXCEPT !.call = Idle, !.known = TRUE]
     IN  Screen(IF d.here THEN Gone(Reset(d)) ELSE Sync(d))
  /\ UNCHANGED events

\* Refused, or deleted before Patch reads it again.
SubmitRefused ==
  /\ phone.call.kind \in {"insert", "patch"}
  /\ phone.call.at = "refused" \/ (phone.call.kind = "patch" /\ phone.call.at = "served" /\ ~Alive)
  /\ Screen(Sync([phone EXCEPT !.call = Idle]))
  /\ UNCHANGED events

\* The call, or its answer, is lost.  submit says so, unless the error is no JSON.
CallFails ==
  /\ phone.call.at \in {"sent", "served"}
  /\ Event
  /\ \/ Screen([phone EXCEPT !.call = Idle])
     \/ phone.call.kind # "create" /\ Screen(Sync([phone EXCEPT !.call = Idle]))

-----------------------------------------------------------------------------
Next ==
  \/ OpenNew \/ OpenEdit \/ Close \/ Back \/ GoOn
  \/ TypeText \/ ChooseTags \/ Autofill \/ UploadProgress
  \/ Loaded \/ LoadFails \/ Submit
  \/ ServeGet \/ ServePost \/ ServePatch \/ Delete \/ SavedElsewhere
  \/ DraftAnswered \/ SubmitSucceeds \/ SubmitRefused \/ CallFails

Spec == Init /\ [][Next]_vars

-----------------------------------------------------------------------------
(* Properties.                                                              *)

\* A row always names its owner, and its price is 0 only if somebody typed one so small that
\* the column rounds it to 0, which the app and POST let through (PATCH checks nothing).  What
\* a broker's form is loaded with has no owner, and a price below half a rupee is shown as 0.
RowIsValid ==
  row # None => row.val.contact # None /\ (row.val.price = 0 => phone.tiny)

\* The phone's PATCH is applied.
Patches ==
  phone.call.kind = "patch" /\ phone.call.at = "sent" /\ phone'.call.at = "served"

\* Editing changes what the user typed and nothing else: a PATCH, which sends every field,
\* leaves a field that was not typed as it was loaded, but for amounts, which it may round
\* to whole rupees and square metres.  It holds if loadForEdit answered before the user
\* went on and nobody changed the row after that.
UntouchedIsKept ==
  [][Patches /\ phone.call.fresh =>
       \A f \in Field \ phone.call.mine :
         \/ row'.val[f] = row.val[f]
         \/ f \in {"price", "area"} /\ row'.val[f] = Whole(row.val[f])]_vars

\* The owner's contact, which the server keeps from brokers, never comes back from a broker's
\* form, however old the form and whichever screen filled it in: what his PATCH writes over
\* the contact is what he typed, or had read from a photo, on this phone.
OwnerIsEntered == [][Patches /\ role = "BROKER" => "contact" \in phone.call.mine]_vars

-----------------------------------------------------------------------------
(* The inductive invariants behind the properties.                          *)

\* What is sent was complete when it was sent.
SentIsComplete == phone.call.at = "sent" => Complete(phone.call.body)

\* As long as they are fresh, the answer to the GET, the form and what was sent of it agree
\* with the row, the form but for what the user changed.
FreshIsShown ==
  /\ phone.load.fresh => phone.load.form = Shown(role)
  /\ phone.fresh => \A f \in Field \ phone.mine : phone.form[f] = Shown(role)[f]
  /\ phone.call.fresh => \A f \in Field \ phone.call.mine : phone.call.body[f] = Shown(role)[f]

\* A broker's form has no owner but the one he entered.
Hidden(form, mine) == role = "BROKER" /\ form["contact"] # None => "contact" \in mine
OwnerIsHidden ==
  /\ Hidden(phone.load.form, {})
  /\ Hidden(phone.form, phone.mine)
  /\ Hidden(phone.call.body, phone.call.mine)

\* The texts that can become the price of the row.
TinyIsTyped ==
  \A t \in {phone.load.form, phone.form, phone.text, phone.call.body} :
    Tiny("price", t["price"]) => phone.tiny

EditInv == RowIsValid /\ SentIsComplete /\ FreshIsShown /\ OwnerIsHidden /\ TinyIsTyped
=============================================================================
