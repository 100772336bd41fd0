----------------------------- MODULE ListingForm -----------------------------
(***************************************************************************)
(* The wizard that adds and edits a listing: PropertyFormNotifier in        *)
(* property_form_provider.dart and the steps of add_property_screen.dart    *)
(* that call it.                                                            *)
(*                                                                         *)
(* The form outlives its screen.  Drafts are created and photos uploaded    *)
(* without being awaited, so that the user goes on, goes back, removes a    *)
(* photo or closes the screen while they are under way; each resumes with   *)
(* the index, and the form, it then finds.  The fields are abstracted to    *)
(* whether submit would accept them; submitError is left out, as all it     *)
(* does is be shown until the next change of the form clears it.            *)
(***************************************************************************)
EXTENDS Naturals, SequencesExt

CONSTANTS
  Listing,     \* ids the server may give
  File,        \* photos on the phone; one that is on the server is not picked again
  Call,        \* coroutines under way at a time
  None,
  MaxPhotos,   \* bound on the photos of a form
  MaxLoads,    \* bound on loads under way at a time
  MaxMishaps   \* bound on failed calls

ASSUME FormAssumption ==
  /\ None \notin Listing \union File
  /\ MaxPhotos \in Nat /\ MaxLoads \in Nat /\ MaxMishaps \in Nat

VARIABLES
  page,      \* the page on screen, or "closed"
  edit,      \* editPropertyId of the screen
  form,      \* state: createdPropertyId, are the fields valid, isSubmitting
  photos,    \* state.photos
  call,      \* createProperty, uploadPhoto and submit, suspended at an await
  loading,   \* listings whose loadForEdit awaits its answer
  listed,    \* the server's listings
  stored,    \* the server's confirmed photos: <<listing, file>>
  made,      \* listings created since a calm screen was opened (history)
  calm,      \* the form was empty when the screen opened, and no two of its
             \* coroutines have got into each other's way since (history)
  unread,    \* the last submit ended with an error that is no JSON (history)
  faults     \* how many calls failed (bounds the model)

server == <<listed, stored>>
vars == <<page, edit, form, photos, call, loading, server, made, calm, unread, faults>>

EmptyForm == [id |-> None, valid |-> FALSE, submitting |-> FALSE]
Idle == [kind |-> "none", at |-> "idle", pid |-> None, index |-> 0, file |-> None, here |-> FALSE]

PhotoUploadStatus == {"pending", "uploading", "confirmed", "failed"}

Photo == [file : File, status : PhotoUploadStatus]

\* A coroutine at an await.  `here`: the page that submit was pressed on is still on screen.
Running ==
  [kind : {"create", "submit", "upload"}, at : {"save", "presign", "transfer"},
   pid : Listing \union {None}, index : 0 .. MaxPhotos, file : File \union {None}, here : BOOLEAN]

TypeOK ==
  /\ page \in {"closed", "category", "details", "photos", "review"}
  /\ edit \in Listing \union {None}
  /\ form \in [id : Listing \union {None}, valid : BOOLEAN, submitting : BOOLEAN]
  /\ photos \in Seq(Photo)
  /\ call \in [Call -> Running \union {Idle}]
  /\ loading \in SUBSET Listing /\ listed \in SUBSET Listing
  /\ stored \in SUBSET (Listing \X File)
  /\ made \in SUBSET Listing /\ calm \in BOOLEAN /\ unread \in BOOLEAN
  /\ faults \in 0 .. MaxMishaps

Init ==
  /\ page = "closed" /\ edit = None /\ form = EmptyForm /\ photos = <<>>
  /\ call = [c \in Call |-> Idle] /\ loading = {}
  /\ listed \in SUBSET Listing
  /\ stored = {} /\ made = {} /\ calm = FALSE /\ unread = FALSE /\ faults = 0

Busy == {c \in Call : call[c] # Idle}
Saving == {c \in Call : call[c].at = "save"}
Creating == {c \in Saving : call[c].pid = None}
Uploading == {c \in Call : call[c].at \in {"presign", "transfer"}}

\* Listing bounds the model: an id is left for one more creation.
Room == Cardinality(Creating) < Cardinality(Listing \ listed)

Fault == faults < MaxMishaps /\ faults' = faults + 1

\* submit's continuation throws once the page it was started from is gone.
LeavePage == call' = [c \in Call |-> [call[c] EXCEPT !.here = FALSE]]

-----------------------------------------------------------------------------
(* The screen.                                                              *)

\* The screen opens on the form as it was left.
Open(p) ==
  /\ page = "closed"
  /\ page' = "category" /\ edit' = p
  /\ made' = {}
  /\ calm' = (form = EmptyForm /\ photos = <<>> /\ Busy = {} /\ loading = {})

OpenNew ==
  /\ Open(None)
  /\ UNCHANGED <<form, photos, call, loading, server, unread, faults>>

OpenEdit ==
  /\ Cardinality(loading) < MaxLoads
  /\ \E p \in listed \ loading : Open(p) /\ loading' = loading \union {p}
  /\ UNCHANGED <<form, photos, call, server, unread, faults>>

\* loadForEdit's answer replaces the form.  The API's listings come without photos, so that
\* none is shown, not even one that is confirmed.  A broker is not shown the owner, which
\* leaves the form incomplete.
Loaded ==
  /\ \E p \in loading, complete \in BOOLEAN :
       /\ loading' = loading \ {p}
       /\ form' = [EmptyForm EXCEPT !.id = p, !.valid = complete]
       /\ photos' = <<>>
       /\ calm' = (calm /\ edit = p /\ page = "category")
  /\ UNCHANGED <<page, edit, call, server, made, unread, faults>>

\* Its error is swallowed.
LoadFails ==
  /\ \E p \in loading : loading' = loading \ {p}
  /\ Fault
  /\ calm' = FALSE
  /\ UNCHANGED <<page, edit, form, photos, call, server, made, unread>>

Close ==
  /\ page # "closed"
  /\ page' = "closed" /\ edit' = None /\ made' = {} /\ calm' = FALSE
  /\ LeavePage
  /\ UNCHANGED <<form, photos, loading, server, unread, faults>>

Back ==
  /\ page \in {"photos", "review"}
  /\ page' = IF page = "review" THEN "photos" ELSE "details"
  /\ LeavePage
  /\ UNCHANGED <<edit, form, photos, loading, server, made, calm, unread, faults>>

\* Next on the details, steps 2 and 3: the fields are stored, and once they are valid a draft is
\* created, which is not awaited.
FillIn ==
  /\ page \in {"category", "details"}
  /\ page' = "photos"
  /\ \E ok \in BOOLEAN :
       /\ form' = [form EXCEPT !.valid = ok]
       /\ IF form.id = None /\ ok
          THEN /\ Room
               /\ \E c \in Call \ Busy : call' = [call EXCEPT ![c] = [Idle EXCEPT !.kind = "create", !.at = "save"]]
               /\ calm' = (calm /\ loading = {} /\ Saving = {})
          ELSE calm' = (calm /\ loading = {}) /\ UNCHANGED call
  /\ UNCHANGED <<edit, photos, loading, server, made, unread, faults>>

Continue ==
  /\ page = "photos"
  /\ page' = "review"
  /\ UNCHANGED <<edit, form, photos, call, loading, server, made, calm, unread, faults>>

-----------------------------------------------------------------------------
(* createProperty.                                                          *)

Created(p) ==
  /\ p \notin listed /\ listed' = listed \union {p}
  /\ made' = IF calm THEN made \union {p} ELSE made

CreateAnswered(c) ==
  /\ call[c].kind = "create"
  /\ \E p \in Listing : Created(p) /\ form' = [form EXCEPT !.id = p]
  /\ call' = [call EXCEPT ![c] = Idle]
  /\ UNCHANGED <<page, edit, photos, loading, stored, calm, unread, faults>>

\* Nobody reads the FALSE it returns; the listing may be there all the same.
CreateFails(c) ==
  /\ call[c].kind = "create"
  /\ Fault
  /\ \/ UNCHANGED <<listed, made, calm>>
     \/ (\E p \in Listing : Created(p)) /\ calm' = FALSE
  /\ call' = [call EXCEPT ![c] = Idle]
  /\ UNCHANGED <<page, edit, form, photos, loading, stored, unread>>

-----------------------------------------------------------------------------
(* Photos.                                                                  *)

\* Mutant: the index counts the new photo twice.
PickMiscounted ==
  LET pid == IF form.id # None THEN form.id ELSE edit
  IN  /\ page = "photos" /\ Len(photos) < MaxPhotos /\ pid # None
      /\ \E f \in File, c \in Call \ Busy :
         /\ photos' = Append(photos, [file |-> f, status |-> "uploading"])
         /\ call' = [call EXCEPT ![c] = [kind |-> "upload", at |-> "presign", pid |-> pid,
                                        index |-> Len(photos') + 1, file |-> f, here |-> FALSE]]
      /\ UNCHANGED <<page, edit, form, loading, server, made, calm, unread, faults>>

\* A picked photo is uploaded at once if there is a listing to upload it to.
PickPhoto ==
  LET pid == IF form.id # None THEN form.id ELSE edit
  IN  /\ page = "photos" /\ Len(photos) < MaxPhotos
      /\ \E f \in File \ {photos[i].file : i \in DOMAIN photos}, c \in Call \ Busy :
         /\ \A p \in Listing : <<p, f>> \notin stored
         /\ IF pid = None
           THEN photos' = Append(photos, [file |-> f, status |-> "pending"]) /\ UNCHANGED call
           ELSE /\ photos' = Append(photos, [file |-> f, status |-> "uploading"])
                /\ call' = [call EXCEPT ![c] =
                     [kind |-> "upload", at |-> "presign", pid |-> pid,
                      index |-> Len(photos) + 1, file |-> f, here |-> FALSE]]
      /\ UNCHANGED <<page, edit, form, loading, server, made, calm, unread, faults>>

\* What the OCR reads from a photo, applied, overwrites price, area and contact.
Autofill ==
  /\ page = "photos" /\ ~(form.id = None /\ edit = None)
  /\ \E i \in DOMAIN photos : photos[i].status = "confirmed"
  /\ \E ok \in BOOLEAN : form' = [form EXCEPT !.valid = ok]
  /\ UNCHANGED <<page, edit, photos, call, loading, server, made, calm, unread, faults>>

\* The photos behind it move up; the uploads keep their indices.
RemovePhoto ==
  /\ page = "photos"
  /\ \E i \in DOMAIN photos : photos' = RemoveAt(photos, i)
  /\ calm' = (calm /\ Uploading = {})
  /\ UNCHANGED <<page, edit, form, call, loading, server, made, unread, faults>>

Marked(phs, i, status) == [phs EXCEPT ![i].status = status]

\* The coroutine ends; a submit goes on with the next photo from `from` on that is
\* pending or failed, and after the last one its continuation leaves the screen.
Finish(c, pid, frm, phs, from) ==
  LET left == {i \in from .. Len(phs) : phs[i].status \in {"pending", "failed"}}
      next == Min(left)
  IN  IF call[c].kind = "submit" /\ left # {}
      THEN /\ photos' = Marked(phs, next, "uploading")
           /\ form' = frm
           /\ call' = [call EXCEPT ![c] = [@ EXCEPT !.at = "presign", !.pid = pid,
                                                    !.index = next, !.file = phs[next].file]]
           /\ UNCHANGED page
      ELSE IF call[c].here /\ frm.id # None
      THEN /\ page' = "closed" /\ form' = EmptyForm /\ photos' = <<>>
           /\ call' = [d \in Call |-> IF d = c THEN Idle ELSE [call[d] EXCEPT !.here = FALSE]]
      ELSE /\ form' = frm /\ photos' = phs /\ UNCHANGED page
           /\ call' = [call EXCEPT ![c] = Idle]

\* The index is gone: the handler of the RangeError throws another, which ends an
\* upload and is submit's error.
OutOfRange(c) ==
  /\ call' = [call EXCEPT ![c] = Idle]
  /\ form' = IF call[c].kind = "submit" THEN [form EXCEPT !.submitting = FALSE] ELSE form
  /\ UNCHANGED <<page, photos>>

Presigned(c) ==
  /\ call[c].at = "presign"
  /\ IF call[c].index <= Len(photos)
     THEN /\ photos' = Marked(photos, call[c].index, "uploading")
          /\ call' = [call EXCEPT ![c].at = "transfer"]
          /\ UNCHANGED <<page, form>>
     ELSE OutOfRange(c)
  /\ UNCHANGED <<edit, loading, server, made, calm, unread, faults>>

\* An attempt on photo `index` is over.
Settle(c, status) ==
  IF call[c].index <= Len(photos)
  THEN Finish(c, call[c].pid, form, Marked(photos, call[c].index, status), call[c].index + 1)
  ELSE OutOfRange(c)

Confirm(c) == stored' = stored \union {<<call[c].pid, call[c].file>>}

\* The bucket has the photo and the server has confirmed it; an index that is gone
\* can end the transfer from onSendProgress.
Transferred(c) ==
  /\ call[c].at = "transfer"
  /\ Confirm(c) \/ (call[c].index > Len(photos) /\ UNCHANGED stored)
  /\ Settle(c, "confirmed")
  /\ UNCHANGED <<edit, loading, listed, made, calm, unread, faults>>

\* Mutant: a photo on its way is marked as sent, whatever comes of it.
FailsUnnoticed(c) ==
  /\ c \in Uploading
  /\ Fault
  /\ \/ UNCHANGED stored
     \/ call[c].at = "transfer" /\ Confirm(c)
  /\ Settle(c, IF call[c].at = "transfer" THEN "confirmed" ELSE "failed")
  /\ UNCHANGED <<edit, loading, listed, made, calm, unread>>

\* One of the three calls fails; the last may have reached the server.
UploadFails(c) ==
  /\ c \in Uploading
  /\ Fault
  /\ \/ UNCHANGED stored
     \/ call[c].at = "transfer" /\ Confirm(c)
  /\ Settle(c, "failed")
  /\ UNCHANGED <<edit, loading, listed, made, calm, unread>>

-----------------------------------------------------------------------------
(* submit.                                                                  *)

\* Mutant: it always creates.
SubmitAnew(c) ==
  /\ page = "review" /\ ~form.submitting /\ form.valid
  /\ call[c] = Idle /\ Room
  /\ form' = [form EXCEPT !.submitting = TRUE]
  /\ call' = [call EXCEPT ![c] = [Idle EXCEPT !.kind = "submit", !.at = "save", !.here = TRUE]]
  /\ calm' = (calm /\ Saving = {}) /\ unread' = FALSE
  /\ UNCHANGED <<page, edit, photos, loading, server, made, faults>>

\* The listing that createdPropertyId names is patched; without one it is created.
Submit(c) ==
  /\ page = "review" /\ ~form.submitting /\ form.valid
  /\ call[c] = Idle /\ (form.id = None => Room)
  /\ form' = [form EXCEPT !.submitting = TRUE]
  /\ call' = [call EXCEPT ![c] = [Idle EXCEPT !.kind = "submit", !.at = "save",
                                              !.pid = form.id, !.here = TRUE]]
  /\ calm' = (calm /\ Saving = {}) /\ unread' = FALSE
  /\ UNCHANGED <<page, edit, photos, loading, server, made, faults>>

SaveAnswered(c) ==
  /\ call[c].kind = "submit" /\ call[c].at = "save"
  /\ \E p \in Listing :
       /\ IF call[c].pid = None THEN Created(p) ELSE p = call[c].pid /\ UNCHANGED <<listed, made>>
       /\ Finish(c, p, [form EXCEPT !.id = p, !.submitting = FALSE], photos, 1)
  /\ UNCHANGED <<edit, loading, stored, calm, unread, faults>>

\* Mutant: the error path leaves the button disabled.
SaveFailsSilently(c) ==
  /\ call[c].kind = "submit" /\ call[c].at = "save"
  /\ Fault
  /\ call' = [call EXCEPT ![c] = Idle]
  /\ UNCHANGED <<page, edit, form, photos, loading, server, made, calm, unread>>

\* A POST that fails may have created the listing.  An error that is no JSON, as nginx's are,
\* makes the handler throw another before it has reset anything.
SaveFails(c) ==
  /\ call[c].kind = "submit" /\ call[c].at = "save"
  /\ Fault
  /\ \/ UNCHANGED <<listed, made, calm>>
     \/ call[c].pid = None /\ (\E p \in Listing : Created(p)) /\ calm' = FALSE
  /\ \/ form' = [form EXCEPT !.submitting = FALSE] /\ UNCHANGED unread
     \/ unread' = TRUE /\ UNCHANGED form
  /\ call' = [call EXCEPT ![c] = Idle]
  /\ UNCHANGED <<page, edit, photos, loading, stored>>

-----------------------------------------------------------------------------
Next ==
  \/ OpenNew \/ OpenEdit \/ Loaded \/ LoadFails \/ Close \/ Back \/ FillIn \/ Continue
  \/ PickPhoto \/ Autofill \/ RemovePhoto
  \/ \E c \in Call :
       \/ CreateAnswered(c) \/ CreateFails(c)
       \/ Presigned(c) \/ Transferred(c) \/ UploadFails(c)
       \/ Submit(c) \/ SaveAnswered(c) \/ SaveFails(c)

Spec == Init /\ [][Next]_vars

-----------------------------------------------------------------------------
(* Properties.                                                              *)

\* A form makes one listing, and a form that edits one makes none; drafts, patches and
\* photos all go to that listing.  It holds as long as the form was empty when it was
\* opened, was loaded before the user went on, and no creation or submit was started
\* while another was under way or had lost its answer.
OneListingPerForm ==
  calm => /\ \A p, q \in made : p = q
          /\ edit # None => made = {}
          /\ \A c \in Busy : call[c].pid # None => call[c].pid = edit \/ call[c].pid \in made

\* A photo marked as confirmed is on the server, under the listing of the form, as
\* long as no photo is removed while another is being uploaded.
ConfirmedIsStored ==
  calm /\ page # "closed" =>
    \A i \in DOMAIN photos :
      photos[i].status = "confirmed" => <<form.id, photos[i].file>> \in stored

\* The submit button is disabled only while a submit awaits the API, which dio's
\* timeouts end: whatever else the form goes through, the button comes back, unless the
\* submit ended with an error that is no JSON.
SubmittingAwaits ==
  form.submitting /\ ~unread => \E c \in Saving : call[c].kind = "submit"

-----------------------------------------------------------------------------
(* The inductive invariant of these properties.                             *)

\* A coroutine's kind, position, listing, photo and index fit each other.
Shape(k) ==
  k # Idle =>
    /\ k.kind = "create" => k.at = "save" /\ k.pid = None
    /\ k.at # "save" => k.kind # "create" /\ k.pid # None /\ k.file # None /\ k.index # 0

CallShape == \A c \in Call : Shape(call[c])

\* While a calm form is on screen there is one listing that it, or the creation under way,
\* is about, and the other coroutines are about that one.
OnScreen ==
  calm /\ page # "closed" =>
    /\ form.id = None => made = {}
    /\ form.id # None => form.id = edit \/ form.id \in made
    /\ edit # None => form.id = edit \/ (page = "category" /\ edit \in loading)
    /\ page = "category" => Busy = {} /\ photos = <<>> /\ made = {}
    /\ \A c \in Creating : form.id = None /\ edit = None
    /\ \A c, d \in Saving : Creating # {} => c = d
    /\ \A c \in Saving \ Creating : call[c].pid = form.id
    /\ \A c \in Uploading :
         /\ call[c].pid = form.id
         /\ call[c].index \in DOMAIN photos
         /\ photos[call[c].index].file = call[c].file

TypeInv == TypeOK /\ Len(photos) <= MaxPhotos /\ CallShape

\* Once a submit has closed the screen of a calm form, nothing that is under way creates.
FormInv ==
  /\ OnScreen /\ OneListingPerForm /\ ConfirmedIsStored
  /\ calm /\ page = "closed" => Creating = {}
=============================================================================
