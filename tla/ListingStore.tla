---------------------------- MODULE ListingStore ----------------------------
(***************************************************************************)
(* The tables properties, property_photos and ocr_results, and the requests *)
(* and tasks that change them (services/properties.go, photos.go, ocr.go    *)
(* with their handlers, and HandleOCR in worker/dispatcher.go).             *)
(*                                                                         *)
(* A handler that makes several calls is split between them: the ownership  *)
(* query and the statement it guards, the answer of the Vision API and its  *)
(* storing, the UPDATE of a listing and the SELECT that answers.  One       *)
(* goroutine runs each request, so any other may come in between.           *)
(***************************************************************************)
EXTENDS TaskQueue, FiniteSets

CONSTANTS
  Listing,     \* ids of listings
  Photo,       \* ids of photos
  Request,     \* identities of requests, each used once; bounds their number
  None,        \* no listing, no photo
  MaxMishaps   \* bound on failed calls and crashes of the worker

ASSUME StoreAssumption ==
  /\ None \notin Listing \union Photo
  /\ MaxMishaps \in Nat

VARIABLES
  listing,    \* listing[p]: "none", "live", or "deleted" (deleted_at is set)
  photo,      \* the property_photos table: status and listing of every photo
  result,     \* the ocr_results table: status and raw_text, one row per photo
  req,        \* req[r]: the request's parameters and the place of its handler
  audit,      \* audit[r]: the OCR task that scan request r enqueued
  storeLost,  \* photos for which a scan's write to ocr_results failed (history)
  auditLost,  \* photos whose audit failed: its enqueuing, its write or its last attempt (history)
  faults      \* how many faults happened (bounds the model)

vars == <<listing, photo, result, req, audit, storeLost, auditLost, faults>>

Answer == {"ok", "notFound", "forbidden", "error"}
Place == {"patch", "reread", "insert", "delete", "vision", "store", "storeFailure", "audit"}

NoRequest == [op |-> "none", listing |-> None, photo |-> None, at |-> "idle"]
NoPhoto == [status |-> "none", of |-> None]
NoResult == [status |-> "none", text |-> "none"]

Handling == [op : {"none", "create", "patch", "deleteListing", "presign", "confirm",
                   "deletePhoto", "scan"},
             listing : Listing \union {None},
             photo : Photo \union {None},
             at : Answer \union Place \union {"idle"}]

OCRPC == {"insert", "return"}

PhotoRow == [status : {"none", "PENDING", "CONFIRMED", "gone"}, of : Listing \union {None}]

\* A row is inserted with a raw_text, possibly empty, or without one: NULL.
ResultRow == [status : {"DONE", "FAILED"}, text : {"null", "text"}] \union {NoResult}

TypeOK ==
  /\ listing \in [Listing -> {"none", "live", "deleted"}]
  /\ photo \in [Photo -> PhotoRow]
  /\ result \in [Photo -> ResultRow]
  /\ req \in [Request -> Handling]
  /\ audit \in [Request -> Task(OCRPC)]
  /\ storeLost \in SUBSET Photo
  /\ auditLost \in SUBSET Photo
  /\ faults \in 0 .. MaxMishaps

\* The rows of properties: a deleted one is still there.
Known == {p \in Listing : listing[p] # "none"}

HasRow(f) == photo[f].status \in {"PENDING", "CONFIRMED"}

\* Listings and photos of earlier days; no photo has been scanned yet.
Init ==
  /\ listing \in [Listing -> {"none", "live", "deleted"}]
  /\ photo \in [Photo -> {NoPhoto} \union
                  [status : {"PENDING", "CONFIRMED"}, of : Known]]
  /\ result = [f \in Photo |-> NoResult]
  /\ req = [r \in Request |-> NoRequest]
  /\ audit = [r \in Request |-> NoTask]
  /\ storeLost = {} /\ auditLost = {} /\ faults = 0

Fault == faults < MaxMishaps /\ faults' = faults + 1
Smooth == UNCHANGED faults

\* Request r arrives with its parameters, and its handler gets to `place`.
Receive(r, op, p, f, place) ==
  /\ req[r] = NoRequest
  /\ req' = [req EXCEPT ![r] = [op |-> op, listing |-> p, photo |-> f, at |-> place]]

\* The handler of r moves on.
Go(r, place) == req' = [req EXCEPT ![r].at = place]

\* A new id: no request has named it.
Fresh(x) == \A r \in Request : req[r].listing # x /\ req[r].photo # x

\* IsOwnerOrAdmin, and Patch's ownership check: the place a handler gets to.
\* A SUPER_ADMIN is let through without a query.
Caller == {"admin", "owner", "other"}
Admitted(p, caller, place) ==
  IF caller = "admin" \/ (caller = "owner" /\ listing[p] = "live") THEN place
  ELSE IF listing[p] = "live" THEN "forbidden" ELSE "notFound"

-----------------------------------------------------------------------------
(* Listings.                                                                *)

Create(r) ==
  \E p \in Listing :
    /\ listing[p] = "none" /\ Fresh(p)
    /\ listing' = [listing EXCEPT ![p] = "live"]
    /\ Receive(r, "create", p, None, "ok")
    /\ UNCHANGED <<photo, result, audit, storeLost, auditLost, faults>>

DeleteListing(r) ==
  \E p \in Listing :
    /\ IF listing[p] = "live"
       THEN listing' = [listing EXCEPT ![p] = "deleted"] /\ Receive(r, "deleteListing", p, None, "ok")
       ELSE UNCHANGED listing /\ Receive(r, "deleteListing", p, None, "notFound")
    /\ UNCHANGED <<photo, result, audit, storeLost, auditLost, faults>>

\* Patch: the ownership check; a patch without fields goes straight to Get.
ReceivePatch(r) ==
  /\ \E p \in Listing, caller \in Caller, next \in {"patch", "reread"} :
       Receive(r, "patch", p, None, Admitted(p, caller, next))
  /\ UNCHANGED <<listing, photo, result, audit, storeLost, auditLost, faults>>

\* The UPDATE, restricted to listings not deleted.  What it writes is abstracted.
Patch(r) ==
  /\ req[r].at = "patch"
  /\ Go(r, IF listing[req[r].listing] = "live" THEN "reread" ELSE "notFound")
  /\ UNCHANGED <<listing, photo, result, audit, storeLost, auditLost, faults>>

\* Get, whose row answers the patch.
Reread(r) ==
  /\ req[r].at = "reread"
  /\ Go(r, IF listing[req[r].listing] = "live" THEN "ok" ELSE "notFound")
  /\ UNCHANGED <<listing, photo, result, audit, storeLost, auditLost, faults>>

-----------------------------------------------------------------------------
(* Photos.                                                                  *)

ReceivePresign(r) ==
  /\ \E p \in Listing, caller \in Caller :
       Receive(r, "presign", p, None, Admitted(p, caller, "insert"))
  /\ UNCHANGED <<listing, photo, result, audit, storeLost, auditLost, faults>>

\* A fresh id, a signed URL and a PENDING row; an unknown listing fails the
\* foreign key, one that was deleted does not.
InsertPhoto(r) ==
  /\ req[r].at = "insert"
  /\ IF req[r].listing \notin Known
     THEN Go(r, "error") /\ UNCHANGED photo
     ELSE \E f \in Photo :
            /\ photo[f] = NoPhoto /\ Fresh(f)
            /\ photo' = [photo EXCEPT ![f] = [status |-> "PENDING", of |-> req[r].listing]]
            /\ req' = [req EXCEPT ![r].at = "ok", ![r].photo = f]
  /\ UNCHANGED <<listing, result, audit, storeLost, auditLost, faults>>

\* Does the photo of the URL belong to the listing of the URL?
Matches(f, p) == HasRow(f) /\ photo[f].of = p

Confirm(r) ==
  \E f \in Photo, p \in Listing :
    /\ IF Matches(f, p)
       THEN photo' = [photo EXCEPT ![f].status = "CONFIRMED"] /\ Receive(r, "confirm", p, f, "ok")
       ELSE UNCHANGED photo /\ Receive(r, "confirm", p, f, "notFound")
    /\ UNCHANGED <<listing, result, audit, storeLost, auditLost, faults>>

ReceiveDeletePhoto(r) ==
  /\ \E f \in Photo, p \in Listing, caller \in Caller :
       Receive(r, "deletePhoto", p, f, Admitted(p, caller, "delete"))
  /\ UNCHANGED <<listing, photo, result, audit, storeLost, auditLost, faults>>

\* The foreign key of ocr_results removes the photo's row with it.
DeletePhoto(r) ==
  LET f == req[r].photo
  IN  /\ req[r].at = "delete"
      /\ IF Matches(f, req[r].listing)
         THEN /\ photo' = [photo EXCEPT ![f].status = "gone"]
              /\ result' = [result EXCEPT ![f] = NoResult]
              /\ Go(r, "ok")
         ELSE Go(r, "notFound") /\ UNCHANGED <<photo, result>>
      /\ UNCHANGED <<listing, audit, storeLost, auditLost, faults>>

-----------------------------------------------------------------------------
(* OCR: the request.                                                        *)

\* Mutant: any photo that has a row is scanned.
ScanUnconfirmed(r) ==
  /\ \E f \in Photo, p \in Listing :
       Receive(r, "scan", p, f, IF HasRow(f) THEN "vision" ELSE "notFound")
  /\ UNCHANGED <<listing, photo, result, audit, storeLost, auditLost, faults>>

\* Scan: the photo must be confirmed; that it belongs to the listing in the URL is
\* not checked.
ReceiveScan(r) ==
  /\ \E f \in Photo, p \in Listing :
       Receive(r, "scan", p, f, IF photo[f].status = "CONFIRMED" THEN "vision" ELSE "notFound")
  /\ UNCHANGED <<listing, photo, result, audit, storeLost, auditLost, faults>>

Vision(r) ==
  /\ req[r].at = "vision"
  /\ \/ Smooth /\ Go(r, "store")
     \/ Fault /\ Go(r, "storeFailure")
  /\ UNCHANGED <<listing, photo, result, audit, storeLost, auditLost>>

\* Both foreign keys of an ocr_results row hold: its photo is there, and the listing
\* in the URL is one that was created once.
Storable(r) == HasRow(req[r].photo) /\ req[r].listing \in Known

\* The row is written unless a foreign key fails; in either case, and when the
\* call itself fails, the handler goes on with what it has in memory.
UpsertResult(r, row, next) ==
  LET f == req[r].photo
      written == IF Storable(r) THEN [result EXCEPT ![f] = row] ELSE result
  IN  /\ \/ Smooth /\ result' = written /\ UNCHANGED storeLost
         \/ Fault /\ result' \in {result, written} /\ storeLost' = storeLost \union {f}
      /\ Go(r, next)
      /\ UNCHANGED <<listing, photo, audit, auditLost>>

\* Mutants: nothing is stored when no text was found; a status of its own for errors.
StoreUnlessEmpty(r) ==
  /\ req[r].at = "store"
  /\ \/ UpsertResult(r, [status |-> "DONE", text |-> "text"], "audit")
     \/ Go(r, "audit") /\ UNCHANGED <<listing, photo, result, audit, storeLost, auditLost, faults>>

StoreError(r) ==
  /\ req[r].at = "storeFailure"
  /\ UpsertResult(r, [status |-> "ERROR", text |-> "text"], "error")

StoreResult(r) ==
  /\ req[r].at = "store"
  /\ UpsertResult(r, [status |-> "DONE", text |-> "text"], "audit")

StoreFailure(r) ==
  /\ req[r].at = "storeFailure"
  /\ UpsertResult(r, [status |-> "FAILED", text |-> "text"], "error")

\* EnqueueOCR is best-effort: its error is dropped and the scan is answered.
EnqueueOCR(r) ==
  LET queued == [audit EXCEPT ![r] = Queued]
  IN  /\ req[r].at = "audit"
      /\ \/ Smooth /\ audit' = queued /\ UNCHANGED auditLost
         \/ Fault /\ audit' \in {audit, queued} /\ auditLost' = auditLost \union {req[r].photo}
      /\ Go(r, "ok")
      /\ UNCHANGED <<listing, photo, result, storeLost>>

\* A query of the handler fails, the client goes away, or the API process dies.
RequestFails(r) ==
  /\ req[r].at \in Place
  /\ Fault
  /\ Go(r, "error")
  /\ UNCHANGED <<listing, photo, result, audit, storeLost, auditLost>>

-----------------------------------------------------------------------------
(* OCR: the worker's task.                                                  *)

StartOCR(r) ==
  /\ audit[r].state = "queued"
  /\ audit' = [audit EXCEPT ![r] = Taken(@, "insert")]
  /\ UNCHANGED <<listing, photo, result, req, storeLost, auditLost, faults>>

\* Mutants: the worker's row replaces the scan's; an UPDATE in place of the INSERT.
InsertOrReplace(r) ==
  LET f == req[r].photo
  IN  /\ audit[r].pc = "insert"
      /\ HasRow(f)
      /\ result' = [result EXCEPT ![f] = [status |-> "DONE", text |-> "null"]]
      /\ audit' = [audit EXCEPT ![r] = At(@, "return")]
      /\ UNCHANGED <<listing, photo, req, storeLost, auditLost, faults>>

UpdateDone(r) ==
  LET f == req[r].photo
      written == IF result[f] # NoResult THEN [result EXCEPT ![f].status = "DONE"] ELSE result
  IN  /\ audit[r].pc = "insert"
      /\ \/ Smooth /\ result' = written /\ UNCHANGED auditLost
         \/ Fault /\ result' \in {result, written} /\ auditLost' = auditLost \union {f}
      /\ audit' = [audit EXCEPT ![r] = At(@, "return")]
      /\ UNCHANGED <<listing, photo, req, storeLost>>

\* HandleOCR inserts a row without text unless there is one; an error, a foreign
\* key's too, is only logged.
InsertDone(r) ==
  LET f == req[r].photo
      written == IF Storable(r) /\ result[f] = NoResult
                 THEN [result EXCEPT ![f] = [status |-> "DONE", text |-> "null"]]
                 ELSE result
  IN  /\ audit[r].pc = "insert"
      /\ \/ Smooth /\ result' = written /\ UNCHANGED auditLost
         \/ Fault /\ result' \in {result, written} /\ auditLost' = auditLost \union {f}
      /\ audit' = [audit EXCEPT ![r] = At(@, "return")]
      /\ UNCHANGED <<listing, photo, req, storeLost>>

ReturnOCR(r) ==
  /\ audit[r].pc = "return"
  /\ audit' = [audit EXCEPT ![r] = Completed(@)]
  /\ UNCHANGED <<listing, photo, result, req, storeLost, auditLost, faults>>

WorkerCrash ==
  /\ \E r \in Request : audit[r].state = "active"
  /\ Fault
  /\ audit' = [r \in Request |-> Orphaned(audit[r])]
  /\ UNCHANGED <<listing, photo, result, req, storeLost, auditLost>>

\* The lease of a dead worker's task runs out; the last one that does archives the task.
RecoverOCR(r) ==
  LET retried == Failed(audit[r])
  IN  /\ audit[r].state = "orphaned"
      /\ audit' = [audit EXCEPT ![r] = retried]
      /\ auditLost' = IF retried.state = "archived" THEN auditLost \union {req[r].photo} ELSE auditLost
      /\ UNCHANGED <<listing, photo, result, req, storeLost, faults>>

-----------------------------------------------------------------------------
ListingStep(r) == Create(r) \/ DeleteListing(r) \/ ReceivePatch(r) \/ Patch(r) \/ Reread(r)

PhotoStep(r) ==
  \/ ReceivePresign(r) \/ InsertPhoto(r) \/ Confirm(r) \/ ReceiveDeletePhoto(r) \/ DeletePhoto(r)

ScanStep(r) ==
  \/ ReceiveScan(r) \/ Vision(r) \/ StoreResult(r) \/ StoreFailure(r) \/ EnqueueOCR(r)

OCRTaskStep(r) == StartOCR(r) \/ InsertDone(r) \/ ReturnOCR(r) \/ RecoverOCR(r)

Next ==
  \/ \E r \in Request :
       ListingStep(r) \/ PhotoStep(r) \/ ScanStep(r) \/ RequestFails(r) \/ OCRTaskStep(r)
  \/ WorkerCrash

Spec == Init /\ [][Next]_vars

\* The worker runs and asynq hands its tasks out; nothing is assumed of requests.
FairSpec == Spec /\ \A r \in Request : WF_vars(OCRTaskStep(r))

-----------------------------------------------------------------------------
(* Properties.                                                              *)

\* Only photos that are confirmed and still there have a result, although scans
\* and the worker write results long after they looked at the photo.
ResultHasConfirmedPhoto ==
  \A f \in Photo : result[f] # NoResult => photo[f].status = "CONFIRMED"

\* GET .../ocr cannot read a row whose raw_text is NULL (ocr.go:94 scans it into a
\* string).  HandleOCR's INSERT makes such rows, but only for a photo whose scan
\* could not store its own result.
UnreadableOnlyAfterLoss ==
  \A f \in Photo : result[f].text = "null" => f \in storeLost

\* A result with text is never replaced by the worker's row without text.
TextIsKept ==
  [][\A f \in Photo : result[f].text = "text" => result'[f].text # "null"]_vars

\* A scan under a listing that exists leaves a row behind as long as the photo is
\* there: what the request failed to store the audit task makes up for, unless that
\* fails too, be it for crashes of the worker in each of its attempts.
ScanLeavesResult ==
  \A r \in Request, f \in Photo :
    req[r].op = "scan" /\ req[r].photo = f /\ req[r].at = "ok" /\ req[r].listing \in Known
      ~> result[f] # NoResult \/ photo[f].status = "gone" \/ f \in storeLost \cap auditLost

-----------------------------------------------------------------------------
(* The inductive invariants behind ResultHasConfirmedPhoto and              *)
(* UnreadableOnlyAfterLoss.                                                 *)

Scanning(r) == req[r].at \in {"vision", "store", "storeFailure", "audit"} \/ audit[r] # NoTask

\* A photo that was confirmed stays so until it is gone: true under every scan and task.
ScannedWasConfirmed ==
  \A r \in Request :
    Scanning(r) => /\ req[r].photo \in Photo
                   /\ photo[req[r].photo].status \in {"CONFIRMED", "gone"}

\* By the time there is a task, its request has stored its result or lost it, or
\* neither of them can store anything.
AuditAfterStore ==
  \A r \in Request :
    req[r].at = "audit" \/ audit[r] # NoTask =>
      LET f == req[r].photo
      IN  \/ result[f] # NoResult \/ f \in storeLost \/ photo[f].status = "gone"
          \/ req[r].listing \notin Known

\* A request that has enqueued its task is answered and does nothing more.
TaskAfterAnswer ==
  \A r \in Request : audit[r] # NoTask => req[r].at \in Answer

StoreInv ==
  /\ ResultHasConfirmedPhoto /\ UnreadableOnlyAfterLoss
  /\ ScannedWasConfirmed /\ AuditAfterStore /\ TaskAfterAnswer
=============================================================================
