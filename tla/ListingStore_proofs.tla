-------------------------- MODULE ListingStore_proofs --------------------------
(***************************************************************************)
(* Proofs about ListingStore, for every number of listings, photos,         *)
(* requests, retries and mishaps.                                           *)
(***************************************************************************)
EXTENDS ListingStore, TLAPS

-----------------------------------------------------------------------------
(* The operations of the task queue, for the tasks of any handler.          *)

\* Every operation of the queue yields a task again.
LEMMA NewTaskType ==
  ASSUME NEW PCs
  PROVE  NoTask \in Task(PCs) /\ Queued \in Task(PCs)
BY MaxRetryAssumption DEF NoTask, Queued, Task, TaskStates

LEMMA TaskType ==
  ASSUME NEW PCs, NEW t \in Task(PCs), NEW p \in PCs
  PROVE  /\ Taken(t, p) \in Task(PCs)
         /\ At(t, p) \in Task(PCs)
         /\ Completed(t) \in Task(PCs)
         /\ Failed(t) \in Task(PCs)
         /\ Orphaned(t) \in Task(PCs)
         /\ Requeued(t) \in Task(PCs)
<1>2. Taken(t, p) \in Task(PCs) /\ At(t, p) \in Task(PCs) /\ Completed(t) \in Task(PCs)
  BY MaxRetryAssumption DEF Taken, At, Completed, Task, TaskStates
<1>3. Failed(t) \in Task(PCs)
  <2>1. t.retried \in 0 .. MaxRetry
    BY DEF Task
  <2>2. CASE t.retried < MaxRetry
    <3>1. t.retried + 1 \in 0 .. MaxRetry
      BY <2>1, <2>2, MaxRetryAssumption
    <3>2. QED
      BY <2>2, <3>1 DEF Failed, Task, TaskStates
  <2>3. CASE ~(t.retried < MaxRetry)
    BY <2>3 DEF Failed, Task, TaskStates
  <2>4. QED
    BY <2>2, <2>3
<1>4. Orphaned(t) \in Task(PCs) /\ Requeued(t) \in Task(PCs)
  BY MaxRetryAssumption DEF Orphaned, Requeued, Task, TaskStates
<1>5. QED
  BY <1>2, <1>3, <1>4

-----------------------------------------------------------------------------
(* Type correctness.                                                        *)

LEMMA TypeInit == Init => TypeOK
<1>1. NoTask \in Task(OCRPC)
  BY NewTaskType
<1>2. QED
  BY <1>1, StoreAssumption
  DEF Init, TypeOK, Known, NoRequest, NoResult, NoPhoto, ResultRow, PhotoRow, Handling

\* Arriving and moving on keep the table of requests well-typed.
LEMMA ReceiveType ==
  ASSUME req \in [Request -> Handling], NEW r \in Request,
         NEW op \in {"create", "patch", "deleteListing", "presign", "confirm", "deletePhoto", "scan"},
         NEW p \in Listing, NEW f \in Photo \union {None}, NEW place \in Answer \union Place,
         Receive(r, op, p, f, place)
  PROVE  req' \in [Request -> Handling]
BY DEF Receive, Handling

LEMMA GoType ==
  ASSUME req \in [Request -> Handling], NEW r \in Request,
         NEW place \in Answer \union Place, Go(r, place)
  PROVE  req' \in [Request -> Handling]
BY DEF Go, Handling

LEMMA ListingStepType ==
  ASSUME TypeOK, NEW r \in Request, ListingStep(r)
  PROVE  TypeOK'
<1>. USE DEF TypeOK
<1>. {"ok", "notFound", "forbidden", "error", "patch", "reread"} \subseteq Answer \union Place
  BY DEF Answer, Place
<1>1. ASSUME Create(r) PROVE TypeOK'
  BY <1>1, ReceiveType DEF Create
<1>2. ASSUME DeleteListing(r) PROVE TypeOK'
  BY <1>2, ReceiveType DEF DeleteListing
<1>3. ASSUME ReceivePatch(r) PROVE TypeOK'
  BY <1>3, ReceiveType DEF ReceivePatch, Admitted
<1>4. ASSUME Patch(r) \/ Reread(r) PROVE TypeOK'
  BY <1>4, GoType DEF Patch, Reread
<1>5. QED
  BY <1>1, <1>2, <1>3, <1>4 DEF ListingStep

LEMMA PhotoStepType ==
  ASSUME TypeOK, NEW r \in Request, PhotoStep(r)
  PROVE  TypeOK'
<1>. USE DEF TypeOK
<1>. {"ok", "notFound", "forbidden", "error", "insert", "delete"} \subseteq Answer \union Place
  BY DEF Answer, Place
<1>1. ASSUME ReceivePresign(r) PROVE TypeOK'
  BY <1>1, ReceiveType DEF ReceivePresign, Admitted
<1>2. ASSUME InsertPhoto(r) PROVE TypeOK'
  <2>1. CASE Go(r, "error") /\ UNCHANGED photo
    BY <1>2, <2>1, GoType DEF InsertPhoto
  <2>2. ASSUME NEW f \in Photo,
               photo' = [photo EXCEPT ![f] = [status |-> "PENDING", of |-> req[r].listing]],
               req' = [req EXCEPT ![r].at = "ok", ![r].photo = f]
        PROVE  photo' \in [Photo -> PhotoRow] /\ req' \in [Request -> Handling]
    <3>1. req[r].listing \in Listing \union {None}
      BY DEF Handling
    <3>2. photo' \in [Photo -> PhotoRow]
      BY <2>2, <3>1 DEF PhotoRow
    <3>3. req' \in [Request -> Handling]
      <4>1. req[r] \in Handling
        OBVIOUS
      <4>2. [req[r] EXCEPT !.at = "ok", !.photo = f] \in Handling
        BY <4>1 DEF Handling, Answer
      <4>3. req' = [req EXCEPT ![r] = [@ EXCEPT !.at = "ok", !.photo = f]]
        BY <2>2
      <4>4. QED
        BY <4>2, <4>3
    <3>4. QED
      BY <3>2, <3>3
  <2>3. QED
    BY <1>2, <2>1, <2>2 DEF InsertPhoto
<1>3. ASSUME Confirm(r) PROVE TypeOK'
  <2>1. photo' \in [Photo -> PhotoRow]
    BY <1>3 DEF Confirm, PhotoRow
  <2>2. QED
    BY <1>3, <2>1, ReceiveType DEF Confirm
<1>4. ASSUME ReceiveDeletePhoto(r) PROVE TypeOK'
  BY <1>4, ReceiveType DEF ReceiveDeletePhoto, Admitted
<1>5. ASSUME DeletePhoto(r) PROVE TypeOK'
  <2>0. result' \in [Photo -> ResultRow]
    BY <1>5 DEF DeletePhoto, ResultRow
  <2>1. photo' \in [Photo -> PhotoRow]
    <3>1. ASSUME NEW f \in Photo PROVE [photo[f] EXCEPT !.status = "gone"] \in PhotoRow
      BY DEF PhotoRow
    <3>2. CASE photo' = [photo EXCEPT ![req[r].photo].status = "gone"]
      BY <3>1, <3>2
    <3>3. QED
      BY <1>5, <3>2 DEF DeletePhoto
  <2>2. QED
    BY <1>5, <2>0, <2>1, GoType DEF DeletePhoto
<1>6. QED
  BY <1>1, <1>2, <1>3, <1>4, <1>5 DEF PhotoStep

\* A write of ocr_results names a photo, because a scan was received with one.
LEMMA UpsertType ==
  ASSUME TypeOK, NEW r \in Request, NEW row \in ResultRow, NEW next \in Answer \union Place,
         req[r].photo \in Photo, UpsertResult(r, row, next)
  PROVE  TypeOK'
<1>1. req' \in [Request -> Handling]
  BY GoType DEF TypeOK, UpsertResult
<1>2. result' \in [Photo -> ResultRow] /\ storeLost' \in SUBSET Photo
  BY DEF TypeOK, UpsertResult
<1>3. faults' \in 0 .. MaxMishaps
  BY StoreAssumption DEF TypeOK, UpsertResult, Smooth, Fault
<1>4. QED
  BY <1>1, <1>2, <1>3 DEF TypeOK, UpsertResult

LEMMA ScanStepType ==
  ASSUME TypeOK, ScannedWasConfirmed, NEW r \in Request, ScanStep(r)
  PROVE  TypeOK'
<1>. USE DEF TypeOK
<1>. {"ok", "notFound", "error", "vision", "store", "storeFailure", "audit"} \subseteq Answer \union Place
  BY DEF Answer, Place
<1>1. ASSUME ReceiveScan(r) PROVE TypeOK'
  BY <1>1, ReceiveType DEF ReceiveScan
<1>2. ASSUME Vision(r) PROVE TypeOK'
  BY <1>2, GoType, StoreAssumption DEF Vision, Smooth, Fault
<1>3. ASSUME StoreResult(r) \/ StoreFailure(r) PROVE TypeOK'
  <2>1. req[r].photo \in Photo
    BY <1>3 DEF StoreResult, StoreFailure, ScannedWasConfirmed, Scanning
  <2>2. /\ [status |-> "DONE", text |-> "text"] \in ResultRow
        /\ [status |-> "FAILED", text |-> "text"] \in ResultRow
    BY DEF ResultRow
  <2>3. QED
    BY <1>3, <2>1, <2>2, UpsertType DEF StoreResult, StoreFailure
<1>4. ASSUME EnqueueOCR(r) PROVE TypeOK'
  <2>1. req[r].photo \in Photo
    BY <1>4 DEF EnqueueOCR, ScannedWasConfirmed, Scanning
  <2>2. Queued \in Task(OCRPC)
    BY NewTaskType
  <2>3. audit' \in [Request -> Task(OCRPC)] /\ auditLost' \in SUBSET Photo
    BY <1>4, <2>1, <2>2 DEF EnqueueOCR
  <2>4. faults' \in 0 .. MaxMishaps
    BY <1>4, StoreAssumption DEF EnqueueOCR, Smooth, Fault
  <2>5. QED
    BY <1>4, <2>3, <2>4, GoType DEF EnqueueOCR
<1>5. QED
  BY <1>1, <1>2, <1>3, <1>4 DEF ScanStep

LEMMA OCRTaskStepType ==
  ASSUME TypeOK, ScannedWasConfirmed, NEW r \in Request, OCRTaskStep(r)
  PROVE  TypeOK'
<1>. USE DEF TypeOK
<1>1. /\ \A p \in OCRPC : Taken(audit[r], p) \in Task(OCRPC) /\ At(audit[r], p) \in Task(OCRPC)
      /\ Completed(audit[r]) \in Task(OCRPC) /\ Failed(audit[r]) \in Task(OCRPC)
      /\ {"insert", "return"} \subseteq OCRPC
  BY TaskType DEF OCRPC
<1>2. CASE StartOCR(r) \/ ReturnOCR(r)
  BY <1>1, <1>2 DEF StartOCR, ReturnOCR
<1>3. CASE InsertDone(r)
  <2>1. req[r].photo \in Photo
    BY <1>3 DEF InsertDone, ScannedWasConfirmed, Scanning, NoTask
  <2>2. result' \in [Photo -> ResultRow] /\ auditLost' \in SUBSET Photo
    BY <1>3, <2>1 DEF InsertDone, ResultRow
  <2>3. faults' \in 0 .. MaxMishaps
    BY <1>3, StoreAssumption DEF InsertDone, Smooth, Fault
  <2>4. audit' \in [Request -> Task(OCRPC)]
    BY <1>1, <1>3 DEF InsertDone
  <2>5. QED
    BY <1>3, <2>2, <2>3, <2>4 DEF InsertDone
<1>4. CASE RecoverOCR(r)
  <2>1. req[r].photo \in Photo
    BY <1>4 DEF RecoverOCR, ScannedWasConfirmed, Scanning, NoTask
  <2>2. auditLost' \in SUBSET Photo
    BY <1>4, <2>1 DEF RecoverOCR
  <2>3. QED
    BY <1>1, <1>4, <2>2 DEF RecoverOCR
<1>5. QED
  BY <1>2, <1>3, <1>4 DEF OCRTaskStep

LEMMA TypeStep == TypeOK /\ ScannedWasConfirmed /\ [Next]_vars => TypeOK'
<1>. SUFFICES ASSUME TypeOK, ScannedWasConfirmed, [Next]_vars PROVE TypeOK'
  OBVIOUS
<1>1. ASSUME NEW r \in Request, RequestFails(r) PROVE TypeOK'
  <2>1. req' \in [Request -> Handling]
    BY <1>1, GoType DEF TypeOK, RequestFails, Answer
  <2>2. faults' \in 0 .. MaxMishaps
    BY <1>1, StoreAssumption DEF TypeOK, RequestFails, Fault
  <2>3. QED
    BY <1>1, <2>1, <2>2 DEF TypeOK, RequestFails
<1>2. CASE WorkerCrash
  <2>1. ASSUME NEW r \in Request PROVE Orphaned(audit[r]) \in Task(OCRPC)
    BY TaskType DEF TypeOK, OCRPC
  <2>2. QED
    BY <1>2, <2>1, StoreAssumption DEF TypeOK, WorkerCrash, Fault
<1>3. CASE UNCHANGED vars
  BY <1>3 DEF vars, TypeOK
<1>4. QED
  BY <1>1, <1>2, <1>3, ListingStepType, PhotoStepType, ScanStepType, OCRTaskStepType DEF Next

-----------------------------------------------------------------------------
(* The inductive invariant.                                                 *)

\* The only ways a photo's row changes: it appears, it is confirmed, it goes.
LEMMA PhotoChange ==
  ASSUME TypeOK, [Next]_vars, NEW f \in Photo, photo'[f] # photo[f]
  PROVE  \/ photo[f] = NoPhoto
         \/ photo[f].status \in {"PENDING", "CONFIRMED"} /\ photo'[f].status = "CONFIRMED"
         \/ photo'[f].status = "gone" /\ result'[f] = NoResult
<1>1. PICK r \in Request : InsertPhoto(r) \/ Confirm(r) \/ DeletePhoto(r)
  BY DEF Next, vars, ListingStep, PhotoStep, ScanStep, OCRTaskStep, Create, DeleteListing,
     ReceivePatch, Patch, Reread, ReceivePresign, ReceiveDeletePhoto, ReceiveScan, Vision,
     StoreResult, StoreFailure, UpsertResult, EnqueueOCR, RequestFails, StartOCR, InsertDone,
     ReturnOCR, RecoverOCR, WorkerCrash
<1>2. CASE InsertPhoto(r)
  BY <1>2 DEF TypeOK, InsertPhoto
<1>3. CASE Confirm(r)
  BY <1>3 DEF TypeOK, PhotoRow, Confirm, Matches, HasRow
<1>4. CASE DeletePhoto(r)
  BY <1>4 DEF TypeOK, PhotoRow, DeletePhoto
<1>5. QED
  BY <1>1, <1>2, <1>3, <1>4
\* Which step of which request or task changes a result, and how.
LEMMA ResultChange ==
  ASSUME TypeOK, ScannedWasConfirmed, [Next]_vars, NEW f \in Photo, result'[f] # result[f]
  PROVE  \/ photo'[f].status = "gone" /\ result'[f] = NoResult
         \/ /\ UNCHANGED photo /\ HasRow(f) /\ result'[f].text = "text"
            /\ \E r \in Request : Scanning(r) /\ req[r].photo = f
         \/ /\ UNCHANGED <<photo, storeLost>> /\ HasRow(f) /\ result[f] = NoResult
            /\ \E r \in Request : audit[r] # NoTask /\ req[r].photo = f /\ req[r].listing \in Known
<1>1. PICK r \in Request : DeletePhoto(r) \/ StoreResult(r) \/ StoreFailure(r) \/ InsertDone(r)
  BY DEF Next, vars, ListingStep, PhotoStep, ScanStep, OCRTaskStep, Create, DeleteListing,
     ReceivePatch, Patch, Reread, ReceivePresign, ReceiveDeletePhoto, InsertPhoto, Confirm,
     ReceiveScan, Vision, EnqueueOCR, RequestFails, StartOCR, ReturnOCR, RecoverOCR, WorkerCrash
<1>2. CASE DeletePhoto(r)
  BY <1>2 DEF TypeOK, PhotoRow, DeletePhoto
<1>3. CASE StoreResult(r) \/ StoreFailure(r)
  <2>1. Scanning(r) /\ req[r].photo \in Photo
    BY <1>3 DEF StoreResult, StoreFailure, ScannedWasConfirmed, Scanning
  <2>2. PICK row \in ResultRow, next \in {"audit", "error"} :
          row.text = "text" /\ UpsertResult(r, row, next)
    BY <1>3 DEF StoreResult, StoreFailure, ResultRow
  <2>3. UNCHANGED photo /\ HasRow(f) /\ req[r].photo = f /\ result'[f] = row
    BY <2>1, <2>2 DEF TypeOK, UpsertResult, Storable
  <2>4. QED
    BY <2>1, <2>2, <2>3
<1>4. CASE InsertDone(r)
  <2>1. audit[r] # NoTask /\ req[r].photo \in Photo
    BY <1>4 DEF InsertDone, ScannedWasConfirmed, Scanning, NoTask
  <2>2. QED
    BY <1>4, <2>1 DEF TypeOK, InsertDone, Storable
<1>5. QED
  BY <1>1, <1>2, <1>3, <1>4

RequestStep(r) == ListingStep(r) \/ PhotoStep(r) \/ ScanStep(r) \/ RequestFails(r) \/ OCRTaskStep(r)

\* The task is there, or the next thing its request does is to enqueue it.
Audited(r) == req[r].at = "audit" \/ audit[r] # NoTask

\* A step of one request or task leaves the others alone.
LEMMA OthersUntouched ==
  ASSUME TypeOK, NEW q \in Request, RequestStep(q), NEW r \in Request, r # q
  PROVE  req'[r] = req[r] /\ audit'[r] = audit[r]
<1>1. CASE ListingStep(q)
  BY <1>1 DEF TypeOK, ListingStep, Create, DeleteListing, ReceivePatch, Patch, Reread, Receive, Go
<1>2. CASE PhotoStep(q)
  BY <1>2 DEF TypeOK, PhotoStep, ReceivePresign, InsertPhoto, Confirm, ReceiveDeletePhoto,
     DeletePhoto, Receive, Go
<1>3. CASE ScanStep(q)
  BY <1>3 DEF TypeOK, ScanStep, ReceiveScan, Vision, StoreResult, StoreFailure, UpsertResult,
     EnqueueOCR, Receive, Go
<1>4. CASE RequestFails(q)
  BY <1>4 DEF TypeOK, RequestFails, Go
<1>5. CASE OCRTaskStep(q)
  BY <1>5 DEF TypeOK, OCRTaskStep, StartOCR, InsertDone, ReturnOCR, RecoverOCR
<1>6. QED
  BY <1>1, <1>2, <1>3, <1>4, <1>5 DEF RequestStep

\* What a step of request r or its task does to its own scan.
LEMMA OwnScan ==
  ASSUME TypeOK, TaskAfterAnswer, NEW r \in Request, RequestStep(r), Scanning(r)'
  PROVE  \/ /\ Scanning(r) /\ req'[r].photo = req[r].photo /\ req'[r].listing = req[r].listing
            /\ Audited(r)' => Audited(r) \/ StoreResult(r)
            /\ audit'[r] # NoTask => req'[r].at \in Answer
         \/ ReceiveScan(r) /\ req'[r].at # "audit" /\ audit'[r] = NoTask
<1>1. req[r] \in Handling /\ req[r].at \in Answer \union Place \union {"idle"}
  BY DEF TypeOK, Handling
<1>2. req[r].at \in Place \union {"idle"} => audit[r] = NoTask
  BY DEF TaskAfterAnswer, Answer, Place
<1>3. CASE \/ Create(r) \/ DeleteListing(r) \/ ReceivePatch(r)
           \/ ReceivePresign(r) \/ Confirm(r) \/ ReceiveDeletePhoto(r)
  <2>1. req[r] = NoRequest /\ UNCHANGED audit
    BY <1>3 DEF Create, DeleteListing, ReceivePatch, ReceivePresign, Confirm, ReceiveDeletePhoto, Receive
  <2>2. req'[r].at \in Answer \union {"patch", "reread", "insert", "delete"}
    BY <1>3 DEF TypeOK, Create, DeleteListing, ReceivePatch, ReceivePresign, Confirm,
       ReceiveDeletePhoto, Receive, Admitted, Answer
  <2>3. audit'[r] = NoTask
    BY <1>2, <2>1 DEF NoRequest
  <2>4. QED
    BY <2>2, <2>3 DEF Scanning, Answer
<1>4. CASE Patch(r) \/ Reread(r) \/ InsertPhoto(r) \/ DeletePhoto(r) \/ RequestFails(r)
  <2>1. req[r].at \in Place /\ UNCHANGED audit
    BY <1>4 DEF Patch, Reread, InsertPhoto, DeletePhoto, RequestFails, Place
  <2>2. req'[r].at \in Answer \union {"reread"}
    <3>1. CASE Patch(r) \/ Reread(r) \/ DeletePhoto(r) \/ RequestFails(r)
      BY <1>1, <3>1 DEF TypeOK, Handling, Patch, Reread, DeletePhoto, RequestFails, Go, Answer
    <3>2. CASE InsertPhoto(r)
      BY <1>1, <3>2 DEF TypeOK, Handling, InsertPhoto, Go, Answer
    <3>3. QED
      BY <1>4, <3>1, <3>2
  <2>3. QED
    BY <1>2, <2>1, <2>2 DEF Scanning, Answer
<1>5. CASE ReceiveScan(r)
  <2>1. audit'[r] = NoTask
    BY <1>2, <1>5 DEF ReceiveScan, Receive, NoRequest
  <2>2. req'[r].at \in {"vision", "notFound"}
    BY <1>5 DEF TypeOK, ReceiveScan, Receive
  <2>3. QED
    BY <1>5, <2>1, <2>2
<1>6. CASE Vision(r) \/ StoreResult(r) \/ StoreFailure(r)
  <2>1. /\ req[r].at \in {"vision", "store", "storeFailure"} /\ UNCHANGED audit
        /\ req'[r].photo = req[r].photo /\ req'[r].listing = req[r].listing
        /\ req'[r].at = "audit" => StoreResult(r)
    BY <1>6 DEF TypeOK, Handling, Vision, StoreResult, StoreFailure, UpsertResult, Go
  <2>2. audit'[r] = NoTask
    BY <1>2, <2>1 DEF Place
  <2>3. QED
    BY <2>1, <2>2 DEF Scanning, Audited
<1>7. CASE EnqueueOCR(r)
  BY <1>7 DEF TypeOK, Handling, EnqueueOCR, Go, Scanning, Audited, Answer
<1>8. CASE OCRTaskStep(r)
  <2>1. audit[r] # NoTask /\ UNCHANGED req
    BY <1>8 DEF OCRTaskStep, StartOCR, InsertDone, ReturnOCR, RecoverOCR, NoTask
  <2>2. QED
    BY <2>1 DEF Scanning, Audited, TaskAfterAnswer
<1>9. QED
  BY <1>3, <1>4, <1>5, <1>6, <1>7, <1>8 DEF RequestStep, ListingStep, PhotoStep, ScanStep

\* The same for any step of the system.
LEMMA ScanChange ==
  ASSUME TypeOK, TaskAfterAnswer, [Next]_vars, NEW r \in Request, Scanning(r)'
  PROVE  \/ /\ Scanning(r) /\ req'[r].photo = req[r].photo /\ req'[r].listing = req[r].listing
            /\ Audited(r)' => Audited(r) \/ StoreResult(r)
            /\ audit'[r] # NoTask => req'[r].at \in Answer
         \/ ReceiveScan(r) /\ req'[r].at # "audit" /\ audit'[r] = NoTask
<1>1. ASSUME req'[r] = req[r], audit'[r] = audit[r] \/ audit[r] # NoTask
      PROVE  /\ Scanning(r) /\ req'[r].photo = req[r].photo /\ req'[r].listing = req[r].listing
             /\ Audited(r)' => Audited(r)
             /\ audit'[r] # NoTask => req'[r].at \in Answer
  BY <1>1 DEF Scanning, Audited, TaskAfterAnswer
<1>2. ASSUME NEW q \in Request, RequestStep(q), r # q
      PROVE  req'[r] = req[r] /\ audit'[r] = audit[r]
  BY <1>2, OthersUntouched
<1>3. CASE WorkerCrash
  <2>1. Orphaned(NoTask) = NoTask
    BY DEF Orphaned, NoTask
  <2>2. QED
    BY <1>1, <1>3, <2>1 DEF WorkerCrash
<1>4. CASE UNCHANGED vars
  BY <1>1, <1>4 DEF vars
<1>5. QED
  BY <1>1, <1>2, <1>3, <1>4, OwnScan DEF Next, RequestStep

\* No listing comes into being under an id that a request in progress has named.
LEMMA UnknownStays ==
  ASSUME TypeOK, [Next]_vars, NEW r \in Request, req[r].listing \notin Known
  PROVE  req[r].listing \notin Known'
<1>1. ASSUME NEW q \in Request, Create(q) PROVE req[r].listing \notin Known'
  BY <1>1 DEF TypeOK, Create, Fresh, Known
<1>2. ASSUME NEW q \in Request, DeleteListing(q) PROVE Known' = Known
  BY <1>2 DEF TypeOK, DeleteListing, Known
<1>3. CASE UNCHANGED listing
  BY <1>3 DEF Known
<1>4. QED
  BY <1>1, <1>2, <1>3 DEF Next, vars, ListingStep, PhotoStep, ScanStep, OCRTaskStep,
     ReceivePatch, Patch, Reread, ReceivePresign, InsertPhoto, Confirm, ReceiveDeletePhoto,
     DeletePhoto, ReceiveScan, Vision, StoreResult, StoreFailure, UpsertResult, EnqueueOCR,
     RequestFails, StartOCR, InsertDone, ReturnOCR, RecoverOCR, WorkerCrash

LEMMA LossIsKept == [Next]_vars => storeLost \subseteq storeLost'
BY DEF Next, vars, ListingStep, PhotoStep, ScanStep, OCRTaskStep, Create, DeleteListing,
   ReceivePatch, Patch, Reread, ReceivePresign, InsertPhoto, Confirm, ReceiveDeletePhoto,
   DeletePhoto, ReceiveScan, Vision, StoreResult, StoreFailure, UpsertResult, EnqueueOCR,
   RequestFails, StartOCR, InsertDone, ReturnOCR, RecoverOCR, WorkerCrash

LEMMA StoreInvStep == TypeOK /\ StoreInv /\ [Next]_vars => StoreInv'
<1>. SUFFICES ASSUME TypeOK, StoreInv, [Next]_vars PROVE StoreInv'
  OBVIOUS
<1>. USE DEF StoreInv
<1>1. TypeOK'
  BY TypeStep
<1>2. ResultHasConfirmedPhoto'
  <2>. SUFFICES ASSUME NEW f \in Photo, result'[f] # NoResult PROVE photo'[f].status = "CONFIRMED"
    BY DEF ResultHasConfirmedPhoto
  <2>1. CASE result'[f] = result[f]
    <3>1. photo[f].status = "CONFIRMED"
      BY <2>1 DEF ResultHasConfirmedPhoto
    <3>2. QED
      BY <3>1, PhotoChange DEF NoPhoto
  <2>2. CASE result'[f] # result[f]
    <3>1. UNCHANGED photo /\ HasRow(f) /\ \E r \in Request : Scanning(r) /\ req[r].photo = f
      BY <2>2, ResultChange DEF Scanning
    <3>2. QED
      BY <3>1 DEF ScannedWasConfirmed, HasRow
  <2>3. QED
    BY <2>1, <2>2
<1>3. UnreadableOnlyAfterLoss'
  <2>. SUFFICES ASSUME NEW f \in Photo, result'[f].text = "null" PROVE f \in storeLost'
    BY DEF UnreadableOnlyAfterLoss
  <2>0. storeLost \subseteq storeLost'
    BY LossIsKept
  <2>1. CASE result'[f] = result[f]
    BY <2>0, <2>1 DEF UnreadableOnlyAfterLoss
  <2>2. CASE result'[f] # result[f]
    <3>1. PICK r \in Request : /\ HasRow(f) /\ result[f] = NoResult /\ audit[r] # NoTask
                               /\ req[r].photo = f /\ req[r].listing \in Known
      BY <2>2, ResultChange DEF NoResult
    <3>2. QED
      BY <2>0, <3>1 DEF AuditAfterStore, HasRow
  <2>3. QED
    BY <2>1, <2>2
<1>4. ASSUME NEW r \in Request, Scanning(r)'
      PROVE  req'[r].photo \in Photo /\ photo'[req'[r].photo].status \in {"CONFIRMED", "gone"}
  <2>1. CASE Scanning(r) /\ req'[r].photo = req[r].photo
    <3>1. req[r].photo \in Photo /\ photo[req[r].photo].status \in {"CONFIRMED", "gone"}
      BY <2>1 DEF ScannedWasConfirmed
    <3>2. QED
      BY <2>1, <3>1, PhotoChange DEF NoPhoto
  <2>2. CASE ReceiveScan(r)
    <3>1. PICK f \in Photo, p \in Listing :
            Receive(r, "scan", p, f, IF photo[f].status = "CONFIRMED" THEN "vision" ELSE "notFound")
      BY <2>2 DEF ReceiveScan
    <3>2. /\ req'[r].photo = f /\ UNCHANGED <<photo, audit>> /\ audit[r] = NoTask
          /\ req'[r].at = IF photo[f].status = "CONFIRMED" THEN "vision" ELSE "notFound"
      BY <2>2, <3>1 DEF TypeOK, ReceiveScan, Receive, TaskAfterAnswer, NoRequest, Answer
    <3>3. photo[f].status = "CONFIRMED"
      BY <1>4, <3>2 DEF Scanning
    <3>4. QED
      BY <3>2, <3>3
  <2>3. QED
    BY <1>4, <2>1, <2>2, ScanChange
<1>5. ASSUME NEW r \in Request, Audited(r)'
      PROVE  LET f == req'[r].photo
             IN  \/ result'[f] # NoResult \/ f \in storeLost' \/ photo'[f].status = "gone"
                 \/ req'[r].listing \notin Known'
  <2>. DEFINE f == req[r].photo
  <2>1. Scanning(r)'
    BY <1>5 DEF Scanning, Audited
  <2>2. /\ Scanning(r) /\ req'[r].photo = f /\ req'[r].listing = req[r].listing
        /\ Audited(r) \/ StoreResult(r)
    BY <1>5, <2>1, ScanChange DEF Audited
  <2>3. f \in Photo /\ photo[f].status \in {"CONFIRMED", "gone"}
    BY <2>2 DEF ScannedWasConfirmed
  <2>4. CASE Audited(r)
    <3>1. \/ result[f] # NoResult \/ f \in storeLost \/ photo[f].status = "gone"
          \/ req[r].listing \notin Known
      BY <2>4 DEF AuditAfterStore, Audited
    <3>2. photo[f].status = "gone" => photo'[f].status = "gone"
      BY <2>3, PhotoChange DEF NoPhoto
    <3>3. result[f] # NoResult => result'[f] # NoResult \/ photo'[f].status = "gone"
      <4>1. CASE result'[f] = result[f]
        BY <4>1
      <4>2. CASE result'[f] # result[f]
        <5>1. \/ photo'[f].status = "gone"
              \/ result'[f].text = "text"
              \/ result[f] = NoResult
          BY <2>3, <4>2, ResultChange
        <5>2. QED
          BY <5>1 DEF NoResult
      <4>3. QED
        BY <4>1, <4>2
    <3>4. storeLost \subseteq storeLost'
      BY LossIsKept
    <3>5. QED
      BY <2>2, <3>1, <3>2, <3>3, <3>4, UnknownStays
  <2>5. CASE StoreResult(r)
    <3>1. UNCHANGED photo
      BY <2>5 DEF StoreResult, UpsertResult
    <3>2. CASE photo[f].status = "gone"
      BY <2>2, <3>1, <3>2
    <3>3. CASE photo[f].status = "CONFIRMED" /\ req[r].listing \in Known
      <4>1. result'[f] = [status |-> "DONE", text |-> "text"] \/ f \in storeLost'
        BY <2>3, <2>5, <3>3 DEF TypeOK, StoreResult, UpsertResult, Storable, HasRow
      <4>2. QED
        BY <2>2, <4>1 DEF NoResult
    <3>4. QED
      BY <2>2, <2>3, <3>2, <3>3, UnknownStays
  <2>6. QED
    BY <2>2, <2>4, <2>5
<1>6. TaskAfterAnswer'
  BY ScanChange DEF TaskAfterAnswer, Scanning
<1>7. QED
  BY <1>2, <1>3, <1>4, <1>5, <1>6 DEF ScannedWasConfirmed, AuditAfterStore, Audited

\* The tables, requests and tasks stay well-formed, and the invariant behind the OCR
\* results is inductive.
THEOREM StoreInvariant == Spec => [](TypeOK /\ StoreInv)
<1>1. Init => TypeOK /\ StoreInv
  <2>1. Init => StoreInv
    BY DEF Init, StoreInv, ResultHasConfirmedPhoto, UnreadableOnlyAfterLoss, ScannedWasConfirmed,
       AuditAfterStore, TaskAfterAnswer, Scanning, NoRequest, NoResult
  <2>2. QED
    BY <2>1, TypeInit
<1>2. TypeOK /\ StoreInv /\ [Next]_vars => (TypeOK /\ StoreInv)'
  BY TypeStep, StoreInvStep DEF StoreInv
<1>3. QED
  BY <1>1, <1>2, PTL DEF Spec

\* Only confirmed photos have OCR results, whatever requests and tasks overlap.
THEOREM OnlyConfirmedHaveResults == Spec => []ResultHasConfirmedPhoto
BY StoreInvariant, PTL DEF StoreInv

\* A row that cannot be read stands for a result its scan could not store.
THEOREM UnreadableIsLoss == Spec => []UnreadableOnlyAfterLoss
BY StoreInvariant, PTL DEF StoreInv

LEMMA UpsertKeepsText ==
  ASSUME TypeOK, NEW r \in Request, NEW status \in {"DONE", "FAILED"}, NEW next,
         UpsertResult(r, [status |-> status, text |-> "text"], next),
         NEW f \in Photo, result[f].text = "text"
  PROVE  result'[f].text = "text"
BY DEF UpsertResult, TypeOK

\* What the worker inserts never replaces the text that a scan stored, in whatever order
\* scans, deletions and tasks run.
THEOREM TextKept == Spec => TextIsKept
<1>1. ASSUME TypeOK, [Next]_vars, NEW f \in Photo, result[f].text = "text"
      PROVE  result'[f].text # "null"
  <2>1. CASE result' = result
    BY <1>1, <2>1
  <2>2. ASSUME NEW r \in Request, ListingStep(r) PROVE result' = result
    BY <2>2 DEF ListingStep, Create, DeleteListing, ReceivePatch, Patch, Reread
  <2>3. ASSUME NEW r \in Request, PhotoStep(r) PROVE result'[f].text # "null"
    <3>1. CASE DeletePhoto(r)
      BY <1>1, <3>1 DEF DeletePhoto, TypeOK, NoResult
    <3>2. CASE ~DeletePhoto(r)
      BY <1>1, <2>3, <3>2
         DEF PhotoStep, ReceivePresign, InsertPhoto, Confirm, ReceiveDeletePhoto
    <3>3. QED
      BY <3>1, <3>2
  <2>4. ASSUME NEW r \in Request, ScanStep(r) PROVE result'[f].text # "null"
    <3>1. CASE StoreResult(r) \/ StoreFailure(r)
      BY <1>1, <3>1, UpsertKeepsText DEF StoreResult, StoreFailure
    <3>2. CASE ~StoreResult(r) /\ ~StoreFailure(r)
      BY <1>1, <2>4, <3>2 DEF ScanStep, ReceiveScan, Vision, EnqueueOCR
    <3>3. QED
      BY <3>1, <3>2
  <2>5. ASSUME NEW r \in Request, OCRTaskStep(r) PROVE result'[f].text # "null"
    <3>1. CASE InsertDone(r)
      BY <1>1, <3>1 DEF InsertDone, TypeOK, NoResult
    <3>2. CASE ~InsertDone(r)
      BY <1>1, <2>5, <3>2 DEF OCRTaskStep, StartOCR, ReturnOCR, RecoverOCR
    <3>3. QED
      BY <3>1, <3>2
  <2>6. ASSUME NEW r \in Request, RequestFails(r) PROVE result' = result
    BY <2>6 DEF RequestFails
  <2>7. CASE WorkerCrash
    BY <1>1, <2>7 DEF WorkerCrash
  <2>8. QED
    BY <1>1, <2>1, <2>2, <2>3, <2>4, <2>5, <2>6, <2>7 DEF Next, vars
<1>2. TypeOK /\ [Next]_vars => [\A f \in Photo : result[f].text = "text" => result'[f].text # "null"]_vars
  BY <1>1
<1>3. QED
  BY <1>2, StoreInvariant, PTL DEF Spec, TextIsKept
=============================================================================
