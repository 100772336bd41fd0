-------------------------- MODULE ListingForm_proofs --------------------------
(***************************************************************************)
(* Proofs about ListingForm, for any listings, photos and coroutines and    *)
(* any bound on the photos, the loads and the mishaps.                      *)
(***************************************************************************)
EXTENDS ListingForm, SequenceTheorems, WellFoundedInduction, TLAPS

-----------------------------------------------------------------------------
(* Indices and sequences of photos.                                         *)

\* The smallest index of a set is one of its elements.
LEMMA MinIsIn ==
  ASSUME NEW S \in SUBSET Nat, S # {}
  PROVE  Min(S) \in S
<1> DEFINE Less == OpToRel(<, Nat)
<1>1. \A m, n \in Nat : m < n => <<m, n>> \in Less
  BY DEF OpToRel
<1>2. IsWellFoundedOn(Less, Nat)
  BY NatLessThanWellFounded
<1>. HIDE DEF Less
<1>3. PICK x \in S : \A y \in S : ~(<<y, x>> \in Less)
  BY <1>2, WFMin
<1>4. ASSUME NEW y \in S PROVE x <= y
  <2>1. x \in Nat /\ y \in Nat
    OBVIOUS
  <2>2. ~(y < x)
    BY <1>1, <1>3, <2>1
  <2>3. QED
    BY <2>1, <2>2
<1>5. QED
  BY <1>4 DEF Min

\* Removing a photo leaves photos that were there before, one fewer.
LEMMA RemoveAtIn ==
  ASSUME NEW S, NEW s \in Seq(S), NEW i \in DOMAIN s
  PROVE  /\ RemoveAt(s, i) \in Seq(S)
         /\ Len(RemoveAt(s, i)) = Len(s) - 1
         /\ \A j \in DOMAIN RemoveAt(s, i) : \E k \in DOMAIN s : RemoveAt(s, i)[j] = s[k]
<1>1. Len(s) \in Nat /\ DOMAIN s = 1 .. Len(s) /\ \A j \in 1 .. Len(s) : s[j] \in S
  BY LenProperties, ElementOfSeq
<1>2. i \in Nat /\ 1 <= i /\ i <= Len(s)
  BY <1>1
<1> DEFINE a == SubSeq(s, 1, i - 1)
           b == SubSeq(s, i + 1, Len(s))
<1>3. a \in Seq(S) /\ Len(a) = i - 1 /\ \A j \in 1 .. i - 1 : a[j] = s[j]
  <2>1. i - 1 \in Int /\ \A j \in 1 .. i - 1 : s[j] \in S
    BY <1>1, <1>2
  <2>2. /\ a \in Seq(S) /\ Len(a) = IF 1 <= i - 1 THEN i - 1 - 1 + 1 ELSE 0
        /\ \A j \in 1 .. i - 1 - 1 + 1 : a[j] = s[1 + j - 1]
    BY <2>1, SubSeqProperties
  <2>3. QED
    BY <2>2, <1>2
<1>4. b \in Seq(S) /\ Len(b) = Len(s) - i /\ \A j \in 1 .. Len(s) - i : b[j] = s[i + j]
  <2>1. i + 1 \in Int /\ Len(s) \in Int /\ \A j \in i + 1 .. Len(s) : s[j] \in S
    BY <1>1, <1>2
  <2>2. /\ b \in Seq(S)
        /\ Len(b) = IF i + 1 <= Len(s) THEN Len(s) - (i + 1) + 1 ELSE 0
        /\ \A j \in 1 .. Len(s) - (i + 1) + 1 : b[j] = s[i + 1 + j - 1]
    BY <2>1, SubSeqProperties
  <2>3. QED
    BY <2>2, <1>1, <1>2
<1>. HIDE DEF a, b
<1>5. /\ a \o b \in Seq(S) /\ Len(a \o b) = Len(a) + Len(b)
      /\ \A j \in 1 .. Len(a) + Len(b) : (a \o b)[j] = IF j <= Len(a) THEN a[j] ELSE b[j - Len(a)]
  BY <1>3, <1>4, ConcatProperties
<1>6. ASSUME NEW j \in DOMAIN (a \o b) PROVE \E k \in DOMAIN s : (a \o b)[j] = s[k]
  <2>1. j \in 1 .. Len(s) - 1
    BY <1>1, <1>2, <1>3, <1>4, <1>5, LenProperties
  <2>2. CASE j <= i - 1
    BY <2>1, <2>2, <1>1, <1>2, <1>3, <1>4, <1>5
  <2>3. CASE ~(j <= i - 1)
    <3>1. j - (i - 1) \in 1 .. Len(s) - i /\ i + (j - (i - 1)) \in 1 .. Len(s)
      BY <2>1, <2>3, <1>1, <1>2
    <3>2. (a \o b)[j] = b[j - (i - 1)]
      BY <2>1, <2>3, <1>1, <1>2, <1>3, <1>4, <1>5
    <3>3. QED
      BY <3>1, <3>2, <1>1, <1>4
  <2>4. QED
    BY <2>2, <2>3
<1>7. a \o b \in Seq(S) /\ Len(a \o b) = Len(s) - 1
  BY <1>1, <1>2, <1>3, <1>4, <1>5
<1>8. RemoveAt(s, i) = a \o b
  BY DEF RemoveAt, a, b
<1>9. QED
  BY <1>6, <1>7, <1>8

\* Changing one photo keeps the others, and how many there are.
LEMMA MarkedIs ==
  ASSUME NEW s \in Seq(Photo), NEW i \in DOMAIN s, NEW st \in PhotoUploadStatus
  PROVE  /\ Marked(s, i, st) \in Seq(Photo)
         /\ Len(Marked(s, i, st)) = Len(s)
         /\ DOMAIN Marked(s, i, st) = DOMAIN s
         /\ \A j \in DOMAIN s : /\ Marked(s, i, st)[j].file = s[j].file
                                /\ Marked(s, i, st)[j].status = IF j = i THEN st ELSE s[j].status
<1>1. Len(s) \in Nat /\ DOMAIN s = 1 .. Len(s) /\ \A j \in 1 .. Len(s) : s[j] \in Photo
  BY LenProperties, ElementOfSeq
<1> DEFINE e == [s[i] EXCEPT !.status = st]
<1>2. e \in Photo /\ e.file = s[i].file /\ e.status = st
  BY <1>1 DEF Photo
<1>3. Marked(s, i, st) = [s EXCEPT ![i] = e]
  BY DEF Marked
<1>. HIDE DEF e
<1>4. /\ [s EXCEPT ![i] = e] \in Seq(Photo)
      /\ Len([s EXCEPT ![i] = e]) = Len(s)
      /\ \A j \in 1 .. Len(s) : [s EXCEPT ![i] = e][j] = IF j = i THEN e ELSE s[j]
  BY <1>1, <1>2, ExceptSeq
<1>5. QED
  BY <1>1, <1>2, <1>3, <1>4

-----------------------------------------------------------------------------
(* Coroutines.                                                              *)

\* A coroutine is idle, or its fields are those of one that runs.
LEMMA CallIs ==
  ASSUME NEW k \in Running \union {Idle}
  PROVE  /\ k # Idle => k \in Running
         /\ k # Idle <=> k.at \in {"save", "presign", "transfer"}
         /\ k = Idle => k.kind = "none" /\ k.at = "idle" /\ k.pid = None /\ ~k.here
BY DEF Running, Idle

\* Losing the page changes nothing else of a coroutine.
Left(k) == [k EXCEPT !.here = FALSE]

LEMMA LeftIs ==
  ASSUME NEW k \in Running \union {Idle}
  PROVE  /\ Left(k) \in Running \union {Idle} /\ (Left(k) # Idle => k # Idle)
         /\ Left(k).kind = k.kind /\ Left(k).at = k.at /\ Left(k).pid = k.pid
         /\ Left(k).index = k.index /\ Left(k).file = k.file
<1>1. PICK l : l = Left(k)
  OBVIOUS
<1>2. CASE k \in Running
  <2>1. k # Idle
    BY <1>2, CallIs DEF Running
  <2>2. /\ l \in Running /\ l.kind = k.kind /\ l.at = k.at /\ l.pid = k.pid
        /\ l.index = k.index /\ l.file = k.file
    BY <1>1, <1>2 DEF Left, Running
  <2>3. QED
    BY <1>1, <2>1, <2>2
<1>3. CASE k = Idle
  <2>1. k \in [kind : {"none"}, at : {"idle"}, pid : {None}, index : {0}, file : {None}, here : {FALSE}]
    BY <1>3 DEF Idle
  <2>2. l \in [kind : {"none"}, at : {"idle"}, pid : {None}, index : {0}, file : {None}, here : {FALSE}]
    BY <1>1, <2>1 DEF Left
  <2>3. l = k
    BY <1>1, <2>1, <2>2 DEF Left
  <2>4. QED
    BY <1>1, <1>3, <2>3
<1>4. QED
  BY <1>2, <1>3

\* The coroutines that start.
LEMMA NewCreate ==
  LET k == [Idle EXCEPT !.kind = "create", !.at = "save"]
  IN  k \in Running /\ Shape(k) /\ k.kind = "create" /\ k.at = "save" /\ k.pid = None
<1>1. Idle \in [kind : {"none"}, at : {"idle"}, pid : {None}, index : {0}, file : {None}, here : {FALSE}]
  BY DEF Idle
<1> DEFINE k == [Idle EXCEPT !.kind = "create", !.at = "save"]
<1>2. k \in [kind : {"create"}, at : {"save"}, pid : {None}, index : {0}, file : {None}, here : {FALSE}]
  BY <1>1
<1>. HIDE DEF k
<1>3. k \in Running
  <2>1. 0 \in 0 .. MaxPhotos
    BY FormAssumption
  <2>2. QED
    BY <1>2, <2>1 DEF Running
<1>4. Shape(k) /\ k.kind = "create" /\ k.at = "save" /\ k.pid = None
  BY <1>2 DEF Shape
<1>5. QED
  BY <1>3, <1>4 DEF k

LEMMA NewSubmit ==
  ASSUME NEW p \in Listing \union {None}
  PROVE  LET k == [Idle EXCEPT !.kind = "submit", !.at = "save", !.pid = p, !.here = TRUE]
         IN  k \in Running /\ Shape(k) /\ k.kind = "submit" /\ k.at = "save" /\ k.pid = p
<1>1. Idle \in [kind : {"none"}, at : {"idle"}, pid : {None}, index : {0}, file : {None}, here : {FALSE}]
  BY DEF Idle
<1> DEFINE k == [Idle EXCEPT !.kind = "submit", !.at = "save", !.pid = p, !.here = TRUE]
<1>2. k \in [kind : {"submit"}, at : {"save"}, pid : {p}, index : {0}, file : {None}, here : {TRUE}]
  BY <1>1
<1>. HIDE DEF k
<1>3. k \in Running
  <2>1. 0 \in 0 .. MaxPhotos
    BY FormAssumption
  <2>2. QED
    BY <1>2, <2>1 DEF Running
<1>4. Shape(k) /\ k.kind = "submit" /\ k.at = "save" /\ k.pid = p
  BY <1>2 DEF Shape
<1>5. QED
  BY <1>3, <1>4 DEF k

Upload(p, n, f) ==
  [kind |-> "upload", at |-> "presign", pid |-> p, index |-> n, file |-> f, here |-> FALSE]

LEMMA NewUpload ==
  ASSUME NEW p \in Listing, NEW n \in 1 .. MaxPhotos, NEW f \in File
  PROVE  LET k == Upload(p, n, f)
         IN  /\ k \in Running /\ Shape(k)
             /\ k.at = "presign" /\ k.pid = p /\ k.index = n /\ k.file = f
BY FormAssumption DEF Running, Shape, Upload

\* A submit goes on to photo n.
Onward(l, p, n, f) == [l EXCEPT !.at = "presign", !.pid = p, !.index = n, !.file = f]

LEMMA NextPhoto ==
  ASSUME NEW l \in Running, l.kind = "submit",
         NEW p \in Listing, NEW n \in 1 .. MaxPhotos, NEW f \in File
  PROVE  LET k == Onward(l, p, n, f)
         IN  /\ k \in Running /\ Shape(k)
             /\ k.kind = "submit" /\ k.at = "presign" /\ k.pid = p /\ k.index = n /\ k.file = f
<1> DEFINE k == Onward(l, p, n, f)
<1>1. k \in [kind : {"submit"}, at : {"presign"}, pid : {p}, index : {n}, file : {f}, here : BOOLEAN]
  BY DEF Running, Onward
<1>. HIDE DEF k
<1>2. k \in Running
  BY <1>1, FormAssumption DEF Running
<1>3. /\ Shape(k) /\ k.kind = "submit" /\ k.at = "presign"
      /\ k.pid = p /\ k.index = n /\ k.file = f
  BY <1>1, FormAssumption DEF Shape
<1>4. QED
  BY <1>2, <1>3 DEF k

\* The presigned URL is there: the bytes go to the bucket.
ToBucket(l) == [l EXCEPT !.at = "transfer"]

LEMMA ToTransfer ==
  ASSUME NEW l \in Running, Shape(l), l.at = "presign"
  PROVE  LET k == ToBucket(l)
         IN  /\ k \in Running /\ Shape(k) /\ k.at = "transfer"
             /\ k.kind = l.kind /\ k.pid = l.pid /\ k.index = l.index /\ k.file = l.file
BY DEF Running, Shape, Idle, ToBucket

CallsOK(f) == f \in [Call -> Running \union {Idle}] /\ \A c \in Call : Shape(f[c])

\* One coroutine is replaced.
LEMMA PutCall ==
  ASSUME NEW f, CallsOK(f), NEW c \in Call, NEW k \in Running \union {Idle}, Shape(k)
  PROVE  /\ CallsOK([f EXCEPT ![c] = k])
         /\ \A d \in Call : [f EXCEPT ![c] = k][d] = IF d = c THEN k ELSE f[d]
BY DEF CallsOK

LEMMA ShapeOfIdle == Shape(Idle)
BY DEF Shape

\* The page is left: the coroutines go on, all but one that ends or none.
LEMMA LeaveIs ==
  ASSUME CallsOK(call), NEW S \in SUBSET Call,
         call' = [d \in Call |-> IF d \in S THEN Idle ELSE Left(call[d])]
  PROVE  /\ CallsOK(call')
         /\ \A d \in S : call'[d] = Idle
         /\ \A d \in Call \ S : /\ call'[d].kind = call[d].kind /\ call'[d].at = call[d].at
                                /\ call'[d].pid = call[d].pid /\ call'[d].index = call[d].index
                                /\ call'[d].file = call[d].file
<1>1. \A d \in S : call'[d] = Idle
  OBVIOUS
<1>2. \A d \in Call \ S : call'[d] = Left(call[d])
  OBVIOUS
<1>3. \A d \in Call : call[d] \in Running \union {Idle} /\ Shape(call[d])
  BY DEF CallsOK
<1>4. ASSUME NEW d \in Call \ S
      PROVE  /\ call'[d] \in Running \union {Idle} /\ (call'[d] # Idle => call[d] # Idle)
             /\ call'[d].kind = call[d].kind /\ call'[d].at = call[d].at
             /\ call'[d].pid = call[d].pid /\ call'[d].index = call[d].index
             /\ call'[d].file = call[d].file
  BY <1>2, <1>3, LeftIs
<1>5. \A d \in Call \ S : Shape(call'[d])
  BY <1>3, <1>4 DEF Shape
<1>6. call' \in [Call -> Running \union {Idle}]
  BY <1>1, <1>4
<1>7. QED
  BY <1>1, <1>4, <1>5, <1>6, ShapeOfIdle DEF CallsOK

LEMMA LeavePageIs ==
  ASSUME CallsOK(call), LeavePage
  PROVE  /\ CallsOK(call')
         /\ \A d \in Call : /\ call'[d].kind = call[d].kind /\ call'[d].at = call[d].at
                            /\ call'[d].pid = call[d].pid /\ call'[d].index = call[d].index
                            /\ call'[d].file = call[d].file
<1>1. call' = [d \in Call |-> IF d \in {} THEN Idle ELSE Left(call[d])]
  BY DEF LeavePage, Left
<1>2. PICK S \in SUBSET Call : S = {}
  OBVIOUS
<1>3. QED
  BY <1>1, <1>2, LeaveIs

-----------------------------------------------------------------------------
(* How an attempt on a photo, or the saving of the fields, ends.            *)

FormType == [id : Listing \union {None}, valid : BOOLEAN, submitting : BOOLEAN]

\* A submit goes on with a photo n of the form.
GoesOn(c, pid, frm, phs) ==
  /\ page' = page /\ form' = frm
  /\ \E n \in DOMAIN phs : \E k \in Running :
       /\ Shape(k) /\ k.kind = "submit" /\ k.at = "presign" /\ k.pid = pid
       /\ k.index = n /\ k.file = phs[n].file
       /\ photos' = Marked(phs, n, "uploading")
       /\ call' = [call EXCEPT ![c] = k]

Closes(c, frm) ==
  /\ page' = "closed" /\ form' = EmptyForm /\ photos' = <<>> /\ frm.id # None
  /\ call' = [d \in Call |-> IF d = c THEN Idle ELSE [call[d] EXCEPT !.here = FALSE]]

Ends(c, frm, phs) ==
  /\ page' = page /\ form' = frm /\ photos' = phs
  /\ call' = [call EXCEPT ![c] = Idle]

\* Only the submit that closes the screen ends.
LEMMA ClosedCalls ==
  ASSUME CallsOK(call), NEW c \in Call, NEW frm, Closes(c, frm)
  PROVE  /\ CallsOK(call') /\ call'[c] = Idle
         /\ \A d \in Call \ {c} : /\ call'[d].kind = call[d].kind /\ call'[d].at = call[d].at
                                  /\ call'[d].pid = call[d].pid /\ call'[d].index = call[d].index
                                  /\ call'[d].file = call[d].file
<1>1. PICK S \in SUBSET Call : S = {c}
  OBVIOUS
<1>2. call' = [d \in Call |-> IF d \in S THEN Idle ELSE Left(call[d])]
  BY <1>1 DEF Closes, Left
<1>3. QED
  BY <1>1, <1>2, LeaveIs

LEMMA FinishIs ==
  ASSUME CallsOK(call), NEW c \in Call, call[c] # Idle,
         NEW pid \in Listing, NEW frm \in FormType, NEW phs \in Seq(Photo), Len(phs) <= MaxPhotos,
         NEW from \in Nat \ {0}, Finish(c, pid, frm, phs, from)
  PROVE  GoesOn(c, pid, frm, phs) \/ Closes(c, frm) \/ Ends(c, frm, phs)
<1> DEFINE left == {i \in from .. Len(phs) : phs[i].status \in {"pending", "failed"}}
           n == Min(left)
<1>1. Len(phs) \in Nat /\ DOMAIN phs = 1 .. Len(phs) /\ \A j \in 1 .. Len(phs) : phs[j] \in Photo
  BY LenProperties, ElementOfSeq
<1>2. CASE call[c].kind = "submit" /\ left # {}
  <2>1. left \in SUBSET Nat
    BY <1>1
  <2>2. n \in left
    BY <1>2, <2>1, MinIsIn
  <2>3. n \in 1 .. Len(phs) /\ n \in 1 .. MaxPhotos
    BY <1>1, <2>2, FormAssumption
  <2>4. PICK f \in File : f = phs[n].file
    BY <1>1, <2>3 DEF Photo
  <2>5. PICK l \in Running : l = call[c] /\ l.kind = "submit"
    BY <1>2, CallIs DEF CallsOK
  <2>6. PICK k : k = Onward(l, pid, n, f)
    OBVIOUS
  <2>7. /\ photos' = Marked(phs, n, "uploading") /\ form' = frm /\ page' = page
        /\ call' = [call EXCEPT ![c] = k]
    BY <1>2, <2>4, <2>5, <2>6 DEF Finish, CallsOK, Onward
  <2>. HIDE DEF n
  <2>8. /\ k \in Running /\ Shape(k)
        /\ k.kind = "submit" /\ k.at = "presign" /\ k.pid = pid /\ k.index = n /\ k.file = f
    BY <2>3, <2>5, <2>6, NextPhoto
  <2>9. QED
    BY <1>1, <2>3, <2>4, <2>7, <2>8 DEF GoesOn
<1>3. CASE ~(call[c].kind = "submit" /\ left # {})
  BY <1>3 DEF Finish, Closes, Ends
<1>4. QED
  BY <1>2, <1>3

\* Whichever it is, the form, its photos and the coroutines are well-typed.
LEMMA EndType ==
  ASSUME CallsOK(call), page \in {"closed", "category", "details", "photos", "review"},
         NEW c \in Call, NEW pid, NEW frm \in FormType,
         NEW phs \in Seq(Photo), Len(phs) <= MaxPhotos,
         GoesOn(c, pid, frm, phs) \/ Closes(c, frm) \/ Ends(c, frm, phs)
  PROVE  /\ page' \in {"closed", "category", "details", "photos", "review"}
         /\ form' \in FormType /\ photos' \in Seq(Photo) /\ Len(photos') <= MaxPhotos
         /\ CallsOK(call')
<1>1. CASE GoesOn(c, pid, frm, phs)
  <2>1. PICK n \in DOMAIN phs, k \in Running :
          /\ Shape(k) /\ call' = [call EXCEPT ![c] = k]
          /\ photos' = Marked(phs, n, "uploading")
    BY <1>1 DEF GoesOn
  <2>2. photos' \in Seq(Photo) /\ Len(photos') = Len(phs)
    BY <2>1, MarkedIs DEF PhotoUploadStatus
  <2>3. CallsOK(call')
    BY <2>1, PutCall
  <2>4. QED
    BY <1>1, <2>2, <2>3 DEF GoesOn
<1>2. CASE Closes(c, frm)
  <2>1. EmptyForm \in FormType /\ <<>> \in Seq(Photo) /\ Len(<<>>) = 0
    BY EmptySeq DEF EmptyForm, FormType
  <2>2. CallsOK(call')
    BY <1>2, ClosedCalls
  <2>3. QED
    BY <1>2, <2>1, <2>2, FormAssumption DEF Closes
<1>3. CASE Ends(c, frm, phs)
  BY <1>3, PutCall, ShapeOfIdle DEF Ends
<1>4. QED
  BY <1>1, <1>2, <1>3

-----------------------------------------------------------------------------
(* Type correctness.                                                        *)

LEMMA TypeInvIs == TypeInv <=> /\ TypeOK /\ CallsOK(call) /\ Len(photos) <= MaxPhotos
BY DEF TypeInv, TypeOK, CallsOK, CallShape

LEMMA FaultType ==
  ASSUME faults \in 0 .. MaxMishaps, Fault PROVE faults' \in 0 .. MaxMishaps
BY FormAssumption DEF Fault

LEMMA TypeInit == Init => TypeInv
<1>1. <<>> \in Seq(Photo) /\ Len(<<>>) = 0
  BY EmptySeq
<1>2. 0 \in 0 .. MaxMishaps /\ 0 <= MaxPhotos
  BY FormAssumption
<1>3. Init => TypeOK
  <2>1. EmptyForm \in [id : Listing \union {None}, valid : BOOLEAN, submitting : BOOLEAN]
    BY DEF EmptyForm
  <2>2. [c \in Call |-> Idle] \in [Call -> Running \union {Idle}]
    OBVIOUS
  <2>3. QED
    BY <1>1, <1>2, <2>1, <2>2 DEF Init, TypeOK
<1>4. Init => CallShape /\ Len(photos) <= MaxPhotos
  BY <1>1, <1>2, ShapeOfIdle DEF Init, CallShape
<1>5. QED
  BY <1>3, <1>4 DEF TypeInv

\* The steps of the screen.
LEMMA ScreenType ==
  ASSUME TypeInv,
         OpenNew \/ OpenEdit \/ Loaded \/ LoadFails \/ Close \/ Back \/ FillIn \/ Continue
  PROVE  TypeInv'
<1>1. TypeOK /\ CallsOK(call) /\ Len(photos) <= MaxPhotos /\ CallShape
  BY TypeInvIs DEF TypeInv
<1>2. CASE OpenNew \/ OpenEdit \/ Continue
  BY <1>1, <1>2 DEF OpenNew, OpenEdit, Open, Continue, server, TypeInv, TypeOK, CallShape
<1>3. CASE Loaded
  <2>1. <<>> \in Seq(Photo) /\ Len(<<>>) = 0
    BY EmptySeq
  <2>2. form' \in FormType /\ loading' \in SUBSET Listing /\ calm' \in BOOLEAN
    BY <1>1, <1>3 DEF Loaded, EmptyForm, FormType, TypeOK
  <2>3. photos' = <<>> /\ UNCHANGED <<page, edit, call, server, made, unread, faults>>
    BY <1>3 DEF Loaded
  <2>4. Len(photos') <= MaxPhotos
    BY <2>1, <2>3, FormAssumption
  <2>5. QED
    BY <1>1, <2>1, <2>2, <2>3, <2>4 DEF server, TypeInv, TypeOK, CallShape, FormType
<1>4. CASE LoadFails
  <2>1. faults' \in 0 .. MaxMishaps
    BY <1>1, <1>4, FaultType DEF LoadFails, TypeOK
  <2>2. QED
    BY <1>1, <1>4, <2>1 DEF LoadFails, server, TypeInv, TypeOK, CallShape
<1>5. CASE Close \/ Back
  <2>1. LeavePage
    BY <1>5 DEF Close, Back
  <2>2. CallsOK(call')
    BY <1>1, <2>1, LeavePageIs
  <2>3. QED
    BY <1>1, <1>5, <2>2 DEF Close, Back, server, TypeInv, TypeOK, CallShape, CallsOK
<1>6. CASE FillIn
  <2>1. CallsOK(call')
    BY <1>1, <1>6, NewCreate, PutCall DEF FillIn
  <2>2. form' \in FormType /\ calm' \in BOOLEAN
    BY <1>1, <1>6 DEF FillIn, FormType, TypeOK
  <2>3. QED
    BY <1>1, <1>6, <2>1, <2>2 DEF FillIn, server, TypeInv, TypeOK, CallShape, CallsOK, FormType
<1>7. QED
  BY <1>2, <1>3, <1>4, <1>5, <1>6

\* Creations, and what is done to the photos on the screen.
LEMMA PhotoType ==
  ASSUME TypeInv,
         PickPhoto \/ Autofill \/ RemovePhoto \/ \E c \in Call : CreateAnswered(c) \/ CreateFails(c)
  PROVE  TypeInv'
<1>1. TypeOK /\ CallsOK(call) /\ Len(photos) <= MaxPhotos /\ CallShape
  BY TypeInvIs DEF TypeInv
<1>2. CASE PickPhoto
  <2> DEFINE pid == IF form.id # None THEN form.id ELSE edit
  <2>1. PICK f \in File, c \in Call :
          IF pid = None
          THEN photos' = Append(photos, [file |-> f, status |-> "pending"]) /\ UNCHANGED call
          ELSE /\ photos' = Append(photos, [file |-> f, status |-> "uploading"])
               /\ call' = [call EXCEPT ![c] = Upload(pid, Len(photos) + 1, f)]
    BY <1>2 DEF PickPhoto, Upload
  <2>2. /\ [file |-> f, status |-> "pending"] \in Photo
        /\ [file |-> f, status |-> "uploading"] \in Photo
    BY DEF Photo, PhotoUploadStatus
  <2>3. photos \in Seq(Photo)
    BY <1>1 DEF TypeOK
  <2>4. photos' \in Seq(Photo) /\ Len(photos') = Len(photos) + 1
    BY <2>1, <2>2, <2>3, AppendProperties
  <2>5. Len(photos) \in Nat /\ Len(photos) < MaxPhotos
    <3>1. Len(photos) < MaxPhotos
      BY <1>2 DEF PickPhoto
    <3>2. Len(photos) \in Nat
      BY <2>3, LenProperties
    <3>3. QED
      BY <3>1, <3>2
  <2>6. Len(photos) + 1 \in 1 .. MaxPhotos
    BY <2>5, FormAssumption
  <2>7. CallsOK(call')
    <3>1. CASE pid = None
      BY <1>1, <2>1, <3>1
    <3>2. CASE pid # None
      <4>1. pid \in Listing
        BY <1>1, <3>2 DEF TypeOK
      <4>2. QED
        BY <1>1, <2>1, <2>6, <3>2, <4>1, NewUpload, PutCall
    <3>3. QED
      BY <3>1, <3>2
  <2>8. Len(photos') <= MaxPhotos
    BY <2>4, <2>6, FormAssumption
  <2>9. UNCHANGED <<page, edit, form, loading, server, made, calm, unread, faults>>
    BY <1>2 DEF PickPhoto
  <2>10. QED
    BY <1>1, <2>4, <2>7, <2>8, <2>9 DEF server, TypeInv, TypeOK, CallShape, CallsOK
<1>3. CASE Autofill
  BY <1>1, <1>3 DEF Autofill, server, TypeInv, TypeOK, CallShape
<1>4. CASE RemovePhoto
  <2>1. photos \in Seq(Photo)
    BY <1>1 DEF TypeOK
  <2>2. photos' \in Seq(Photo) /\ Len(photos') = Len(photos) - 1
    BY <1>4, <2>1, RemoveAtIn DEF RemovePhoto
  <2>3. Len(photos') <= MaxPhotos
    BY <1>1, <2>1, <2>2, LenProperties, FormAssumption
  <2>4. QED
    BY <1>1, <1>4, <2>2, <2>3 DEF RemovePhoto, server, TypeInv, TypeOK, CallShape
<1>5. ASSUME NEW c \in Call, CreateAnswered(c) \/ CreateFails(c) PROVE TypeInv'
  <2>1. CallsOK(call')
    BY <1>1, <1>5, PutCall, ShapeOfIdle DEF CreateAnswered, CreateFails
  <2>2. listed' \in SUBSET Listing /\ made' \in SUBSET Listing
    BY <1>1, <1>5 DEF CreateAnswered, CreateFails, Created, TypeOK
  <2>3. calm' \in BOOLEAN /\ form' \in FormType
    BY <1>1, <1>5 DEF CreateAnswered, CreateFails, FormType, TypeOK
  <2>4. faults' \in 0 .. MaxMishaps
    BY <1>1, <1>5, FaultType DEF CreateAnswered, CreateFails, TypeOK
  <2>5. UNCHANGED <<page, edit, photos, loading, stored, unread>>
    BY <1>5 DEF CreateAnswered, CreateFails
  <2>6. QED
    BY <1>1, <2>1, <2>2, <2>3, <2>4, <2>5 DEF TypeInv, TypeOK, CallShape, CallsOK, FormType
<1>6. QED
  BY <1>2, <1>3, <1>4, <1>5

\* A submit starts, or its save ends.
LEMMA SubmitType ==
  ASSUME TypeInv, NEW c \in Call, Submit(c) \/ SaveAnswered(c) \/ SaveFails(c)
  PROVE  TypeInv'
<1>1. TypeOK /\ CallsOK(call) /\ Len(photos) <= MaxPhotos /\ CallShape
  BY TypeInvIs DEF TypeInv
<1>2. CASE Submit(c)
  <2>1. CallsOK(call')
    BY <1>1, <1>2, NewSubmit, PutCall DEF Submit, TypeOK
  <2>2. form' \in FormType /\ calm' \in BOOLEAN /\ unread' \in BOOLEAN
    BY <1>1, <1>2 DEF Submit, FormType, TypeOK
  <2>3. UNCHANGED <<page, edit, photos, loading, server, made, faults>>
    BY <1>2 DEF Submit
  <2>4. QED
    BY <1>1, <2>1, <2>2, <2>3 DEF server, TypeInv, TypeOK, CallShape, CallsOK, FormType
<1>3. CASE SaveAnswered(c)
  <2>1. PICK p \in Listing :
          /\ IF call[c].pid = None THEN Created(p) ELSE p = call[c].pid /\ UNCHANGED <<listed, made>>
          /\ Finish(c, p, [form EXCEPT !.id = p, !.submitting = FALSE], photos, 1)
    BY <1>3 DEF SaveAnswered
  <2>2. PICK frm \in FormType : frm = [form EXCEPT !.id = p, !.submitting = FALSE]
    BY <1>1 DEF FormType, TypeOK
  <2>3. call[c] # Idle
    BY <1>1, <1>3, CallIs DEF SaveAnswered, CallsOK
  <2>4. GoesOn(c, p, frm, photos) \/ Closes(c, frm) \/ Ends(c, frm, photos)
    BY <1>1, <2>1, <2>2, <2>3, FinishIs DEF TypeOK
  <2>5. /\ page' \in {"closed", "category", "details", "photos", "review"}
        /\ form' \in FormType /\ photos' \in Seq(Photo) /\ Len(photos') <= MaxPhotos
        /\ CallsOK(call')
    BY <1>1, <2>4, EndType DEF TypeOK
  <2>6. listed' \in SUBSET Listing /\ made' \in SUBSET Listing
    BY <1>1, <2>1 DEF Created, TypeOK
  <2>7. UNCHANGED <<edit, loading, stored, calm, unread, faults>>
    BY <1>3 DEF SaveAnswered
  <2>8. QED
    BY <1>1, <2>5, <2>6, <2>7 DEF TypeInv, TypeOK, CallShape, CallsOK, FormType
<1>4. CASE SaveFails(c)
  <2>1. CallsOK(call')
    BY <1>1, <1>4, PutCall, ShapeOfIdle DEF SaveFails
  <2>2. form' \in FormType /\ calm' \in BOOLEAN /\ unread' \in BOOLEAN
    BY <1>1, <1>4 DEF SaveFails, FormType, TypeOK
  <2>3. listed' \in SUBSET Listing /\ made' \in SUBSET Listing
    BY <1>1, <1>4 DEF SaveFails, Created, TypeOK
  <2>4. faults' \in 0 .. MaxMishaps
    BY <1>1, <1>4, FaultType DEF SaveFails, TypeOK
  <2>5. UNCHANGED <<page, edit, photos, loading, stored>>
    BY <1>4 DEF SaveFails
  <2>6. QED
    BY <1>1, <2>1, <2>2, <2>3, <2>4, <2>5 DEF TypeInv, TypeOK, CallShape, CallsOK, FormType
<1>5. QED
  BY <1>2, <1>3, <1>4

\* What Settle does to the form: its index is gone, or photo `index` gets its status and
\* the coroutine goes on or ends.
LEMMA SettleIs ==
  ASSUME TypeInv, NEW c \in Call, c \in Uploading, NEW status \in {"confirmed", "failed"},
         Settle(c, status)
  PROVE  LET phs == Marked(photos, call[c].index, status)
         IN  \/ call[c].index \notin DOMAIN photos /\ OutOfRange(c)
             \/ /\ call[c].index \in DOMAIN photos /\ call[c].pid \in Listing
                /\ phs \in Seq(Photo) /\ Len(phs) = Len(photos)
                /\ GoesOn(c, call[c].pid, form, phs) \/ Closes(c, form) \/ Ends(c, form, phs)
<1>1. TypeOK /\ CallsOK(call) /\ Len(photos) <= MaxPhotos
  BY TypeInvIs
<1>2. call[c] # Idle /\ call[c] \in Running /\ call[c].at # "save"
  BY <1>1, CallIs DEF Uploading, CallsOK
<1>3. /\ call[c].pid \in Listing /\ call[c].index \in Nat \ {0}
      /\ Len(photos) \in Nat /\ DOMAIN photos = 1 .. Len(photos)
  <2>1. call[c].pid # None /\ call[c].index # 0
    BY <1>1, <1>2 DEF CallsOK, Shape
  <2>2. call[c].pid \in Listing \union {None} /\ call[c].index \in 0 .. MaxPhotos
    BY <1>2 DEF Running
  <2>3. QED
    BY <1>1, <2>1, <2>2, LenProperties, FormAssumption DEF TypeOK
<1>4. CASE call[c].index <= Len(photos)
  <2>1. call[c].index \in DOMAIN photos /\ call[c].index + 1 \in Nat \ {0}
    BY <1>3, <1>4
  <2>2. PICK phs : phs = Marked(photos, call[c].index, status)
    OBVIOUS
  <2>3. phs \in Seq(Photo) /\ Len(phs) = Len(photos) /\ Len(phs) <= MaxPhotos
    <3>1. PICK i \in DOMAIN photos : i = call[c].index
      BY <2>1
    <3>2. phs = Marked(photos, i, status)
      BY <2>2, <3>1
    <3>3. phs \in Seq(Photo) /\ Len(phs) = Len(photos)
      <4>1. photos \in Seq(Photo)
        BY <1>1 DEF TypeOK
      <4>2. status \in PhotoUploadStatus
        BY DEF PhotoUploadStatus
      <4>3. QED
        BY <3>2, <4>1, <4>2, MarkedIs
    <3>4. QED
      BY <1>1, <3>3
  <2>4. form \in FormType
    BY <1>1 DEF TypeOK, FormType
  <2>5. Finish(c, call[c].pid, form, phs, call[c].index + 1)
    BY <1>4, <2>2 DEF Settle
  <2>6. GoesOn(c, call[c].pid, form, phs) \/ Closes(c, form) \/ Ends(c, form, phs)
    BY <1>1, <1>2, <1>3, <2>1, <2>3, <2>4, <2>5, FinishIs
  <2>7. QED
    BY <1>3, <2>1, <2>2, <2>3, <2>6
<1>5. CASE ~(call[c].index <= Len(photos))
  BY <1>3, <1>5 DEF Settle
<1>6. QED
  BY <1>4, <1>5

\* An index that is gone leaves the form and its photos alone, but for the submit button.
LEMMA OutOfRangeType ==
  ASSUME TypeInv, NEW c \in Call, OutOfRange(c)
  PROVE  /\ CallsOK(call') /\ form' \in FormType /\ form'.id = form.id
         /\ UNCHANGED <<page, photos>>
<1>1. TypeOK /\ CallsOK(call)
  BY TypeInvIs
<1>2. CallsOK(call')
  BY <1>1, PutCall, ShapeOfIdle DEF OutOfRange
<1>3. form' \in FormType /\ form'.id = form.id
  BY <1>1 DEF OutOfRange, TypeOK, FormType
<1>4. QED
  BY <1>2, <1>3 DEF OutOfRange

LEMMA SettleType ==
  ASSUME TypeInv, NEW c \in Call, c \in Uploading, NEW status \in {"confirmed", "failed"},
         Settle(c, status)
  PROVE  /\ page' \in {"closed", "category", "details", "photos", "review"}
         /\ form' \in FormType /\ photos' \in Seq(Photo) /\ Len(photos') <= MaxPhotos
         /\ CallsOK(call')
<1>1. TypeOK /\ CallsOK(call) /\ Len(photos) <= MaxPhotos
  BY TypeInvIs
<1>2. CASE OutOfRange(c)
  BY <1>1, <1>2, OutOfRangeType DEF TypeOK
<1>3. CASE ~OutOfRange(c)
  <2>1. PICK phs \in Seq(Photo) :
          /\ Len(phs) <= MaxPhotos
          /\ GoesOn(c, call[c].pid, form, phs) \/ Closes(c, form) \/ Ends(c, form, phs)
    BY <1>1, <1>3, SettleIs
  <2>2. QED
    BY <1>1, <2>1, EndType DEF TypeOK, FormType
<1>4. QED
  BY <1>2, <1>3

\* The steps of an upload.
LEMMA UploadType ==
  ASSUME TypeInv, NEW c \in Call, Presigned(c) \/ Transferred(c) \/ UploadFails(c)
  PROVE  TypeInv'
<1>1. TypeOK /\ CallsOK(call) /\ Len(photos) <= MaxPhotos
  BY TypeInvIs
<1>2. c \in Uploading /\ call[c] \in Running /\ Shape(call[c]) /\ call[c].pid \in Listing /\ call[c].file \in File
  <2>1. c \in Uploading
    BY DEF Presigned, Transferred, UploadFails, Uploading
  <2>2. call[c] # Idle /\ call[c] \in Running /\ call[c].at # "save" /\ Shape(call[c])
    BY <1>1, <2>1, CallIs DEF Uploading, CallsOK
  <2>3. QED
    BY <2>1, <2>2 DEF Shape, Running
<1>3. CASE Presigned(c)
  <2>1. CASE call[c].index <= Len(photos)
    <3>1. call[c].index \in DOMAIN photos
      <4>1. call[c].index \in Nat \ {0}
        BY <1>1, <1>2, <1>3, CallIs, FormAssumption DEF Presigned, Shape, Running
      <4>2. QED
        BY <1>1, <2>1, <4>1, LenProperties DEF TypeOK
    <3>2. PICK i \in DOMAIN photos : i = call[c].index
      BY <3>1
    <3>3. photos' = Marked(photos, i, "uploading")
      BY <1>3, <2>1, <3>2 DEF Presigned
    <3>4. photos' \in Seq(Photo) /\ Len(photos') = Len(photos)
      BY <1>1, <3>2, <3>3, MarkedIs DEF TypeOK, PhotoUploadStatus
    <3>5. CallsOK(call')
      <4>1. call' = [call EXCEPT ![c] = ToBucket(call[c])]
        BY <1>3, <2>1 DEF Presigned, ToBucket
      <4>2. ToBucket(call[c]) \in Running /\ Shape(ToBucket(call[c]))
        BY <1>2, <1>3, ToTransfer DEF Presigned
      <4>3. QED
        BY <1>1, <4>1, <4>2, PutCall
    <3>6. UNCHANGED <<page, edit, form, loading, server, made, calm, unread, faults>>
      BY <1>3, <2>1 DEF Presigned
    <3>7. QED
      BY <1>1, <3>4, <3>5, <3>6 DEF server, TypeInv, TypeOK, CallShape, CallsOK
  <2>2. CASE ~(call[c].index <= Len(photos))
    <3>1. OutOfRange(c)
      BY <1>3, <2>2 DEF Presigned
    <3>2. CallsOK(call') /\ form' \in FormType /\ UNCHANGED <<page, photos>>
      BY <3>1, OutOfRangeType
    <3>3. UNCHANGED <<edit, loading, server, made, calm, unread, faults>>
      BY <1>3 DEF Presigned
    <3>4. QED
      BY <1>1, <3>2, <3>3 DEF server, TypeInv, TypeOK, CallShape, CallsOK, FormType
  <2>3. QED
    BY <2>1, <2>2
<1>4. CASE Transferred(c) \/ UploadFails(c)
  <2>1. PICK status \in {"confirmed", "failed"} : Settle(c, status)
    BY <1>4 DEF Transferred, UploadFails
  <2>2. /\ page' \in {"closed", "category", "details", "photos", "review"}
        /\ form' \in FormType /\ photos' \in Seq(Photo) /\ Len(photos') <= MaxPhotos
        /\ CallsOK(call')
    BY <1>2, <2>1, SettleType
  <2>3. stored' \in SUBSET (Listing \X File)
    BY <1>1, <1>2, <1>4 DEF Transferred, UploadFails, Confirm, TypeOK
  <2>4. faults' \in 0 .. MaxMishaps
    BY <1>1, <1>4, FaultType DEF Transferred, UploadFails, TypeOK
  <2>5. UNCHANGED <<edit, loading, listed, made, calm, unread>>
    BY <1>4 DEF Transferred, UploadFails
  <2>6. QED
    BY <1>1, <2>2, <2>3, <2>4, <2>5 DEF TypeInv, TypeOK, CallShape, CallsOK, FormType
<1>5. QED
  BY <1>3, <1>4

LEMMA TypeStep == TypeInv /\ [Next]_vars => TypeInv'
<1>. SUFFICES ASSUME TypeInv, [Next]_vars PROVE TypeInv'
  OBVIOUS
<1>1. CASE UNCHANGED vars
  BY <1>1 DEF vars, server, TypeInv, TypeOK, CallShape
<1>2. CASE Next
  BY <1>2, ScreenType, PhotoType, SubmitType, UploadType DEF Next
<1>3. QED
  BY <1>1, <1>2

LEMMA TypeAlways == Spec => []TypeInv
BY TypeInit, TypeStep, PTL DEF Spec

\* Type correctness: the wizard's indices stay within its photos' bound and what its
\* coroutines carry fits the await they are suspended at.
THEOREM FormTypeOK == Spec => []TypeOK
<1>1. TypeInv => TypeOK
  BY DEF TypeInv
<1>2. QED
  BY <1>1, TypeAlways, PTL

-----------------------------------------------------------------------------
(* The submit button comes back.                                            *)

\* No submit that awaits its save is ended, nor the button disabled.
LEMMA SubmitsKept ==
  ASSUME SubmittingAwaits, form'.submitting => form.submitting, unread' = unread,
         \A d \in Call : call[d].kind = "submit" /\ call[d].at = "save"
                           => call'[d].kind = "submit" /\ call'[d].at = "save"
  PROVE  SubmittingAwaits'
BY DEF SubmittingAwaits, Saving

LEMMA AwaitsStep == TypeInv /\ SubmittingAwaits /\ [Next]_vars => SubmittingAwaits'
<1>. SUFFICES ASSUME TypeInv, SubmittingAwaits, [Next]_vars PROVE SubmittingAwaits'
  OBVIOUS
<1>1. TypeOK /\ CallsOK(call) /\ call \in [Call -> Running \union {Idle}]
  BY TypeInvIs DEF CallsOK
<1>2. CASE UNCHANGED vars
  BY <1>2 DEF vars, SubmittingAwaits, Saving
<1>3. CASE OpenNew \/ OpenEdit \/ Loaded \/ LoadFails \/ Continue \/ Autofill \/ RemovePhoto
  <2>1. call' = call /\ unread' = unread
    BY <1>3 DEF OpenNew, OpenEdit, Loaded, LoadFails, Continue, Autofill, RemovePhoto
  <2>2. form'.submitting => form.submitting
    BY <1>1, <1>3
    DEF OpenNew, OpenEdit, Loaded, LoadFails, Continue, Autofill, RemovePhoto, EmptyForm, TypeOK
  <2>3. QED
    BY <2>1, <2>2, SubmitsKept
<1>4. CASE Close \/ Back
  <2>1. LeavePage /\ form' = form /\ unread' = unread
    BY <1>4 DEF Close, Back
  <2>2. QED
    BY <1>1, <2>1, LeavePageIs, SubmitsKept
<1>5. CASE FillIn \/ PickPhoto
  <2>1. unread' = unread /\ form'.submitting = form.submitting
    BY <1>1, <1>5 DEF FillIn, PickPhoto, TypeOK
  <2>2. call' = call \/ \E c \in Call \ Busy : \E k : call' = [call EXCEPT ![c] = k]
    BY <1>5 DEF FillIn, PickPhoto
  <2>3. \A d \in Call : call[d].kind = "submit" => d \in Busy
    BY <1>1, CallIs DEF Busy
  <2>4. QED
    BY <1>1, <2>1, <2>2, <2>3, SubmitsKept
<1>6. ASSUME NEW c \in Call, CreateAnswered(c) \/ CreateFails(c) PROVE SubmittingAwaits'
  <2>1. unread' = unread /\ form'.submitting = form.submitting
    BY <1>1, <1>6 DEF CreateAnswered, CreateFails, TypeOK
  <2>2. call[c].kind # "submit" /\ call' = [call EXCEPT ![c] = Idle]
    BY <1>6 DEF CreateAnswered, CreateFails
  <2>3. QED
    BY <1>1, <2>1, <2>2, SubmitsKept
<1>7. ASSUME NEW c \in Call, Presigned(c) PROVE SubmittingAwaits'
  <2>1. call[c].at # "save" /\ unread' = unread
    BY <1>7 DEF Presigned
  <2>2. \E k : call' = [call EXCEPT ![c] = k]
    <3>1. CASE call[c].index <= Len(photos)
      <4>1. call' = [call EXCEPT ![c] = ToBucket(call[c])]
        BY <1>7, <3>1 DEF Presigned, ToBucket
      <4>2. QED
        BY <4>1
    <3>2. CASE ~(call[c].index <= Len(photos))
      BY <1>7, <3>2 DEF Presigned, OutOfRange
    <3>3. QED
      BY <3>1, <3>2
  <2>3. form'.submitting => form.submitting
    BY <1>1, <1>7 DEF Presigned, OutOfRange, TypeOK
  <2>4. QED
    BY <1>1, <2>1, <2>2, <2>3, SubmitsKept
<1>8. ASSUME NEW c \in Call, Transferred(c) \/ UploadFails(c) PROVE SubmittingAwaits'
  <2>1. c \in Uploading /\ call[c].at # "save" /\ unread' = unread
    BY <1>8 DEF Transferred, UploadFails, Uploading
  <2>2. PICK status \in {"confirmed", "failed"} : Settle(c, status)
    BY <1>8 DEF Transferred, UploadFails
  <2>3. CASE OutOfRange(c)
    BY <1>1, <2>1, <2>3, SubmitsKept DEF OutOfRange, TypeOK
  <2>4. CASE ~OutOfRange(c)
    <3>1. PICK pid, phs : GoesOn(c, pid, form, phs) \/ Closes(c, form) \/ Ends(c, form, phs)
      BY <2>1, <2>2, <2>4, SettleIs
    <3>2. CASE GoesOn(c, pid, form, phs) \/ Ends(c, form, phs)
      BY <1>1, <2>1, <3>2, SubmitsKept DEF GoesOn, Ends
    <3>3. CASE Closes(c, form)
      BY <3>3 DEF Closes, EmptyForm, SubmittingAwaits
    <3>4. QED
      BY <3>1, <3>2, <3>3
  <2>5. QED
    BY <2>3, <2>4
<1>9. ASSUME NEW c \in Call, Submit(c) PROVE SubmittingAwaits'
  <2>1. call' = [call EXCEPT ![c] = [Idle EXCEPT !.kind = "submit", !.at = "save",
                                                 !.pid = form.id, !.here = TRUE]]
    BY <1>9 DEF Submit
  <2>2. call'[c].kind = "submit" /\ call'[c].at = "save"
    BY <1>1, <2>1, NewSubmit DEF TypeOK
  <2>3. QED
    BY <2>2 DEF SubmittingAwaits, Saving
<1>10. ASSUME NEW c \in Call, SaveAnswered(c) PROVE SubmittingAwaits'
  <2>1. PICK p \in Listing, frm \in FormType :
          ~frm.submitting /\ Finish(c, p, frm, photos, 1)
    BY <1>1, <1>10 DEF SaveAnswered, TypeOK, FormType
  <2>2. form' = frm \/ form' = EmptyForm
    BY <2>1 DEF Finish
  <2>3. QED
    BY <2>1, <2>2 DEF EmptyForm, SubmittingAwaits
<1>11. ASSUME NEW c \in Call, SaveFails(c) PROVE SubmittingAwaits'
  BY <1>1, <1>11 DEF SaveFails, SubmittingAwaits, TypeOK
<1>12. QED
  BY <1>2, <1>3, <1>4, <1>5, <1>6, <1>7, <1>8, <1>9, <1>10, <1>11 DEF Next

\* The submit button is disabled only while a submit awaits the API, unless the last submit
\* ended with an error that is no JSON: the code re-enables it on every other path, whatever
\* was loaded, closed or removed meanwhile.
THEOREM ButtonComesBack == Spec => []SubmittingAwaits
<1>1. Init => SubmittingAwaits
  BY DEF Init, EmptyForm, SubmittingAwaits
<1>2. QED
  BY <1>1, TypeAlways, AwaitsStep, PTL DEF Spec

-----------------------------------------------------------------------------
(* One listing per form, and what its photos say of the server.             *)

LEMMA BusyIs ==
  ASSUME CallsOK(call)
  PROVE  /\ \A d \in Call : d \in Busy <=> d \in Saving \/ d \in Uploading
         /\ \A d \in Call : call[d].pid # None => d \in Busy
         /\ \A d \in Uploading : call[d].pid # None
BY CallIs DEF CallsOK, Busy, Saving, Uploading, Shape

LEMMA BusyNext ==
  ASSUME CallsOK(call')
  PROVE  /\ \A d \in Call : d \in Busy' <=> d \in Saving' \/ d \in Uploading'
         /\ \A d \in Call : call'[d].pid # None => d \in Busy'
         /\ \A d \in Uploading' : call'[d].pid # None
BY CallIs DEF CallsOK, Busy, Saving, Uploading, Shape

\* While the form of a calm screen keeps its listing, its coroutines may end or move on, and
\* uploads to that listing may start.
LEMMA Carried ==
  ASSUME TypeInv, CallsOK(call'), FormInv, calm, page # "closed", page' # "closed",
         page' = page \/ (page # "category" /\ page' # "category"),
         edit' = edit, made' = made, form'.id = form.id, loading' = loading,
         stored \subseteq stored', page' = "category" => photos' = photos,
         \A i \in DOMAIN photos : i \in DOMAIN photos' /\ photos'[i].file = photos[i].file,
         \A i \in DOMAIN photos' : photos'[i].status = "confirmed" =>
            \/ i \in DOMAIN photos /\ photos[i].status = "confirmed"
            \/ <<form.id, photos'[i].file>> \in stored',
         \A d \in Call :
            \/ call'[d] = Idle
            \/ call[d].at = "save" /\ call'[d].at = "save" /\ call'[d].pid = call[d].pid
            \/ /\ call[d].at \in {"presign", "transfer"} /\ call'[d].at \in {"presign", "transfer"}
               /\ call'[d].pid = call[d].pid /\ call'[d].index = call[d].index /\ call'[d].file = call[d].file
            \/ /\ page' # "category" /\ call'[d].at \in {"presign", "transfer"} /\ call'[d].pid = form.id
               /\ call'[d].index \in DOMAIN photos' /\ photos'[call'[d].index].file = call'[d].file
  PROVE  FormInv'
<1>1. CallsOK(call)
  BY TypeInvIs
<1>2. OnScreen /\ OneListingPerForm /\ ConfirmedIsStored
  BY DEF FormInv
<1>3. Idle.at = "idle" /\ Idle.pid = None
  BY DEF Idle
<1>4. \A d \in Saving' : d \in Saving /\ call'[d].pid = call[d].pid
  BY <1>3 DEF Saving
<1>5. \A d \in Uploading' :
        /\ call'[d].pid = form.id
        /\ call'[d].index \in DOMAIN photos'
        /\ photos'[call'[d].index].file = call'[d].file
  BY <1>2, <1>3 DEF OnScreen, Uploading
<1>6. page' = "category" => Busy' = {}
  BY <1>1, <1>2, <1>3, BusyIs, BusyNext DEF OnScreen, Uploading, Saving, Busy
<1>7. OnScreen'
  BY <1>2, <1>4, <1>5, <1>6 DEF OnScreen, Creating
<1>8. OneListingPerForm'
  <2>1. \A d \in Busy' : call'[d].pid # None => call'[d].pid = form.id
    BY <1>2, <1>4, <1>5, BusyNext DEF OnScreen, Creating, Busy
  <2>2. QED
    BY <1>2, <2>1 DEF OnScreen, OneListingPerForm
<1>9. ConfirmedIsStored'
  BY <1>2 DEF ConfirmedIsStored
<1>10. QED
  BY <1>7, <1>8, <1>9 DEF FormInv

\* Once the screen is closed and nothing creates, coroutines end or go on with their listing.
LEMMA CarriedOff ==
  ASSUME TypeInv, CallsOK(call'), FormInv, calm, page' = "closed", edit' = edit, made' = made,
         Creating = {},
         \A d \in Call :
            \/ call'[d] = Idle
            \/ call'[d].pid = call[d].pid /\ (call'[d].at = "save" => call[d].at = "save")
  PROVE  FormInv'
<1>1. CallsOK(call)
  BY TypeInvIs
<1>2. OneListingPerForm
  BY DEF FormInv
<1>3. Idle.at = "idle" /\ Idle.pid = None
  BY DEF Idle
<1>4. Creating' = {}
  BY <1>3 DEF Creating, Saving
<1>5. \A d \in Busy' : call'[d].pid # None => d \in Busy /\ call'[d].pid = call[d].pid
  BY <1>1, <1>3, BusyIs DEF Busy
<1>6. OneListingPerForm'
  BY <1>2, <1>5 DEF OneListingPerForm
<1>7. QED
  BY <1>4, <1>6 DEF FormInv, OnScreen, ConfirmedIsStored

\* While a calm form awaits its creation nothing else is under way and no photo is confirmed.
LEMMA CreatingAlone ==
  ASSUME TypeInv, FormInv, calm, NEW c \in Creating
  PROVE  /\ page \notin {"closed", "category"} /\ form.id = None /\ edit = None /\ made = {}
         /\ \A d \in Call \ {c} : call[d] = Idle
         /\ \A i \in DOMAIN photos : photos[i].status # "confirmed"
<1>1. CallsOK(call) /\ TypeOK
  BY TypeInvIs
<1>2. c \in Call /\ c \in Saving /\ c \in Busy
  BY <1>1, BusyIs DEF Creating, Saving
<1>3. page # "closed"
  BY DEF FormInv
<1>4. OnScreen /\ ConfirmedIsStored
  BY DEF FormInv
<1>5. page # "category" /\ form.id = None /\ edit = None /\ made = {}
  BY <1>2, <1>3, <1>4 DEF OnScreen
<1>6. Uploading = {}
  BY <1>1, <1>3, <1>4, <1>5, BusyIs DEF OnScreen
<1>7. \A d \in Saving : d = c
  BY <1>2, <1>3, <1>4 DEF OnScreen
<1>8. \A d \in Call \ {c} : call[d] = Idle
  BY <1>1, <1>6, <1>7, BusyIs DEF Busy
<1>9. \A f : <<None, f>> \notin stored
  BY <1>1, FormAssumption DEF TypeOK
<1>10. \A i \in DOMAIN photos : photos[i].status # "confirmed"
  BY <1>3, <1>4, <1>5, <1>9 DEF ConfirmedIsStored
<1>11. QED
  BY <1>3, <1>5, <1>8, <1>10

\* Its answer gives the form its listing.
LEMMA Fresh ==
  ASSUME TypeInv, CallsOK(call'), FormInv, calm, NEW c \in Creating, NEW p \in Listing,
         Created(p), edit' = edit,
         \A d \in Call \ {c} : call'[d].at = call[d].at /\ call'[d].pid = call[d].pid,
         \/ page' = "closed" /\ call'[c] = Idle
         \/ /\ page' = page /\ form'.id = p
            /\ \A i \in DOMAIN photos' : photos'[i].status # "confirmed"
            /\ \/ call'[c] = Idle
               \/ /\ call'[c].at = "presign" /\ call'[c].pid = p /\ call'[c].index \in DOMAIN photos'
                  /\ photos'[call'[c].index].file = call'[c].file
  PROVE  FormInv'
<1>1. /\ page \notin {"closed", "category"} /\ form.id = None /\ edit = None /\ made = {}
      /\ \A d \in Call \ {c} : call[d] = Idle
  BY CreatingAlone
<1>2. made' = {p} /\ p # None
  BY <1>1, FormAssumption DEF Created
<1>3. Idle.at = "idle" /\ Idle.pid = None
  BY DEF Idle
<1>4. \A d \in Call \ {c} : d \notin Saving' /\ d \notin Uploading' /\ d \notin Busy'
  BY <1>1, <1>3, BusyNext DEF Saving, Uploading
<1>5. c \in Call
  BY DEF Creating, Saving
<1>6. c \notin Saving' /\ Saving' = {}
  BY <1>3, <1>4 DEF Saving
<1>7. OneListingPerForm'
  BY <1>1, <1>2, <1>3, <1>4 DEF OneListingPerForm, Busy
<1>8. OnScreen' /\ ConfirmedIsStored'
  BY <1>1, <1>2, <1>3, <1>4, <1>5, <1>6 DEF OnScreen, ConfirmedIsStored, Creating, Uploading, Busy
<1>9. QED
  BY <1>6, <1>7, <1>8 DEF FormInv, Creating

\* The screen opens, or a listing is loaded into it.
LEMMA OpenStep ==
  ASSUME TypeInv, FormInv, calm', OpenNew \/ OpenEdit \/ Loaded
  PROVE  FormInv'
<1>1. CallsOK(call) /\ CallsOK(call') /\ call' = call /\ page' = "category"
  BY TypeInvIs DEF OpenNew, OpenEdit, Open, Loaded
<1>2. Busy = {} /\ photos' = <<>> /\ made' = {} /\ (form'.id = None \/ form'.id = edit')
      /\ (edit' # None => form'.id = edit' \/ edit' \in loading')
  <2>1. CASE OpenNew \/ OpenEdit
    <3>1. PICK p : Open(p) /\ (p # None => p \in loading') /\ UNCHANGED <<form, photos>>
      BY <2>1 DEF OpenNew, OpenEdit
    <3>2. form = EmptyForm /\ photos = <<>> /\ Busy = {} /\ edit' = p /\ made' = {}
      BY <3>1, Zenon DEF Open
    <3>3. form'.id = None
      BY <3>1, <3>2 DEF EmptyForm
    <3>4. QED
      BY <3>1, <3>2, <3>3
  <2>2. CASE Loaded
    <3>1. calm /\ page = "category" /\ OnScreen
      BY <2>2 DEF Loaded, FormInv
    <3>2. Busy = {} /\ made = {}
      BY <3>1 DEF OnScreen
    <3>3. QED
      BY <2>2, <3>2 DEF Loaded, EmptyForm
  <2>3. QED
    BY <2>1, <2>2
<1>3. Saving' = {} /\ Uploading' = {} /\ Busy' = {} /\ Creating' = {}
  BY <1>1, <1>2, BusyIs DEF Saving, Uploading, Busy, Creating
<1>4. OnScreen'
  BY <1>1, <1>2, <1>3 DEF OnScreen
<1>5. OneListingPerForm' /\ ConfirmedIsStored'
  BY <1>1, <1>2, <1>3 DEF OneListingPerForm, ConfirmedIsStored
<1>6. QED
  BY <1>1, <1>4, <1>5 DEF FormInv

\* The user turns the pages of the wizard.
LEMMA PageStep ==
  ASSUME TypeInv, CallsOK(call'), FormInv, calm, Back \/ Continue \/ Autofill
  PROVE  FormInv'
<1>1. TypeOK /\ CallsOK(call)
  BY TypeInvIs
<1>2. /\ page \in {"photos", "review"} /\ page' \in {"details", "photos", "review"}
      /\ UNCHANGED <<edit, photos, loading, server, made, calm>> /\ form'.id = form.id
  BY <1>1 DEF Back, Continue, Autofill, TypeOK
<1>3. \A d \in Call : /\ call'[d].at = call[d].at /\ call'[d].pid = call[d].pid
                      /\ call'[d].index = call[d].index /\ call'[d].file = call[d].file
  BY <1>1, LeavePageIs DEF Back, Continue, Autofill
<1>4. \A d \in Call : \/ call'[d] = Idle
                      \/ call'[d].at = "save" /\ call[d].at = "save"
                      \/ call'[d].at \in {"presign", "transfer"} /\ call[d].at \in {"presign", "transfer"}
  BY <1>1, <1>3, CallIs DEF CallsOK
<1>5. QED
  BY <1>2, <1>3, <1>4, Carried DEF server, FormInv, ConfirmedIsStored

\* The fields are stored, and a draft may be created.
LEMMA FillInStep ==
  ASSUME TypeInv, CallsOK(call'), FormInv, calm', FillIn
  PROVE  FormInv'
<1>1. TypeOK /\ CallsOK(call) /\ OnScreen /\ OneListingPerForm /\ ConfirmedIsStored
  BY TypeInvIs DEF FormInv
<1>2. /\ calm /\ loading = {} /\ page \in {"category", "details"} /\ page' = "photos"
      /\ UNCHANGED <<edit, photos, loading, server, made>> /\ form'.id = form.id
  BY <1>1 DEF FillIn, TypeOK
<1>3. /\ form.id = None => made = {}
      /\ form.id # None => form.id = edit \/ form.id \in made
      /\ edit # None => form.id = edit
  BY <1>1, <1>2 DEF OnScreen
<1>4. CASE call' = call
  <2>1. OnScreen'
    BY <1>1, <1>2, <1>3, <1>4 DEF OnScreen, Saving, Creating, Uploading
  <2>2. OneListingPerForm' /\ ConfirmedIsStored'
    BY <1>1, <1>2, <1>4 DEF OneListingPerForm, ConfirmedIsStored, server, Busy
  <2>3. QED
    BY <1>2, <2>1, <2>2 DEF FormInv
<1>5. CASE call' # call
  <2>1. PICK c \in Call \ Busy :
          call' = [call EXCEPT ![c] = [Idle EXCEPT !.kind = "create", !.at = "save"]]
    BY <1>5 DEF FillIn
  <2>2. Saving = {} /\ form.id = None /\ edit = None /\ made = {}
    BY <1>3, <1>5 DEF FillIn
  <2>3. /\ call'[c].at = "save" /\ call'[c].pid = None
        /\ \A d \in Call \ {c} : call'[d] = call[d]
    BY <1>1, <2>1, NewCreate DEF CallsOK
  <2>4. Saving' = {c} /\ Uploading' = Uploading
    BY <1>1, <2>1, <2>2, <2>3, BusyIs DEF Saving, Uploading
  <2>5. OnScreen'
    BY <1>1, <1>2, <2>2, <2>3, <2>4 DEF OnScreen, Creating, Uploading
  <2>6. OneListingPerForm' /\ ConfirmedIsStored'
    BY <1>1, <1>2, <2>3 DEF OneListingPerForm, ConfirmedIsStored, server, Busy
  <2>7. QED
    BY <1>2, <2>5, <2>6 DEF FormInv
<1>6. QED
  BY <1>4, <1>5

\* A photo is picked.
LEMMA PickStep ==
  ASSUME TypeInv, CallsOK(call'), FormInv, calm, PickPhoto
  PROVE  FormInv'
<1> DEFINE pid == IF form.id # None THEN form.id ELSE edit
<1>1. TypeOK /\ CallsOK(call) /\ OnScreen /\ photos \in Seq(Photo)
  BY TypeInvIs DEF FormInv, TypeOK
<1>2. /\ page = "photos" /\ UNCHANGED <<page, edit, form, loading, server, made, calm>>
  BY DEF PickPhoto
<1>3. pid = form.id
  BY <1>1, <1>2 DEF OnScreen
<1>4. PICK f \in File, c \in Call \ Busy :
        \/ photos' = Append(photos, [file |-> f, status |-> "pending"]) /\ UNCHANGED call
        \/ /\ photos' = Append(photos, [file |-> f, status |-> "uploading"])
           /\ call' = [call EXCEPT ![c] = Upload(pid, Len(photos) + 1, f)]
  BY DEF PickPhoto, Upload
<1>5. PICK st \in {"pending", "uploading"} : photos' = Append(photos, [file |-> f, status |-> st])
  BY <1>4
<1>6. PICK e \in Photo : e = [file |-> f, status |-> st]
  BY DEF Photo, PhotoUploadStatus
<1>7. /\ Len(photos) \in Nat /\ DOMAIN photos = 1 .. Len(photos) /\ DOMAIN photos' = 1 .. Len(photos) + 1
      /\ \A i \in DOMAIN photos : photos'[i] = photos[i]
      /\ photos'[Len(photos) + 1] = e
  BY <1>1, <1>5, <1>6, AppendProperties, LenProperties
<1>8. e.file = f /\ e.status # "confirmed"
  BY <1>6
<1>9. \A i \in DOMAIN photos : i \in DOMAIN photos' /\ photos'[i].file = photos[i].file
  BY <1>7
<1>10. \A i \in DOMAIN photos' : photos'[i].status = "confirmed" =>
         i \in DOMAIN photos /\ photos[i].status = "confirmed"
  BY <1>7, <1>8
<1>11. ASSUME NEW d \in Call
       PROVE  \/ call'[d] = call[d]
              \/ /\ call'[d].at = "presign" /\ call'[d].pid = form.id /\ call'[d].file = f
                 /\ call'[d].index = Len(photos) + 1
  <2>1. CASE call' = call
    BY <2>1
  <2>2. CASE call' # call
    <3>1. call' = [call EXCEPT ![c] = Upload(pid, Len(photos) + 1, f)]
      BY <1>4, <2>2
    <3>2. call'[d] = call[d] \/ call'[d] = Upload(pid, Len(photos) + 1, f)
      BY <1>1, <3>1 DEF CallsOK
    <3>3. QED
      BY <1>3, <3>2 DEF Upload
  <2>3. QED
    BY <2>1, <2>2
<1>12. \A d \in Call : call[d] = Idle \/ call[d].at \in {"save", "presign", "transfer"}
  BY <1>1, CallIs DEF CallsOK
<1>13. Len(photos) + 1 \in DOMAIN photos' /\ photos'[Len(photos) + 1].file = f
  BY <1>7, <1>8
<1>. HIDE DEF pid
<1>14. ASSUME NEW d \in Call
       PROVE  \/ call'[d] = Idle
              \/ call[d].at = "save" /\ call'[d].at = "save" /\ call'[d].pid = call[d].pid
              \/ /\ call[d].at \in {"presign", "transfer"} /\ call'[d].at \in {"presign", "transfer"}
                 /\ call'[d].pid = call[d].pid /\ call'[d].index = call[d].index /\ call'[d].file = call[d].file
              \/ /\ page' # "category" /\ call'[d].at \in {"presign", "transfer"} /\ call'[d].pid = form.id
                 /\ call'[d].index \in DOMAIN photos' /\ photos'[call'[d].index].file = call'[d].file
  BY <1>2, <1>11, <1>12, <1>13
<1>15. QED
  BY <1>2, <1>9, <1>10, <1>14, Carried DEF server

\* A photo is removed while none is being uploaded.
LEMMA RemoveStep ==
  ASSUME TypeInv, CallsOK(call'), FormInv, calm', RemovePhoto
  PROVE  FormInv'
<1>1. TypeOK /\ CallsOK(call) /\ OnScreen /\ OneListingPerForm /\ ConfirmedIsStored /\ photos \in Seq(Photo)
  BY TypeInvIs DEF FormInv, TypeOK, RemovePhoto
<1>2. /\ calm /\ Uploading = {} /\ page = "photos"
      /\ UNCHANGED <<page, edit, form, call, loading, server, made>>
  BY DEF RemovePhoto
<1>3. \A j \in DOMAIN photos' : \E k \in DOMAIN photos : photos'[j] = photos[k]
  BY <1>1, RemoveAtIn DEF RemovePhoto
<1>4. ConfirmedIsStored'
  BY <1>1, <1>2, <1>3 DEF ConfirmedIsStored, server
<1>5. OnScreen' /\ OneListingPerForm'
  BY <1>1, <1>2 DEF OnScreen, OneListingPerForm, Saving, Creating, Uploading, Busy
<1>6. QED
  BY <1>2, <1>4, <1>5 DEF FormInv

\* A creation ends.
LEMMA CreateStep ==
  ASSUME TypeInv, CallsOK(call'), FormInv, calm', NEW c \in Call, CreateAnswered(c) \/ CreateFails(c)
  PROVE  FormInv'
<1>1. TypeOK /\ CallsOK(call)
  BY TypeInvIs
<1>2. call[c] # Idle /\ call[c].at = "save" /\ call[c].pid = None
  BY <1>1, CallIs DEF CreateAnswered, CreateFails, CallsOK, Shape
<1>3. /\ c \in Creating /\ calm /\ UNCHANGED <<page, edit, photos, loading, stored>>
      /\ call' = [call EXCEPT ![c] = Idle]
  BY <1>2 DEF Creating, Saving, CreateAnswered, CreateFails
<1>4. call'[c] = Idle /\ \A d \in Call \ {c} : call'[d] = call[d]
  BY <1>1, <1>3 DEF CallsOK
<1>5. /\ page \notin {"closed", "category"} /\ form.id = None
      /\ \A d \in Call \ {c} : call[d] = Idle
      /\ \A i \in DOMAIN photos : photos[i].status # "confirmed"
  BY <1>3, CreatingAlone
<1>6. CASE CreateAnswered(c)
  <2>1. PICK p \in Listing : Created(p) /\ form' = [form EXCEPT !.id = p]
    BY <1>6 DEF CreateAnswered
  <2>2. form'.id = p
    BY <1>1, <2>1 DEF TypeOK
  <2>3. QED
    BY <1>3, <1>4, <1>5, <2>1, <2>2, Fresh
<1>7. CASE CreateFails(c)
  <2>1. made' = made /\ form' = form
    BY <1>7 DEF CreateFails
  <2>2. QED
    BY <1>3, <1>4, <1>5, <2>1, Carried
<1>8. QED
  BY <1>6, <1>7

\* A coroutine ends and nothing else changes.
LEMMA EndStep ==
  ASSUME TypeInv, CallsOK(call'), FormInv, calm, NEW c \in Call, call[c] # Idle,
         call' = [call EXCEPT ![c] = Idle], form'.id = form.id, stored \subseteq stored',
         UNCHANGED <<page, edit, photos, loading, made>>
  PROVE  FormInv'
<1>1. CallsOK(call)
  BY TypeInvIs
<1>2. call'[c] = Idle /\ \A d \in Call \ {c} : call'[d] = call[d]
  BY <1>1 DEF CallsOK
<1>3. \A d \in Call : call[d] = Idle \/ call[d].at \in {"save", "presign", "transfer"}
  BY <1>1, CallIs DEF CallsOK
<1>4. CASE page = "closed"
  <2>1. Creating = {}
    BY <1>4 DEF FormInv
  <2>2. QED
    BY <1>2, <1>4, <2>1, CarriedOff
<1>5. CASE page # "closed"
  BY <1>2, <1>3, <1>5, Carried DEF FormInv, ConfirmedIsStored
<1>6. QED
  BY <1>4, <1>5

\* An attempt on a photo, or a save, ends: the submit goes on, closes the screen or ends.
\* `id` is the listing of the form from here on.
LEMMA FinishStep ==
  ASSUME TypeInv, CallsOK(call'), FormInv, calm, NEW c \in Call, call[c] # Idle, c \notin Creating,
         NEW frm, frm.id = form.id \/ page = "closed", NEW phs \in Seq(Photo),
         GoesOn(c, call[c].pid, frm, phs) \/ Closes(c, frm) \/ Ends(c, frm, phs),
         UNCHANGED <<edit, loading, made>>, stored \subseteq stored',
         DOMAIN phs = DOMAIN photos,
         \A i \in DOMAIN photos : phs[i].file = photos[i].file,
         page # "closed" =>
           \A i \in DOMAIN photos : phs[i].status = "confirmed" =>
              photos[i].status = "confirmed" \/ <<form.id, phs[i].file>> \in stored'
  PROVE  FormInv'
<1>1. TypeOK /\ CallsOK(call) /\ OnScreen
  BY TypeInvIs DEF FormInv
<1>2. \A d \in Call : call[d] = Idle \/ call[d].at \in {"save", "presign", "transfer"}
  BY <1>1, CallIs DEF CallsOK
<1>3. page # "closed" => page # "category" /\ call[c].pid = form.id
  BY <1>1, BusyIs DEF OnScreen, Busy
<1>4. CASE page = "closed" \/ Closes(c, frm)
  <2>1. page' = "closed"
    BY <1>4 DEF GoesOn, Closes, Ends
  <2>2. Creating = {}
    <3>1. CASE page = "closed"
      BY <3>1 DEF FormInv
    <3>2. CASE page # "closed"
      <4>1. form.id # None
        BY <1>4, <3>2 DEF Closes
      <4>2. QED
        BY <1>1, <3>2, <4>1 DEF OnScreen
    <3>3. QED
      BY <3>1, <3>2
  <2>3. ASSUME NEW d \in Call
        PROVE  call'[d] = Idle \/ (call'[d].pid = call[d].pid /\ (call'[d].at = "save" => call[d].at = "save"))
    <3>1. CASE GoesOn(c, call[c].pid, frm, phs)
      BY <1>1, <3>1 DEF GoesOn, CallsOK
    <3>2. CASE Closes(c, frm)
      BY <1>1, <3>2, ClosedCalls
    <3>3. CASE Ends(c, frm, phs)
      BY <1>1, <3>3 DEF Ends, CallsOK
    <3>4. QED
      BY <3>1, <3>2, <3>3
  <2>4. QED
    BY <2>1, <2>2, <2>3, CarriedOff
<1>5. CASE page # "closed" /\ ~Closes(c, frm)
  <2>1. page' = page /\ page # "category" /\ form'.id = form.id
    BY <1>3, <1>5 DEF GoesOn, Ends
  <2>2. /\ DOMAIN photos' = DOMAIN photos
        /\ \A i \in DOMAIN photos : photos'[i].file = photos[i].file
        /\ \A i \in DOMAIN photos : photos'[i].status = "confirmed" =>
              photos[i].status = "confirmed" \/ <<form.id, photos'[i].file>> \in stored'
    <3>1. CASE GoesOn(c, call[c].pid, frm, phs)
      <4>1. PICK n \in DOMAIN phs : photos' = Marked(phs, n, "uploading")
        BY <3>1 DEF GoesOn
      <4>2. /\ DOMAIN photos' = DOMAIN phs
            /\ \A i \in DOMAIN phs : /\ photos'[i].file = phs[i].file
                                     /\ photos'[i].status = IF i = n THEN "uploading" ELSE phs[i].status
        <5>1. PICK st \in PhotoUploadStatus : st = "uploading"
          BY DEF PhotoUploadStatus
        <5>2. photos' = Marked(phs, n, st)
          BY <4>1, <5>1
        <5>3. /\ DOMAIN photos' = DOMAIN phs
              /\ \A i \in DOMAIN phs : /\ photos'[i].file = phs[i].file
                                       /\ photos'[i].status = IF i = n THEN st ELSE phs[i].status
          BY <5>2, MarkedIs
        <5>4. QED
          BY <5>1, <5>3
      <4>3. QED
        BY <1>5, <4>2
    <3>2. CASE Ends(c, frm, phs)
      BY <1>5, <3>2 DEF Ends
    <3>3. QED
      BY <1>5, <3>1, <3>2
  <2>3. /\ \/ call'[c] = Idle
           \/ /\ call'[c].at = "presign" /\ call'[c].pid = form.id
              /\ call'[c].index \in DOMAIN photos' /\ photos'[call'[c].index].file = call'[c].file
        /\ \A d \in Call \ {c} : call'[d] = call[d]
    <3>1. CASE GoesOn(c, call[c].pid, frm, phs)
      <4>1. PICK n \in DOMAIN phs, k \in Running :
              /\ k.at = "presign" /\ k.pid = call[c].pid /\ k.index = n /\ k.file = phs[n].file
              /\ call' = [call EXCEPT ![c] = k]
        BY <3>1 DEF GoesOn
      <4>2. call'[c] = k /\ \A d \in Call \ {c} : call'[d] = call[d]
        BY <1>1, <4>1 DEF CallsOK
      <4>3. QED
        BY <1>3, <1>5, <2>2, <4>1, <4>2
    <3>2. CASE Ends(c, frm, phs)
      BY <1>1, <3>2 DEF Ends, CallsOK
    <3>3. QED
      BY <1>5, <3>1, <3>2
  <2>4. ASSUME NEW d \in Call
        PROVE  \/ call'[d] = Idle
               \/ call[d].at = "save" /\ call'[d].at = "save" /\ call'[d].pid = call[d].pid
               \/ /\ call[d].at \in {"presign", "transfer"} /\ call'[d].at \in {"presign", "transfer"}
                  /\ call'[d].pid = call[d].pid /\ call'[d].index = call[d].index /\ call'[d].file = call[d].file
               \/ /\ page' # "category" /\ call'[d].at \in {"presign", "transfer"} /\ call'[d].pid = form.id
                  /\ call'[d].index \in DOMAIN photos' /\ photos'[call'[d].index].file = call'[d].file
    BY <1>2, <2>1, <2>3
  <2>5. QED
    BY <1>5, <2>1, <2>2, <2>4, Carried
<1>6. QED
  BY <1>4, <1>5

\* The bytes of a photo start for the bucket.
LEMMA PresignedStep ==
  ASSUME TypeInv, CallsOK(call'), FormInv, calm, NEW c \in Call, Presigned(c)
  PROVE  FormInv'
<1>1. TypeOK /\ CallsOK(call) /\ photos \in Seq(Photo) /\ OnScreen
  BY TypeInvIs DEF TypeOK, FormInv
<1>2. /\ c \in Uploading /\ call[c] # Idle /\ call[c] \in Running /\ Shape(call[c])
      /\ call[c].at = "presign" /\ call[c].index \in Nat \ {0}
  <2>1. call[c] # Idle /\ call[c] \in Running /\ Shape(call[c]) /\ call[c].at = "presign"
    BY <1>1, CallIs DEF Presigned, CallsOK
  <2>2. call[c].index \in 0 .. MaxPhotos /\ call[c].index # 0
    BY <2>1 DEF Running, Shape
  <2>3. QED
    BY <2>1, <2>2, FormAssumption DEF Uploading
<1>3. UNCHANGED <<edit, loading, server, made>>
  BY DEF Presigned
<1>4. CASE call[c].index <= Len(photos)
  <2>1. call[c].index \in DOMAIN photos
    BY <1>1, <1>2, <1>4, LenProperties
  <2>2. /\ photos' = Marked(photos, call[c].index, "uploading") /\ UNCHANGED <<page, form>>
        /\ call' = [call EXCEPT ![c] = ToBucket(call[c])]
    BY <1>4 DEF Presigned, ToBucket
  <2>3. /\ call'[c].at = "transfer" /\ call'[c].pid = call[c].pid
        /\ call'[c].index = call[c].index /\ call'[c].file = call[c].file
        /\ \A d \in Call \ {c} : call'[d] = call[d]
    BY <1>1, <1>2, <2>2, ToTransfer DEF CallsOK
  <2>4. /\ DOMAIN photos' = DOMAIN photos
        /\ \A i \in DOMAIN photos : photos'[i].file = photos[i].file
        /\ \A i \in DOMAIN photos : photos'[i].status = "confirmed" => photos[i].status = "confirmed"
    <3>1. PICK st \in PhotoUploadStatus : st = "uploading"
      BY DEF PhotoUploadStatus
    <3>2. PICK n \in DOMAIN photos : photos' = Marked(photos, n, st)
      BY <2>1, <2>2, <3>1
    <3>3. /\ DOMAIN photos' = DOMAIN photos
          /\ \A i \in DOMAIN photos : /\ photos'[i].file = photos[i].file
                                      /\ photos'[i].status = IF i = n THEN st ELSE photos[i].status
      BY <1>1, <3>2, MarkedIs
    <3>4. QED
      BY <3>1, <3>3
  <2>5. \A d \in Call : call[d] = Idle \/ call[d].at \in {"save", "presign", "transfer"}
    BY <1>1, CallIs DEF CallsOK
  <2>6. CASE page = "closed"
    <3>1. Creating = {}
      BY <2>6 DEF FormInv
    <3>2. QED
      BY <1>3, <2>2, <2>3, <2>6, <3>1, CarriedOff
  <2>7. CASE page # "closed"
    <3>1. page # "category"
      BY <1>1, <1>2, <2>7 DEF OnScreen, Busy, Uploading
    <3>2. QED
      BY <1>2, <1>3, <2>2, <2>3, <2>4, <2>5, <2>7, <3>1, Carried DEF server
  <2>8. QED
    BY <2>6, <2>7
<1>5. CASE ~(call[c].index <= Len(photos))
  <2>1. OutOfRange(c)
    BY <1>5 DEF Presigned
  <2>2. form'.id = form.id /\ UNCHANGED <<page, photos>> /\ call' = [call EXCEPT ![c] = Idle]
    BY <2>1, OutOfRangeType DEF OutOfRange
  <2>3. QED
    BY <1>2, <1>3, <2>2, EndStep DEF server
<1>6. QED
  BY <1>4, <1>5

\* An attempt on a photo is over.  The photo is marked as confirmed only if the server has it.
LEMMA SettleStep ==
  ASSUME TypeInv, CallsOK(call'), FormInv, calm, NEW c \in Call, Transferred(c) \/ UploadFails(c)
  PROVE  FormInv'
<1>1. TypeOK /\ CallsOK(call) /\ photos \in Seq(Photo) /\ OnScreen
  BY TypeInvIs DEF TypeOK, FormInv
<1>2. c \in Uploading /\ call[c] # Idle /\ c \notin Creating
  BY <1>1, BusyIs DEF Transferred, UploadFails, Uploading, Creating, Saving, Busy
<1>3. UNCHANGED <<edit, loading, listed, made>> /\ stored \subseteq stored'
  BY DEF Transferred, UploadFails, Confirm
<1>4. PICK status \in {"confirmed", "failed"} :
        /\ Settle(c, status)
        /\ status = "confirmed" => \/ call[c].index > Len(photos)
                                   \/ <<call[c].pid, call[c].file>> \in stored'
  BY DEF Transferred, UploadFails, Confirm
<1>5. CASE OutOfRange(c)
  <2>1. form'.id = form.id /\ UNCHANGED <<page, photos>> /\ call' = [call EXCEPT ![c] = Idle]
    BY <1>5, OutOfRangeType DEF OutOfRange
  <2>2. QED
    BY <1>2, <1>3, <2>1, EndStep
<1>6. CASE ~OutOfRange(c)
  <2>1. PICK phs \in Seq(Photo), n \in DOMAIN photos :
          /\ n = call[c].index /\ phs = Marked(photos, n, status)
          /\ GoesOn(c, call[c].pid, form, phs) \/ Closes(c, form) \/ Ends(c, form, phs)
    BY <1>2, <1>4, <1>6, SettleIs
  <2>2. status \in PhotoUploadStatus
    BY DEF PhotoUploadStatus
  <2>3. /\ DOMAIN phs = DOMAIN photos
        /\ \A i \in DOMAIN photos : /\ phs[i].file = photos[i].file
                                    /\ phs[i].status = IF i = n THEN status ELSE photos[i].status
    BY <1>1, <2>1, <2>2, MarkedIs
  <2>4. n <= Len(photos) /\ n \in Nat /\ Len(photos) \in Nat
    BY <1>1, LenProperties
  <2>5. status = "confirmed" => <<call[c].pid, call[c].file>> \in stored'
    BY <1>4, <2>1, <2>4
  <2>6. page # "closed" => call[c].pid = form.id /\ photos[n].file = call[c].file
    BY <1>1, <1>2, <2>1 DEF OnScreen
  <2>7. page # "closed" =>
          \A i \in DOMAIN photos : phs[i].status = "confirmed" =>
             photos[i].status = "confirmed" \/ <<form.id, phs[i].file>> \in stored'
    BY <2>3, <2>5, <2>6
  <2>8. QED
    BY <1>2, <1>3, <2>1, <2>3, <2>7, FinishStep
<1>7. QED
  BY <1>5, <1>6

\* A submit starts to save the fields.
LEMMA SubmitStep ==
  ASSUME TypeInv, CallsOK(call'), FormInv, calm', NEW c \in Call, Submit(c)
  PROVE  FormInv'
<1>1. TypeOK /\ CallsOK(call) /\ OnScreen /\ OneListingPerForm /\ ConfirmedIsStored
  BY TypeInvIs DEF FormInv
<1>2. /\ calm /\ Saving = {} /\ page = "review" /\ call[c] = Idle /\ form'.id = form.id
      /\ UNCHANGED <<page, edit, photos, loading, server, made>>
  BY <1>1 DEF Submit, TypeOK
<1>3. /\ form.id = None => made = {}
      /\ form.id # None => form.id = edit \/ form.id \in made
      /\ edit # None => form.id = edit
  BY <1>1, <1>2 DEF OnScreen
<1>4. /\ call'[c].at = "save" /\ call'[c].pid = form.id
      /\ \A d \in Call \ {c} : call'[d] = call[d]
  <2>1. PICK k : k.at = "save" /\ k.pid = form.id /\ call' = [call EXCEPT ![c] = k]
    <3>1. form.id \in Listing \union {None}
      BY <1>1 DEF TypeOK
    <3>2. QED
      BY <3>1, NewSubmit DEF Submit
  <2>2. c \in DOMAIN call /\ DOMAIN call = Call
    BY <1>1 DEF CallsOK
  <2>3. QED
    BY <2>1, <2>2
<1>5. Saving' = {c} /\ Uploading' = Uploading
  BY <1>1, <1>2, <1>4, BusyIs DEF Saving, Uploading, Busy
<1>6. OnScreen'
  BY <1>1, <1>2, <1>3, <1>4, <1>5 DEF OnScreen, Creating, Uploading
<1>7. OneListingPerForm' /\ ConfirmedIsStored'
  BY <1>1, <1>2, <1>3, <1>4 DEF OneListingPerForm, ConfirmedIsStored, server, Busy
<1>8. QED
  BY <1>2, <1>6, <1>7 DEF FormInv

\* Its save is answered: the listing is the form's from here on.
LEMMA SaveStep ==
  ASSUME TypeInv, CallsOK(call'), FormInv, calm, NEW c \in Call, SaveAnswered(c)
  PROVE  FormInv'
<1>1. TypeOK /\ CallsOK(call) /\ photos \in Seq(Photo) /\ Len(photos) <= MaxPhotos /\ OnScreen
  BY TypeInvIs DEF TypeOK, FormInv
<1>2. call[c] # Idle /\ c \in Saving /\ c \in Busy
  BY <1>1, CallIs DEF SaveAnswered, CallsOK, Saving, Busy
<1>3. PICK p \in Listing :
        /\ IF call[c].pid = None THEN Created(p) ELSE p = call[c].pid /\ UNCHANGED <<listed, made>>
        /\ Finish(c, p, [form EXCEPT !.id = p, !.submitting = FALSE], photos, 1)
  BY DEF SaveAnswered
<1>4. PICK frm \in FormType : /\ frm.id = p
                             /\ Finish(c, p, frm, photos, 1)
  <2>1. [form EXCEPT !.id = p, !.submitting = FALSE] \in FormType
    BY <1>1 DEF FormType, TypeOK
  <2>2. [form EXCEPT !.id = p, !.submitting = FALSE].id = p
    BY <1>1 DEF TypeOK
  <2>3. QED
    BY <1>3, <2>1, <2>2
<1>5. GoesOn(c, p, frm, photos) \/ Closes(c, frm) \/ Ends(c, frm, photos)
  BY <1>1, <1>2, <1>3, <1>4, FinishIs
<1>6. UNCHANGED <<edit, loading, stored>>
  BY DEF SaveAnswered
<1>7. CASE call[c].pid # None
  <2>1. p = call[c].pid /\ made' = made /\ c \notin Creating
    BY <1>3, <1>7 DEF Creating
  <2>2. frm.id = form.id \/ page = "closed"
    BY <1>1, <1>2, <1>4, <2>1 DEF OnScreen
  <2>3. QED
    BY <1>1, <1>2, <1>5, <1>6, <2>1, <2>2, FinishStep
<1>8. CASE call[c].pid = None
  <2>1. c \in Creating /\ Created(p)
    BY <1>2, <1>3, <1>8 DEF Creating
  <2>2. /\ page \notin {"closed", "category"}
        /\ \A d \in Call \ {c} : call[d] = Idle
        /\ \A i \in DOMAIN photos : photos[i].status # "confirmed"
    BY <2>1, CreatingAlone
  <2>3. CASE Closes(c, frm)
    <3>1. /\ page' = "closed" /\ call'[c] = Idle
          /\ \A d \in Call \ {c} : call'[d].at = call[d].at /\ call'[d].pid = call[d].pid
      BY <1>1, <2>3, ClosedCalls DEF Closes
    <3>2. QED
      BY <1>6, <2>1, <3>1, Fresh
  <2>4. CASE Ends(c, frm, photos)
    <3>1. /\ page' = page /\ form'.id = p /\ photos' = photos /\ call'[c] = Idle
          /\ \A d \in Call \ {c} : call'[d] = call[d]
      BY <1>1, <1>4, <2>4 DEF Ends, CallsOK
    <3>2. QED
      BY <1>6, <2>1, <2>2, <3>1, Fresh
  <2>5. CASE GoesOn(c, p, frm, photos)
    <3>1. PICK n \in DOMAIN photos, k \in Running :
            /\ k.at = "presign" /\ k.pid = p /\ k.index = n /\ k.file = photos[n].file
            /\ photos' = Marked(photos, n, "uploading")
            /\ call' = [call EXCEPT ![c] = k]
      BY <2>5 DEF GoesOn
    <3>2. call'[c] = k /\ \A d \in Call \ {c} : call'[d] = call[d]
      BY <1>1, <3>1 DEF CallsOK
    <3>3. page' = page /\ form'.id = p
      BY <1>4, <2>5 DEF GoesOn
    <3>4. PICK st \in PhotoUploadStatus : st = "uploading"
      BY DEF PhotoUploadStatus
    <3>5. photos' = Marked(photos, n, st)
      BY <3>1, <3>4
    <3>6. /\ DOMAIN photos' = DOMAIN photos
          /\ \A i \in DOMAIN photos : /\ photos'[i].file = photos[i].file
                                      /\ photos'[i].status = IF i = n THEN st ELSE photos[i].status
      BY <1>1, <3>5, MarkedIs
    <3>7. \A i \in DOMAIN photos' : photos'[i].status # "confirmed"
      BY <2>2, <3>4, <3>6
    <3>8. call'[c].index \in DOMAIN photos' /\ photos'[call'[c].index].file = call'[c].file
      BY <3>1, <3>2, <3>6
    <3>9. call'[c].at = "presign" /\ call'[c].pid = p
      BY <3>1, <3>2
    <3>10. QED
      BY <1>6, <2>1, <3>2, <3>3, <3>7, <3>8, <3>9, Fresh
  <2>6. QED
    BY <1>5, <2>3, <2>4, <2>5
<1>9. QED
  BY <1>7, <1>8

LEMMA FormStep == TypeInv /\ TypeInv' /\ FormInv /\ [Next]_vars => FormInv'
<1>. SUFFICES ASSUME TypeInv, TypeInv', FormInv, [Next]_vars PROVE FormInv'
  OBVIOUS
<1>1. CallsOK(call')
  BY DEF TypeInv, TypeOK, CallShape, CallsOK
<1>2. CASE ~calm'
  BY <1>2 DEF FormInv, OnScreen, OneListingPerForm, ConfirmedIsStored
<1>3. CASE calm'
  <2>1. CASE OpenNew \/ OpenEdit \/ Loaded
    BY <1>3, <2>1, OpenStep
  <2>2. CASE LoadFails \/ Close
    BY <1>3, <2>2 DEF LoadFails, Close
  <2>3. CASE Back \/ Continue \/ Autofill
    <3>1. calm
      BY <1>3, <2>3 DEF Back, Continue, Autofill
    <3>2. QED
      BY <1>1, <2>3, <3>1, PageStep
  <2>4. CASE FillIn
    BY <1>1, <1>3, <2>4, FillInStep
  <2>5. CASE PickPhoto
    <3>1. calm
      BY <1>3, <2>5 DEF PickPhoto
    <3>2. QED
      BY <1>1, <2>5, <3>1, PickStep
  <2>6. CASE RemovePhoto
    BY <1>1, <1>3, <2>6, RemoveStep
  <2>7. ASSUME NEW c \in Call, CreateAnswered(c) \/ CreateFails(c) PROVE FormInv'
    BY <1>1, <1>3, <2>7, CreateStep
  <2>8. ASSUME NEW c \in Call, Presigned(c) PROVE FormInv'
    <3>1. calm
      BY <1>3, <2>8 DEF Presigned
    <3>2. QED
      BY <1>1, <2>8, <3>1, PresignedStep
  <2>9. ASSUME NEW c \in Call, Transferred(c) \/ UploadFails(c) PROVE FormInv'
    <3>1. calm
      BY <1>3, <2>9 DEF Transferred, UploadFails
    <3>2. QED
      BY <1>1, <2>9, <3>1, SettleStep
  <2>10. ASSUME NEW c \in Call, Submit(c) PROVE FormInv'
    BY <1>1, <1>3, <2>10, SubmitStep
  <2>11. ASSUME NEW c \in Call, SaveAnswered(c) PROVE FormInv'
    <3>1. calm
      BY <1>3, <2>11 DEF SaveAnswered
    <3>2. QED
      BY <1>1, <2>11, <3>1, SaveStep
  <2>12. ASSUME NEW c \in Call, SaveFails(c) PROVE FormInv'
    <3>1. calm /\ call' = [call EXCEPT ![c] = Idle] /\ UNCHANGED <<page, edit, photos, loading, stored, made>>
      BY <1>3, <2>12 DEF SaveFails
    <3>2. TypeOK /\ CallsOK(call)
      BY TypeInvIs
    <3>3. form'.id = form.id /\ call[c] # Idle
      BY <2>12, <3>2, CallIs DEF SaveFails, TypeOK, CallsOK
    <3>4. QED
      BY <1>1, <3>1, <3>3, EndStep
  <2>13. CASE UNCHANGED vars
    BY <2>13 DEF vars, server, FormInv, OnScreen, OneListingPerForm, ConfirmedIsStored,
       Creating, Saving, Uploading, Busy
  <2>14. QED
    BY <2>1, <2>2, <2>3, <2>4, <2>5, <2>6, <2>7, <2>8, <2>9, <2>10, <2>11, <2>12, <2>13 DEF Next
<1>4. QED
  BY <1>2, <1>3

LEMMA FormAlways == Spec => []FormInv
<1>1. Init => FormInv
  BY DEF Init, FormInv, OnScreen, OneListingPerForm, ConfirmedIsStored
<1>2. QED
  BY <1>1, TypeAlways, FormStep, PTL DEF Spec

\* A form makes one listing and a form that edits one makes none, and the draft, the patches
\* and the photos, each sent by a coroutine of its own, all go to that listing.
THEOREM FormMakesOneListing == Spec => []OneListingPerForm
<1>1. FormInv => OneListingPerForm
  BY DEF FormInv
<1>2. QED
  BY <1>1, FormAlways, PTL

\* A photo that the form shows as confirmed is on the server under the form's listing,
\* whichever uploads overlapped, failed or were retried by a submit.
THEOREM ShownConfirmedIsStored == Spec => []ConfirmedIsStored
<1>1. FormInv => ConfirmedIsStored
  BY DEF FormInv
<1>2. QED
  BY <1>1, FormAlways, PTL
===============================================================================
