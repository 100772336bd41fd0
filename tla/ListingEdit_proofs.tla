-------------------------- MODULE ListingEdit_proofs --------------------------
(***************************************************************************)
(* Proofs about ListingEdit, for any texts, amounts, places and tags and    *)
(* any number of events.                                                    *)
(***************************************************************************)
EXTENDS ListingEdit, TLAPS

-----------------------------------------------------------------------------
(* Texts.                                                                   *)

LEMMA TextIn ==
  ASSUME NEW f \in Field
  PROVE  /\ Text(f) \subseteq Value /\ Inputs(f) \subseteq Text(f)
         /\ Column(f) \subseteq Value /\ Column(f) \subseteq Text(f)
BY EditAssumption DEF Field, Value, Text, Inputs, Column, NumericColumn

\* A form whose texts come from two others.
LEMMA Mixed ==
  ASSUME NEW s \in Texts, NEW t \in Texts, NEW S
  PROVE  [f \in Field |-> IF f \in S THEN s[f] ELSE t[f]] \in Texts
BY DEF Texts

LEMMA Typed ==
  ASSUME NEW t \in Texts, NEW f \in Field, NEW v \in Text(f)
  PROVE  [t EXCEPT ![f] = v] \in Texts
BY TextIn DEF Texts

LEMMA BlankType == Blank \in Texts
<1>1. \A f \in Field : Blank[f] \in Text(f)
  BY EditAssumption DEF Blank, Field, Text
<1>2. QED
  BY <1>1, TextIn DEF Texts, Blank

\* Only an amount below half a hundredth is rounded to 0, and what has no more than two
\* digits is kept.
LEMMA RoundedAmount ==
  ASSUME NEW n \in Nat
  PROVE  /\ Rounded(n) \in NumericColumn
         /\ Rounded(n) = 0 => n = 0 \/ n \in 1 .. 4
         /\ n \in NumericColumn => Rounded(n) = n
<1>. DEFINE q == (n + 5) \div 10
<1>1. q \in Nat /\ 10 * q <= n + 5 /\ n + 5 < 10 * q + 10 /\ Rounded(n) = q * 10
  BY DEF Rounded
<1>2. (q * 10) % 10 = 0 /\ q * 10 \in Nat
  BY <1>1
<1>3. ASSUME n % 10 = 0 PROVE q * 10 = n
  <2>1. n = 10 * (n \div 10)
    BY <1>3
  <2>2. q = n \div 10
    BY <1>1, <2>1
  <2>3. QED
    BY <2>1, <2>2
<1>. HIDE DEF q
<1>4. QED
  BY <1>1, <1>2, <1>3 DEF NumericColumn

\* What is no amount is stored as it is.
LEMMA RoundedText == \A v : v \notin Nat => Rounded(v) = v
BY DEF Rounded

\* What is shown of an amount is 0 or at least 1, and in the column without being rounded.
LEMMA WholeAmount ==
  ASSUME NEW n \in Nat PROVE Whole(n) \in NumericColumn /\ Whole(n) \notin 1 .. 4
<1>. DEFINE q == (n + 500) \div 1000
<1>1. q \in Nat /\ Whole(n) = q * 1000
  BY EditAssumption DEF Whole
<1>2. q * 1000 \in Nat /\ (q * 1000) % 10 = 0 /\ q * 1000 \notin 1 .. 4
  BY <1>1
<1>3. QED
  BY <1>1, <1>2 DEF NumericColumn

LEMMA WholeType == \A n \in NumericColumn : Whole(n) \in NumericColumn /\ Whole(n) \notin 1 .. 4
BY WholeAmount DEF NumericColumn

LEMMA ShownType ==
  ASSUME row \in Rows, NEW r PROVE Shown(r) \in Texts
<1>1. \A f \in Field : row.val[f] \in Column(f)
  BY DEF Rows, Columns
<1>2. \A f \in Field : Got(r)[f] = IF f = "contact" /\ r # "SUPER_ADMIN" THEN None ELSE row.val[f]
  BY DEF Got
<1>3. ASSUME NEW f \in Field PROVE Shown(r)[f] \in Text(f)
  <2>1. CASE f \in {"price", "area"}
    <3>1. row.val[f] \in NumericColumn \/ (f = "area" /\ row.val[f] = None)
      BY <1>1, <2>1 DEF Column, Field
    <3>2. Whole(row.val[f]) \in Nat \/ (f = "area" /\ Whole(row.val[f]) = None)
      BY <3>1, WholeType DEF Whole, NumericColumn
    <3>3. QED
      BY <1>2, <2>1, <3>2 DEF Shown, Text, Field
  <2>2. CASE f \notin {"price", "area"}
    BY <1>1, <1>2, <2>2, TextIn DEF Shown, Text, Field
  <2>3. QED
    BY <2>1, <2>2
<1>4. QED
  BY <1>3, TextIn DEF Texts, Shown

\* What POST and PATCH make of a form fits the columns.
LEMMA InsertedType ==
  ASSUME NEW body \in Texts, Complete(body), body["place"] # None
  PROVE  Inserted(body) \in Columns
<1>1. \A f \in Field : body[f] \in Text(f)
  BY DEF Texts
<1>2. body["price"] # None
  BY DEF Complete, Field, Texts
<1>3. ASSUME NEW f \in Field PROVE Inserted(body)[f] \in Column(f)
  <2>1. CASE f \in {"price", "area"}
    <3>1. body[f] \in Nat \/ (f = "area" /\ body[f] \in {None, Garbage})
      BY <1>1, <1>2, <2>1 DEF Text, Field
    <3>2. QED
      BY <2>1, <3>1, RoundedAmount, RoundedText, EditAssumption DEF Inserted, Column, Field
  <2>2. CASE f \notin {"price", "area"}
    <3>1. Rounded(body[f]) = body[f]
      BY <1>1, <2>2, RoundedText, EditAssumption DEF Text, Field
    <3>2. QED
      BY <1>1, <2>2, <3>1 DEF Inserted, Column, Text, Field
  <2>3. QED
    BY <2>1, <2>2
<1>4. QED
  BY <1>3, TextIn DEF Columns, Inserted

LEMMA PatchedType ==
  ASSUME NEW val \in Columns, NEW body \in Texts, Complete(body)
  PROVE  Patched(val, body) \in Columns
<1>1. \A f \in Field : body[f] \in Text(f) /\ val[f] \in Column(f)
  BY DEF Texts, Columns
<1>2. body["price"] # None
  BY DEF Complete, Field, Texts
<1>3. ASSUME NEW f \in Field PROVE Patched(val, body)[f] \in Column(f)
  <2>1. CASE f \in {"price", "area"}
    <3>1. body[f] \in Nat \/ (f = "area" /\ body[f] \in {None, Garbage})
      BY <1>1, <1>2, <2>1 DEF Text, Field
    <3>2. 0 \in NumericColumn
      BY DEF NumericColumn
    <3>3. QED
      BY <1>1, <2>1, <3>1, <3>2, RoundedAmount, EditAssumption DEF Patched, Column, Field
  <2>2. CASE f \notin {"price", "area"}
    <3>1. Rounded(body[f]) = body[f]
      BY <1>1, <2>2, RoundedText, EditAssumption DEF Text, Field
    <3>2. QED
      BY <1>1, <2>2, <3>1, EditAssumption DEF Patched, Column, Text, Field
  <2>3. QED
    BY <2>1, <2>2
<1>4. QED
  BY <1>3, TextIn DEF Columns, Patched

-----------------------------------------------------------------------------
(* The phone.                                                               *)

Phones == [page : Pages, load : Loads, known : BOOLEAN, form : Texts, text : Texts,
           call : Calls, here : BOOLEAN, mine : SUBSET Field, fresh : BOOLEAN, tiny : BOOLEAN]

\* A price below half a paisa among the texts of the phone was typed.
Priced(d) ==
  \A t \in {d.load.form, d.form, d.text, d.call.body} : Tiny("price", t["price"]) => d.tiny

\* The steps of the screen that leave the form, the call and what was loaded alone.
Same(d, e) ==
  /\ e.form = d.form /\ e.mine = d.mine /\ e.fresh = d.fresh /\ e.call = d.call /\ e.tiny = d.tiny
  /\ e.load.form = d.load.form /\ e.load.fresh = d.load.fresh
  /\ e.text["price"] \in {d.text["price"], d.form["price"], None}

LEMMA SyncType == ASSUME NEW d \in Phones PROVE Sync(d) \in Phones /\ Same(d, Sync(d))
<1>. DEFINE text == [f \in Field |-> IF f \in On("details") THEN d.form[f] ELSE d.text[f]]
<1>1. text \in Texts /\ text["price"] \in {d.text["price"], d.form["price"]}
  BY Mixed DEF Phones, Field
<1>2. Sync(d) \in {d, [d EXCEPT !.text = text]}
  BY DEF Sync
<1>. HIDE DEF text
<1>3. QED
  BY <1>1, <1>2 DEF Same, Phones

LEMMA BlankPrice == Blank["price"] = None /\ Blank["contact"] = None
BY DEF Blank, Field

LEMMA GoneType == ASSUME NEW d \in Phones PROVE Gone(d) \in Phones /\ Same(d, Gone(d))
<1>. DEFINE load == [d.load EXCEPT !.early = FALSE]
<1>1. load \in Loads /\ load.form = d.load.form /\ load.fresh = d.load.fresh
  BY DEF Phones, Loads
<1>2. Gone(d) = [d EXCEPT !.page = "closed", !.load = load, !.text = Blank, !.here = FALSE]
  BY DEF Gone, Phones
<1>. DEFINE e == Gone(d)
<1>. HIDE DEF load
<1>3. /\ e \in Phones /\ e.form = d.form /\ e.mine = d.mine /\ e.fresh = d.fresh /\ e.call = d.call
      /\ e.tiny = d.tiny /\ e.load = load /\ e.text = Blank
  BY <1>1, <1>2, BlankType DEF Phones, Pages
<1>. HIDE DEF e
<1>4. QED
  BY <1>1, <1>3, BlankPrice DEF Same, e

LEMMA EnterType ==
  ASSUME NEW d \in Phones, NEW p \in Pages, Enter(d, p)
  PROVE  phone' \in Phones /\ Same(d, phone') /\ row' = row /\ role' = role
<1>. DEFINE text == [f \in Field |-> IF f \in On(p) THEN d.form[f] ELSE Blank[f]]
<1>1. text \in Texts /\ text["price"] \in {d.form["price"], None}
  BY Mixed, BlankType, BlankPrice DEF Phones, Field
<1>2. phone' = [d EXCEPT !.page = p, !.here = FALSE, !.text = text] /\ row' = row /\ role' = role
  BY DEF Enter, Screen
<1>. HIDE DEF text
<1>3. QED
  BY <1>1, <1>2 DEF Same, Phones

LEMMA StoreType ==
  ASSUME NEW d \in Phones
  PROVE  /\ Store(d) \in Phones
         /\ Store(d).fresh = d.fresh /\ Store(d).call = d.call /\ d.mine \subseteq Store(d).mine
         /\ Store(d).load = d.load /\ Store(d).text = d.text /\ Store(d).tiny = d.tiny
         /\ Store(d).form["price"] \in {d.text["price"], d.form["price"]}
         /\ \A f \in Field \ Store(d).mine : Store(d).form[f] = d.form[f]
<1>1. [f \in Field |-> IF f \in On(d.page) THEN d.text[f] ELSE d.form[f]] \in Texts
  BY Mixed DEF Phones
<1>2. On(d.page) \subseteq Field /\ "price" \in Field
  BY DEF On, Field
<1>3. QED
  BY <1>1, <1>2 DEF Store, Phones

LEMMA CalledType ==
  ASSUME NEW d \in Phones, NEW kind \in {"create", "insert", "patch"}
  PROVE  /\ Called(d, kind) \in Phones
         /\ Called(d, kind).call = [kind |-> kind, at |-> "sent", body |-> d.form,
                                    mine |-> d.mine, fresh |-> d.fresh]
         /\ Called(d, kind).form = d.form /\ Called(d, kind).mine = d.mine
         /\ Called(d, kind).fresh = d.fresh /\ Called(d, kind).load = d.load
         /\ Called(d, kind).text = d.text /\ Called(d, kind).tiny = d.tiny
BY DEF Called, Calls, Phones

LEMMA IdleType == Idle \in Calls
BY BlankType DEF Idle, Calls

\* What a step of the phone does to the form, to the call, to what was loaded and to the
\* prices in them.
FormKept(d) ==
  \/ d.form = Blank /\ ~d.fresh
  \/ /\ d.fresh => phone.fresh
     /\ phone.mine \subseteq d.mine
     /\ \A f \in Field \ d.mine : d.form[f] = phone.form[f]
CallKept(d) ==
  \/ d.call = phone.call \/ d.call = Idle
  \/ /\ d.call.at = "sent" /\ Complete(d.call.body)
     /\ d.call.body = d.form /\ d.call.mine = d.mine /\ d.call.fresh = d.fresh
LoadKept(d) ==
  \/ d.load.form = Blank /\ ~d.load.fresh
  \/ d.load.form = phone.load.form /\ (d.load.fresh => phone.load.fresh)
TinyKept(d) == (phone.tiny => d.tiny) /\ (Priced(phone) => Priced(d))
Kept(d) == FormKept(d) /\ CallKept(d) /\ LoadKept(d) /\ TinyKept(d)

OnPhone ==
  /\ phone' \in Phones /\ Kept(phone')
  /\ row' = row /\ role' = role /\ events' \in 0 .. MaxEvents

LEMMA TypeParts ==
  /\ TypeOK <=> /\ row \in Rows \union {None} /\ role \in {"SUPER_ADMIN", "BROKER"}
                /\ phone \in Phones /\ events \in 0 .. MaxEvents
  /\ TypeOK' <=> /\ row' \in Rows \union {None} /\ role' \in {"SUPER_ADMIN", "BROKER"}
                 /\ phone' \in Phones /\ events' \in 0 .. MaxEvents
BY DEF TypeOK, Phones

LEMMA EventType == ASSUME TypeOK, Event \/ UNCHANGED events PROVE events' \in 0 .. MaxEvents
BY EditAssumption DEF TypeOK, Event

LEMMA NoneIsNotTiny == ~Tiny("price", None) /\ ~Tiny("price", Blank["price"])
BY EditAssumption, BlankPrice DEF Tiny

\* A step that leaves form, call and load alone bears what was kept.
LEMMA SameKept == ASSUME NEW d, NEW e, Same(d, e), Kept(d) PROVE Kept(e)
<1>1. FormKept(e) /\ CallKept(e) /\ LoadKept(e)
  BY DEF Same, Kept, FormKept, CallKept, LoadKept
<1>2. ASSUME Priced(d) PROVE Priced(e)
  BY <1>2, NoneIsNotTiny DEF Same, Priced
<1>3. QED
  BY <1>1, <1>2 DEF Kept, TinyKept, Same

LEMMA PhoneKept == Kept(phone)
BY DEF Kept, FormKept, CallKept, LoadKept, TinyKept

LEMMA SyncKept == ASSUME NEW d \in Phones, Kept(d) PROVE Sync(d) \in Phones /\ Kept(Sync(d))
BY SyncType, SameKept

LEMMA StoreKept == ASSUME phone \in Phones PROVE Store(phone) \in Phones /\ Kept(Store(phone))
<1>. DEFINE d == Store(phone)
<1>1. /\ d \in Phones /\ d.fresh = phone.fresh /\ d.call = phone.call /\ phone.mine \subseteq d.mine
      /\ d.load = phone.load /\ d.text = phone.text /\ d.tiny = phone.tiny
      /\ d.form["price"] \in {phone.text["price"], phone.form["price"]}
      /\ \A f \in Field \ d.mine : d.form[f] = phone.form[f]
  BY StoreType
<1>. HIDE DEF d
<1>2. FormKept(d) /\ CallKept(d) /\ LoadKept(d)
  BY <1>1 DEF FormKept, CallKept, LoadKept
<1>3. TinyKept(d)
  BY <1>1 DEF TinyKept, Priced
<1>4. QED
  BY <1>1, <1>2, <1>3 DEF Kept, d

LEMMA CalledKept ==
  ASSUME NEW d \in Phones, Kept(d), Complete(d.form), NEW kind \in {"create", "insert", "patch"}
  PROVE  Called(d, kind) \in Phones /\ Kept(Called(d, kind))
<1>. DEFINE e == Called(d, kind)
<1>1. /\ e \in Phones /\ e.form = d.form /\ e.mine = d.mine /\ e.fresh = d.fresh
      /\ e.load = d.load /\ e.text = d.text /\ e.tiny = d.tiny
      /\ e.call = [kind |-> kind, at |-> "sent", body |-> d.form, mine |-> d.mine, fresh |-> d.fresh]
  BY CalledType
<1>. HIDE DEF e
<1>2. FormKept(e) /\ LoadKept(e)
  BY <1>1 DEF Kept, FormKept, LoadKept
<1>3. e.call.at = "sent" /\ e.call.body = e.form /\ e.call.mine = e.mine /\ e.call.fresh = e.fresh
  BY <1>1
<1>4. CallKept(e)
  BY <1>1, <1>3 DEF CallKept
<1>5. TinyKept(e)
  BY <1>1, <1>3 DEF Kept, TinyKept, Priced
<1>6. QED
  BY <1>1, <1>2, <1>4, <1>5 DEF e, Kept

LEMMA EnterKept ==
  ASSUME TypeOK, NEW d \in Phones, Kept(d), NEW p \in Pages, Enter(d, p), UNCHANGED events
  PROVE  OnPhone
BY EnterType, SameKept, EventType DEF OnPhone

\* Another load under way, or none.
LEMMA NoLoadKept ==
  ASSUME NEW d \in Phones, Kept(d), NEW load \in Loads, load.form = Blank, ~load.fresh,
         NEW e \in Phones, e = [d EXCEPT !.load = load]
  PROVE  Kept(e)
<1>1. /\ e.form = d.form /\ e.mine = d.mine /\ e.fresh = d.fresh /\ e.call = d.call
      /\ e.text = d.text /\ e.tiny = d.tiny /\ e.load = load
  BY DEF Phones
<1>2. FormKept(e) /\ CallKept(e) /\ LoadKept(e)
  BY <1>1 DEF Kept, FormKept, CallKept, LoadKept
<1>3. TinyKept(e)
  BY <1>1, NoneIsNotTiny DEF Kept, TinyKept, Priced
<1>4. QED
  BY <1>2, <1>3 DEF Kept

LEMMA NoLoadType == NoLoad \in Loads /\ NoLoad.form = Blank /\ ~NoLoad.fresh
BY BlankType DEF NoLoad, Loads

LEMMA OpenStep == TypeOK /\ (OpenNew \/ OpenEdit \/ Close) => OnPhone
<1>. SUFFICES ASSUME TypeOK, OpenNew \/ OpenEdit \/ Close PROVE OnPhone
  OBVIOUS
<1>. phone \in Phones
  BY TypeParts
<1>1. events' \in 0 .. MaxEvents /\ row' = row /\ role' = role
  BY EventType DEF OpenNew, OpenEdit, Close, Screen
<1>. DEFINE d == [phone EXCEPT !.page = "category"]
<1>2. d \in Phones /\ Kept(d)
  <2>1. d \in Phones /\ Same(phone, d)
    BY DEF Phones, Pages, Same
  <2>2. QED
    BY <2>1, PhoneKept, SameKept
<1>3. CASE OpenNew
  BY <1>1, <1>2, <1>3 DEF OnPhone, OpenNew, Screen
<1>4. CASE OpenEdit
  <2>. DEFINE load == [NoLoad EXCEPT !.at = "asked", !.early = TRUE]
  <2>1. load \in Loads /\ load.form = Blank /\ ~load.fresh
    BY BlankType DEF NoLoad, Loads
  <2>2. phone' = [d EXCEPT !.load = load]
    BY <1>4 DEF OpenEdit, Screen
  <2>. HIDE DEF d, load
  <2>3. phone' \in Phones
    BY <1>2, <2>1, <2>2 DEF Phones
  <2>4. QED
    BY <1>1, <1>2, <2>1, <2>2, <2>3, NoLoadKept DEF OnPhone
<1>5. CASE Close
  BY <1>1, <1>5, GoneType, PhoneKept, SameKept DEF OnPhone, Close, Screen
<1>6. QED
  BY <1>3, <1>4, <1>5

LEMMA BackStep == TypeOK /\ Back => OnPhone
<1>. SUFFICES ASSUME TypeOK, Back PROVE OnPhone
  OBVIOUS
<1>1. PICK p \in Pages : Enter(phone, p)
  BY DEF Back, Pages
<1>2. QED
  BY <1>1, EnterKept, PhoneKept, TypeParts DEF Back

LEMMA GoOnStep == TypeOK /\ GoOn => OnPhone
<1>. SUFFICES ASSUME TypeOK, GoOn PROVE OnPhone
  OBVIOUS
<1>. DEFINE d == Store(phone)
<1>1. d \in Phones /\ Kept(d)
  BY StoreKept, TypeParts
<1>. HIDE DEF d
<1>2. /\ UNCHANGED events
      /\ \/ Enter([d EXCEPT !.load.early = FALSE], "location") \/ Enter(d, "details")
         \/ LeaveDetails(d)
  BY DEF GoOn, d
<1>3. CASE Enter([d EXCEPT !.load.early = FALSE], "location")
  <2>. DEFINE load == [d.load EXCEPT !.early = FALSE]
              e == [d EXCEPT !.load = load]
  <2>1. load \in Loads /\ load.form = d.load.form /\ load.fresh = d.load.fresh
    BY <1>1 DEF Phones, Loads
  <2>2. [d EXCEPT !.load.early = FALSE] = e
    OBVIOUS
  <2>. HIDE DEF load
  <2>3. e \in Phones /\ Same(d, e)
    BY <1>1, <2>1 DEF Phones, Same
  <2>4. Enter(e, "location") /\ "location" \in Pages
    BY <1>3, <2>2 DEF Pages
  <2>. HIDE DEF e
  <2>5. QED
    BY <1>1, <1>2, <2>3, <2>4, SameKept, EnterKept
<1>4. CASE Enter(d, "details")
  BY <1>1, <1>2, <1>4, EnterKept DEF Pages
<1>5. CASE LeaveDetails(d)
  <2>. DEFINE e == Called(d, "create")
  <2>1. CASE Complete(d.form) /\ Enter(e, "review")
    <3>1. e \in Phones /\ Kept(e)
      BY <1>1, <2>1, CalledKept
    <3>. HIDE DEF e
    <3>2. QED
      BY <1>2, <2>1, <3>1, EnterKept DEF Pages
  <2>2. CASE Enter(d, "review")
    BY <1>1, <1>2, <2>2, EnterKept DEF Pages
  <2>3. QED
    BY <1>5, <2>1, <2>2 DEF LeaveDetails
<1>6. QED
  BY <1>2, <1>3, <1>4, <1>5

\* A text typed, or changed in the form; the price of it, if below half a paisa, is noted.
LEMMA TypedKept ==
  ASSUME phone \in Phones, NEW f \in Field, NEW v \in Text(f), NEW tiny,
         tiny = (phone.tiny \/ Tiny(f, v))
  PROVE  /\ [phone EXCEPT !.text = [@ EXCEPT ![f] = v], !.tiny = tiny] \in Phones
         /\ Kept([phone EXCEPT !.text = [@ EXCEPT ![f] = v], !.tiny = tiny])
         /\ [phone EXCEPT !.form = [@ EXCEPT ![f] = v], !.mine = @ \union {f}, !.here = FALSE,
                          !.tiny = tiny] \in Phones
         /\ Kept([phone EXCEPT !.form = [@ EXCEPT ![f] = v], !.mine = @ \union {f}, !.here = FALSE,
                               !.tiny = tiny])
<1>. DEFINE text == [phone.text EXCEPT ![f] = v]
            form == [phone.form EXCEPT ![f] = v]
            d == [phone EXCEPT !.text = text, !.tiny = tiny]
            e == [phone EXCEPT !.form = form, !.mine = @ \union {f}, !.here = FALSE, !.tiny = tiny]
<1>1. /\ tiny \in BOOLEAN /\ phone.tiny => tiny
      /\ \A t \in Texts : Tiny("price", [t EXCEPT ![f] = v]["price"]) => Tiny("price", t["price"]) \/ tiny
  <2>1. tiny \in BOOLEAN /\ phone.tiny => tiny
    BY DEF Phones, Tiny
  <2>2. ASSUME NEW t \in Texts, Tiny("price", [t EXCEPT ![f] = v]["price"])
        PROVE  Tiny("price", t["price"]) \/ tiny
    <3>1. CASE f = "price"
      <4>1. [t EXCEPT ![f] = v]["price"] = v
        BY <3>1 DEF Texts, Field
      <4>2. QED
        BY <2>2, <3>1, <4>1
    <3>2. CASE f # "price"
      <4>1. [t EXCEPT ![f] = v]["price"] = t["price"]
        BY <3>2 DEF Texts, Field
      <4>2. QED
        BY <2>2, <4>1
    <3>3. QED
      BY <3>1, <3>2
  <2>3. QED
    BY <2>1, <2>2
<1>2. /\ text \in Texts /\ form \in Texts /\ \A g \in Field \ {f} : form[g] = phone.form[g]
      /\ Tiny("price", text["price"]) => Tiny("price", phone.text["price"]) \/ tiny
      /\ Tiny("price", form["price"]) => Tiny("price", phone.form["price"]) \/ tiny
  <2>1. text \in Texts /\ form \in Texts
    BY Typed DEF Phones
  <2>2. \A g \in Field \ {f} : form[g] = phone.form[g]
    BY DEF Phones, Texts
  <2>3. QED
    BY <1>1, <2>1, <2>2 DEF Phones
<1>. HIDE DEF text, form
<1>3. /\ d \in Phones /\ d.form = phone.form /\ d.mine = phone.mine /\ d.fresh = phone.fresh
      /\ d.call = phone.call /\ d.load = phone.load /\ d.text = text /\ d.tiny = tiny
  BY <1>1, <1>2 DEF Phones
<1>4. /\ e \in Phones /\ e.form = form /\ e.mine = phone.mine \union {f} /\ e.fresh = phone.fresh
      /\ e.call = phone.call /\ e.load = phone.load /\ e.text = phone.text /\ e.tiny = tiny
  BY <1>1, <1>2 DEF Phones
<1>. HIDE DEF d, e
<1>5. Kept(d)
  <2>1. FormKept(d) /\ CallKept(d) /\ LoadKept(d)
    BY <1>3 DEF FormKept, CallKept, LoadKept
  <2>2. TinyKept(d)
    BY <1>1, <1>2, <1>3 DEF TinyKept, Priced
  <2>3. QED
    BY <2>1, <2>2 DEF Kept
<1>6. Kept(e)
  <2>1. FormKept(e) /\ CallKept(e) /\ LoadKept(e)
    BY <1>2, <1>4 DEF FormKept, CallKept, LoadKept
  <2>2. TinyKept(e)
    BY <1>1, <1>2, <1>4 DEF TinyKept, Priced
  <2>3. QED
    BY <2>1, <2>2 DEF Kept
<1>7. QED
  BY <1>3, <1>4, <1>5, <1>6 DEF d, e, text, form

LEMMA TypingStep == TypeOK /\ (TypeText \/ ChooseTags \/ Autofill \/ UploadProgress) => OnPhone
<1>. SUFFICES ASSUME TypeOK, TypeText \/ ChooseTags \/ Autofill \/ UploadProgress PROVE OnPhone
  OBVIOUS
<1>. phone \in Phones
  BY TypeParts
<1>1. events' \in 0 .. MaxEvents /\ row' = row /\ role' = role
  BY EventType DEF TypeText, ChooseTags, Autofill, UploadProgress, Screen
<1>2. CASE TypeText
  <2>1. PICK f \in On(phone.page) : \E v \in Inputs(f) :
          phone' = [phone EXCEPT !.text[f] = v, !.tiny = @ \/ Tiny(f, v)]
    BY <1>2 DEF TypeText, Screen
  <2>2. PICK v \in Inputs(f) :
          phone' = [phone EXCEPT !.text = [@ EXCEPT ![f] = v], !.tiny = phone.tiny \/ Tiny(f, v)]
    BY <2>1
  <2>3. f \in Field /\ v \in Text(f)
    BY <2>1, <2>2, TextIn DEF On, Field
  <2>4. ASSUME NEW tiny, tiny = (phone.tiny \/ Tiny(f, v)),
               phone' = [phone EXCEPT !.text = [@ EXCEPT ![f] = v], !.tiny = tiny]
        PROVE  OnPhone
    BY <1>1, <2>3, <2>4, TypedKept DEF OnPhone
  <2>5. QED
    BY <2>2, <2>4
<1>3. ASSUME NEW f \in Field, NEW v \in Text(f), NEW tiny, tiny = (phone.tiny \/ Tiny(f, v)),
             phone' = Sync([phone EXCEPT !.form = [@ EXCEPT ![f] = v], !.mine = @ \union {f},
                                         !.here = FALSE, !.tiny = tiny])
      PROVE  OnPhone
  BY <1>1, <1>3, TypedKept, SyncKept DEF OnPhone
<1>4. CASE ChooseTags
  <2>1. PICK v \in Tag :
          phone' = Sync([phone EXCEPT !.form = [@ EXCEPT !.tags = v], !.mine = @ \union {"tags"}, !.here = FALSE])
    BY <1>4 DEF ChooseTags, Screen
  <2>2. "tags" \in Field /\ v \in Text("tags")
    BY <2>1 DEF Field, Text
  <2>3. phone.tiny = (phone.tiny \/ Tiny("tags", v))
    BY DEF Tiny, Phones
  <2>4. [phone EXCEPT !.form = [@ EXCEPT !.tags = v], !.mine = @ \union {"tags"}, !.here = FALSE]
          = [phone EXCEPT !.form = [@ EXCEPT !["tags"] = v], !.mine = @ \union {"tags"},
                          !.here = FALSE, !.tiny = phone.tiny]
    BY DEF Phones
  <2>5. QED
    BY <1>3, <2>1, <2>2, <2>3, <2>4
<1>5. CASE Autofill
  <2>1. PICK f \in On("details") : \E v \in Inputs(f) :
          phone' = Sync([phone EXCEPT !.form = [@ EXCEPT ![f] = v], !.mine = @ \union {f}, !.here = FALSE,
                                      !.tiny = @ \/ Tiny(f, v)])
    BY <1>5 DEF Autofill, Screen
  <2>2. PICK v \in Inputs(f) :
          phone' = Sync([phone EXCEPT !.form = [@ EXCEPT ![f] = v], !.mine = @ \union {f}, !.here = FALSE,
                                      !.tiny = phone.tiny \/ Tiny(f, v)])
    BY <2>1
  <2>3. f \in Field /\ v \in Text(f)
    BY <2>1, <2>2, TextIn DEF On, Field
  <2>4. QED
    BY <1>3, <2>2, <2>3
<1>6. CASE UploadProgress
  BY <1>1, <1>6, SyncKept, PhoneKept DEF UploadProgress, Screen, OnPhone
<1>7. QED
  BY <1>2, <1>4, <1>5, <1>6

LEMMA SubmitStep == TypeOK /\ (LoadFails \/ Submit) => OnPhone
<1>. SUFFICES ASSUME TypeOK, LoadFails \/ Submit PROVE OnPhone
  OBVIOUS
<1>. phone \in Phones
  BY TypeParts
<1>1. events' \in 0 .. MaxEvents /\ row' = row /\ role' = role
  BY EventType DEF LoadFails, Submit, Screen
<1>2. CASE LoadFails
  <2>1. phone' = [phone EXCEPT !.load = NoLoad]
    BY <1>2 DEF LoadFails, Screen
  <2>2. phone' \in Phones
    BY <2>1, NoLoadType DEF Phones
  <2>3. QED
    BY <1>1, <2>1, <2>2, NoLoadType, NoLoadKept, PhoneKept DEF OnPhone
<1>3. CASE Submit
  <2>1. PICK kind \in {"create", "insert", "patch"} :
          phone' = Sync([Called(phone, kind) EXCEPT !.here = TRUE])
    BY <1>3 DEF Submit, Screen
  <2>. DEFINE d == Called(phone, kind)
              e == [d EXCEPT !.here = TRUE]
  <2>2. d \in Phones /\ Kept(d)
    BY <1>3, CalledKept, PhoneKept DEF Submit
  <2>. HIDE DEF d
  <2>3. e \in Phones /\ Same(d, e)
    BY <2>2 DEF Phones, Same
  <2>4. phone' = Sync(e)
    BY <2>1 DEF d
  <2>. HIDE DEF e
  <2>5. QED
    BY <1>1, <2>2, <2>3, <2>4, SameKept, SyncKept DEF OnPhone
<1>4. QED
  BY <1>2, <1>3

\* The answers, and what is lost.
LEMMA AnswerStep == TypeOK /\ (DraftAnswered \/ SubmitSucceeds \/ SubmitRefused \/ CallFails) => OnPhone
<1>. SUFFICES ASSUME TypeOK, DraftAnswered \/ SubmitSucceeds \/ SubmitRefused \/ CallFails
              PROVE  OnPhone
  OBVIOUS
<1>. phone \in Phones
  BY TypeParts
<1>. DEFINE d == [phone EXCEPT !.call = Idle]
            e == [phone EXCEPT !.call = Idle, !.known = TRUE]
<1>1. events' \in 0 .. MaxEvents /\ row' = row /\ role' = role
  BY EventType DEF DraftAnswered, SubmitSucceeds, SubmitRefused, CallFails, Screen
<1>2. ASSUME NEW c \in {d, e} PROVE c \in Phones /\ Kept(c)
  <2>1. /\ c \in Phones /\ c.form = phone.form /\ c.mine = phone.mine /\ c.fresh = phone.fresh
        /\ c.call = Idle /\ c.load = phone.load /\ c.text = phone.text /\ c.tiny = phone.tiny
    BY IdleType DEF Phones
  <2>. HIDE DEF d, e
  <2>2. FormKept(c) /\ CallKept(c) /\ LoadKept(c)
    BY <2>1 DEF FormKept, CallKept, LoadKept
  <2>3. TinyKept(c)
    BY <2>1, NoneIsNotTiny DEF TinyKept, Priced, Idle
  <2>4. QED
    BY <2>1, <2>2, <2>3 DEF Kept
<1>3. Gone(Reset(e)) \in Phones /\ Kept(Gone(Reset(e)))
  <2>. DEFINE c == Reset(e)
  <2>1. /\ c \in Phones /\ c.form = Blank /\ ~c.fresh /\ c.call = e.call /\ c.load = e.load
        /\ c.text = e.text /\ c.tiny = e.tiny /\ e.call = Idle
    BY <1>2, BlankType, IdleType DEF Reset, Phones
  <2>2. Kept(e)
    BY <1>2
  <2>. HIDE DEF c, e
  <2>3. FormKept(c) /\ CallKept(c) /\ LoadKept(c)
    BY <2>1, <2>2 DEF Kept, FormKept, CallKept, LoadKept
  <2>4. TinyKept(c)
    BY <2>1, <2>2, NoneIsNotTiny DEF Kept, TinyKept, Priced
  <2>5. QED
    BY <2>1, <2>3, <2>4, GoneType, SameKept DEF Kept, c
<1>4. phone' \in {d, Sync(d), Sync(e), Gone(Reset(e))}
  BY DEF DraftAnswered, SubmitSucceeds, SubmitRefused, CallFails, Screen
<1>. HIDE DEF d, e
<1>5. QED
  BY <1>1, <1>2, <1>3, <1>4, SyncKept DEF OnPhone

PhoneStep ==
  \/ OpenNew \/ OpenEdit \/ Close \/ Back \/ GoOn
  \/ TypeText \/ ChooseTags \/ Autofill \/ UploadProgress
  \/ LoadFails \/ Submit
  \/ DraftAnswered \/ SubmitSucceeds \/ SubmitRefused \/ CallFails

LEMMA PhoneStepKept == TypeOK /\ PhoneStep => OnPhone
BY OpenStep, BackStep, GoOnStep, TypingStep, SubmitStep, AnswerStep DEF PhoneStep

\* The form that loadForEdit fills in replaces what there was.
LEMMA LoadedStep ==
  ASSUME TypeOK, Loaded
  PROVE  /\ phone' \in Phones /\ phone'.form = phone.load.form
         /\ phone'.fresh => phone.load.fresh
         /\ phone'.load = NoLoad /\ phone'.call = phone.call
         /\ phone'.tiny = phone.tiny /\ (Priced(phone) => Priced(phone'))
         /\ row' = row /\ role' = role /\ UNCHANGED events
<1>. DEFINE fresh == phone.load.early /\ phone.load.fresh
            d == [phone EXCEPT !.load = NoLoad, !.known = TRUE, !.form = phone.load.form,
                               !.mine = {}, !.fresh = fresh]
<1>1. phone \in Phones /\ phone.load \in Loads
  BY TypeParts DEF Phones
<1>2. phone.load.form \in Texts /\ fresh \in BOOLEAN
  BY <1>1 DEF Loads
<1>3. /\ d \in Phones /\ d.form = phone.load.form /\ d.call = phone.call /\ d.fresh = fresh
      /\ d.load = NoLoad /\ d.tiny = phone.tiny /\ d.text = phone.text
  BY <1>1, <1>2, NoLoadType DEF Phones
<1>4. phone' = Sync(d) /\ row' = row /\ role' = role /\ UNCHANGED events
  BY DEF Loaded, Screen
<1>. HIDE DEF d
<1>5. /\ Sync(d) \in Phones /\ Same(d, Sync(d)) /\ Sync(d).load = d.load
      /\ \A t \in {Sync(d).form, Sync(d).text} : t["price"] \in {d.form["price"], d.text["price"], None}
  BY <1>3, SyncType DEF Sync, Same, Phones
<1>6. ASSUME Priced(phone) PROVE Priced(phone')
  BY <1>3, <1>4, <1>5, <1>6, NoLoadType, NoneIsNotTiny DEF Priced, Same
<1>7. QED
  BY <1>3, <1>4, <1>5, <1>6 DEF Same

-----------------------------------------------------------------------------
(* The server.                                                              *)

\* A call that was sent holds what it was sent with.
LEMMA CallParts ==
  ASSUME TypeOK, phone.call.at = "sent"
  PROVE  phone.call \in Calls /\ phone.call.body \in Texts
BY TypeParts DEF Phones, Calls

\* Nothing is fresh once the row is saved; nothing else changes.
LEMMA StaleType ==
  ASSUME NEW d \in Phones
  PROVE  /\ Stale(d) \in Phones
         /\ ~Stale(d).fresh /\ ~Stale(d).load.fresh /\ ~Stale(d).call.fresh
         /\ Stale(d).form = d.form /\ Stale(d).mine = d.mine /\ Stale(d).text = d.text
         /\ Stale(d).tiny = d.tiny /\ Stale(d).load.form = d.load.form
         /\ Stale(d).call.at = d.call.at /\ Stale(d).call.body = d.call.body
         /\ Stale(d).call.mine = d.call.mine
<1>. DEFINE load == [d.load EXCEPT !.fresh = FALSE]
            call == [d.call EXCEPT !.fresh = FALSE]
            e == [d EXCEPT !.fresh = FALSE, !.load = load, !.call = call]
<1>1. load \in Loads /\ ~load.fresh /\ load.form = d.load.form
  BY DEF Phones, Loads
<1>2. /\ call \in Calls /\ ~call.fresh /\ call.at = d.call.at /\ call.body = d.call.body
      /\ call.mine = d.call.mine
  BY DEF Phones, Calls
<1>3. Stale(d) = e
  BY DEF Stale, Phones
<1>. HIDE DEF load, call
<1>4. /\ e \in Phones /\ ~e.fresh /\ e.load = load /\ e.call = call /\ e.form = d.form
      /\ e.mine = d.mine /\ e.text = d.text /\ e.tiny = d.tiny
  BY <1>1, <1>2 DEF Phones
<1>. HIDE DEF e
<1>5. QED
  BY <1>1, <1>2, <1>3, <1>4

LEMMA StepType ==
  ASSUME TypeOK, phone.call.at = "sent", NEW at \in {"served", "refused"}, Serve(at)
  PROVE  /\ phone' \in Phones /\ phone'.call.at = at /\ ~phone'.call.fresh
         /\ phone'.call.body = Blank
         /\ phone'.form = phone.form /\ phone'.mine = phone.mine /\ phone'.text = phone.text
         /\ phone'.tiny = phone.tiny /\ phone'.load.form = phone.load.form
         /\ at = "served" => ~phone'.fresh /\ ~phone'.load.fresh
         /\ at = "refused" => phone'.fresh = phone.fresh /\ phone'.load.fresh = phone.load.fresh
<1>. DEFINE new == [Idle EXCEPT !.kind = phone.call.kind, !.at = at]
            d == [phone EXCEPT !.call = new]
<1>1. new \in Calls /\ new.at = at /\ ~new.fresh /\ new.body = Blank
  BY CallParts, BlankType DEF Idle, Calls
<1>2. phone' = IF at = "served" THEN Stale(d) ELSE d
  BY DEF Serve
<1>. HIDE DEF new
<1>3. /\ d \in Phones /\ d.call = new /\ d.form = phone.form /\ d.mine = phone.mine
      /\ d.text = phone.text /\ d.tiny = phone.tiny /\ d.load = phone.load /\ d.fresh = phone.fresh
  BY <1>1, TypeParts DEF Phones
<1>. HIDE DEF d
<1>4. QED
  BY <1>1, <1>2, <1>3, StaleType

\* A call is applied, by POST or by PATCH, only if it is complete.
LEMMA ServedRow ==
  ASSUME TypeOK, SentIsComplete, ServePost \/ ServePatch
  PROVE  /\ phone.call.at = "sent" /\ role' = role /\ UNCHANGED events
         /\ \/ Serve("refused") /\ row' = row
            \/ /\ Serve("served") /\ phone.call.kind \in {"create", "insert"}
               /\ phone.call.body["place"] # None
               /\ row' = [val |-> Inserted(phone.call.body), own |-> TRUE, deleted |-> FALSE]
            \/ /\ Serve("served") /\ phone.call.kind = "patch" /\ row \in Rows
               /\ row' = [row EXCEPT !.val = Patched(row.val, phone.call.body)]
<1>1. CASE ServePost
  <2>1. phone.call.body["place"] = phone.call.body.place
    BY <1>1, CallParts DEF ServePost, Texts, Field
  <2>2. QED
    BY <1>1, <2>1 DEF ServePost
<1>2. CASE ServePatch
  BY <1>2, TypeParts DEF ServePatch, Alive
<1>3. QED
  BY <1>1, <1>2

LEMMA ServeType ==
  ASSUME TypeOK, SentIsComplete, ServePost \/ ServePatch
  PROVE  TypeOK'
<1>1. phone.call.at = "sent" /\ role' = role /\ UNCHANGED events
  BY ServedRow
<1>2. phone.call.body \in Texts /\ Complete(phone.call.body)
  BY <1>1, CallParts DEF SentIsComplete
<1>3. phone' \in Phones
  BY <1>1, ServedRow, StepType
<1>4. row' \in Rows \union {None}
  <2>1. CASE row' = row
    BY <2>1, TypeParts
  <2>2. CASE /\ phone.call.body["place"] # None
             /\ row' = [val |-> Inserted(phone.call.body), own |-> TRUE, deleted |-> FALSE]
    BY <1>2, <2>2, InsertedType DEF Rows
  <2>3. CASE row \in Rows /\ row' = [row EXCEPT !.val = Patched(row.val, phone.call.body)]
    BY <1>2, <2>3, PatchedType DEF Rows
  <2>4. QED
    BY <2>1, <2>2, <2>3, ServedRow
<1>5. QED
  BY <1>1, <1>3, <1>4, EventType, TypeParts

\* The server's answer to loadForEdit.
LEMMA GetStep ==
  ASSUME TypeOK, ServeGet
  PROVE  /\ row \in Rows /\ phone' \in Phones
         /\ phone'.load.form = Shown(role) /\ phone'.load.fresh
         /\ phone'.form = phone.form /\ phone'.mine = phone.mine /\ phone'.fresh = phone.fresh
         /\ phone'.call = phone.call /\ phone'.text = phone.text /\ phone'.tiny = phone.tiny
         /\ row' = row /\ role' = role /\ UNCHANGED events
<1>. DEFINE load == [phone.load EXCEPT !.at = "answered", !.form = Shown(role), !.fresh = TRUE]
<1>1. row \in Rows /\ phone \in Phones /\ phone.load \in Loads
  BY TypeParts DEF ServeGet, Alive, Phones
<1>2. Shown(role) \in Texts
  BY <1>1, ShownType
<1>3. load \in Loads /\ load.form = Shown(role) /\ load.fresh
  BY <1>1, <1>2 DEF Loads
<1>4. phone' = [phone EXCEPT !.load = load] /\ row' = row /\ role' = role /\ UNCHANGED events
  BY <1>1 DEF ServeGet, Screen
<1>. HIDE DEF load
<1>5. QED
  BY <1>1, <1>3, <1>4 DEF Phones

\* No price that loadForEdit fills in is below half a paisa.
LEMMA ShownPrice == ASSUME row \in Rows, NEW r PROVE ~Tiny("price", Shown(r)["price"])
<1>1. row.val["price"] \in NumericColumn
  BY DEF Rows, Columns, Column, Field
<1>2. Shown(r)["price"] = Whole(row.val["price"])
  BY DEF Shown, Got, Field
<1>3. QED
  BY <1>1, <1>2, WholeType DEF Tiny

\* What somebody else saves.
LEMMA SavedRow ==
  ASSUME TypeOK, SavedElsewhere
  PROVE  /\ row \in Rows
         /\ \E body \in Texts :
              /\ Complete(body) /\ row' = [row EXCEPT !.val = Patched(row.val, body)]
              /\ Tiny("price", body["price"]) => phone'.tiny
         /\ phone.tiny => phone'.tiny
         /\ phone' \in Phones /\ ~phone'.fresh /\ ~phone'.load.fresh /\ ~phone'.call.fresh
         /\ phone'.form = phone.form /\ phone'.mine = phone.mine /\ phone'.text = phone.text
         /\ phone'.load.form = phone.load.form /\ phone'.call.at = phone.call.at
         /\ phone'.call.body = phone.call.body /\ phone'.call.mine = phone.call.mine
<1>1. row \in Rows /\ phone \in Phones
  BY TypeParts DEF SavedElsewhere, Alive
<1>2. PICK f \in Field : \E v \in Inputs(f) :
        LET body == [Shown("SUPER_ADMIN") EXCEPT ![f] = v]
        IN  /\ Complete(body) /\ row' = [row EXCEPT !.val = Patched(row.val, body)]
            /\ phone' = [Stale(phone) EXCEPT !.tiny = @ \/ Tiny(f, v)]
  BY DEF SavedElsewhere
<1>3. PICK v \in Inputs(f) :
        LET body == [Shown("SUPER_ADMIN") EXCEPT ![f] = v]
        IN  /\ Complete(body) /\ row' = [row EXCEPT !.val = Patched(row.val, body)]
            /\ phone' = [Stale(phone) EXCEPT !.tiny = @ \/ Tiny(f, v)]
  BY <1>2
<1>. DEFINE body == [Shown("SUPER_ADMIN") EXCEPT ![f] = v]
            d == Stale(phone)
<1>4. Shown("SUPER_ADMIN") \in Texts /\ v \in Text(f) /\ body \in Texts
  BY <1>1, ShownType, Typed, TextIn
<1>5. Complete(body) /\ row' = [row EXCEPT !.val = Patched(row.val, body)]
  BY <1>3
<1>6. phone' = [d EXCEPT !.tiny = d.tiny \/ Tiny(f, v)]
  BY <1>3
<1>7. d \in Phones /\ d.tiny = phone.tiny
  BY <1>1, StaleType
<1>. HIDE DEF body, d
<1>8. ASSUME NEW tiny, tiny \in BOOLEAN, phone' = [d EXCEPT !.tiny = tiny]
      PROVE  /\ phone' \in Phones /\ phone'.tiny = tiny /\ phone'.fresh = d.fresh
             /\ phone'.load = d.load /\ phone'.call = d.call /\ phone'.form = d.form
             /\ phone'.mine = d.mine /\ phone'.text = d.text
  BY <1>7, <1>8 DEF Phones
<1>9. (d.tiny \/ Tiny(f, v)) \in BOOLEAN
  BY <1>7 DEF Phones, Tiny
<1>10. /\ phone' \in Phones /\ phone'.tiny = (d.tiny \/ Tiny(f, v)) /\ phone'.fresh = d.fresh
       /\ phone'.load = d.load /\ phone'.call = d.call /\ phone'.form = d.form
       /\ phone'.mine = d.mine /\ phone'.text = d.text
  BY <1>6, <1>8, <1>9
<1>11. Tiny("price", body["price"]) => phone'.tiny
  <2>1. CASE f = "price"
    <3>1. body["price"] = v
      BY <1>4, <2>1 DEF body, Texts
    <3>2. QED
      BY <1>10, <2>1, <3>1
  <2>2. CASE f # "price"
    <3>1. body["price"] = Shown("SUPER_ADMIN")["price"]
      BY <1>4, <2>2 DEF body, Texts, Field
    <3>2. QED
      BY <1>1, <3>1, ShownPrice
  <2>3. QED
    BY <2>1, <2>2
<1>12. phone.tiny => phone'.tiny
  BY <1>7, <1>10
<1>13. QED
  BY <1>1, <1>4, <1>5, <1>10, <1>11, <1>12, StaleType DEF d

LEMMA TypeStep == TypeOK /\ SentIsComplete /\ [Next]_vars => TypeOK'
<1>. SUFFICES ASSUME TypeOK, SentIsComplete, [Next]_vars PROVE TypeOK'
  OBVIOUS
<1>1. CASE PhoneStep
  BY <1>1, PhoneStepKept, TypeParts DEF OnPhone
<1>2. CASE Loaded
  BY <1>2, LoadedStep, EventType, TypeParts
<1>3. CASE ServeGet \/ ServePost \/ ServePatch
  BY <1>3, GetStep, ServeType, EventType, TypeParts
<1>4. CASE Delete
  <2>1. row' \in Rows
    BY <1>4, TypeParts DEF Delete, Alive, Rows
  <2>2. QED
    BY <1>4, <2>1, EventType, TypeParts DEF Delete
<1>5. CASE SavedElsewhere
  <2>1. row' \in Rows
    BY <1>5, SavedRow, PatchedType DEF Rows
  <2>2. QED
    BY <1>5, <2>1, SavedRow, EventType, TypeParts DEF SavedElsewhere
<1>6. CASE UNCHANGED vars
  BY <1>6, TypeParts DEF vars
<1>7. QED
  BY <1>1, <1>2, <1>3, <1>4, <1>5, <1>6 DEF Next, PhoneStep

-----------------------------------------------------------------------------
(* The invariants.                                                          *)

\* A complete form leaves a row with an owner, and with a price unless it is too small.
LEMMA CompleteRow ==
  ASSUME NEW body \in Texts, Complete(body)
  PROVE  /\ body["contact"] # None /\ body["price"] \notin {None, 0}
         /\ \A val \in Columns :
              LET new == Patched(val, body)
              IN  new.contact = body["contact"] /\ (new.price = 0 => Tiny("price", body["price"]))
         /\ LET new == Inserted(body)
            IN  new.contact = body["contact"] /\ (new.price = 0 => Tiny("price", body["price"]))
<1>1. body["contact"] # None /\ body["price"] \notin {None, 0}
  BY DEF Complete, Texts, Field
<1>2. body["contact"] \in Contact /\ body["price"] \in Nat
  BY <1>1 DEF Texts, Text, Field
<1>3. /\ Rounded(body["contact"]) = body["contact"]
      /\ Rounded(body["price"]) = 0 => Tiny("price", body["price"])
  BY <1>1, <1>2, RoundedText, RoundedAmount, EditAssumption DEF Tiny
<1>4. \A val \in Columns : /\ Patched(val, body).contact = Rounded(body["contact"])
                           /\ Patched(val, body).price = Rounded(body["price"])
  BY DEF Patched, Field
<1>5. Inserted(body).contact = Rounded(body["contact"]) /\ Inserted(body).price = Rounded(body["price"])
  BY DEF Inserted, Field
<1>6. QED
  BY <1>1, <1>3, <1>4, <1>5

LEMMA RowStep == TypeOK /\ EditInv /\ [Next]_vars => RowIsValid'
<1>. SUFFICES ASSUME TypeOK, EditInv, [Next]_vars PROVE RowIsValid'
  OBVIOUS
<1>. RowIsValid /\ SentIsComplete /\ TinyIsTyped
  BY DEF EditInv
<1>1. ASSUME row' = row, phone.tiny => phone'.tiny PROVE RowIsValid'
  BY <1>1 DEF RowIsValid
<1>2. CASE ServePost \/ ServePatch
  <2>1. phone.call.body \in Texts /\ Complete(phone.call.body)
    BY <1>2, ServedRow, CallParts DEF SentIsComplete
  <2>2. phone'.tiny = phone.tiny /\ (Tiny("price", phone.call.body["price"]) => phone'.tiny)
    BY <1>2, ServedRow, StepType DEF TinyIsTyped
  <2>3. CASE row' = [val |-> Inserted(phone.call.body), own |-> TRUE, deleted |-> FALSE]
    BY <2>1, <2>2, <2>3, CompleteRow DEF RowIsValid
  <2>4. CASE row \in Rows /\ row' = [row EXCEPT !.val = Patched(row.val, phone.call.body)]
    <3>1. row'.val = Patched(row.val, phone.call.body) /\ row.val \in Columns
      BY <2>4 DEF Rows
    <3>2. QED
      BY <2>1, <2>2, <3>1, CompleteRow DEF RowIsValid
  <2>5. QED
    BY <1>1, <1>2, <2>2, <2>3, <2>4, ServedRow
<1>3. CASE SavedElsewhere
  <2>1. PICK body \in Texts : /\ Complete(body) /\ row' = [row EXCEPT !.val = Patched(row.val, body)]
                              /\ Tiny("price", body["price"]) => phone'.tiny
    BY <1>3, SavedRow
  <2>2. row'.val = Patched(row.val, body) /\ row.val \in Columns
    BY <1>3, <2>1, SavedRow DEF Rows
  <2>3. QED
    BY <2>1, <2>2, CompleteRow DEF RowIsValid
<1>4. CASE Delete
  <2>1. row # None /\ row'.val = row.val /\ phone' = phone
    BY <1>4, TypeParts DEF Delete, Alive, Rows
  <2>2. QED
    BY <2>1 DEF RowIsValid
<1>5. CASE PhoneStep \/ Loaded \/ ServeGet \/ UNCHANGED vars
  BY <1>1, <1>5, PhoneStepKept, LoadedStep, GetStep DEF OnPhone, Kept, TinyKept, vars
<1>6. QED
  BY <1>2, <1>3, <1>4, <1>5 DEF Next, PhoneStep

LEMMA SentStep == TypeOK /\ EditInv /\ [Next]_vars => SentIsComplete'
<1>. SUFFICES ASSUME TypeOK, EditInv, [Next]_vars PROVE SentIsComplete'
  OBVIOUS
<1>. SentIsComplete
  BY DEF EditInv
<1>1. CASE phone'.call = phone.call
  BY <1>1 DEF SentIsComplete
<1>2. ASSUME CallKept(phone') PROVE SentIsComplete'
  BY <1>1, <1>2 DEF CallKept, SentIsComplete, Idle
<1>3. CASE PhoneStep
  BY <1>2, <1>3, PhoneStepKept DEF OnPhone, Kept
<1>4. CASE ServePost \/ ServePatch
  BY <1>4, ServedRow, StepType DEF SentIsComplete
<1>5. CASE SavedElsewhere
  BY <1>5, SavedRow DEF SentIsComplete
<1>6. CASE Loaded \/ ServeGet \/ Delete \/ UNCHANGED vars
  BY <1>1, <1>6, LoadedStep, GetStep DEF Delete, vars
<1>7. QED
  BY <1>3, <1>4, <1>5, <1>6 DEF Next, PhoneStep

\* What the form is loaded with depends on the contents of the row only.
LEMMA ShownSame ==
  ASSUME role' = role, row' = row \/ row'.val = row.val
  PROVE  Shown(role)' = Shown(role)
BY DEF Shown, Got

LEMMA FreshStep == TypeOK /\ EditInv /\ [Next]_vars => FreshIsShown'
<1>. SUFFICES ASSUME TypeOK, EditInv, [Next]_vars PROVE FreshIsShown'
  OBVIOUS
<1>. FreshIsShown /\ SentIsComplete
  BY DEF EditInv
<1>1. CASE PhoneStep
  <2>1. FormKept(phone') /\ CallKept(phone') /\ LoadKept(phone') /\ row' = row /\ role' = role
    BY <1>1, PhoneStepKept DEF OnPhone, Kept
  <2>2. Shown(role)' = Shown(role)
    BY <2>1, ShownSame
  <2>3. phone'.fresh => \A f \in Field \ phone'.mine : phone'.form[f] = Shown(role)[f]
    BY <2>1 DEF FormKept, FreshIsShown
  <2>4. phone'.load.fresh => phone'.load.form = Shown(role)
    BY <2>1 DEF LoadKept, FreshIsShown
  <2>5. phone'.call.fresh => \A f \in Field \ phone'.call.mine : phone'.call.body[f] = Shown(role)[f]
    <3>1. CASE phone'.call = phone.call
      BY <3>1 DEF FreshIsShown
    <3>2. CASE phone'.call = Idle
      BY <3>2 DEF Idle
    <3>3. CASE phone'.call.body = phone'.form /\ phone'.call.mine = phone'.mine /\ phone'.call.fresh = phone'.fresh
      BY <2>3, <3>3
    <3>4. QED
      BY <2>1, <3>1, <3>2, <3>3 DEF CallKept
  <2>6. QED
    BY <2>2, <2>3, <2>4, <2>5 DEF FreshIsShown
<1>2. CASE Loaded \/ ServeGet
  <2>1. Shown(role)' = Shown(role)
    BY <1>2, LoadedStep, GetStep, ShownSame
  <2>2. QED
    BY <1>2, <2>1, LoadedStep, GetStep, NoLoadType DEF FreshIsShown
<1>3. CASE ServePost \/ ServePatch
  <2>1. CASE Serve("served")
    BY <1>3, <2>1, ServedRow, StepType DEF FreshIsShown
  <2>2. CASE Serve("refused") /\ row' = row
    <3>1. Shown(role)' = Shown(role)
      BY <1>3, <2>2, ServedRow, ShownSame
    <3>2. QED
      BY <1>3, <2>2, <3>1, ServedRow, StepType DEF FreshIsShown
  <2>3. QED
    BY <1>3, <2>1, <2>2, ServedRow
<1>4. CASE SavedElsewhere
  BY <1>4, SavedRow DEF FreshIsShown
<1>5. CASE Delete
  <2>1. row'.val = row.val /\ role' = role /\ phone' = phone
    BY <1>5, TypeParts DEF Delete, Alive, Rows
  <2>2. Shown(role)' = Shown(role)
    BY <2>1, ShownSame
  <2>3. QED
    BY <2>1, <2>2 DEF FreshIsShown
<1>6. CASE UNCHANGED vars
  BY <1>6, ShownSame DEF vars, FreshIsShown
<1>7. QED
  BY <1>1, <1>2, <1>3, <1>4, <1>5, <1>6 DEF Next, PhoneStep

LEMMA HiddenStep == TypeOK /\ EditInv /\ [Next]_vars => OwnerIsHidden'
<1>. SUFFICES ASSUME TypeOK, EditInv, [Next]_vars, role' = "BROKER" PROVE OwnerIsHidden'
  BY DEF OwnerIsHidden, Hidden
<1>. DEFINE Owned(form, mine) == form["contact"] # None => "contact" \in mine
<1>1. role = "BROKER"
  BY PhoneStepKept, LoadedStep, GetStep, ServedRow
     DEF EditInv, Next, PhoneStep, OnPhone, Delete, SavedElsewhere, vars
<1>2. Owned(phone.load.form, {}) /\ Owned(phone.form, phone.mine) /\ Owned(phone.call.body, phone.call.mine)
  BY <1>1 DEF EditInv, OwnerIsHidden, Hidden
<1>3. SUFFICES /\ Owned(phone'.load.form, {}) /\ Owned(phone'.form, phone'.mine)
               /\ Owned(phone'.call.body, phone'.call.mine)
  BY DEF OwnerIsHidden, Hidden
<1>4. CASE PhoneStep
  <2>1. FormKept(phone') /\ CallKept(phone') /\ LoadKept(phone')
    BY <1>4, PhoneStepKept DEF OnPhone, Kept
  <2>2. Owned(phone'.form, phone'.mine) /\ Owned(phone'.load.form, {})
    BY <1>2, <2>1, BlankPrice DEF FormKept, LoadKept, Field
  <2>3. Owned(phone'.call.body, phone'.call.mine)
    BY <1>2, <2>1, <2>2, BlankPrice DEF CallKept, Idle
  <2>4. QED
    BY <2>2, <2>3
<1>5. CASE Loaded
  BY <1>2, <1>5, LoadedStep, NoLoadType, BlankPrice
<1>6. CASE ServeGet
  <2>1. Shown(role)["contact"] = None
    BY <1>1 DEF Shown, Got, Field
  <2>2. QED
    BY <1>2, <1>6, <2>1, GetStep
<1>7. CASE ServePost \/ ServePatch
  BY <1>2, <1>7, ServedRow, StepType, BlankPrice DEF EditInv
<1>8. CASE SavedElsewhere
  BY <1>2, <1>8, SavedRow
<1>9. CASE Delete \/ UNCHANGED vars
  BY <1>2, <1>9 DEF Delete, vars
<1>10. QED
  BY <1>4, <1>5, <1>6, <1>7, <1>8, <1>9 DEF Next, PhoneStep

LEMMA TinyStep == TypeOK /\ EditInv /\ [Next]_vars => TinyIsTyped'
<1>. SUFFICES ASSUME TypeOK, EditInv, [Next]_vars PROVE Priced(phone')
  BY DEF TinyIsTyped, Priced
<1>. Priced(phone) /\ SentIsComplete
  BY DEF EditInv, TinyIsTyped, Priced
<1>1. CASE PhoneStep
  BY <1>1, PhoneStepKept DEF OnPhone, Kept, TinyKept
<1>2. CASE Loaded
  BY <1>2, LoadedStep
<1>3. CASE ServeGet
  BY <1>3, GetStep, ShownPrice DEF Priced
<1>4. CASE ServePost \/ ServePatch
  BY <1>4, ServedRow, StepType, NoneIsNotTiny DEF Priced
<1>5. CASE SavedElsewhere
  BY <1>5, SavedRow DEF Priced
<1>6. CASE Delete \/ UNCHANGED vars
  BY <1>6 DEF Delete, vars
<1>7. QED
  BY <1>1, <1>2, <1>3, <1>4, <1>5, <1>6 DEF Next, PhoneStep

\* The row a run begins with was typed, and stored, before.
LEMMA FirstRow ==
  ASSUME NEW t, \A f \in Field : t[f] \in Inputs(f), t["area"] # Garbage, t["place"] # None,
         Rounded(t["price"]) \notin {None, 0}
  PROVE  [f \in Field |-> Rounded(t[f])] \in Columns
<1>1. ASSUME NEW f \in Field PROVE Rounded(t[f]) \in Column(f)
  <2>1. t[f] \in Inputs(f)
    OBVIOUS
  <2>2. CASE f \in {"price", "area"}
    <3>1. t[f] \in Nat \/ t[f] = None
      BY <2>1, <2>2, EditAssumption DEF Inputs, Field
    <3>2. CASE t[f] \in Nat
      BY <2>2, <3>2, RoundedAmount DEF Column, Field
    <3>3. CASE t[f] = None
      <4>1. Rounded(t[f]) = None
        BY <3>3, RoundedText, EditAssumption
      <4>2. f = "area"
        BY <2>2, <4>1
      <4>3. QED
        BY <4>1, <4>2 DEF Column
    <3>4. QED
      BY <3>1, <3>2, <3>3
  <2>3. CASE f \notin {"price", "area"}
    <3>1. t[f] \in Contact \union Place \union Tag \union {None}
      BY <2>1, <2>3 DEF Inputs, Field
    <3>2. Rounded(t[f]) = t[f]
      BY <3>1, RoundedText, EditAssumption
    <3>3. QED
      BY <2>1, <2>3, <3>2 DEF Inputs, Column, Text, Field
  <2>4. QED
    BY <2>2, <2>3
<1>2. QED
  BY <1>1, TextIn DEF Columns

LEMMA InitRow ==
  ASSUME Init, row # None
  PROVE  row \in Rows /\ row.val["contact"] # None /\ row.val["price"] # 0
<1>1. PICK t \in [Field -> UNION {Inputs(f) : f \in Field}], own \in BOOLEAN :
        /\ \A f \in Field : t[f] \in Inputs(f)
        /\ t["contact"] # None /\ Rounded(t["price"]) \notin {None, 0} /\ t["area"] # Garbage
        /\ t["place"] # None
        /\ row = [val |-> [f \in Field |-> Rounded(t[f])], own |-> own, deleted |-> FALSE]
  BY DEF Init
<1>. DEFINE val == [f \in Field |-> Rounded(t[f])]
<1>2. val \in Columns
  BY <1>1, FirstRow
<1>3. t["contact"] \in Contact
  BY <1>1 DEF Inputs, Field
<1>4. val["contact"] = t["contact"]
  BY <1>3, RoundedText, EditAssumption DEF Field
<1>5. val["price"] = Rounded(t["price"])
  BY DEF Field
<1>6. row = [val |-> val, own |-> own, deleted |-> FALSE]
  BY <1>1
<1>. HIDE DEF val
<1>7. QED
  BY <1>1, <1>2, <1>4, <1>5, <1>6 DEF Rows

\* The row, the forms and the calls are well-typed, and the invariant behind the theorems
\* below is inductive.
THEOREM EditInvariant == Spec => [](TypeOK /\ EditInv)
<1>1. Init => TypeOK
  <2>. SUFFICES ASSUME Init PROVE TypeOK
    OBVIOUS
  <2>1. phone \in Phones
    BY BlankType, IdleType, NoLoadType DEF Init, Phones, Pages
  <2>2. events \in 0 .. MaxEvents
    BY EditAssumption DEF Init
  <2>3. QED
    BY <2>1, <2>2, InitRow, TypeParts DEF Init
<1>2. Init => EditInv
  <2>. SUFFICES ASSUME Init PROVE EditInv
    OBVIOUS
  <2>1. /\ phone.load = NoLoad /\ phone.form = Blank /\ phone.text = Blank /\ phone.call = Idle
        /\ ~phone.fresh
    BY DEF Init
  <2>2. RowIsValid
    BY InitRow DEF RowIsValid, Rows, Columns, Field
  <2>3. SentIsComplete /\ FreshIsShown
    BY <2>1, NoLoadType DEF SentIsComplete, FreshIsShown, Idle
  <2>4. OwnerIsHidden
    BY <2>1, NoLoadType, BlankPrice DEF OwnerIsHidden, Hidden, Idle
  <2>5. TinyIsTyped
    BY <2>1, NoLoadType, NoneIsNotTiny DEF TinyIsTyped, Idle
  <2>6. QED
    BY <2>2, <2>3, <2>4, <2>5 DEF EditInv
<1>3. TypeOK /\ EditInv /\ [Next]_vars => (TypeOK /\ EditInv)'
  BY TypeStep, RowStep, SentStep, FreshStep, HiddenStep, TinyStep DEF EditInv
<1>4. QED
  BY <1>1, <1>2, <1>3, PTL DEF Spec

-----------------------------------------------------------------------------
(* The theorems.                                                            *)

\* No sequence of edits leaves a row without an owner; nor without a price, unless somebody
\* typed one that the column rounds to 0: the rounding of the column, and of what loadForEdit
\* shows, never turns another price into 0.
THEOREM RowStaysValid == Spec => []RowIsValid
BY EditInvariant, PTL DEF EditInv

\* Only the handlers of POST and PATCH make a call that was sent a served one.
LEMMA ServedBy ==
  ASSUME TypeOK, SentIsComplete, [Next]_vars, phone.call.at = "sent", phone'.call.at = "served"
  PROVE  ServePost \/ ServePatch
<1>1. CASE PhoneStep
  <2>1. CallKept(phone')
    BY <1>1, PhoneStepKept DEF OnPhone, Kept
  <2>2. QED
    BY <2>1 DEF CallKept, Idle
<1>2. CASE SavedElsewhere
  BY <1>2, SavedRow
<1>3. CASE Loaded \/ ServeGet \/ Delete \/ UNCHANGED vars
  BY <1>3, LoadedStep, GetStep DEF Delete, vars
<1>4. QED
  BY <1>1, <1>2, <1>3 DEF Next, PhoneStep

\* An edit that began with the row as it is, and that nobody else's change crossed, leaves
\* every field alone that the user did not change, but for the rounding.
THEOREM UntouchedKept == Spec => UntouchedIsKept
<1>. DEFINE Untyped == Patches /\ phone.call.fresh =>
                         \A f \in Field \ phone.call.mine :
                           \/ row'.val[f] = row.val[f]
                           \/ f \in {"price", "area"} /\ row'.val[f] = Whole(row.val[f])
<1>1. ASSUME TypeOK, EditInv, [Next]_vars, Patches, phone.call.fresh, NEW f \in Field \ phone.call.mine
      PROVE  \/ row'.val[f] = row.val[f]
             \/ f \in {"price", "area"} /\ row'.val[f] = Whole(row.val[f])
  <2>. DEFINE body == phone.call.body
  <2>1. ServePost \/ ServePatch
    BY <1>1, ServedBy DEF EditInv, Patches
  <2>2. row \in Rows /\ row' = [row EXCEPT !.val = Patched(row.val, body)]
    BY <1>1, <2>1, ServedRow, StepType DEF EditInv, Patches
  <2>3. /\ row'.val = Patched(row.val, body) /\ \A g \in Field : row.val[g] \in Column(g)
        /\ body \in Texts /\ Complete(body)
    BY <1>1, <2>2, CallParts DEF Rows, Columns, EditInv, SentIsComplete, Patches
  <2>4. body[f] = Shown(role)[f]
    BY <1>1 DEF EditInv, FreshIsShown
  <2>5. body[f] = IF f \in {"price", "area"} THEN Whole(row.val[f])
                  ELSE IF f = "contact" /\ role # "SUPER_ADMIN" THEN None ELSE row.val[f]
    BY <2>4 DEF Shown, Got
  <2>6. CASE f = "contact"
    <3>1. body[f] # None /\ row'.val[f] = body[f]
      <4>1. row'.val["contact"] = Rounded(body["contact"])
        BY <2>3 DEF Patched, Field
      <4>2. body["contact"] # None /\ body["contact"] \in Contact
        BY <2>3, CompleteRow DEF Texts, Text, Field
      <4>3. QED
        BY <2>6, <4>1, <4>2, RoundedText, EditAssumption
    <3>2. QED
      BY <2>5, <2>6, <3>1
  <2>7. CASE f \in {"price", "area"}
    <3>1. (f = "area" /\ row.val[f] = None) \/ row.val[f] \in NumericColumn
      BY <2>3, <2>7 DEF Column, Field
    <3>2. CASE row.val[f] \in NumericColumn
      <4>1. body[f] \in NumericColumn /\ body[f] \in Nat
        BY <2>5, <2>7, <3>2, WholeType DEF NumericColumn
      <4>2. body[f] # Garbage /\ body[f] # None
        BY <4>1, EditAssumption
      <4>3. row'.val[f] = body[f]
        BY <2>3, <2>7, <4>1, <4>2, RoundedAmount DEF Patched, Field
      <4>4. QED
        BY <2>5, <2>7, <4>3
    <3>3. CASE f = "area" /\ row.val[f] = None
      <4>1. body[f] = None
        BY <2>5, <3>3 DEF Whole
      <4>2. row'.val[f] = row.val[f]
        BY <2>3, <3>3, <4>1, EditAssumption DEF Patched, Field
      <4>3. QED
        BY <4>2
    <3>4. QED
      BY <3>1, <3>2, <3>3
  <2>8. CASE f \in {"place", "tags"}
    <3>1. row.val[f] # None /\ row.val[f] \notin Nat /\ body[f] = row.val[f]
      BY <2>3, <2>5, <2>8, EditAssumption DEF Column, Text, Field
    <3>2. QED
      BY <2>3, <2>8, <3>1, RoundedText DEF Patched, Field
  <2>9. QED
    BY <2>6, <2>7, <2>8 DEF Field
<1>2. TypeOK /\ EditInv /\ [Next]_vars => [Untyped]_vars
  BY <1>1
<1>. HIDE DEF Untyped
<1>3. Spec => [][Untyped]_vars
  BY <1>2, EditInvariant, PTL DEF Spec
<1>4. QED
  BY <1>3 DEF Untyped, UntouchedIsKept

\* A broker's PATCH never writes back an owner's contact that came from the server.
THEOREM OwnerEntered == Spec => OwnerIsEntered
<1>. DEFINE Entered == Patches /\ role = "BROKER" => "contact" \in phone.call.mine
<1>1. TypeOK /\ EditInv => Entered
  <2>. SUFFICES ASSUME TypeOK, EditInv, Patches, role = "BROKER" PROVE "contact" \in phone.call.mine
    OBVIOUS
  <2>1. phone.call.body \in Texts /\ Complete(phone.call.body)
    BY CallParts DEF EditInv, SentIsComplete, Patches
  <2>2. phone.call.body["contact"] # None
    BY <2>1, CompleteRow
  <2>3. QED
    BY <2>2 DEF EditInv, OwnerIsHidden, Hidden
<1>2. TypeOK /\ EditInv /\ [Next]_vars => [Entered]_vars
  BY <1>1
<1>. HIDE DEF Entered
<1>3. Spec => [][Entered]_vars
  BY <1>2, EditInvariant, PTL DEF Spec
<1>4. QED
  BY <1>3 DEF Entered, OwnerIsEntered
=============================================================================
