-------------------------- MODULE Calculator_proofs --------------------------
(***************************************************************************)
(* Proofs about Calculator, for any amounts, rates, splits and number of    *)
(* calculations under way.                                                  *)
(***************************************************************************)
EXTENDS Calculator, TLAPS

-----------------------------------------------------------------------------
(* Rounding.                                                                *)

\* What is rounded is a natural number, and at most half a paisa off.
LEMMA NearestType ==
  ASSUME NEW n \in Nat, NEW d \in Nat \ {0}, NEW k \in Nearest(n, d)
  PROVE  k \in Nat /\ 2 * n - d <= 2 * d * k /\ 2 * d * k <= 2 * n + d
<1>1. n \div d \in Nat
  OBVIOUS
<1>2. QED
  BY <1>1 DEF Nearest

\* Three roundings are off by one and a half at most, hence by one.
LEMMA RoundedSum ==
  ASSUME NEW n \in Nat, NEW x \in Nat, NEW y \in Nat, x + y = 100 * n,
         NEW t \in Nearest(n, 1000), NEW a \in Nearest(x, 100000), NEW b \in Nearest(y, 100000)
  PROVE  a \in Nat /\ b \in Nat /\ t \in Nat /\ a + b - t \in -1 .. 1
<1>1. t \in Nat /\ 2 * n - 1000 <= 2 * 1000 * t /\ 2 * 1000 * t <= 2 * n + 1000
  BY NearestType
<1>2. a \in Nat /\ 2 * x - 100000 <= 2 * 100000 * a /\ 2 * 100000 * a <= 2 * x + 100000
  BY NearestType
<1>3. b \in Nat /\ 2 * y - 100000 <= 2 * 100000 * b /\ 2 * 100000 * b <= 2 * y + 100000
  BY NearestType
<1>4. QED
  BY <1>1, <1>2, <1>3

LEMMA InputType ==
  ASSUME NEW in \in Input
  PROVE  Value(in) \in Nat /\ in.rate \in Nat /\ Value(in) * in.rate \in Nat
<1>1. Value(in) \in Nat /\ in.rate \in Nat
  BY CalculatorAssumption DEF Input, Value
<1>2. QED
  BY <1>1

\* The results of a valid input: shares only if there is a split, and then they add up.
LEMMA ResultsType ==
  ASSUME NEW in \in Input, Valid(in), NEW res \in Results(in)
  PROVE  /\ res \in Shown /\ res.total \in Nat /\ AddUp(res)
         /\ in.split = None => res.a = None /\ res.b = None
         /\ in.split # None => res.a # None /\ res.b # None
<1>. DEFINE n == Value(in) * in.rate
<1>1. n \in Nat
  BY InputType
<1>2. res = [total |-> res.total, a |-> res.a, b |-> res.b]
      /\ res.total \in Nearest(n, 1000) /\ res.a \in Share(in, 1) /\ res.b \in Share(in, 2)
  BY DEF Results
<1>3. res.total \in Nat
  BY <1>1, <1>2, NearestType
<1>4. CASE in.split = None
  BY <1>2, <1>3, <1>4 DEF Share, Shown, AddUp
<1>5. CASE in.split # None
  <2>1. /\ in.split[1] \in Nat /\ in.split[2] \in Nat /\ in.split[1] + in.split[2] = 100
    BY <1>5 DEF Valid, ValidSplit
  <2>2. PICK x \in Nat, y \in Nat : x = n * in.split[1] /\ y = n * in.split[2]
    BY <1>1, <2>1
  <2>3. x + y = 100 * n
    BY <1>1, <2>1, <2>2
  <2>4. res.a \in Nearest(x, 100000) /\ res.b \in Nearest(y, 100000)
    BY <1>2, <1>5, <2>2 DEF Share
  <2>5. res.a \in Nat /\ res.b \in Nat /\ res.a + res.b - res.total \in -1 .. 1
    BY <1>1, <1>2, <2>3, <2>4, RoundedSum
  <2>6. QED
    BY <1>2, <1>3, <1>5, <2>5, CalculatorAssumption DEF Shown, AddUp
<1>6. QED
  BY <1>4, <1>5

-----------------------------------------------------------------------------
(* The page.                                                                *)

LEMMA ChangedInput ==
  ASSUME TypeOK, Change PROVE input' \in Input
<1>1. CASE \E mode \in Mode : input' = [input EXCEPT !.mode = mode]
  BY <1>1 DEF TypeOK, Input
<1>2. CASE \E v \in Amount : input' = IF input.mode = "sale" THEN [input EXCEPT !.sale = v]
                                                             ELSE [input EXCEPT !.rent = v]
  BY <1>2 DEF TypeOK, Input
<1>3. CASE \E rate \in Rate : input' = [input EXCEPT !.rate = rate]
  BY <1>3 DEF TypeOK, Input
<1>4. CASE \E split \in Split : input' = [input EXCEPT !.split = split]
  BY <1>4 DEF TypeOK, Input
<1>5. QED
  BY <1>1, <1>2, <1>3, <1>4 DEF Change

\* A request under way has an input, and answering it leaves the others.
LEMMA AnsweredType ==
  ASSUME TypeOK, NEW r \in Request, Answered(r)
  PROVE  /\ req[r].input \in Input
         /\ req'[r] = NoRequest /\ \A s \in Request \ {r} : req'[s] = req[s]
         /\ req' \in [Request -> [at : {"sent"}, input : Input] \union {NoRequest}]
         /\ crossed' \in BOOLEAN /\ ~isLoading'
BY DEF Answered, TypeOK

\* TypeOK, for any instance; the rounded results are natural numbers.
THEOREM CalculatorTypes == Spec => []TypeOK
<1>. Nothing \in Shown
  BY DEF Nothing, Shown
<1>1. Init => TypeOK
  <2>. SUFFICES ASSUME Init PROVE TypeOK
    OBVIOUS
  <2>1. input \in Input
    BY CalculatorAssumption DEF Init, Input, Mode
  <2>2. timers \in 0 .. 1 /\ changes \in Nat /\ shown \in Shown
    BY DEF Init
  <2>3. /\ isLoading \in BOOLEAN /\ crossed \in BOOLEAN /\ unread \in BOOLEAN
        /\ error \in {None, "invalid", "network"}
    BY DEF Init
  <2>4. req \in [Request -> [at : {"sent"}, input : Input] \union {NoRequest}]
    BY DEF Init
  <2>5. QED
    BY <2>1, <2>2, <2>3, <2>4 DEF TypeOK
<1>2. TypeOK /\ [Next]_vars => TypeOK'
  <2>. SUFFICES ASSUME TypeOK, [Next]_vars PROVE TypeOK'
    OBVIOUS
  <2>1. CASE Change
    <3>1. /\ changes' = changes + 1 /\ timers' = 1 /\ error' = None /\ shown' = Nothing
          /\ crossed' = FALSE /\ UNCHANGED <<req, isLoading, unread>>
      BY <2>1 DEF Change, ClearResult, ScheduleCalculate
    <3>2. timers' \in 0 .. 1 /\ changes' \in Nat /\ shown' \in Shown
      BY <3>1 DEF TypeOK
    <3>3. isLoading' \in BOOLEAN /\ crossed' \in BOOLEAN /\ unread' \in BOOLEAN /\ error' \in {None, "invalid", "network"}
      BY <3>1 DEF TypeOK
    <3>4. QED
      BY <2>1, <3>1, <3>2, <3>3, ChangedInput DEF TypeOK
  <2>2. CASE Calculate
    <3>1. timers' \in 0 .. 1
      BY <2>2 DEF Calculate, TypeOK
    <3>2. CASE Value(input) = 0
      BY <2>2, <3>1, <3>2 DEF Calculate, TypeOK
    <3>3. CASE Value(input) # 0
      BY <2>2, <3>1, <3>3 DEF Calculate, TypeOK
    <3>4. QED
      BY <3>2, <3>3
  <2>3. ASSUME NEW r \in Request, Receive(r) PROVE TypeOK'
    <3>1. PICK res \in Results(req[r].input) :
            shown' = [total |-> res.total,
                      a |-> IF res.a = None THEN shown.a ELSE res.a,
                      b |-> IF res.b = None THEN shown.b ELSE res.b]
      BY <2>3 DEF Receive
    <3>2. res \in Shown
      BY <2>3, <3>1, AnsweredType, ResultsType DEF Receive
    <3>3. shown' \in Shown
      BY <3>1, <3>2 DEF TypeOK, Shown
    <3>4. QED
      BY <2>3, <3>3, AnsweredType DEF Receive, Answered, TypeOK
  <2>4. ASSUME NEW r \in Request, ReceiveError(r) PROVE TypeOK'
    BY <2>4, AnsweredType DEF ReceiveError, Answered, TypeOK
  <2>5. ASSUME NEW r \in Request, ReceiveUnread(r) PROVE TypeOK'
    BY <2>5 DEF ReceiveUnread, TypeOK
  <2>6. CASE UNCHANGED vars
    BY <2>6 DEF vars, TypeOK
  <2>7. QED
    BY <2>1, <2>2, <2>3, <2>4, <2>5, <2>6 DEF Next
<1>3. QED
  BY <1>1, <1>2, PTL DEF Spec

\* What there is to say of the answer to the current input, when no other crossed it.
LEMMA ReceiveCurrent ==
  ASSUME TypeOK, PageInv, NEW r \in Request, Receive(r), ~crossed, req[r].input = input
  PROVE  shown' \in Results(input) /\ Valid(input) /\ error # "invalid"
<1>1. PICK res \in Results(input) :
        shown' = [total |-> res.total,
                  a |-> IF res.a = None THEN shown.a ELSE res.a,
                  b |-> IF res.b = None THEN shown.b ELSE res.b]
  BY DEF Receive
<1>2. Valid(input) /\ input \in Input
  BY DEF Receive, TypeOK
<1>3. error # "invalid"
  BY <1>2 DEF PageInv
<1>4. res = [total |-> res.total, a |-> res.a, b |-> res.b]
  BY <1>1 DEF Results
<1>5. (IF res.a = None THEN shown.a ELSE res.a) = res.a
      /\ (IF res.b = None THEN shown.b ELSE res.b) = res.b
  <2>1. shown = Nothing \/ shown \in Results(input)
    BY DEF PageInv
  <2>2. CASE input.split = None
    <3>1. res.a = None /\ res.b = None
      BY <1>1, <1>2, <2>2, ResultsType
    <3>2. shown.a = None /\ shown.b = None
      BY <1>2, <2>1, <2>2, ResultsType DEF Nothing
    <3>3. QED
      BY <3>1, <3>2
  <2>3. CASE input.split # None
    BY <1>1, <1>2, <2>3, ResultsType
  <2>4. QED
    BY <2>2, <2>3
<1>6. shown' = res
  BY <1>1, <1>4, <1>5
<1>7. QED
  BY <1>1, <1>2, <1>3, <1>6

LEMMA PageStep == TypeOK /\ PageInv /\ [Next]_vars => PageInv'
<1>. SUFFICES ASSUME TypeOK, PageInv, [Next]_vars PROVE PageInv'
  OBVIOUS
<1>1. CASE Change
  <2>1. /\ shown' = Nothing /\ error' = None /\ timers' = 1
        /\ req' = req /\ isLoading' = isLoading /\ unread' = unread
    BY <1>1 DEF Change, ClearResult, ScheduleCalculate
  <2>2. None # "invalid"
    BY CalculatorAssumption, <1>1 DEF Change
  <2>3. QED
    BY <2>1, <2>2 DEF PageInv
<1>2. CASE Calculate
  <2>1. /\ input' = input /\ shown' = shown /\ crossed' = crossed /\ unread' = unread
    BY <1>2 DEF Calculate
  <2>2. CASE Value(input) = 0
    <3>1. req' = req /\ isLoading' = isLoading /\ error' = error
      BY <1>2, <2>2 DEF Calculate
    <3>2. ~Valid(input)
      BY <2>2 DEF Valid
    <3>3. ~crossed => Settled'
      BY <2>1, <2>2, <3>1, <3>2 DEF PageInv, Settled, TypeOK
    <3>4. QED
      BY <2>1, <3>1, <3>3 DEF PageInv
  <2>3. CASE Value(input) # 0
    <3>1. PICK r \in Request :
            req[r] = NoRequest /\ req' = [req EXCEPT ![r] = [at |-> "sent", input |-> input]]
      BY <1>2, <2>3 DEF Calculate
    <3>2. error' = None /\ Value(input) > 0
      BY <1>2, <2>3, InputType DEF Calculate, TypeOK
    <3>3. req'[r] # NoRequest /\ req'[r].input = input /\ \A s \in Request \ {r} : req'[s] = req[s]
      BY <3>1 DEF NoRequest, TypeOK
    <3>4. QED
      BY <2>1, <3>2, <3>3, CalculatorAssumption DEF PageInv
  <2>4. QED
    BY <2>2, <2>3
<1>3. ASSUME NEW r \in Request, Answered(r)
      PROVE  /\ ~isLoading'
             /\ \A s \in Request : req'[s] # NoRequest => Value(req'[s].input) > 0
             /\ ~crossed' => ~crossed /\ req[r].input = input
             /\ input' = input
  BY <1>3, AnsweredType DEF Answered, PageInv
<1>4. ASSUME NEW r \in Request, Receive(r) PROVE PageInv'
  <2>1. ASSUME ~crossed'
        PROVE  shown' \in Results(input) /\ Valid(input) /\ error # "invalid" /\ error' = error
    BY <1>3, <1>4, <2>1, ReceiveCurrent DEF Receive
  <2>2. ~crossed' => Settled'
    BY <1>3, <1>4, <2>1 DEF Settled, TypeOK, Receive
  <2>3. QED
    BY <1>3, <1>4, <2>1, <2>2 DEF PageInv, Receive
<1>5. ASSUME NEW r \in Request, ReceiveError(r) PROVE PageInv'
  <2>1. ASSUME ~crossed'
        PROVE  shown' = shown /\ (error' = "network" \/ (error' = "invalid" /\ ~Valid(input)))
    <3>1. Answered(r) /\ shown' = shown
          /\ (error' = "network" \/ (error' = "invalid" /\ ~Valid(req[r].input)))
      BY <1>5 DEF ReceiveError
    <3>2. req[r].input = input
      BY <1>3, <2>1, <3>1
    <3>3. QED
      BY <3>1, <3>2
  <2>2. ~crossed' => Settled'
    BY <1>3, <1>5, <2>1 DEF Settled, ReceiveError
  <2>3. QED
    BY <1>3, <1>5, <2>1, <2>2 DEF PageInv, ReceiveError
<1>6. ASSUME NEW r \in Request, ReceiveUnread(r) PROVE PageInv'
  BY <1>6 DEF ReceiveUnread, PageInv, TypeOK
<1>7. CASE UNCHANGED vars
  BY <1>7 DEF vars, PageInv, Settled
<1>8. QED
  BY <1>1, <1>2, <1>4, <1>5, <1>6, <1>7 DEF Next

LEMMA PageInvariant == Spec => [](TypeOK /\ PageInv)
<1>1. Init => PageInv
  BY CalculatorAssumption DEF Init, PageInv, Settled, Value
<1>2. QED
  BY <1>1, PageStep, CalculatorTypes, PTL DEF Spec

-----------------------------------------------------------------------------
(* The theorems.                                                            *)

\* Whatever the amount, the rate and the split, the shares on the page add up to the
\* total but for a paisa.
THEOREM SharesAddUp == Spec => []SplitsAddUp
<1>1. TypeOK /\ PageInv => SplitsAddUp
  BY ResultsType DEF PageInv, SplitsAddUp, TypeOK, AddUp, Nothing
<1>2. QED
  BY <1>1, PageInvariant, PTL

\* Whatever the user changes and in whatever order the answers come, the page settles on
\* the answer to its fields, if no answer to other fields arrived since the last change and
\* the last one was readable.
THEOREM PageSettles == Spec => []ShowsCurrent
<1>1. TypeOK /\ PageInv => ShowsCurrent
  <2>. SUFFICES ASSUME TypeOK, PageInv, Quiet, ~unread PROVE ~isLoading /\ (crossed \/ Settled)
    BY DEF ShowsCurrent
  <2>1. QED
    BY DEF PageInv, Quiet
<1>2. QED
  BY <1>1, PageInvariant, PTL
=============================================================================
