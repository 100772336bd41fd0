----------------------------- MODULE Calculator ------------------------------
(***************************************************************************)
(* The commission: how the server computes it (services/calculator.go), and *)
(* the page that asks for it anew after every change                        *)
(* (calculator_provider.dart).  Answers can overtake each other.            *)
(*                                                                         *)
(* Amounts are paise and rates are tenths of a percent, so that all of the  *)
(* code's doubles are fractions of naturals.                                *)
(***************************************************************************)
EXTENDS Integers

CONSTANTS
  Amount, Rate,
  Split,      \* texts of the field "split": pairs <<A, B>>, None or Malformed
  Request,    \* calculations under way at a time
  None, Malformed,
  MaxChanges  \* bound on the changes of the input

ASSUME CalculatorAssumption ==
  /\ Amount \subseteq Nat /\ 0 \in Amount
  /\ Rate \subseteq Nat /\ 20 \in Rate
  /\ Split \subseteq (Nat \X Nat) \union {None, Malformed} /\ None \in Split
  /\ None \notin Nat \union (Nat \X Nat) \union {Malformed, "invalid", "network"}
  /\ Malformed \notin Nat \X Nat
  /\ MaxChanges \in Nat

-----------------------------------------------------------------------------
(* The server.                                                              *)

Mode == {"sale", "rental"}
Input == [mode : Mode, sale : Amount, rent : Amount, rate : Rate, split : Split]

Value(in) == IF in.mode = "sale" THEN in.sale ELSE in.rent

\* Mutant: the parts need not add up.
AnyShares(split) == split = None \/ (split \in Nat \X Nat /\ split[1] > 0 /\ split[2] > 0)

\* Both parts of a split must be positive and add up to 100.
ValidSplit(split) ==
  \/ split = None
  \/ /\ split \in Nat \X Nat
     /\ split[1] > 0 /\ split[2] > 0 /\ split[1] + split[2] = 100

Valid(in) == Value(in) > 0 /\ in.rate > 0 /\ in.rate <= 100 /\ ValidSplit(in.split)

\* round2: n / d to the nearest; half of a paisa goes either way, as the double falls.
Nearest(n, d) == {k \in {n \div d, (n \div d) + 1} : 2 * n - d <= 2 * d * k /\ 2 * d * k <= 2 * n + d}

\* The total is rounded, and each share of the total that is not.
Share(in, part) ==
  IF in.split = None THEN {None} ELSE Nearest(Value(in) * in.rate * in.split[part], 100000)

Results(in) ==
  [total : Nearest(Value(in) * in.rate, 1000), a : Share(in, 1), b : Share(in, 2)]

-----------------------------------------------------------------------------
(* The page.                                                                *)

VARIABLES
  input,
  timers,     \* debounce timers that are set
  req,        \* the calculations under way
  shown,      \* what is kept of the answers
  isLoading, error,
  crossed,    \* has an answer to another input arrived since the last change? (history)
  unread,     \* was the last answer an error that is no JSON? (history)
  changes     \* how often the input changed (bounds the model)

vars == <<input, timers, req, shown, isLoading, error, crossed, unread, changes>>

Nothing == [total |-> None, a |-> None, b |-> None]
Shown == [total : Nat \union {None}, a : Nat \union {None}, b : Nat \union {None}]
NoRequest == [at |-> "idle", input |-> None]

TypeOK ==
  /\ input \in Input
  /\ timers \in 0 .. 1
  /\ req \in [Request -> [at : {"sent"}, input : Input] \union {NoRequest}]
  /\ shown \in Shown
  /\ isLoading \in BOOLEAN
  /\ error \in {None, "invalid", "network"}
  /\ crossed \in BOOLEAN /\ unread \in BOOLEAN
  /\ changes \in Nat

Init ==
  /\ input = [mode |-> "sale", sale |-> 0, rent |-> 0, rate |-> 20, split |-> None]
  /\ timers = 0
  /\ req = [r \in Request |-> NoRequest]
  /\ shown = Nothing
  /\ isLoading = FALSE /\ error = None
  /\ crossed = FALSE /\ unread = FALSE /\ changes = 0

\* Mutant: the timer that is set already is not cancelled.
AnotherTimer == timers' = timers + 1

\* The debounce starts again.
ScheduleCalculate == timers' = 1

\* Mutant: what is shown stays until it is replaced.
ClearError == error' = None /\ UNCHANGED shown

ClearResult == error' = None /\ shown' = Nothing

\* One of the five setters, each for its own field.
Change ==
  /\ changes < MaxChanges /\ changes' = changes + 1
  /\ \/ \E mode \in Mode : input' = [input EXCEPT !.mode = mode]
     \/ \E v \in Amount : input' = IF input.mode = "sale" THEN [input EXCEPT !.sale = v]
                                                          ELSE [input EXCEPT !.rent = v]
     \/ \E rate \in Rate : input' = [input EXCEPT !.rate = rate]
     \/ \E split \in Split : input' = [input EXCEPT !.split = split]
  /\ ClearResult
  /\ ScheduleCalculate
  /\ crossed' = FALSE
  /\ UNCHANGED <<req, isLoading, unread>>

\* The timer fires: without an amount there is nothing to ask for.
Calculate ==
  /\ timers > 0 /\ timers' = timers - 1
  /\ IF Value(input) = 0
     THEN UNCHANGED <<req, isLoading, error>>
     ELSE /\ isLoading' = TRUE /\ error' = None
          /\ \E r \in Request :
               req[r] = NoRequest /\ req' = [req EXCEPT ![r] = [at |-> "sent", input |-> input]]
  /\ UNCHANGED <<input, shown, crossed, unread, changes>>

\* The answer to request r is there, or will not come.
Answered(r) ==
  /\ req[r] # NoRequest
  /\ req' = [req EXCEPT ![r] = NoRequest]
  /\ isLoading' = FALSE /\ unread' = FALSE
  /\ crossed' = (crossed \/ req[r].input # input)
  /\ UNCHANGED <<input, timers, changes>>

\* copyWith keeps the shares that the answer does not have, and the error.
Receive(r) ==
  /\ Answered(r)
  /\ Valid(req[r].input)
  /\ \E res \in Results(req[r].input) :
       shown' = [total |-> res.total,
                 a |-> IF res.a = None THEN shown.a ELSE res.a,
                 b |-> IF res.b = None THEN shown.b ELSE res.b]
  /\ UNCHANGED error

ReceiveError(r) ==
  /\ Answered(r)
  /\ \/ error' = "network"
     \/ ~Valid(req[r].input) /\ error' = "invalid"
  /\ UNCHANGED shown

\* An error that is no JSON, as nginx's are, makes the handler throw another before it has
\* changed anything.
ReceiveUnread(r) ==
  /\ req[r] # NoRequest
  /\ req' = [req EXCEPT ![r] = NoRequest]
  /\ unread' = TRUE
  /\ UNCHANGED <<input, timers, shown, isLoading, error, crossed, changes>>

Next ==
  \/ Change \/ Calculate
  \/ \E r \in Request : Receive(r) \/ ReceiveError(r) \/ ReceiveUnread(r)

Spec == Init /\ [][Next]_vars

-----------------------------------------------------------------------------
(* Properties.                                                              *)

\* The shares add up to the total but for a paisa, though each is rounded on its own.
\* (TestCalculate_FloatPrecision: "no floating-point gap", within 0.01.)
AddUp(res) == res.a # None /\ res.b # None => res.a + res.b - res.total \in -1 .. 1

SplitsAddUp == ~crossed => AddUp(shown)

Quiet == timers = 0 /\ \A r \in Request : req[r] = NoRequest

\* The page shows the answer to what is in its fields, or why there is none.
Settled ==
  \/ Value(input) = 0 /\ shown = Nothing /\ error = None
  \/ error = "network"
  \/ error = "invalid" /\ ~Valid(input)
  \/ error = None /\ Valid(input) /\ shown \in Results(input)

\* When nothing is under way, no spinner turns and the page is settled, unless an answer
\* to other fields arrived since the last change: debounce and setters see to that.  After
\* an error that is no JSON the spinner turns until the next answer.
ShowsCurrent == Quiet /\ ~unread => ~isLoading /\ (crossed \/ Settled)

-----------------------------------------------------------------------------
(* The inductive invariant behind both.                                     *)

PageInv ==
  /\ isLoading => unread \/ \E r \in Request : req[r] # NoRequest
  /\ \A r \in Request : req[r] # NoRequest => Value(req[r].input) > 0
  /\ ~crossed =>
       /\ shown = Nothing \/ (Valid(input) /\ shown \in Results(input))
       /\ error = "invalid" => ~Valid(input)
       /\ \/ timers = 1
          \/ \E r \in Request : req[r] # NoRequest /\ req[r].input = input
          \/ unread \/ Settled
=============================================================================
