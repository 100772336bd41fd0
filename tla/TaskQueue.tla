------------------------------ MODULE TaskQueue ------------------------------
(***************************************************************************)
(* The part of the asynq task queue (an external library, v0.24.1) that the *)
(* worker's handlers rely on: delivery is at least once.  A task that was   *)
(* enqueued waits, is handed to one goroutine of the worker, and is then    *)
(*   - completed when its handler returns nil,                              *)
(*   - scheduled again when the handler returns an error or the worker dies *)
(*     under it, until it has been retried MaxRetry times: then archived,   *)
(*   - put back, without counting a retry, by a graceful shutdown.          *)
(* Waiting for a retry's back-off and waiting in the queue are both         *)
(* "queued": the handlers cannot tell them apart.                           *)
(*                                                                          *)
(* A task is a record; `pc` is the place of the goroutine that runs its     *)
(* handler, "idle" when none does.                                          *)
(***************************************************************************)
EXTENDS Naturals

CONSTANT MaxRetry           \* asynq.MaxRetry(...) of the task

ASSUME MaxRetryAssumption == MaxRetry \in Nat

TaskStates == {"none", "queued", "active", "orphaned", "done", "archived"}

\* Tasks whose handlers move through the places in PCs.
Task(PCs) == [state : TaskStates, retried : 0 .. MaxRetry, pc : PCs \union {"idle"}]

NoTask == [state |-> "none", retried |-> 0, pc |-> "idle"]

\* Client.EnqueueContext reached Redis: a new task waits.
Queued == [state |-> "queued", retried |-> 0, pc |-> "idle"]

\* A goroutine takes the task and enters its handler at place `first`.
Taken(t, first) == [t EXCEPT !.state = "active", !.pc = first]

\* The handler goes on to `place`.
At(t, place) == [t EXCEPT !.pc = place]

\* The handler returned nil and the completion was recorded.
Completed(t) == [t EXCEPT !.state = "done", !.pc = "idle"]

\* The handler returned an error, or its lease expired.
Failed(t) ==
  IF t.retried < MaxRetry
  THEN [t EXCEPT !.state = "queued", !.retried = @ + 1, !.pc = "idle"]
  ELSE [t EXCEPT !.state = "archived", !.pc = "idle"]

\* The worker process died under the handler; the task's lease still runs.
Orphaned(t) == IF t.state = "active" THEN [t EXCEPT !.state = "orphaned", !.pc = "idle"] ELSE t

\* A graceful shutdown puts unfinished tasks back.
Requeued(t) == IF t.state = "active" THEN [t EXCEPT !.state = "queued", !.pc = "idle"] ELSE t

Exists(t) == t.state # "none"
Finished(t) == t.state \in {"done", "archived"}
==============================================================================
