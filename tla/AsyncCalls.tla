----------------------------- MODULE AsyncCalls -----------------------------
(***************************************************************************)
(* func.async(...): lib/_foreign_function.js writes the arguments, and     *)
(* FFICallAsync, AsyncFFICall and FinishAsyncFFICall (src/src/ffi.cc) run  *)
(* ffi_call on a thread of libuv's pool and call back on the main thread.  *)
(*                                                                         *)
(* The native function may call closures from its pool thread: the module  *)
(* extends CallbackDispatch, whose native threads are here the pool's.     *)
(***************************************************************************)
EXTENDS CallbackDispatch

CONSTANTS
  Jobs,       \* asynchronous calls
  NoJob,      \* what an idle pool thread works on
  Unwritable, \* those with an argument that may turn out not to be writable
  BadJobs     \* those whose function pointer is null or points to zeros

ASSUME JobsAssumption ==
  NoJob \notin Jobs /\ BadJobs \subseteq Jobs /\ Unwritable \subseteq Jobs

VARIABLES
  stage,      \* stage[j]: how far call j has come
  result,     \* result[j]: what its callback is to be given
  deliveries, \* deliveries[j]: times the callback of j was called
  task,       \* task[w]: the call pool thread w works on
  pending,    \* the pool's work queue
  finished    \* calls whose work is done, for the loop to pick up

asyncVars == <<stage, result, deliveries, task, pending, finished>>
allVars   == <<vars, asyncVars>>

Stages == {"new", "rejected", "queued", "running", "finished", "delivered"}

\* The call is a request that libuv counts as active.
InFlight(j) == stage[j] \in {"queued", "running", "finished"}

AsyncTypeOK ==
  /\ stage \in [Jobs -> Stages]
  /\ result \in [Jobs -> {"none", "argument_error", "bad_function", "value"}]
  /\ deliveries \in [Jobs -> Nat]
  /\ task \in [Threads -> Jobs \cup {NoJob}]
  /\ pending \in Seq(Jobs)
  /\ finished \in Seq(Jobs)

AsyncInit ==
  /\ Init
  /\ stage = [j \in Jobs |-> "new"]
  /\ result = [j \in Jobs |-> "none"]
  /\ deliveries = [j \in Jobs |-> 0]
  /\ task = [w \in Threads |-> NoJob]
  /\ pending = <<>>
  /\ finished = <<>>

-----------------------------------------------------------------------------
(* The main thread.                                                        *)

\* func.async: the arguments are written and the call goes to the pool.
Submit(j) ==
  /\ InJavaScript
  /\ stage[j] = "new"
  /\ stage' = [stage EXCEPT ![j] = "queued"]
  /\ pending' = Append(pending, j)
  /\ UNCHANGED <<result, deliveries, task, finished, vars>>

\* Mutant: after the error the call goes to the pool all the same.
RejectAndSubmit(j) ==
  /\ InJavaScript
  /\ j \in Unwritable
  /\ stage[j] = "new"
  /\ stage' = [stage EXCEPT ![j] = "rejected"]
  /\ result' = [result EXCEPT ![j] = "argument_error"]
  /\ pending' = Append(pending, j)
  /\ UNCHANGED <<deliveries, task, finished, vars>>

\* func.async: an argument cannot be written, the callback gets the error on
\* the next tick.
Reject(j) ==
  /\ InJavaScript
  /\ j \in Unwritable
  /\ stage[j] = "new"
  /\ stage' = [stage EXCEPT ![j] = "rejected"]
  /\ result' = [result EXCEPT ![j] = "argument_error"]
  /\ UNCHANGED <<deliveries, task, pending, finished, vars>>

CallBack(j) ==
  /\ stage' = [stage EXCEPT ![j] = "delivered"]
  /\ deliveries' = [deliveries EXCEPT ![j] = @ + 1]

Tick(j) ==
  /\ InJavaScript /\ nest = 0
  /\ stage[j] = "rejected"
  /\ CallBack(j)
  /\ UNCHANGED <<result, task, pending, finished, vars>>

\* FinishAsyncFFICall, for the call that finished first.
Deliver ==
  /\ MainAt("poll")
  /\ finished # <<>>
  /\ finished' = Tail(finished)
  /\ CallBack(Head(finished))
  /\ UNCHANGED <<result, task, pending, vars>>

\* Mutant: the requests do not hold the loop open.
AsyncLoopExitEarly ==
  /\ LoopExit
  /\ UNCHANGED asyncVars

\* The loop ends only with no request active; the tick queue is empty then.
AsyncLoopExit ==
  /\ LoopExit
  /\ \A j \in Jobs : ~InFlight(j) /\ stage[j] # "rejected"
  /\ UNCHANGED asyncVars

-----------------------------------------------------------------------------
(* The pool.                                                               *)

Take(w) ==
  /\ task[w] = NoJob
  /\ pending # <<>>
  /\ task' = [task EXCEPT ![w] = Head(pending)]
  /\ pending' = Tail(pending)
  /\ stage' = [stage EXCEPT ![Head(pending)] = "running"]
  /\ UNCHANGED <<result, deliveries, finished, vars>>

\* AsyncFFICall: the function runs, and calls a closure.
CallClosure(w) ==
  /\ task[w] \in Jobs \ BadJobs
  /\ Enter(w)
  /\ UNCHANGED asyncVars

\* Mutant: the request is used after it was given back.
CompleteAfterReset(w) ==
  /\ task[w] \in Jobs
  /\ pc[w] = "out"
  /\ result' = [result EXCEPT ![task[w]] = "value"]
  /\ stage' = [stage EXCEPT ![task[w]] = "finished"]
  /\ task' = [task EXCEPT ![w] = NoJob]
  /\ finished' = Append(finished, task'[w])
  /\ UNCHANGED <<deliveries, pending, vars>>

\* AsyncFFICall ends: the function has returned, or it was not called at all.
Complete(w) ==
  /\ task[w] \in Jobs
  /\ pc[w] = "out"
  /\ result' = [result EXCEPT ![task[w]] =
                  IF task[w] \in BadJobs THEN "bad_function" ELSE "value"]
  /\ stage' = [stage EXCEPT ![task[w]] = "finished"]
  /\ finished' = Append(finished, task[w])
  /\ task' = [task EXCEPT ![w] = NoJob]
  /\ UNCHANGED <<deliveries, pending, vars>>

-----------------------------------------------------------------------------
AsyncNext ==
  \/ (LoopStep \/ CallStep) /\ UNCHANGED asyncVars
  \/ AsyncLoopExit
  \/ \E j \in Jobs : Submit(j) \/ Reject(j) \/ Tick(j)
  \/ Deliver
  \/ \E w \in Threads : Take(w) \/ CallClosure(w) \/ Complete(w)

AsyncSpec == AsyncInit /\ [][AsyncNext]_allVars

\* As in CallbackDispatch; the pool's threads take work and the native
\* functions return, the loop gets to the finished calls and to the ticks.
AsyncFairness ==
  /\ Fairness
  /\ \A w \in Threads : WF_allVars(Take(w) \/ Complete(w))
  /\ SF_allVars(Deliver)
  /\ SF_allVars(\E j \in Jobs : Tick(j))

AsyncFairSpec == AsyncSpec /\ AsyncFairness

-----------------------------------------------------------------------------
(* Properties.                                                             *)

\* The callback of a call is called once, with what became of the call: an
\* error if the function pointer is bad or an argument could not be written.
DeliveredOnce ==
  \A j \in Jobs :
    /\ deliveries[j] = (IF stage[j] = "delivered" THEN 1 ELSE 0)
    /\ stage[j] = "delivered" =>
         result[j] \in {"argument_error", IF j \in BadJobs THEN "bad_function" ELSE "value"}

\* A request is active from uv_queue_work to FinishAsyncFFICall, so the loop
\* never ends while a pool thread is inside a closure, whatever the unlocked
\* uv_ref and uv_unref have made of the handle count.
LoopOutlivesCalls ==
  main = "exited" =>
    \A w \in Threads : pc[w] = "out" /\ task[w] = NoJob

\* Every asynchronous call is answered: pool threads that wait for the main
\* thread are served, even if all of them do.
AllAnswered ==
  (\E j \in Jobs : InFlight(j) \/ stage[j] = "rejected")
    ~> (\A j \in Jobs : ~InFlight(j) /\ stage[j] # "rejected")
=============================================================================
