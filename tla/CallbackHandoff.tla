--------------------------- MODULE CallbackHandoff ---------------------------
(***************************************************************************)
(* What the addon promises to a native thread that calls a closure: the    *)
(* JavaScript function runs on the main thread, one call at a time, and    *)
(* the native call returns only after the function has run for it (the     *)
(* comment above ThreadedCallbackInvokation in src/src/ffi.h; "the caller  *)
(* thread will wait until the call returns", src/docs/tutorial.md).        *)
(***************************************************************************)

CONSTANT Threads        \* the native threads that call closures

VARIABLE stage          \* stage[t]: how far the call of thread t has come

Init == stage = [t \in Threads |-> "idle"]

TypeOK == stage \in [Threads -> {"idle", "asked", "running", "done"}]

Running == {t \in Threads : stage[t] = "running"}

\* Thread t hands its call to the main thread.
Ask(t) ==
  /\ stage[t] = "idle"
  /\ stage' = [stage EXCEPT ![t] = "asked"]

\* The main thread starts the JavaScript function for t: no other runs.
Start(t) ==
  /\ stage[t] = "asked"
  /\ Running = {}
  /\ stage' = [stage EXCEPT ![t] = "running"]

\* The JavaScript function returns, or throws and the error is reported.
Finish(t) ==
  /\ stage[t] = "running"
  /\ stage' = [stage EXCEPT ![t] = "done"]

\* The native call of t returns to its caller.
Return(t) ==
  /\ stage[t] = "done"
  /\ stage' = [stage EXCEPT ![t] = "idle"]

Next == \E t \in Threads : Ask(t) \/ Start(t) \/ Finish(t) \/ Return(t)

Spec == Init /\ [][Next]_stage
=============================================================================
