-------------------------- MODULE AsyncCallsProofs --------------------------
(***************************************************************************)
(* Theorems about AsyncCalls, for any number of calls and any pool.        *)
(***************************************************************************)
EXTENDS AsyncCalls, CallbackDispatchProofs

-----------------------------------------------------------------------------
(* Closure calls from the pool are calls of CallbackDispatch.              *)

LEMMA AsyncStepIsStep == [AsyncNext]_allVars => [Next]_vars
<1> SUFFICES ASSUME [AsyncNext]_allVars PROVE [Next]_vars
  OBVIOUS
<1>1. CASE (LoopStep \/ CallStep) /\ UNCHANGED asyncVars
  BY <1>1 DEF Next
<1>2. CASE AsyncLoopExit
  BY <1>2 DEF AsyncLoopExit, Next
<1>3. CASE \E j \in Jobs : Submit(j) \/ Reject(j) \/ Tick(j)
  BY <1>3 DEF Submit, Reject, Tick
<1>4. CASE Deliver
  BY <1>4 DEF Deliver
<1>5. CASE \E w \in Threads : Take(w) \/ CallClosure(w) \/ Complete(w)
  BY <1>5 DEF Take, CallClosure, Complete, Next
<1>6. CASE UNCHANGED allVars
  BY <1>6 DEF allVars
<1> QED
  BY <1>1, <1>2, <1>3, <1>4, <1>5, <1>6 DEF AsyncNext

\* Asynchronous calls only restrict when closures are called and when the loop
\* ends: whatever is proved of CallbackDispatch holds for the pool's threads.
THEOREM AsyncImplementsDispatch == AsyncSpec => Spec
  BY AsyncStepIsStep, PTL DEF AsyncSpec, AsyncInit, Spec

\* FinishAsyncFFICall and WatcherCallback share the main thread; without
\* spurious wakeups, closures called from the pool keep the promise.
THEOREM PoolKeepsPromise ==
  ASSUME ~SpuriousWakeups
  PROVE  AsyncSpec => KeepsPromise
  BY AsyncImplementsDispatch, ImplementsHandoff

-----------------------------------------------------------------------------
(* The inductive invariant.                                                *)

\* The entries of queue s are different calls, all at the given stage.
Holds(s, point) ==
  /\ \A i \in 1..Len(s) : stage[s[i]] = point
  /\ \A i, k \in 1..Len(s) : s[i] = s[k] => i = k

\* Pool threads work on different calls, and only they are inside closures.
PoolInv ==
  /\ \A w \in Threads : task[w] # NoJob => stage[task[w]] = "running"
  /\ \A w \in Threads : pc[w] # "out" => task[w] # NoJob
  /\ \A w, u \in Threads : task[w] = task[u] /\ task[w] # NoJob => w = u

\* What a callback is to be given is known when its call is over.
ResultInv ==
  \A j \in Jobs :
    /\ stage[j] = "rejected" => result[j] = "argument_error"
    /\ stage[j] = "finished" =>
         result[j] = (IF j \in BadJobs THEN "bad_function" ELSE "value")

ExitInv == main = "exited" => \A j \in Jobs : ~InFlight(j)

CallsInv ==
  /\ TypeOK /\ AsyncTypeOK
  /\ Holds(pending, "queued") /\ Holds(finished, "finished")
  /\ PoolInv /\ ResultInv /\ DeliveredOnce /\ ExitInv

LEMMA CallsInit == AsyncInit => CallsInv
<1> SUFFICES ASSUME AsyncInit PROVE CallsInv
  OBVIOUS
<1>1. TypeOK
  BY TypeInit DEF AsyncInit
<1>2. AsyncTypeOK
  BY DEF AsyncInit, AsyncTypeOK, Stages
<1>3. Holds(pending, "queued") /\ Holds(finished, "finished")
  BY DEF AsyncInit, Holds
<1>4. PoolInv /\ ResultInv /\ DeliveredOnce /\ ExitInv
  BY DEF AsyncInit, Init, PoolInv, ResultInv, DeliveredOnce, ExitInv, InFlight
<1> QED
  BY <1>1, <1>2, <1>3, <1>4 DEF CallsInv

-----------------------------------------------------------------------------
(* The queues of the pool.                                                 *)

LEMMA HoldsAppend ==
  ASSUME NEW s \in Seq(Jobs), NEW s1, NEW point, NEW j \in Jobs,
         AsyncTypeOK, Holds(s, point), stage[j] # point,
         s1 = Append(s, j), stage' = [stage EXCEPT ![j] = point]
  PROVE  /\ s1 \in Seq(Jobs)
         /\ \A i \in 1..Len(s1) : stage'[s1[i]] = point
         /\ \A i, k \in 1..Len(s1) : s1[i] = s1[k] => i = k
<1>1. /\ s1 \in Seq(Jobs) /\ Len(s1) = Len(s) + 1 /\ s1[Len(s) + 1] = j
      /\ \A i \in 1..Len(s) : s1[i] = s[i] /\ s[i] \in Jobs
  OBVIOUS
<1>2. \A i \in 1..Len(s1) : i \in 1..Len(s) \/ i = Len(s) + 1
  BY <1>1
<1>3. \A i \in 1..Len(s) : s[i] # j
  BY DEF Holds
<1>4. stage'[j] = point /\ \A i \in 1..Len(s) : stage'[s[i]] = point
  BY <1>1, <1>3 DEF AsyncTypeOK, Holds
<1> QED
  BY <1>1, <1>2, <1>3, <1>4 DEF Holds

LEMMA HoldsTail ==
  ASSUME NEW s \in Seq(Jobs), NEW s1, NEW point, NEW other,
         AsyncTypeOK, Holds(s, point), s # <<>>,
         s1 = Tail(s), stage' = [stage EXCEPT ![Head(s)] = other]
  PROVE  /\ Head(s) \in Jobs /\ stage[Head(s)] = point
         /\ s1 \in Seq(Jobs)
         /\ \A i \in 1..Len(s1) : stage'[s1[i]] = point
         /\ \A i, k \in 1..Len(s1) : s1[i] = s1[k] => i = k
<1>1. /\ s1 \in Seq(Jobs) /\ Len(s1) = Len(s) - 1 /\ 1 \in 1..Len(s) /\ Head(s) = s[1]
      /\ \A i \in 1..Len(s1) : i + 1 \in 1..Len(s) /\ s1[i] = s[i + 1] /\ s[i + 1] \in Jobs
      /\ Head(s) \in Jobs
  OBVIOUS
<1>2. stage[Head(s)] = point
  BY <1>1 DEF Holds
<1>3. \A i \in 1..Len(s1) : s1[i] # Head(s)
  <2> TAKE i \in 1..Len(s1)
  <2>1. i + 1 # 1
    OBVIOUS
  <2> QED
    BY <1>1, <2>1 DEF Holds
<1>4. \A i \in 1..Len(s1) : stage'[s1[i]] = point
  BY <1>1, <1>3 DEF AsyncTypeOK, Holds
<1>5. \A i, k \in 1..Len(s1) : s1[i] = s1[k] => i = k
  <2> SUFFICES ASSUME NEW i \in 1..Len(s1), NEW k \in 1..Len(s1), s1[i] = s1[k]
               PROVE  i = k
    OBVIOUS
  <2>1. s[i + 1] = s[k + 1]
    BY <1>1
  <2>2. i + 1 = k + 1
    BY <1>1, <2>1 DEF Holds
  <2> QED
    BY <2>2
<1> QED
  BY <1>1, <1>2, <1>4, <1>5

\* A queue of calls at one stage does not notice a call that moves between others.
LEMMA HoldsFrame ==
  ASSUME NEW s \in Seq(Jobs), NEW point, NEW other, NEW j \in Jobs,
         AsyncTypeOK, Holds(s, point), stage[j] # point,
         stage' = [stage EXCEPT ![j] = other]
  PROVE  \A i \in 1..Len(s) : stage'[s[i]] = point
<1>1. \A i \in 1..Len(s) : s[i] \in Jobs /\ s[i] # j
  BY DEF Holds
<1> QED
  BY <1>1 DEF AsyncTypeOK, Holds

-----------------------------------------------------------------------------
(* Every step keeps the invariant.                                         *)

\* Steps inside closures start no call of a thread that is in none, and do
\* not end the loop.
LEMMA DispatchFrame ==
  ASSUME TypeOK, LoopStep \/ CallStep
  PROVE  /\ main' = "exited" => main = "exited"
         /\ \A w \in Threads : pc'[w] # "out" => pc[w] # "out"
<1> USE DEF TypeOK, Goto, MainAt, threadVars, mainVars
<1>1. CASE LoopStep
  BY <1>1 DEF LoopStep, WatcherStep, FinishAny, Poll, LockDrain, Pop, Finish, SignalLock,
     SignalAndUnlock, EndDrain, DirectCall, DirectReturn, WorkEnds, WorkStore, JoinReturn
<1>2. ASSUME NEW t \in Threads, ThreadStep(t) \/ SpuriousWake(t) \/ Join(t)
      PROVE  main' = main /\ \A w \in Threads : pc'[w] # "out" => pc[w] # "out"
  BY <1>2 DEF ThreadStep, SpuriousWake, Join, RefTest, RefSet, RefStore, Create, LockQueue,
     Push, Send, Wait, Reacquire, UnrefTest, UnrefClear, UnrefStore, Destroy
<1> QED
  BY <1>1, <1>2 DEF CallStep

LEMMA CallsStep == CallsInv /\ [AsyncNext]_allVars => CallsInv'
<1> SUFFICES ASSUME CallsInv, [AsyncNext]_allVars PROVE CallsInv'
  OBVIOUS
<1>0. TypeOK'
  BY AsyncStepIsStep, TypeStep DEF CallsInv
<1> USE <1>0 DEF CallsInv
<1>1. CASE (LoopStep \/ CallStep) /\ UNCHANGED asyncVars
  <2>1. /\ main' = "exited" => main = "exited"
        /\ \A w \in Threads : pc'[w] # "out" => pc[w] # "out"
    BY <1>1, DispatchFrame
  <2>2. AsyncTypeOK' /\ Holds(pending, "queued")' /\ Holds(finished, "finished")'
    BY <1>1 DEF asyncVars, AsyncTypeOK, Holds
  <2>3. PoolInv' /\ ResultInv' /\ DeliveredOnce' /\ ExitInv'
    BY <1>1, <2>1 DEF asyncVars, PoolInv, ResultInv, DeliveredOnce, ExitInv, InFlight
  <2> QED
    BY <2>2, <2>3
<1>2. CASE AsyncLoopExit
  BY <1>2 DEF AsyncLoopExit, LoopExit, threadVars, asyncVars,
     AsyncTypeOK, Holds, PoolInv, ResultInv, DeliveredOnce, ExitInv, InFlight
<1>3. ASSUME NEW j \in Jobs, Submit(j) PROVE CallsInv'
  <2>1. /\ pending' \in Seq(Jobs) /\ Holds(pending, "queued")'
    BY <1>3, HoldsAppend DEF Submit, Holds, AsyncTypeOK
  <2>2. Holds(finished, "finished")'
    BY <1>3, HoldsFrame DEF Submit, Holds, AsyncTypeOK
  <2>3. AsyncTypeOK'
    BY <1>3, <2>1 DEF Submit, AsyncTypeOK, Stages
  <2>4. PoolInv' /\ ResultInv' /\ DeliveredOnce' /\ ExitInv'
    BY <1>3 DEF Submit, InJavaScript, vars, threadVars, mainVars, AsyncTypeOK,
       PoolInv, ResultInv, DeliveredOnce, ExitInv
  <2> QED
    BY <2>1, <2>2, <2>3, <2>4
<1>4. ASSUME NEW j \in Jobs, Reject(j) PROVE CallsInv'
  <2>1. Holds(pending, "queued")' /\ Holds(finished, "finished")'
    BY <1>4, HoldsFrame DEF Reject, Holds, AsyncTypeOK
  <2>2. AsyncTypeOK'
    BY <1>4 DEF Reject, AsyncTypeOK, Stages
  <2>3. PoolInv' /\ ResultInv' /\ DeliveredOnce' /\ ExitInv'
    BY <1>4 DEF Reject, InJavaScript, vars, threadVars, mainVars, AsyncTypeOK,
       PoolInv, ResultInv, DeliveredOnce, ExitInv
  <2> QED
    BY <2>1, <2>2, <2>3
<1>5. ASSUME NEW j \in Jobs, Tick(j) PROVE CallsInv'
  <2>1. Holds(pending, "queued")' /\ Holds(finished, "finished")'
    BY <1>5, HoldsFrame DEF Tick, CallBack, Holds, AsyncTypeOK
  <2>2. AsyncTypeOK'
    BY <1>5 DEF Tick, CallBack, AsyncTypeOK, Stages
  <2>3. PoolInv' /\ ResultInv' /\ DeliveredOnce' /\ ExitInv'
    BY <1>5 DEF Tick, CallBack, vars, threadVars, mainVars, AsyncTypeOK,
       PoolInv, ResultInv, DeliveredOnce, ExitInv, InFlight
  <2> QED
    BY <2>1, <2>2, <2>3
<1>6. CASE Deliver
  <2> DEFINE j == Head(finished)
  <2>1. /\ finished # <<>> /\ finished' = Tail(finished)
        /\ stage' = [stage EXCEPT ![j] = "delivered"]
        /\ deliveries' = [deliveries EXCEPT ![j] = @ + 1]
        /\ UNCHANGED <<result, task, pending, vars>>
    BY <1>6 DEF Deliver, CallBack
  <2>2. /\ j \in Jobs /\ stage[j] = "finished"
        /\ finished' \in Seq(Jobs) /\ Holds(finished, "finished")'
    BY <2>1, HoldsTail DEF Holds, AsyncTypeOK
  <2> HIDE DEF j
  <2>3. Holds(pending, "queued")'
    BY <2>1, <2>2, HoldsFrame DEF Holds, AsyncTypeOK
  <2>4. AsyncTypeOK'
    BY <2>1, <2>2 DEF AsyncTypeOK, Stages
  <2>5. PoolInv' /\ ResultInv' /\ DeliveredOnce' /\ ExitInv'
    BY <2>1, <2>2 DEF vars, threadVars, mainVars, AsyncTypeOK,
       PoolInv, ResultInv, DeliveredOnce, ExitInv, InFlight
  <2> QED
    BY <2>2, <2>3, <2>4, <2>5
<1>7. ASSUME NEW w \in Threads, Take(w) PROVE CallsInv'
  <2> DEFINE j == Head(pending)
  <2>1. /\ task[w] = NoJob /\ pending # <<>> /\ pending' = Tail(pending)
        /\ task' = [task EXCEPT ![w] = j]
        /\ stage' = [stage EXCEPT ![j] = "running"]
        /\ UNCHANGED <<result, deliveries, finished, vars>>
    BY <1>7 DEF Take
  <2>2. /\ j \in Jobs /\ stage[j] = "queued" /\ pending' \in Seq(Jobs)
        /\ \A i \in 1..Len(pending') : stage'[pending'[i]] = "queued"
        /\ \A i, k \in 1..Len(pending') : pending'[i] = pending'[k] => i = k
    <3>1. pending \in Seq(Jobs) /\ Holds(pending, "queued") /\ AsyncTypeOK
      BY DEF AsyncTypeOK
    <3> QED
      BY <2>1, <3>1, HoldsTail
  <2>0. Holds(pending, "queued")'
    BY <2>2 DEF Holds
  <2> HIDE DEF j
  <2>3. Holds(finished, "finished")'
    BY <2>1, <2>2, HoldsFrame DEF Holds, AsyncTypeOK
  <2>4. AsyncTypeOK'
    BY <2>1, <2>2 DEF AsyncTypeOK, Stages
  <2>5. ResultInv' /\ DeliveredOnce' /\ ExitInv'
    BY <2>1, <2>2 DEF vars, mainVars, AsyncTypeOK, ResultInv, DeliveredOnce, ExitInv, InFlight
  <2>6. PoolInv'
    BY <2>1, <2>2, JobsAssumption DEF vars, threadVars, AsyncTypeOK, PoolInv
  <2> QED
    BY <2>0, <2>2, <2>3, <2>4, <2>5, <2>6
<1>8. ASSUME NEW w \in Threads, CallClosure(w) PROVE CallsInv'
  <2>1. /\ task[w] \in Jobs /\ pc' = [pc EXCEPT ![w] = "ref_test"]
        /\ UNCHANGED <<asyncVars, mainVars>>
    BY <1>8 DEF CallClosure, Enter, Goto
  <2>2. AsyncTypeOK' /\ Holds(pending, "queued")' /\ Holds(finished, "finished")'
    BY <2>1 DEF asyncVars, AsyncTypeOK, Holds
  <2>3. ResultInv' /\ DeliveredOnce' /\ ExitInv'
    BY <2>1 DEF mainVars, asyncVars, ResultInv, DeliveredOnce, ExitInv, InFlight
  <2>4. PoolInv'
    BY <2>1, JobsAssumption DEF TypeOK, asyncVars, PoolInv
  <2> QED
    BY <2>2, <2>3, <2>4
<1>9. ASSUME NEW w \in Threads, Complete(w) PROVE CallsInv'
  <2> DEFINE j == task[w]
  <2>1. /\ j \in Jobs /\ pc[w] = "out"
        /\ result' = [result EXCEPT ![j] = IF j \in BadJobs THEN "bad_function" ELSE "value"]
        /\ stage' = [stage EXCEPT ![j] = "finished"]
        /\ finished' = Append(finished, j)
        /\ task' = [task EXCEPT ![w] = NoJob]
        /\ UNCHANGED <<deliveries, pending, vars>>
    BY <1>9 DEF Complete
  <2>2. stage[j] = "running"
    BY <2>1, JobsAssumption DEF PoolInv
  <2>3. /\ finished' \in Seq(Jobs) /\ Holds(finished, "finished")'
    BY <2>1, <2>2, HoldsAppend DEF Holds, AsyncTypeOK
  <2>4. Holds(pending, "queued")'
    BY <2>1, <2>2, HoldsFrame DEF Holds, AsyncTypeOK
  <2>5. AsyncTypeOK'
    BY <2>1, <2>3 DEF AsyncTypeOK, Stages
  <2>6. ResultInv' /\ DeliveredOnce' /\ ExitInv'
    BY <2>1, <2>2 DEF vars, mainVars, AsyncTypeOK, ResultInv, DeliveredOnce, ExitInv, InFlight
  <2>7. PoolInv'
    BY <2>1, <2>2, JobsAssumption DEF vars, threadVars, AsyncTypeOK, PoolInv
  <2> QED
    BY <2>3, <2>4, <2>5, <2>6, <2>7
<1>10. CASE UNCHANGED allVars
  BY <1>10 DEF allVars, vars, threadVars, mainVars, asyncVars,
     AsyncTypeOK, Holds, PoolInv, ResultInv, DeliveredOnce, ExitInv, InFlight
<1> QED
  BY <1>1, <1>2, <1>3, <1>4, <1>5, <1>6, <1>7, <1>8, <1>9, <1>10 DEF AsyncNext

LEMMA CallsCorrect == AsyncSpec => []CallsInv
  BY CallsInit, CallsStep, PTL DEF AsyncSpec

-----------------------------------------------------------------------------
\* Every variable of the asynchronous calls keeps its type.
THEOREM AsyncTypeCorrect == AsyncSpec => []AsyncTypeOK
  BY CallsCorrect, PTL DEF CallsInv

\* func.async calls its callback once, with what became of the call.
THEOREM CallbackOnce == AsyncSpec => []DeliveredOnce
  BY CallsCorrect, PTL DEF CallsInv

\* The loop never ends while a pool thread is inside a closure: the requests
\* hold it open, where uv_ref alone does not (see HoldsLoopOpen).
THEOREM LoopIsHeldOpen == AsyncSpec => []LoopOutlivesCalls
<1>1. CallsInv => LoopOutlivesCalls
  BY JobsAssumption
  DEF CallsInv, AsyncTypeOK, PoolInv, ExitInv, InFlight, LoopOutlivesCalls
<1> QED
  BY <1>1, CallsCorrect, PTL
=============================================================================
