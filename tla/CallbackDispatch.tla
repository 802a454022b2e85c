-------------------------- MODULE CallbackDispatch --------------------------
(***************************************************************************)
(* A closure called from a native thread: CallbackInfo::Invoke queues an   *)
(* invocation for the main thread and waits for it, and WatcherCallback,   *)
(* on the main thread, drains the queue (src/src/callback_info.cc and      *)
(* src/src/threaded_callback_invokation.cc).                               *)
(*                                                                         *)
(* A native thread has at most one invocation at a time, so the object     *)
(* ThreadedCallbackInvokation of thread t is named t.  Each step of a      *)
(* thread that another actor can observe is an action.  uv_ref and         *)
(* uv_unref are called outside any lock: their accesses to the handle's    *)
(* flag and to the loop's counter are separate steps.                      *)
(***************************************************************************)
EXTENDS Integers, Sequences

CONSTANTS
  Threads,          \* native threads that call closures
  Main,             \* the thread that runs JavaScript and the event loop
  NoOne,            \* owner of a free mutex
  MaxCalls,         \* calls each native thread makes (bounds the model)
  MaxNest,          \* closures the main thread calls inside one another (bounds the model)
  CounterSize,      \* values of loop->active_handles, an unsigned counter
  SpuriousWakeups,  \* uv_cond_wait may return without a signal
  SyncJoins,        \* JavaScript may call a function that waits for a native thread
  SerialRefs        \* uv_ref and uv_unref do not overlap

ASSUME ActorsAssumption ==
  /\ Main \notin Threads
  /\ NoOne \notin Threads
  /\ Main # NoOne

ASSUME BoundsAssumption ==
  /\ MaxCalls \in Nat
  /\ MaxNest \in Nat
  /\ CounterSize \in Nat \ {0}

ASSUME ModeAssumption ==
  /\ SpuriousWakeups \in BOOLEAN
  /\ SyncJoins \in BOOLEAN
  /\ SerialRefs \in BOOLEAN

VARIABLES
  pc,             \* pc[t]: the point of Invoke native thread t has reached
  calls,          \* calls[t]: calls t has started
  outcome,        \* outcome[t]: what the JavaScript function did for t's call
  live,           \* threads whose ThreadedCallbackInvokation exists
  invLock,        \* invLock[t]: owner of its m_mutex
  mutex,          \* owner of data->mutex
  queue,          \* data->queue
  asyncPending,   \* data->async was sent and the loop has not yet seen it
  main,           \* the point of WatcherCallback, or of the loop, Main has reached
  cur,            \* the invocation WatcherCallback popped
  nest,           \* closures Main is calling directly, one inside the other
  joined,         \* the thread a synchronous call on Main waits for
  asyncRef,       \* the REF flag of data->async
  activeHandles,  \* loop->active_handles
  loaded,         \* the value of active_handles an actor has read to change it
  work            \* something else (a timer, a server) keeps the loop alive

threadVars == <<pc, calls>>
invVars    == <<outcome, live, invLock>>
queueVars  == <<mutex, queue, asyncPending>>
mainVars   == <<main, cur, nest, joined>>
loopVars   == <<asyncRef, activeHandles, loaded, work>>
vars == <<threadVars, invVars, queueVars, mainVars, loopVars>>

ThreadPoints ==
  {"out", "ref_test", "ref_set", "ref_store", "create", "lock", "push", "send",
   "wait", "waiting", "woken", "unref_test", "unref_clear", "unref_store", "destroy"}

MainPoints ==
  {"poll", "work_store", "lock", "drain", "run", "signal", "signal_locked", "exited"}

\* Where the invocation object of a thread exists.
HasInvocation ==
  {"lock", "push", "send", "wait", "waiting", "woken",
   "unref_test", "unref_clear", "unref_store", "destroy"}

\* Where a thread holds the m_mutex of its invocation.
OwnsInvocation == HasInvocation \ {"waiting", "woken"}

Serving   == main \in {"run", "signal", "signal_locked"}
InQueue   == {queue[i] : i \in 1..Len(queue)}

TypeOK ==
  /\ pc \in [Threads -> ThreadPoints]
  /\ calls \in [Threads -> 0..MaxCalls]
  /\ outcome \in [Threads -> {"none", "value", "error"}]
  /\ live \subseteq Threads
  /\ invLock \in [Threads -> Threads \cup {Main, NoOne}]
  /\ mutex \in Threads \cup {Main, NoOne}
  /\ queue \in Seq(Threads)
  /\ asyncPending \in BOOLEAN
  /\ main \in MainPoints
  /\ cur \in Threads \cup {NoOne}
  /\ nest \in 0..MaxNest
  /\ joined \in Threads \cup {NoOne}
  /\ asyncRef \in BOOLEAN
  /\ activeHandles \in 0..(CounterSize - 1)
  /\ loaded \in [Threads \cup {Main} -> 0..(CounterSize - 1)]
  /\ work \in BOOLEAN

\* CallbackInfo::Initialize: the async handle is active and unreferenced, the
\* mutex initialised.  Something else holds the loop open.
Init ==
  /\ pc = [t \in Threads |-> "out"]
  /\ calls = [t \in Threads |-> 0]
  /\ outcome = [t \in Threads |-> "none"]
  /\ live = {}
  /\ invLock = [t \in Threads |-> NoOne]
  /\ mutex = NoOne
  /\ queue = <<>>
  /\ asyncPending = FALSE
  /\ main = "poll"
  /\ cur = NoOne
  /\ nest = 0
  /\ joined = NoOne
  /\ asyncRef = FALSE
  /\ activeHandles = 1 % CounterSize
  /\ loaded = [a \in Threads \cup {Main} |-> 0]
  /\ work = TRUE

Goto(t, from, to) ==
  /\ pc[t] = from
  /\ pc' = [pc EXCEPT ![t] = to]

-----------------------------------------------------------------------------
(* Invoke on a native thread.                                              *)

\* Native code calls the closure: Invoke finds it is not on the main thread.
Enter(t) ==
  /\ Goto(t, "out", "ref_test")
  /\ calls[t] < MaxCalls
  /\ calls' = [calls EXCEPT ![t] = @ + 1]
  /\ outcome' = [outcome EXCEPT ![t] = "none"]
  /\ UNCHANGED <<live, invLock, queueVars, mainVars, loopVars>>

\* An actor is between its test of the REF flag and its store to the counter.
RefUpdating ==
  \/ main = "work_store"
  \/ \E t \in Threads :
       pc[t] \in {"ref_set", "ref_store", "unref_clear", "unref_store"}

MayUpdateRef == SerialRefs => ~RefUpdating

\* uv_ref(&data->async): nothing to do if the flag is set already.
RefTest(t) ==
  /\ Goto(t, "ref_test", IF asyncRef THEN "create" ELSE "ref_set")
  /\ MayUpdateRef
  /\ UNCHANGED <<calls, invVars, queueVars, mainVars, loopVars>>

RefSet(t) ==
  /\ Goto(t, "ref_set", "ref_store")
  /\ asyncRef' = TRUE
  /\ loaded' = [loaded EXCEPT ![t] = activeHandles]
  /\ UNCHANGED <<calls, invVars, queueVars, mainVars, activeHandles, work>>

RefStore(t) ==
  /\ Goto(t, "ref_store", "create")
  /\ activeHandles' = (loaded[t] + 1) % CounterSize
  /\ loaded' = [loaded EXCEPT ![t] = 0]
  /\ UNCHANGED <<calls, invVars, queueVars, mainVars, asyncRef, work>>

\* Mutant: the invocation is queued as it is created, outside the lock.
CreateQueued(t) ==
  /\ Goto(t, "create", "lock")
  /\ live' = live \cup {t}
  /\ invLock' = [invLock EXCEPT ![t] = t]
  /\ queue' = Append(queue, t)
  /\ UNCHANGED <<calls, outcome, mutex, asyncPending, mainVars, loopVars>>

\* new ThreadedCallbackInvokation: its constructor takes m_mutex.
Create(t) ==
  /\ Goto(t, "create", "lock")
  /\ live' = live \cup {t}
  /\ invLock' = [invLock EXCEPT ![t] = t]
  /\ UNCHANGED <<calls, outcome, queueVars, mainVars, loopVars>>

\* Mutant: the queue is used without its mutex.
LockQueueUnguarded(t) ==
  /\ Goto(t, "lock", "push")
  /\ mutex' = t
  /\ UNCHANGED <<calls, invVars, queue, asyncPending, mainVars, loopVars>>

LockQueue(t) ==
  /\ Goto(t, "lock", "push")
  /\ mutex = NoOne
  /\ mutex' = t
  /\ UNCHANGED <<calls, invVars, queue, asyncPending, mainVars, loopVars>>

\* data->queue.push and the unlock after it.
Push(t) ==
  /\ Goto(t, "push", "send")
  /\ queue' = Append(queue, t)
  /\ mutex' = NoOne
  /\ UNCHANGED <<calls, invVars, asyncPending, mainVars, loopVars>>

\* uv_async_send: sends that the loop has not seen yet are one.
Send(t) ==
  /\ Goto(t, "send", "wait")
  /\ asyncPending' = TRUE
  /\ UNCHANGED <<calls, invVars, mutex, queue, mainVars, loopVars>>

\* Mutant: a wait that times out.
WaitTimedOut(t) ==
  /\ Goto(t, "wait", "woken")
  /\ invLock' = [invLock EXCEPT ![t] = NoOne]
  /\ UNCHANGED <<calls, outcome, live, queueVars, mainVars, loopVars>>

\* uv_cond_wait releases m_mutex and blocks, in one step.
Wait(t) ==
  /\ Goto(t, "wait", "waiting")
  /\ invLock' = [invLock EXCEPT ![t] = NoOne]
  /\ UNCHANGED <<calls, outcome, live, queueVars, mainVars, loopVars>>

\* uv_cond_wait may return although nobody signalled: there is no predicate
\* around it in WaitForExecution.
SpuriousWake(t) ==
  /\ SpuriousWakeups
  /\ Goto(t, "waiting", "woken")
  /\ UNCHANGED <<calls, invVars, queueVars, mainVars, loopVars>>

\* uv_cond_wait takes m_mutex again before it returns.
Reacquire(t) ==
  /\ Goto(t, "woken", "unref_test")
  /\ invLock[t] = NoOne
  /\ invLock' = [invLock EXCEPT ![t] = t]
  /\ UNCHANGED <<calls, outcome, live, queueVars, mainVars, loopVars>>

\* Mutant: uv_unref is forgotten.
UnrefForgotten(t) ==
  /\ Goto(t, "unref_test", "destroy")
  /\ UNCHANGED <<calls, invVars, queueVars, mainVars, loopVars>>

\* uv_unref(&data->async): nothing to do if the flag is clear already.
UnrefTest(t) ==
  /\ Goto(t, "unref_test", IF asyncRef THEN "unref_clear" ELSE "destroy")
  /\ MayUpdateRef
  /\ UNCHANGED <<calls, invVars, queueVars, mainVars, loopVars>>

UnrefClear(t) ==
  /\ Goto(t, "unref_clear", "unref_store")
  /\ asyncRef' = FALSE
  /\ loaded' = [loaded EXCEPT ![t] = activeHandles]
  /\ UNCHANGED <<calls, invVars, queueVars, mainVars, activeHandles, work>>

UnrefStore(t) ==
  /\ Goto(t, "unref_store", "destroy")
  /\ activeHandles' = (loaded[t] - 1) % CounterSize
  /\ loaded' = [loaded EXCEPT ![t] = 0]
  /\ UNCHANGED <<calls, invVars, queueVars, mainVars, asyncRef, work>>

\* The unique_ptr leaves its scope: the destructor unlocks and destroys
\* m_mutex, and Invoke returns to native code.
Destroy(t) ==
  /\ Goto(t, "destroy", "out")
  /\ live' = live \ {t}
  /\ invLock' = [invLock EXCEPT ![t] = NoOne]
  /\ UNCHANGED <<calls, outcome, queueVars, mainVars, loopVars>>

-----------------------------------------------------------------------------
(* The main thread.                                                        *)

MainAt(from) == main = from /\ nest = 0 /\ joined = NoOne

\* The loop sees that data->async was sent and calls WatcherCallback.
Poll ==
  /\ MainAt("poll")
  /\ asyncPending
  /\ asyncPending' = FALSE
  /\ main' = "lock"
  /\ UNCHANGED <<threadVars, invVars, mutex, queue, cur, nest, joined, loopVars>>

LockDrain ==
  /\ MainAt("lock")
  /\ mutex = NoOne
  /\ mutex' = Main
  /\ main' = "drain"
  /\ UNCHANGED <<threadVars, invVars, queue, asyncPending, cur, nest, joined, loopVars>>

\* Mutant: the thread is signalled before its function runs.
PopSignalFirst ==
  /\ MainAt("drain")
  /\ queue # <<>>
  /\ cur' = Head(queue)
  /\ queue' = Tail(queue)
  /\ main' = "signal"
  /\ UNCHANGED <<threadVars, invVars, mutex, asyncPending, nest, joined, loopVars>>

\* The next invocation: DispatchToV8 calls the JavaScript function.
Pop ==
  /\ MainAt("drain")
  /\ queue # <<>>
  /\ cur' = Head(queue)
  /\ queue' = Tail(queue)
  /\ main' = "run"
  /\ UNCHANGED <<threadVars, invVars, mutex, asyncPending, nest, joined, loopVars>>

\* The JavaScript function wrote the return value, or it threw: the wrapper of
\* lib/callback.js returns what was thrown and DispatchToV8 hands it to
\* errorFunction.
Finish(result) ==
  /\ MainAt("run")
  /\ outcome' = [outcome EXCEPT ![cur] = result]
  /\ main' = "signal"
  /\ UNCHANGED <<threadVars, live, invLock, queueVars, cur, nest, joined, loopVars>>

\* Mutant: SignalDoneExecuting does not take m_mutex.
SignalUnlocked ==
  /\ MainAt("signal")
  /\ main' = "signal_locked"
  /\ UNCHANGED <<threadVars, invVars, queueVars, cur, nest, joined, loopVars>>

\* SignalDoneExecuting.
SignalLock ==
  /\ MainAt("signal")
  /\ invLock[cur] = NoOne
  /\ invLock' = [invLock EXCEPT ![cur] = Main]
  /\ main' = "signal_locked"
  /\ UNCHANGED <<threadVars, outcome, live, queueVars, cur, nest, joined, loopVars>>

\* Mutant: one invocation for each wakeup, an `if' for the `while'.
SignalAndStop ==
  /\ MainAt("signal_locked")
  /\ pc' = IF pc[cur] = "waiting" THEN [pc EXCEPT ![cur] = "woken"] ELSE pc
  /\ invLock' = [invLock EXCEPT ![cur] = NoOne]
  /\ cur' = NoOne
  /\ mutex' = NoOne
  /\ main' = "poll"
  /\ UNCHANGED <<calls, outcome, live, queue, asyncPending, nest, joined, loopVars>>

\* uv_cond_signal wakes the thread if it waits, and is lost if it does not.
SignalAndUnlock ==
  /\ MainAt("signal_locked")
  /\ pc' = IF pc[cur] = "waiting" THEN [pc EXCEPT ![cur] = "woken"] ELSE pc
  /\ invLock' = [invLock EXCEPT ![cur] = NoOne]
  /\ cur' = NoOne
  /\ main' = "drain"
  /\ UNCHANGED <<calls, outcome, live, queueVars, nest, joined, loopVars>>

EndDrain ==
  /\ MainAt("drain")
  /\ queue = <<>>
  /\ mutex' = NoOne
  /\ main' = "poll"
  /\ UNCHANGED <<threadVars, invVars, queue, asyncPending, cur, nest, joined, loopVars>>

\* JavaScript runs: called by the loop, or by WatcherCallback for cur.
InJavaScript == main \in {"poll", "run"} /\ joined = NoOne

\* JavaScript calls a native function that calls a closure on this thread:
\* Invoke dispatches it at once, whatever the main thread holds.
DirectCall ==
  /\ InJavaScript
  /\ nest < MaxNest
  /\ nest' = nest + 1
  /\ UNCHANGED <<threadVars, invVars, queueVars, main, cur, joined, loopVars>>

\* Mutant: a scope is closed that was never opened.
DirectReturnUnbalanced ==
  /\ InJavaScript
  /\ nest' = nest - 1
  /\ UNCHANGED <<threadVars, invVars, queueVars, main, cur, joined, loopVars>>

\* It returns, or an error is thrown to the JavaScript caller.
DirectReturn ==
  /\ InJavaScript
  /\ nest > 0
  /\ nest' = nest - 1
  /\ UNCHANGED <<threadVars, invVars, queueVars, main, cur, joined, loopVars>>

\* JavaScript calls (ffi_call) a native function that waits until t is done.
Join(t) ==
  /\ SyncJoins
  /\ InJavaScript
  /\ joined' = t
  /\ UNCHANGED <<threadVars, invVars, queueVars, main, cur, nest, loopVars>>

JoinReturn ==
  /\ joined # NoOne
  /\ pc[joined] = "out"
  /\ joined' = NoOne
  /\ UNCHANGED <<threadVars, invVars, queueVars, main, cur, nest, loopVars>>

\* What kept the loop alive ends: libuv takes its handle off the count.
WorkEnds ==
  /\ MainAt("poll")
  /\ work
  /\ MayUpdateRef
  /\ work' = FALSE
  /\ loaded' = [loaded EXCEPT ![Main] = activeHandles]
  /\ main' = "work_store"
  /\ UNCHANGED <<threadVars, invVars, queueVars, cur, nest, joined, asyncRef, activeHandles>>

WorkStore ==
  /\ MainAt("work_store")
  /\ activeHandles' = (loaded[Main] - 1) % CounterSize
  /\ loaded' = [loaded EXCEPT ![Main] = 0]
  /\ main' = "poll"
  /\ UNCHANGED <<threadVars, invVars, queueVars, cur, nest, joined, asyncRef, work>>

\* uv_run ends: no active, referenced handle is left.
LoopExit ==
  /\ MainAt("poll")
  /\ activeHandles = 0
  /\ main' = "exited"
  /\ UNCHANGED <<threadVars, invVars, queueVars, cur, nest, joined, loopVars>>

-----------------------------------------------------------------------------
ThreadStep(t) ==
  \/ RefTest(t) \/ RefSet(t) \/ RefStore(t)
  \/ Create(t) \/ LockQueue(t) \/ Push(t) \/ Send(t)
  \/ Wait(t) \/ Reacquire(t)
  \/ UnrefTest(t) \/ UnrefClear(t) \/ UnrefStore(t)
  \/ Destroy(t)

WatcherStep ==
  \/ LockDrain \/ Pop \/ SignalLock \/ SignalAndUnlock \/ EndDrain

FinishAny == \E result \in {"value", "error"} : Finish(result)

LoopStep ==
  \/ Poll \/ WatcherStep \/ FinishAny
  \/ DirectCall \/ DirectReturn
  \/ WorkEnds \/ WorkStore
  \/ JoinReturn

CallStep == \E t \in Threads : ThreadStep(t) \/ SpuriousWake(t) \/ Join(t)

Next ==
  \/ LoopStep
  \/ LoopExit
  \/ CallStep
  \/ \E t \in Threads : Enter(t)

Spec == Init /\ [][Next]_vars

\* The operating system schedules every thread, the mutexes hand over, and the
\* loop gets back to its poll (or, with nothing left, to its exit) and the
\* JavaScript function to its end, however many closures it calls itself.
Fairness ==
  /\ \A t \in Threads : WF_vars(ThreadStep(t))
  /\ \A t \in Threads : SF_vars(LockQueue(t))
  /\ WF_vars(WatcherStep)
  /\ SF_vars(LockDrain)
  /\ WF_vars(WorkStore)
  /\ WF_vars(DirectReturn)
  /\ SF_vars(Poll)
  /\ SF_vars(FinishAny)
  /\ WF_vars(JoinReturn)

FairSpec == Spec /\ Fairness

-----------------------------------------------------------------------------
(* Properties.                                                             *)

\* The order of the comment above ThreadedCallbackInvokation in ffi.h:
\* WaitForExecution has returned only if SignalDoneExecuting was called, that
\* is, a thread that is past its wait has had its JavaScript function run.
ReturnsAfterExecution ==
  \A t \in Threads :
    pc[t] \in {"unref_test", "unref_clear", "unref_store", "destroy"}
      => outcome[t] # "none"

\* The queue and WatcherCallback hold plain pointers to objects on the heap of
\* the waiting threads: none of them has been destroyed.
LiveInvocations ==
  /\ InQueue \subseteq live
  /\ Serving => cur \in live

\* One send may stand for many: a queued invocation is always followed by a
\* send the loop has not seen, a drain that is under way, or a sender that has
\* pushed and is about to send.
QueueWillBeDrained ==
  queue # <<>> =>
    \/ asyncPending
    \/ main = "lock" \/ mutex = Main
    \/ \E t \in Threads : pc[t] = "send"

\* The signal is not lost: if the function of t has run and t has not been
\* woken, the main thread is about to signal t.
SignalNotLost ==
  \A t \in Threads :
    (pc[t] \in {"send", "wait", "waiting"} /\ outcome[t] # "none")
      => main \in {"signal", "signal_locked"} /\ cur = t

\* Invoke takes m_mutex before data->mutex, WatcherCallback takes them in the
\* other order.  No circle comes of it: when the main thread, holding
\* data->mutex, waits for the m_mutex of a thread, that thread is not waiting
\* for data->mutex.
NoDeadlyEmbrace ==
  (mutex = Main /\ main = "signal" /\ invLock[cur] # NoOne)
    => pc[cur] \in {"send", "wait"}

\* The queue has one user at a time.
QueueExclusion ==
  /\ \A t, u \in Threads : pc[t] = "push" /\ pc[u] = "push" => t = u
  /\ (Serving \/ main = "drain") => \A t \in Threads : pc[t] # "push"

\* "allow the event loop to exit" (Initialize): once no thread is inside a
\* call, data->async no longer counts among the active handles.
HoldReleased ==
  (~RefUpdating /\ \A t \in Threads : pc[t] = "out")
    => ~asyncRef /\ activeHandles = (IF work THEN 1 ELSE 0) % CounterSize

\* "hold the event loop open while this is executing" (Invoke): the loop never
\* ends while a thread is between its uv_ref and its uv_unref.
InsideHold ==
  {"create", "lock", "push", "send", "wait", "waiting", "woken", "unref_test"}

HoldsLoopOpen ==
  [][main # "exited" /\ main' = "exited"
       => \A t \in Threads : pc[t] \notin InsideHold]_vars

\* "The caller thread will wait until the call returns" (docs/tutorial.md), and
\* it does return, as long as the loop runs.
CallReturns ==
  \A t \in Threads : pc[t] # "out" ~> pc[t] = "out" \/ main = "exited"

\* The protocol keeps the promise of CallbackHandoff.  A thread asks when it
\* pushes, and its call returns when Invoke does.
HandoffStage ==
  [t \in Threads |->
     IF pc[t] \in {"out", "ref_test", "ref_set", "ref_store", "create", "lock", "push"}
       THEN "idle"
     ELSE IF outcome[t] # "none" THEN "done"
     ELSE IF main = "run" /\ cur = t THEN "running"
     ELSE "asked"]

Handoff == INSTANCE CallbackHandoff WITH stage <- HandoffStage

KeepsPromise == Handoff!Spec
=============================================================================
