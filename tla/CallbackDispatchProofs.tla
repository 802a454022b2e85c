----------------------- MODULE CallbackDispatchProofs -----------------------
(***************************************************************************)
(* Theorems about CallbackDispatch, for any set of native threads and any  *)
(* number of calls.  Type correctness, exclusion and the absence of lost   *)
(* wakeups of the drain hold in every mode; the handover theorems assume   *)
(* that uv_cond_wait has no spurious wakeups, and are false without that;  *)
(* that of the release of the loop, that uv_ref and uv_unref are serial.   *)
(***************************************************************************)
EXTENDS CallbackDispatch, TLAPS

LEMMA ModRange ==
  ASSUME NEW x \in Int, NEW n \in Nat \ {0}
  PROVE  x % n \in 0..(n - 1)
  OBVIOUS

-----------------------------------------------------------------------------
(* Type correctness.                                                       *)

LEMMA CounterRange ==
  ASSUME TypeOK, NEW a \in Threads \cup {Main}
  PROVE  /\ (loaded[a] + 1) % CounterSize \in 0..(CounterSize - 1)
         /\ (loaded[a] - 1) % CounterSize \in 0..(CounterSize - 1)
         /\ 0 \in 0..(CounterSize - 1)
<1>1. CounterSize \in Nat \ {0}
  BY BoundsAssumption
<1>2. loaded[a] + 1 \in Int /\ loaded[a] - 1 \in Int
  BY <1>1 DEF TypeOK
<1>3. 0 \in 0..(CounterSize - 1)
  BY <1>1
<1> QED
  BY <1>1, <1>2, <1>3, ModRange

LEMMA TypeInit == Init => TypeOK
<1>1. CounterSize \in Nat \ {0} /\ MaxCalls \in Nat /\ MaxNest \in Nat
  BY BoundsAssumption
<1>2. 1 % CounterSize \in 0..(CounterSize - 1) /\ 0 \in 0..(CounterSize - 1)
  BY <1>1, ModRange
<1>3. ASSUME Init PROVE calls \in [Threads -> 0..MaxCalls] /\ nest \in 0..MaxNest
  BY <1>1, <1>3 DEF Init
<1>4. ASSUME Init
      PROVE  /\ activeHandles \in 0..(CounterSize - 1)
             /\ loaded \in [Threads \cup {Main} -> 0..(CounterSize - 1)]
  BY <1>2, <1>4 DEF Init
<1>5. ASSUME Init PROVE queue \in Seq(Threads)
  BY <1>5 DEF Init
<1> QED
  BY <1>3, <1>4, <1>5 DEF Init, TypeOK, ThreadPoints, MainPoints

LEMMA TypeStep == TypeOK /\ [Next]_vars => TypeOK'
<1> SUFFICES ASSUME TypeOK, [Next]_vars PROVE TypeOK'
  OBVIOUS
<1>0. \A a \in Threads \cup {Main} :
        /\ (loaded[a] + 1) % CounterSize \in 0..(CounterSize - 1)
        /\ (loaded[a] - 1) % CounterSize \in 0..(CounterSize - 1)
        /\ 0 \in 0..(CounterSize - 1)
  BY CounterRange
<1> USE DEF TypeOK, ThreadPoints, MainPoints, Goto, MainAt,
            threadVars, invVars, queueVars, mainVars, loopVars
<1>1. ASSUME NEW t \in Threads, Enter(t) PROVE TypeOK'
  BY <1>1, BoundsAssumption DEF Enter
<1>2. ASSUME NEW t \in Threads, RefTest(t) PROVE TypeOK'
  BY <1>2 DEF RefTest
<1>3. ASSUME NEW t \in Threads, RefSet(t) PROVE TypeOK'
  BY <1>3 DEF RefSet
<1>4. ASSUME NEW t \in Threads, RefStore(t) PROVE TypeOK'
  BY <1>4, <1>0 DEF RefStore
<1>5. ASSUME NEW t \in Threads, Create(t) PROVE TypeOK'
  BY <1>5 DEF Create
<1>6. ASSUME NEW t \in Threads, LockQueue(t) PROVE TypeOK'
  BY <1>6 DEF LockQueue
<1>7. ASSUME NEW t \in Threads, Push(t) PROVE TypeOK'
  BY <1>7 DEF Push
<1>8. ASSUME NEW t \in Threads, Send(t) PROVE TypeOK'
  BY <1>8 DEF Send
<1>9. ASSUME NEW t \in Threads, Wait(t) PROVE TypeOK'
  BY <1>9 DEF Wait
<1>10. ASSUME NEW t \in Threads, SpuriousWake(t) PROVE TypeOK'
  BY <1>10 DEF SpuriousWake
<1>11. ASSUME NEW t \in Threads, Reacquire(t) PROVE TypeOK'
  BY <1>11 DEF Reacquire
<1>12. ASSUME NEW t \in Threads, UnrefTest(t) PROVE TypeOK'
  BY <1>12 DEF UnrefTest
<1>13. ASSUME NEW t \in Threads, UnrefClear(t) PROVE TypeOK'
  BY <1>13 DEF UnrefClear
<1>14. ASSUME NEW t \in Threads, UnrefStore(t) PROVE TypeOK'
  BY <1>14, <1>0 DEF UnrefStore
<1>15. ASSUME NEW t \in Threads, Destroy(t) PROVE TypeOK'
  BY <1>15 DEF Destroy
<1>16. ASSUME NEW t \in Threads, Join(t) PROVE TypeOK'
  BY <1>16 DEF Join
<1>17. CASE Poll
  BY <1>17 DEF Poll
<1>18. CASE LockDrain
  BY <1>18 DEF LockDrain
<1>19. CASE Pop
  BY <1>19 DEF Pop
<1>20. CASE FinishAny
  BY <1>20 DEF FinishAny, Finish
<1>21. CASE SignalLock
  BY <1>21 DEF SignalLock
<1>22. CASE SignalAndUnlock
  BY <1>22 DEF SignalAndUnlock
<1>23. CASE EndDrain
  BY <1>23 DEF EndDrain
<1>24. CASE DirectCall
  BY <1>24, BoundsAssumption DEF DirectCall, InJavaScript
<1>25. CASE DirectReturn
  BY <1>25, BoundsAssumption DEF DirectReturn, InJavaScript
<1>26. CASE JoinReturn
  BY <1>26 DEF JoinReturn
<1>27. CASE WorkEnds
  BY <1>27 DEF WorkEnds
<1>28. CASE WorkStore
  BY <1>28, <1>0 DEF WorkStore
<1>29. CASE LoopExit
  BY <1>29 DEF LoopExit
<1>30. CASE UNCHANGED vars
  BY <1>30 DEF vars
<1> QED
  BY <1>1, <1>2, <1>3, <1>4, <1>5, <1>6, <1>7, <1>8, <1>9, <1>10, <1>11,
     <1>12, <1>13, <1>14, <1>15, <1>16, <1>17, <1>18, <1>19, <1>20, <1>21,
     <1>22, <1>23, <1>24, <1>25, <1>26, <1>27, <1>28, <1>29, <1>30
  DEF Next, LoopStep, CallStep, WatcherStep, ThreadStep

\* Every reachable state is well typed: the variables of Invoke, of
\* WatcherCallback and of the loop stay in their ranges.
THEOREM TypeCorrect == Spec => []TypeOK
  BY TypeInit, TypeStep, PTL DEF Spec

-----------------------------------------------------------------------------
(* The queue's mutex, in every mode.                                       *)

\* data->mutex is held exactly by the thread that is pushing, or by the main
\* thread from the start of a drain to its end.
MutexInv ==
  /\ \A t \in Threads : mutex = t <=> pc[t] = "push"
  /\ mutex = Main <=> main \in {"drain", "run", "signal", "signal_locked"}

LEMMA MutexInit == Init => MutexInv
  BY ActorsAssumption DEF Init, MutexInv

LEMMA MutexStep == TypeOK /\ MutexInv /\ [Next]_vars => MutexInv'
<1> SUFFICES ASSUME TypeOK, MutexInv, [Next]_vars PROVE MutexInv'
  OBVIOUS
<1> USE ActorsAssumption
    DEF TypeOK, MutexInv, Goto, MainAt,
        threadVars, invVars, queueVars, mainVars, loopVars
<1>1. ASSUME NEW t \in Threads, Enter(t) PROVE MutexInv'
  BY <1>1 DEF Enter
<1>2. ASSUME NEW t \in Threads, RefTest(t) PROVE MutexInv'
  BY <1>2 DEF RefTest
<1>3. ASSUME NEW t \in Threads, RefSet(t) PROVE MutexInv'
  BY <1>3 DEF RefSet
<1>4. ASSUME NEW t \in Threads, RefStore(t) PROVE MutexInv'
  BY <1>4 DEF RefStore
<1>5. ASSUME NEW t \in Threads, Create(t) PROVE MutexInv'
  BY <1>5 DEF Create
<1>6. ASSUME NEW t \in Threads, LockQueue(t) PROVE MutexInv'
  BY <1>6 DEF LockQueue
<1>7. ASSUME NEW t \in Threads, Push(t) PROVE MutexInv'
  BY <1>7 DEF Push
<1>8. ASSUME NEW t \in Threads, Send(t) PROVE MutexInv'
  BY <1>8 DEF Send
<1>9. ASSUME NEW t \in Threads, Wait(t) PROVE MutexInv'
  BY <1>9 DEF Wait
<1>10. ASSUME NEW t \in Threads, SpuriousWake(t) PROVE MutexInv'
  BY <1>10 DEF SpuriousWake
<1>11. ASSUME NEW t \in Threads, Reacquire(t) PROVE MutexInv'
  BY <1>11 DEF Reacquire
<1>12. ASSUME NEW t \in Threads, UnrefTest(t) PROVE MutexInv'
  BY <1>12 DEF UnrefTest
<1>13. ASSUME NEW t \in Threads, UnrefClear(t) PROVE MutexInv'
  BY <1>13 DEF UnrefClear
<1>14. ASSUME NEW t \in Threads, UnrefStore(t) PROVE MutexInv'
  BY <1>14 DEF UnrefStore
<1>15. ASSUME NEW t \in Threads, Destroy(t) PROVE MutexInv'
  BY <1>15 DEF Destroy
<1>16. ASSUME NEW t \in Threads, Join(t) PROVE MutexInv'
  BY <1>16 DEF Join, InJavaScript
<1>17. CASE Poll
  BY <1>17 DEF Poll
<1>18. CASE LockDrain
  BY <1>18 DEF LockDrain
<1>19. CASE Pop
  BY <1>19 DEF Pop
<1>20. CASE FinishAny
  BY <1>20 DEF FinishAny, Finish
<1>21. CASE SignalLock
  BY <1>21 DEF SignalLock
<1>22. CASE SignalAndUnlock
  BY <1>22 DEF SignalAndUnlock
<1>23. CASE EndDrain
  BY <1>23 DEF EndDrain
<1>24. CASE DirectCall
  BY <1>24 DEF DirectCall, InJavaScript
<1>25. CASE DirectReturn
  BY <1>25 DEF DirectReturn, InJavaScript
<1>26. CASE JoinReturn
  BY <1>26 DEF JoinReturn
<1>27. CASE WorkEnds
  BY <1>27 DEF WorkEnds
<1>28. CASE WorkStore
  BY <1>28 DEF WorkStore
<1>29. CASE LoopExit
  BY <1>29 DEF LoopExit
<1>30. CASE UNCHANGED vars
  BY <1>30 DEF vars
<1> QED
  BY <1>1, <1>2, <1>3, <1>4, <1>5, <1>6, <1>7, <1>8, <1>9, <1>10, <1>11,
     <1>12, <1>13, <1>14, <1>15, <1>16, <1>17, <1>18, <1>19, <1>20, <1>21,
     <1>22, <1>23, <1>24, <1>25, <1>26, <1>27, <1>28, <1>29, <1>30
  DEF Next, LoopStep, CallStep, WatcherStep, ThreadStep

LEMMA MutexCorrect == Spec => [](TypeOK /\ MutexInv)
  BY TypeInit, TypeStep, MutexInit, MutexStep, PTL DEF Spec

\* No two actors are inside the critical section of data->mutex, even with
\* spurious wakeups and racing reference counts.
THEOREM QueueIsExclusive == Spec => []QueueExclusion
<1>1. TypeOK /\ MutexInv => QueueExclusion
  BY ActorsAssumption DEF TypeOK, MutexInv, QueueExclusion, Serving
<1> QED
  BY <1>1, MutexCorrect, PTL

-----------------------------------------------------------------------------
(* No queued invocation is forgotten, in every mode.                       *)

LEMMA DrainedStep ==
  TypeOK /\ MutexInv /\ QueueWillBeDrained /\ [Next]_vars => QueueWillBeDrained'
<1> SUFFICES ASSUME TypeOK, MutexInv, QueueWillBeDrained, [Next]_vars
             PROVE QueueWillBeDrained'
  OBVIOUS
<1> USE ActorsAssumption
    DEF TypeOK, MutexInv, QueueWillBeDrained, Goto, MainAt,
        threadVars, invVars, queueVars, mainVars, loopVars
<1>1. ASSUME NEW t \in Threads, Enter(t) PROVE QueueWillBeDrained'
  BY <1>1 DEF Enter
<1>2. ASSUME NEW t \in Threads, RefTest(t) PROVE QueueWillBeDrained'
  BY <1>2 DEF RefTest
<1>3. ASSUME NEW t \in Threads, RefSet(t) PROVE QueueWillBeDrained'
  BY <1>3 DEF RefSet
<1>4. ASSUME NEW t \in Threads, RefStore(t) PROVE QueueWillBeDrained'
  BY <1>4 DEF RefStore
<1>5. ASSUME NEW t \in Threads, Create(t) PROVE QueueWillBeDrained'
  BY <1>5 DEF Create
<1>6. ASSUME NEW t \in Threads, LockQueue(t) PROVE QueueWillBeDrained'
  BY <1>6 DEF LockQueue
<1>7. ASSUME NEW t \in Threads, Push(t) PROVE QueueWillBeDrained'
  BY <1>7 DEF Push
<1>8. ASSUME NEW t \in Threads, Send(t) PROVE QueueWillBeDrained'
  BY <1>8 DEF Send
<1>9. ASSUME NEW t \in Threads, Wait(t) PROVE QueueWillBeDrained'
  BY <1>9 DEF Wait
<1>10. ASSUME NEW t \in Threads, SpuriousWake(t) PROVE QueueWillBeDrained'
  BY <1>10 DEF SpuriousWake
<1>11. ASSUME NEW t \in Threads, Reacquire(t) PROVE QueueWillBeDrained'
  BY <1>11 DEF Reacquire
<1>12. ASSUME NEW t \in Threads, UnrefTest(t) PROVE QueueWillBeDrained'
  BY <1>12 DEF UnrefTest
<1>13. ASSUME NEW t \in Threads, UnrefClear(t) PROVE QueueWillBeDrained'
  BY <1>13 DEF UnrefClear
<1>14. ASSUME NEW t \in Threads, UnrefStore(t) PROVE QueueWillBeDrained'
  BY <1>14 DEF UnrefStore
<1>15. ASSUME NEW t \in Threads, Destroy(t) PROVE QueueWillBeDrained'
  BY <1>15 DEF Destroy
<1>16. ASSUME NEW t \in Threads, Join(t) PROVE QueueWillBeDrained'
  BY <1>16 DEF Join, InJavaScript
<1>17. CASE Poll
  BY <1>17 DEF Poll
<1>18. CASE LockDrain
  BY <1>18 DEF LockDrain
<1>19. CASE Pop
  BY <1>19 DEF Pop
<1>20. CASE FinishAny
  BY <1>20 DEF FinishAny, Finish
<1>21. CASE SignalLock
  BY <1>21 DEF SignalLock
<1>22. CASE SignalAndUnlock
  BY <1>22 DEF SignalAndUnlock
<1>23. CASE EndDrain
  BY <1>23 DEF EndDrain
<1>24. CASE DirectCall
  BY <1>24 DEF DirectCall, InJavaScript
<1>25. CASE DirectReturn
  BY <1>25 DEF DirectReturn, InJavaScript
<1>26. CASE JoinReturn
  BY <1>26 DEF JoinReturn
<1>27. CASE WorkEnds
  BY <1>27 DEF WorkEnds
<1>28. CASE WorkStore
  BY <1>28 DEF WorkStore
<1>29. CASE LoopExit
  BY <1>29 DEF LoopExit
<1>30. CASE UNCHANGED vars
  BY <1>30 DEF vars
<1> QED
  BY <1>1, <1>2, <1>3, <1>4, <1>5, <1>6, <1>7, <1>8, <1>9, <1>10, <1>11,
     <1>12, <1>13, <1>14, <1>15, <1>16, <1>17, <1>18, <1>19, <1>20, <1>21,
     <1>22, <1>23, <1>24, <1>25, <1>26, <1>27, <1>28, <1>29, <1>30
  DEF Next, LoopStep, CallStep, WatcherStep, ThreadStep

\* A queued invocation is never left behind by the coalescing of sends: a send
\* the loop has not seen, a drain or a sender is always there to follow it.
THEOREM NoInvocationForgotten == Spec => []QueueWillBeDrained
<1>1. Init => QueueWillBeDrained
  BY DEF Init, QueueWillBeDrained
<1> QED
  BY <1>1, DrainedStep, MutexCorrect, PTL DEF Spec

-----------------------------------------------------------------------------
(* The handover, without spurious wakeups.                                 *)

Entering == {"ref_test", "ref_set", "ref_store", "create", "lock", "push"}
Handed   == {"send", "wait", "waiting"}
Leaving  == {"woken", "unref_test", "unref_clear", "unref_store", "destroy"}

\* The invocation object, and its m_mutex, exist for exactly one call, and
\* m_mutex is taken and released where the code says.
ObjectInv ==
  /\ \A t \in Threads : t \in live <=> pc[t] \in HasInvocation
  /\ \A t \in Threads : pc[t] \in OwnsInvocation => invLock[t] = t
  /\ \A t \in Threads : pc[t] \notin OwnsInvocation => invLock[t] \in {Main, NoOne}
  /\ \A t \in Threads : invLock[t] = Main <=> main = "signal_locked" /\ cur = t

Distinct == \A i, j \in 1..Len(queue) : queue[i] = queue[j] => i = j

\* A call that was handed over is in the queue or being served, never both,
\* and it is in the queue once.
QueueInv ==
  /\ \A t \in InQueue : pc[t] \in Handed /\ outcome[t] = "none"
  /\ \A t \in InQueue : ~(Serving /\ cur = t)
  /\ Distinct
  /\ \A t \in Threads : pc[t] \in Handed => t \in InQueue \/ (Serving /\ cur = t)

\* The function has run for the call being served once main is past it.
ServeInv ==
  /\ Serving => cur \in Threads /\ pc[cur] \in Handed
  /\ main = "run" => outcome[cur] = "none"
  /\ main \in {"signal", "signal_locked"} => outcome[cur] # "none"
  /\ main = "signal_locked" => pc[cur] = "waiting"

OutcomeInv ==
  /\ \A t \in Threads : pc[t] \in Entering => outcome[t] = "none"
  /\ \A t \in Threads : pc[t] \in Leaving => outcome[t] # "none"

HandoffInv == ObjectInv /\ QueueInv /\ ServeInv /\ OutcomeInv

LEMMA QueueAppend ==
  ASSUME TypeOK, NEW t \in Threads, queue' = Append(queue, t)
  PROVE  /\ InQueue' = InQueue \cup {t}
         /\ Distinct /\ t \notin InQueue => Distinct'
<1>1. /\ queue \in Seq(Threads)
      /\ Len(queue') = Len(queue) + 1
      /\ \A i \in 1..Len(queue) : queue'[i] = queue[i]
      /\ queue'[Len(queue) + 1] = t
  BY DEF TypeOK
<1>2. InQueue' = InQueue \cup {t}
  BY <1>1 DEF InQueue
<1>3. Distinct /\ t \notin InQueue => Distinct'
  BY <1>1 DEF InQueue, Distinct
<1> QED
  BY <1>2, <1>3

LEMMA QueueTail ==
  ASSUME TypeOK, Distinct, queue # <<>>, queue' = Tail(queue)
  PROVE  /\ Head(queue) \in InQueue
         /\ InQueue' = InQueue \ {Head(queue)}
         /\ Distinct'
<1>1. /\ queue \in Seq(Threads)
      /\ Len(queue) \in Nat \ {0}
      /\ Head(queue) = queue[1]
      /\ Len(queue') = Len(queue) - 1
      /\ \A i \in 1..Len(queue') : queue'[i] = queue[i + 1]
  BY DEF TypeOK
<1>2. Head(queue) \in InQueue
  BY <1>1 DEF InQueue
<1>3. ASSUME NEW x \in InQueue' PROVE x \in InQueue /\ x # Head(queue)
  <2>1. PICK i \in 1..Len(queue') : queue'[i] = x
    BY <1>3 DEF InQueue
  <2>2. i + 1 \in 1..Len(queue) /\ queue[i + 1] = x /\ i + 1 # 1
    BY <1>1, <2>1
  <2> QED
    BY <1>1, <2>2 DEF InQueue, Distinct
<1>4. ASSUME NEW x \in InQueue, x # Head(queue) PROVE x \in InQueue'
  <2>1. PICK i \in 1..Len(queue) : queue[i] = x
    BY DEF InQueue
  <2>2. i # 1
    BY <1>1, <1>4, <2>1
  <2>3. i - 1 \in 1..Len(queue') /\ queue'[i - 1] = x
    BY <1>1, <2>1, <2>2
  <2> QED
    BY <2>3 DEF InQueue
<1>5. Distinct'
  <2> SUFFICES ASSUME NEW i \in 1..Len(queue'), NEW j \in 1..Len(queue'),
                      queue'[i] = queue'[j]
               PROVE  i = j
    BY DEF Distinct
  <2>1. i + 1 \in 1..Len(queue) /\ j + 1 \in 1..Len(queue)
    BY <1>1
  <2>2. queue[i + 1] = queue[j + 1]
    BY <1>1
  <2> QED
    BY <2>1, <2>2 DEF Distinct
<1> QED
  BY <1>2, <1>3, <1>4, <1>5

LEMMA HandoffInit == Init => HandoffInv
<1> SUFFICES ASSUME Init PROVE HandoffInv
  OBVIOUS
<1>1. InQueue = {} /\ Distinct
  BY DEF Init, InQueue, Distinct
<1> QED
  BY <1>1, ActorsAssumption
  DEF Init, HandoffInv, ObjectInv, QueueInv, ServeInv, OutcomeInv, HasInvocation,
      OwnsInvocation, Entering, Handed, Leaving, Serving

LEMMA ObjectStep ==
  TypeOK /\ HandoffInv /\ ~SpuriousWakeups /\ [Next]_vars => ObjectInv'
<1> SUFFICES ASSUME TypeOK, HandoffInv, ~SpuriousWakeups, [Next]_vars
             PROVE ObjectInv'
  OBVIOUS
<1> USE ActorsAssumption
    DEF TypeOK, HandoffInv, ObjectInv, ServeInv, OutcomeInv, HasInvocation,
        OwnsInvocation, Entering, Handed, Leaving, Serving, Goto, MainAt,
        threadVars, invVars, queueVars, mainVars, loopVars
<1>1. ASSUME NEW t \in Threads, Enter(t) PROVE ObjectInv'
  BY <1>1 DEF Enter
<1>2. ASSUME NEW t \in Threads, RefTest(t) PROVE ObjectInv'
  BY <1>2 DEF RefTest
<1>3. ASSUME NEW t \in Threads, RefSet(t) PROVE ObjectInv'
  BY <1>3 DEF RefSet
<1>4. ASSUME NEW t \in Threads, RefStore(t) PROVE ObjectInv'
  BY <1>4 DEF RefStore
<1>5. ASSUME NEW t \in Threads, Create(t) PROVE ObjectInv'
  BY <1>5 DEF Create
<1>6. ASSUME NEW t \in Threads, LockQueue(t) PROVE ObjectInv'
  BY <1>6 DEF LockQueue
<1>7. ASSUME NEW t \in Threads, Push(t) PROVE ObjectInv'
  BY <1>7 DEF Push
<1>8. ASSUME NEW t \in Threads, Send(t) PROVE ObjectInv'
  BY <1>8 DEF Send
<1>9. ASSUME NEW t \in Threads, Wait(t) PROVE ObjectInv'
  BY <1>9 DEF Wait
<1>10. ASSUME NEW t \in Threads, SpuriousWake(t) PROVE ObjectInv'
  BY <1>10 DEF SpuriousWake
<1>11. ASSUME NEW t \in Threads, Reacquire(t) PROVE ObjectInv'
  BY <1>11 DEF Reacquire
<1>12. ASSUME NEW t \in Threads, UnrefTest(t) PROVE ObjectInv'
  BY <1>12 DEF UnrefTest
<1>13. ASSUME NEW t \in Threads, UnrefClear(t) PROVE ObjectInv'
  BY <1>13 DEF UnrefClear
<1>14. ASSUME NEW t \in Threads, UnrefStore(t) PROVE ObjectInv'
  BY <1>14 DEF UnrefStore
<1>15. ASSUME NEW t \in Threads, Destroy(t) PROVE ObjectInv'
  BY <1>15 DEF Destroy
<1>16. ASSUME NEW t \in Threads, Join(t) PROVE ObjectInv'
  BY <1>16 DEF Join, InJavaScript
<1>17. CASE Poll
  BY <1>17 DEF Poll
<1>18. CASE LockDrain
  BY <1>18 DEF LockDrain
<1>19. CASE Pop
  BY <1>19 DEF Pop
<1>20. CASE FinishAny
  BY <1>20 DEF FinishAny, Finish
<1>21. CASE SignalLock
  BY <1>21 DEF SignalLock
<1>22. CASE SignalAndUnlock
  BY <1>22 DEF SignalAndUnlock
<1>23. CASE EndDrain
  BY <1>23 DEF EndDrain
<1>24. CASE DirectCall
  BY <1>24 DEF DirectCall, InJavaScript
<1>25. CASE DirectReturn
  BY <1>25 DEF DirectReturn, InJavaScript
<1>26. CASE JoinReturn
  BY <1>26 DEF JoinReturn
<1>27. CASE WorkEnds
  BY <1>27 DEF WorkEnds
<1>28. CASE WorkStore
  BY <1>28 DEF WorkStore
<1>29. CASE LoopExit
  BY <1>29 DEF LoopExit
<1>30. CASE UNCHANGED vars
  BY <1>30 DEF vars
<1> QED
  BY <1>1, <1>2, <1>3, <1>4, <1>5, <1>6, <1>7, <1>8, <1>9, <1>10, <1>11,
     <1>12, <1>13, <1>14, <1>15, <1>16, <1>17, <1>18, <1>19, <1>20, <1>21,
     <1>22, <1>23, <1>24, <1>25, <1>26, <1>27, <1>28, <1>29, <1>30
  DEF Next, LoopStep, CallStep, WatcherStep, ThreadStep

LEMMA QueueStep ==
  TypeOK /\ HandoffInv /\ ~SpuriousWakeups /\ [Next]_vars => QueueInv'
<1> SUFFICES ASSUME TypeOK, HandoffInv, ~SpuriousWakeups, [Next]_vars
             PROVE QueueInv'
  OBVIOUS
<1>a. queue' = queue => InQueue' = InQueue /\ Distinct' = Distinct
  BY DEF InQueue, Distinct
<1>b. InQueue \subseteq Threads
  BY DEF TypeOK, InQueue
<1> USE ActorsAssumption, <1>a, <1>b
    DEF HandoffInv, QueueInv, ServeInv, OutcomeInv, Entering, Handed, Leaving,
        Serving, Goto, MainAt, threadVars, invVars, queueVars, mainVars, loopVars
<1>1. ASSUME NEW t \in Threads, Enter(t) PROVE QueueInv'
  BY <1>1 DEF Enter, TypeOK
<1>2. ASSUME NEW t \in Threads, RefTest(t) PROVE QueueInv'
  BY <1>2 DEF RefTest, TypeOK
<1>3. ASSUME NEW t \in Threads, RefSet(t) PROVE QueueInv'
  BY <1>3 DEF RefSet, TypeOK
<1>4. ASSUME NEW t \in Threads, RefStore(t) PROVE QueueInv'
  BY <1>4 DEF RefStore, TypeOK
<1>5. ASSUME NEW t \in Threads, Create(t) PROVE QueueInv'
  BY <1>5 DEF Create, TypeOK
<1>6. ASSUME NEW t \in Threads, LockQueue(t) PROVE QueueInv'
  BY <1>6 DEF LockQueue, TypeOK
<1>7. ASSUME NEW t \in Threads, Push(t) PROVE QueueInv'
  <2>1. TypeOK /\ queue' = Append(queue, t) /\ t \notin InQueue /\ Distinct
    BY <1>7 DEF Push
  <2>2. InQueue' = InQueue \cup {t} /\ Distinct'
    BY <2>1, QueueAppend
  <2>3. outcome[t] = "none" /\ ~(Serving /\ cur = t)
    BY <1>7 DEF Push
  <2>4. /\ pc' = [pc EXCEPT ![t] = "send"] /\ pc \in [Threads -> ThreadPoints]
        /\ outcome' = outcome /\ main' = main /\ cur' = cur
    BY <1>7 DEF Push, TypeOK
  <2> QED
    BY <2>2, <2>3, <2>4
<1>8. ASSUME NEW t \in Threads, Send(t) PROVE QueueInv'
  BY <1>8 DEF Send, TypeOK
<1>9. ASSUME NEW t \in Threads, Wait(t) PROVE QueueInv'
  BY <1>9 DEF Wait, TypeOK
<1>10. ASSUME NEW t \in Threads, SpuriousWake(t) PROVE QueueInv'
  BY <1>10 DEF SpuriousWake, TypeOK
<1>11. ASSUME NEW t \in Threads, Reacquire(t) PROVE QueueInv'
  BY <1>11 DEF Reacquire, TypeOK
<1>12. ASSUME NEW t \in Threads, UnrefTest(t) PROVE QueueInv'
  BY <1>12 DEF UnrefTest, TypeOK
<1>13. ASSUME NEW t \in Threads, UnrefClear(t) PROVE QueueInv'
  BY <1>13 DEF UnrefClear, TypeOK
<1>14. ASSUME NEW t \in Threads, UnrefStore(t) PROVE QueueInv'
  BY <1>14 DEF UnrefStore, TypeOK
<1>15. ASSUME NEW t \in Threads, Destroy(t) PROVE QueueInv'
  BY <1>15 DEF Destroy, TypeOK
<1>16. ASSUME NEW t \in Threads, Join(t) PROVE QueueInv'
  BY <1>16 DEF Join, InJavaScript, TypeOK
<1>17. CASE Poll
  BY <1>17 DEF Poll, TypeOK
<1>18. CASE LockDrain
  BY <1>18 DEF LockDrain, TypeOK
<1>19. CASE Pop
  BY <1>19, QueueTail DEF Pop, TypeOK
<1>20. CASE FinishAny
  BY <1>20 DEF FinishAny, Finish, TypeOK
<1>21. CASE SignalLock
  BY <1>21 DEF SignalLock, TypeOK
<1>22. CASE SignalAndUnlock
  BY <1>22 DEF SignalAndUnlock, TypeOK
<1>23. CASE EndDrain
  BY <1>23 DEF EndDrain, TypeOK
<1>24. CASE DirectCall
  BY <1>24 DEF DirectCall, InJavaScript, TypeOK
<1>25. CASE DirectReturn
  BY <1>25 DEF DirectReturn, InJavaScript, TypeOK
<1>26. CASE JoinReturn
  BY <1>26 DEF JoinReturn, TypeOK
<1>27. CASE WorkEnds
  BY <1>27 DEF WorkEnds, TypeOK
<1>28. CASE WorkStore
  BY <1>28 DEF WorkStore, TypeOK
<1>29. CASE LoopExit
  BY <1>29 DEF LoopExit, TypeOK
<1>30. CASE UNCHANGED vars
  BY <1>30 DEF vars
<1> QED
  BY <1>1, <1>2, <1>3, <1>4, <1>5, <1>6, <1>7, <1>8, <1>9, <1>10, <1>11,
     <1>12, <1>13, <1>14, <1>15, <1>16, <1>17, <1>18, <1>19, <1>20, <1>21,
     <1>22, <1>23, <1>24, <1>25, <1>26, <1>27, <1>28, <1>29, <1>30
  DEF Next, LoopStep, CallStep, WatcherStep, ThreadStep

LEMMA ServeStep ==
  TypeOK /\ HandoffInv /\ ~SpuriousWakeups /\ [Next]_vars => ServeInv'
<1> SUFFICES ASSUME TypeOK, HandoffInv, ~SpuriousWakeups, [Next]_vars
             PROVE ServeInv'
  OBVIOUS
<1> USE ActorsAssumption
    DEF TypeOK, HandoffInv, ObjectInv, QueueInv, ServeInv, OutcomeInv, HasInvocation,
        OwnsInvocation, Entering, Handed, Leaving, Serving, Goto, MainAt,
        threadVars, invVars, queueVars, mainVars, loopVars
<1>1. ASSUME NEW t \in Threads, Enter(t) PROVE ServeInv'
  BY <1>1 DEF Enter
<1>2. ASSUME NEW t \in Threads, RefTest(t) PROVE ServeInv'
  BY <1>2 DEF RefTest
<1>3. ASSUME NEW t \in Threads, RefSet(t) PROVE ServeInv'
  BY <1>3 DEF RefSet
<1>4. ASSUME NEW t \in Threads, RefStore(t) PROVE ServeInv'
  BY <1>4 DEF RefStore
<1>5. ASSUME NEW t \in Threads, Create(t) PROVE ServeInv'
  BY <1>5 DEF Create
<1>6. ASSUME NEW t \in Threads, LockQueue(t) PROVE ServeInv'
  BY <1>6 DEF LockQueue
<1>7. ASSUME NEW t \in Threads, Push(t) PROVE ServeInv'
  BY <1>7 DEF Push
<1>8. ASSUME NEW t \in Threads, Send(t) PROVE ServeInv'
  BY <1>8 DEF Send
<1>9. ASSUME NEW t \in Threads, Wait(t) PROVE ServeInv'
  BY <1>9 DEF Wait
<1>10. ASSUME NEW t \in Threads, SpuriousWake(t) PROVE ServeInv'
  BY <1>10 DEF SpuriousWake
<1>11. ASSUME NEW t \in Threads, Reacquire(t) PROVE ServeInv'
  BY <1>11 DEF Reacquire
<1>12. ASSUME NEW t \in Threads, UnrefTest(t) PROVE ServeInv'
  BY <1>12 DEF UnrefTest
<1>13. ASSUME NEW t \in Threads, UnrefClear(t) PROVE ServeInv'
  BY <1>13 DEF UnrefClear
<1>14. ASSUME NEW t \in Threads, UnrefStore(t) PROVE ServeInv'
  BY <1>14 DEF UnrefStore
<1>15. ASSUME NEW t \in Threads, Destroy(t) PROVE ServeInv'
  BY <1>15 DEF Destroy
<1>16. ASSUME NEW t \in Threads, Join(t) PROVE ServeInv'
  BY <1>16 DEF Join, InJavaScript
<1>17. CASE Poll
  BY <1>17 DEF Poll
<1>18. CASE LockDrain
  BY <1>18 DEF LockDrain
<1>19. CASE Pop
  BY <1>19, QueueTail DEF Pop
<1>20. CASE FinishAny
  BY <1>20 DEF FinishAny, Finish
<1>21. CASE SignalLock
  BY <1>21 DEF SignalLock
<1>22. CASE SignalAndUnlock
  BY <1>22 DEF SignalAndUnlock
<1>23. CASE EndDrain
  BY <1>23 DEF EndDrain
<1>24. CASE DirectCall
  BY <1>24 DEF DirectCall, InJavaScript
<1>25. CASE DirectReturn
  BY <1>25 DEF DirectReturn, InJavaScript
<1>26. CASE JoinReturn
  BY <1>26 DEF JoinReturn
<1>27. CASE WorkEnds
  BY <1>27 DEF WorkEnds
<1>28. CASE WorkStore
  BY <1>28 DEF WorkStore
<1>29. CASE LoopExit
  BY <1>29 DEF LoopExit
<1>30. CASE UNCHANGED vars
  BY <1>30 DEF vars
<1> QED
  BY <1>1, <1>2, <1>3, <1>4, <1>5, <1>6, <1>7, <1>8, <1>9, <1>10, <1>11,
     <1>12, <1>13, <1>14, <1>15, <1>16, <1>17, <1>18, <1>19, <1>20, <1>21,
     <1>22, <1>23, <1>24, <1>25, <1>26, <1>27, <1>28, <1>29, <1>30
  DEF Next, LoopStep, CallStep, WatcherStep, ThreadStep

LEMMA OutcomeStep ==
  TypeOK /\ HandoffInv /\ ~SpuriousWakeups /\ [Next]_vars => OutcomeInv'
<1> SUFFICES ASSUME TypeOK, HandoffInv, ~SpuriousWakeups, [Next]_vars
             PROVE OutcomeInv'
  OBVIOUS
<1> USE ActorsAssumption
    DEF TypeOK, HandoffInv, ServeInv, OutcomeInv,
        Entering, Handed, Leaving, Serving, Goto, MainAt,
        threadVars, invVars, queueVars, mainVars, loopVars
<1>1. ASSUME NEW t \in Threads, Enter(t) PROVE OutcomeInv'
  BY <1>1 DEF Enter
<1>2. ASSUME NEW t \in Threads, RefTest(t) PROVE OutcomeInv'
  BY <1>2 DEF RefTest
<1>3. ASSUME NEW t \in Threads, RefSet(t) PROVE OutcomeInv'
  BY <1>3 DEF RefSet
<1>4. ASSUME NEW t \in Threads, RefStore(t) PROVE OutcomeInv'
  BY <1>4 DEF RefStore
<1>5. ASSUME NEW t \in Threads, Create(t) PROVE OutcomeInv'
  BY <1>5 DEF Create
<1>6. ASSUME NEW t \in Threads, LockQueue(t) PROVE OutcomeInv'
  BY <1>6 DEF LockQueue
<1>7. ASSUME NEW t \in Threads, Push(t) PROVE OutcomeInv'
  BY <1>7 DEF Push
<1>8. ASSUME NEW t \in Threads, Send(t) PROVE OutcomeInv'
  BY <1>8 DEF Send
<1>9. ASSUME NEW t \in Threads, Wait(t) PROVE OutcomeInv'
  BY <1>9 DEF Wait
<1>10. ASSUME NEW t \in Threads, SpuriousWake(t) PROVE OutcomeInv'
  BY <1>10 DEF SpuriousWake
<1>11. ASSUME NEW t \in Threads, Reacquire(t) PROVE OutcomeInv'
  BY <1>11 DEF Reacquire
<1>12. ASSUME NEW t \in Threads, UnrefTest(t) PROVE OutcomeInv'
  BY <1>12 DEF UnrefTest
<1>13. ASSUME NEW t \in Threads, UnrefClear(t) PROVE OutcomeInv'
  BY <1>13 DEF UnrefClear
<1>14. ASSUME NEW t \in Threads, UnrefStore(t) PROVE OutcomeInv'
  BY <1>14 DEF UnrefStore
<1>15. ASSUME NEW t \in Threads, Destroy(t) PROVE OutcomeInv'
  BY <1>15 DEF Destroy
<1>16. ASSUME NEW t \in Threads, Join(t) PROVE OutcomeInv'
  BY <1>16 DEF Join, InJavaScript
<1>17. CASE Poll
  BY <1>17 DEF Poll
<1>18. CASE LockDrain
  BY <1>18 DEF LockDrain
<1>19. CASE Pop
  BY <1>19 DEF Pop
<1>20. CASE FinishAny
  BY <1>20 DEF FinishAny, Finish
<1>21. CASE SignalLock
  BY <1>21 DEF SignalLock
<1>22. CASE SignalAndUnlock
  BY <1>22 DEF SignalAndUnlock
<1>23. CASE EndDrain
  BY <1>23 DEF EndDrain
<1>24. CASE DirectCall
  BY <1>24 DEF DirectCall, InJavaScript
<1>25. CASE DirectReturn
  BY <1>25 DEF DirectReturn, InJavaScript
<1>26. CASE JoinReturn
  BY <1>26 DEF JoinReturn
<1>27. CASE WorkEnds
  BY <1>27 DEF WorkEnds
<1>28. CASE WorkStore
  BY <1>28 DEF WorkStore
<1>29. CASE LoopExit
  BY <1>29 DEF LoopExit
<1>30. CASE UNCHANGED vars
  BY <1>30 DEF vars
<1> QED
  BY <1>1, <1>2, <1>3, <1>4, <1>5, <1>6, <1>7, <1>8, <1>9, <1>10, <1>11,
     <1>12, <1>13, <1>14, <1>15, <1>16, <1>17, <1>18, <1>19, <1>20, <1>21,
     <1>22, <1>23, <1>24, <1>25, <1>26, <1>27, <1>28, <1>29, <1>30
  DEF Next, LoopStep, CallStep, WatcherStep, ThreadStep

LEMMA HandoffCorrect ==
  ASSUME ~SpuriousWakeups
  PROVE  Spec => [](TypeOK /\ HandoffInv)
<1>1. TypeOK /\ HandoffInv /\ [Next]_vars => HandoffInv'
  BY ObjectStep, QueueStep, ServeStep, OutcomeStep DEF HandoffInv
<1> QED
  BY <1>1, TypeInit, TypeStep, HandoffInit, PTL DEF Spec

\* Without spurious wakeups, Invoke returns to native code only after the
\* JavaScript function has run for that call: the order ffi.h promises.
THEOREM WaitsForExecution ==
  ASSUME ~SpuriousWakeups
  PROVE  Spec => []ReturnsAfterExecution
<1>1. TypeOK /\ HandoffInv => ReturnsAfterExecution
  BY DEF HandoffInv, OutcomeInv, Leaving, ReturnsAfterExecution
<1> QED
  BY <1>1, HandoffCorrect, PTL

\* Without spurious wakeups, WatcherCallback never touches an invocation whose
\* thread has destroyed it.
THEOREM NoDanglingInvocation ==
  ASSUME ~SpuriousWakeups
  PROVE  Spec => []LiveInvocations
<1>1. TypeOK /\ HandoffInv => LiveInvocations
  <2> SUFFICES ASSUME TypeOK, HandoffInv PROVE LiveInvocations
    OBVIOUS
  <2>1. InQueue \subseteq Threads
    BY DEF TypeOK, InQueue
  <2> QED
    BY <2>1 DEF HandoffInv, ObjectInv, QueueInv, ServeInv, HasInvocation, Handed,
                LiveInvocations
<1> QED
  BY <1>1, HandoffCorrect, PTL

\* Without spurious wakeups, the signal of SignalDoneExecuting reaches its
\* thread: m_mutex, taken in the constructor, closes the window before the wait.
THEOREM NoLostSignal ==
  ASSUME ~SpuriousWakeups
  PROVE  Spec => []SignalNotLost
<1>1. TypeOK /\ HandoffInv => SignalNotLost
  BY DEF TypeOK, MainPoints, HandoffInv, QueueInv, ServeInv, Serving, Handed, SignalNotLost
<1> QED
  BY <1>1, HandoffCorrect, PTL

\* Without spurious wakeups, taking m_mutex and data->mutex in opposite orders
\* cannot close a circle of waits.
THEOREM LockOrderIsSafe ==
  ASSUME ~SpuriousWakeups
  PROVE  Spec => []NoDeadlyEmbrace
<1>1. TypeOK /\ HandoffInv => NoDeadlyEmbrace
  BY ActorsAssumption
  DEF TypeOK, HandoffInv, ObjectInv, ServeInv, Serving, Handed, OwnsInvocation,
      HasInvocation, NoDeadlyEmbrace
<1> QED
  BY <1>1, HandoffCorrect, PTL

-----------------------------------------------------------------------------
(* Refinement: the protocol implements CallbackHandoff.                    *)

LEMMA StageInit == Init => Handoff!Init
  BY DEF Init, Handoff!Init, HandoffStage

LEMMA StageStep ==
  TypeOK /\ HandoffInv /\ HandoffInv' /\ ~SpuriousWakeups /\ [Next]_vars
    => [Handoff!Next]_HandoffStage
<1> SUFFICES ASSUME TypeOK, HandoffInv, HandoffInv', ~SpuriousWakeups, [Next]_vars
             PROVE  [Handoff!Next]_HandoffStage
  OBVIOUS
<1> USE ActorsAssumption
    DEF TypeOK, ServeInv, OutcomeInv, Entering, Handed, Leaving,
        Serving, Goto, MainAt, threadVars, invVars, queueVars, mainVars, loopVars,
        HandoffStage
<1>1. ASSUME NEW t \in Threads, Enter(t) PROVE [Handoff!Next]_HandoffStage
  BY <1>1 DEF Enter
<1>2. ASSUME NEW t \in Threads, RefTest(t) PROVE [Handoff!Next]_HandoffStage
  BY <1>2 DEF RefTest
<1>3. ASSUME NEW t \in Threads, RefSet(t) PROVE [Handoff!Next]_HandoffStage
  BY <1>3 DEF RefSet
<1>4. ASSUME NEW t \in Threads, RefStore(t) PROVE [Handoff!Next]_HandoffStage
  BY <1>4 DEF RefStore
<1>5. ASSUME NEW t \in Threads, Create(t) PROVE [Handoff!Next]_HandoffStage
  BY <1>5 DEF Create
<1>6. ASSUME NEW t \in Threads, LockQueue(t) PROVE [Handoff!Next]_HandoffStage
  BY <1>6 DEF LockQueue
<1>7. ASSUME NEW t \in Threads, Push(t) PROVE [Handoff!Next]_HandoffStage
  <2>1. /\ pc[t] = "push" /\ outcome[t] = "none" /\ ~(main = "run" /\ cur = t)
        /\ pc' = [pc EXCEPT ![t] = "send"]
        /\ UNCHANGED <<outcome, main, cur>>
    BY <1>7 DEF Push, HandoffInv
  <2>2. HandoffStage[t] = "idle"
    BY <2>1
  <2>3. HandoffStage' = [HandoffStage EXCEPT ![t] = "asked"]
    BY <2>1
  <2>4. Handoff!Ask(t)
    BY <2>2, <2>3 DEF Handoff!Ask
  <2> QED BY <2>4 DEF Handoff!Next
<1>8. ASSUME NEW t \in Threads, Send(t) PROVE [Handoff!Next]_HandoffStage
  BY <1>8 DEF Send
<1>9. ASSUME NEW t \in Threads, Wait(t) PROVE [Handoff!Next]_HandoffStage
  BY <1>9 DEF Wait
<1>10. ASSUME NEW t \in Threads, SpuriousWake(t) PROVE [Handoff!Next]_HandoffStage
  BY <1>10 DEF SpuriousWake
<1>11. ASSUME NEW t \in Threads, Reacquire(t) PROVE [Handoff!Next]_HandoffStage
  BY <1>11 DEF Reacquire
<1>12. ASSUME NEW t \in Threads, UnrefTest(t) PROVE [Handoff!Next]_HandoffStage
  BY <1>12 DEF UnrefTest
<1>13. ASSUME NEW t \in Threads, UnrefClear(t) PROVE [Handoff!Next]_HandoffStage
  BY <1>13 DEF UnrefClear
<1>14. ASSUME NEW t \in Threads, UnrefStore(t) PROVE [Handoff!Next]_HandoffStage
  BY <1>14 DEF UnrefStore
<1>15. ASSUME NEW t \in Threads, Destroy(t) PROVE [Handoff!Next]_HandoffStage
  <2>1. Handoff!Return(t)
    BY <1>15 DEF Destroy, HandoffInv, QueueInv, Handoff!Return
  <2> QED BY <2>1 DEF Handoff!Next
<1>16. ASSUME NEW t \in Threads, Join(t) PROVE [Handoff!Next]_HandoffStage
  BY <1>16 DEF Join, InJavaScript
<1>17. CASE Poll
  BY <1>17 DEF Poll
<1>18. CASE LockDrain
  BY <1>18 DEF LockDrain
<1>19. CASE Pop
  <2>1. PICK t \in Threads : t = Head(queue)
    BY <1>19 DEF Pop
  <2>2. t \in InQueue
    BY <1>19, <2>1, QueueTail DEF Pop, HandoffInv, QueueInv
  <2>3. pc[t] \in Handed /\ outcome[t] = "none"
    BY <2>2 DEF HandoffInv, QueueInv
  <2>4. /\ main = "drain" /\ main' = "run" /\ cur' = t
        /\ UNCHANGED <<pc, outcome>>
    BY <1>19, <2>1 DEF Pop
  <2>5. HandoffStage[t] = "asked" /\ Handoff!Running = {}
    BY <2>3, <2>4 DEF Handoff!Running
  <2>6. HandoffStage' = [HandoffStage EXCEPT ![t] = "running"]
    BY <2>3, <2>4
  <2>7. Handoff!Start(t)
    BY <2>5, <2>6 DEF Handoff!Start
  <2> QED BY <2>7 DEF Handoff!Next
<1>20. CASE FinishAny
  <2>1. PICK t \in Threads : t = cur
    BY <1>20 DEF FinishAny, Finish, HandoffInv
  <2>2. PICK result \in {"value", "error"} : Finish(result)
    BY <1>20 DEF FinishAny
  <2>3. /\ main = "run" /\ main' = "signal"
        /\ outcome' = [outcome EXCEPT ![t] = result]
        /\ UNCHANGED <<pc, cur>>
    BY <2>1, <2>2 DEF Finish
  <2>4. pc[t] \in Handed /\ outcome[t] = "none"
    BY <2>1, <2>3 DEF HandoffInv
  <2>5. HandoffStage[t] = "running"
    BY <2>1, <2>3, <2>4
  <2>6. HandoffStage' = [HandoffStage EXCEPT ![t] = "done"]
    BY <2>1, <2>3, <2>4
  <2>7. Handoff!Finish(t)
    BY <2>5, <2>6 DEF Handoff!Finish
  <2> QED BY <2>7 DEF Handoff!Next
<1>21. CASE SignalLock
  BY <1>21 DEF SignalLock
<1>22. CASE SignalAndUnlock
  BY <1>22 DEF SignalAndUnlock
<1>23. CASE EndDrain
  BY <1>23 DEF EndDrain
<1>24. CASE DirectCall
  BY <1>24 DEF DirectCall, InJavaScript
<1>25. CASE DirectReturn
  BY <1>25 DEF DirectReturn, InJavaScript
<1>26. CASE JoinReturn
  BY <1>26 DEF JoinReturn
<1>27. CASE WorkEnds
  BY <1>27 DEF WorkEnds
<1>28. CASE WorkStore
  BY <1>28 DEF WorkStore
<1>29. CASE LoopExit
  BY <1>29 DEF LoopExit
<1>30. CASE UNCHANGED vars
  BY <1>30 DEF vars
<1> QED
  BY <1>1, <1>2, <1>3, <1>4, <1>5, <1>6, <1>7, <1>8, <1>9, <1>10, <1>11,
     <1>12, <1>13, <1>14, <1>15, <1>16, <1>17, <1>18, <1>19, <1>20, <1>21,
     <1>22, <1>23, <1>24, <1>25, <1>26, <1>27, <1>28, <1>29, <1>30
  DEF Next, LoopStep, CallStep, WatcherStep, ThreadStep

\* Without spurious wakeups, Invoke and WatcherCallback implement the promise
\* of CallbackHandoff: one function at a time, on the main thread, and the call
\* returns after it.
THEOREM ImplementsHandoff ==
  ASSUME ~SpuriousWakeups
  PROVE  Spec => KeepsPromise
<1>1. TypeOK /\ HandoffInv /\ [Next]_vars => HandoffInv'
  BY ObjectStep, QueueStep, ServeStep, OutcomeStep DEF HandoffInv
<1>2. TypeOK /\ HandoffInv /\ [Next]_vars => [Handoff!Next]_HandoffStage
  BY <1>1, StageStep
<1> QED
  BY <1>2, StageInit, HandoffCorrect, PTL DEF Spec, KeepsPromise, Handoff!Spec
-----------------------------------------------------------------------------
(* The loop is released, when uv_ref and uv_unref do not overlap.          *)

UpdatingPoints == {"ref_set", "ref_store", "unref_clear", "unref_store"}

\* uv_ref and uv_unref are serial: one actor at most is inside an update.
OneUpdate ==
  /\ \A t, u \in Threads : pc[t] \in UpdatingPoints /\ pc[u] \in UpdatingPoints => t = u
  /\ main = "work_store" => \A t \in Threads : pc[t] \notin UpdatingPoints

One(b) == IF b THEN 1 ELSE 0

\* The active, referenced handles: the loop's other work and data->async.
Counted == (One(work) + One(asyncRef)) % CounterSize

\* What an actor inside its update has read, or has still to read.
UpdateInv ==
  /\ \A t \in Threads :
       /\ pc[t] = "ref_set" => ~asyncRef
       /\ pc[t] = "unref_clear" => asyncRef
       /\ pc[t] = "ref_store" => asyncRef /\ loaded[t] = One(work) % CounterSize
       /\ pc[t] = "unref_store" => ~asyncRef /\ loaded[t] = (One(work) + 1) % CounterSize
  /\ main = "work_store" => ~work /\ loaded[Main] = (1 + One(asyncRef)) % CounterSize

CountInv ==
  main # "work_store" /\ (\A t \in Threads : pc[t] \notin {"ref_store", "unref_store"})
    => activeHandles = Counted

\* The flag is set only while some thread is between its uv_ref and its uv_unref.
HolderInv ==
  asyncRef => \E t \in Threads : pc[t] \in InsideHold \cup {"ref_store", "unref_clear"}

HoldInv == OneUpdate /\ UpdateInv /\ CountInv /\ HolderInv

LEMMA SmallMod ==
  ASSUME NEW n \in Nat \ {0}, NEW x \in 0..1
  PROVE  /\ ((x % n) + 1) % n = (x + 1) % n
         /\ (((x + 1) % n) - 1) % n = (x % n)
<1>1. CASE n = 1
  BY <1>1
<1>2. CASE n = 2
  BY <1>2
<1>3. CASE n > 2
  BY <1>3
<1> QED
  BY <1>1, <1>2, <1>3

LEMMA HoldInit == Init => HoldInv
<1>1. CounterSize \in Nat \ {0}
  BY BoundsAssumption
<1> QED
  BY <1>1
  DEF Init, HoldInv, OneUpdate, UpdatingPoints, UpdateInv, CountInv, HolderInv, Counted, One

LEMMA HoldStep ==
  ASSUME SerialRefs
  PROVE  TypeOK /\ HoldInv /\ [Next]_vars => HoldInv'
<1> SUFFICES ASSUME TypeOK, HoldInv, [Next]_vars PROVE HoldInv'
  OBVIOUS
<1>0. /\ One(TRUE) = 1 /\ One(FALSE) = 0
      /\ \A b \in BOOLEAN :
           /\ ((One(b) % CounterSize) + 1) % CounterSize = (One(b) + 1) % CounterSize
           /\ (((One(b) + 1) % CounterSize) - 1) % CounterSize = One(b) % CounterSize
           /\ One(b) + 0 = One(b) /\ 0 + One(b) = One(b) /\ 1 + One(b) = One(b) + 1
  <2>1. CounterSize \in Nat \ {0}
    BY BoundsAssumption
  <2>2. \A b \in BOOLEAN : One(b) \in 0..1
    BY DEF One
  <2>3. \A b \in BOOLEAN :
          /\ ((One(b) % CounterSize) + 1) % CounterSize = (One(b) + 1) % CounterSize
          /\ (((One(b) + 1) % CounterSize) - 1) % CounterSize = One(b) % CounterSize
    BY <2>1, <2>2, SmallMod
  <2>4. \A b \in BOOLEAN : One(b) + 0 = One(b) /\ 0 + One(b) = One(b) /\ 1 + One(b) = One(b) + 1
    BY <2>2
  <2> QED  BY <2>3, <2>4 DEF One
<1> USE SerialRefs, ActorsAssumption
    DEF TypeOK, HoldInv, OneUpdate, UpdatingPoints, UpdateInv, CountInv, HolderInv,
        InsideHold, Counted, Goto, MainAt, MayUpdateRef, RefUpdating,
        threadVars, invVars, queueVars, mainVars, loopVars
<1>1. ASSUME NEW t \in Threads, Enter(t) PROVE HoldInv'
  BY <1>1 DEF Enter
<1>2. ASSUME NEW t \in Threads, RefTest(t) PROVE HoldInv'
  BY <1>2 DEF RefTest
<1>3. ASSUME NEW t \in Threads, RefSet(t) PROVE HoldInv'
  <2> USE <1>3 DEF RefSet
  <2>1. OneUpdate'
    OBVIOUS
  <2>2. UpdateInv'
    BY <1>0
  <2>3. CountInv'
    BY <1>0
  <2>4. HolderInv'
    OBVIOUS
  <2> QED
    BY <2>1, <2>2, <2>3, <2>4
<1>4. ASSUME NEW t \in Threads, RefStore(t) PROVE HoldInv'
  <2> USE <1>4 DEF RefStore
  <2>1. OneUpdate'
    OBVIOUS
  <2>2. UpdateInv'
    BY <1>0
  <2>3. CountInv'
    BY <1>0
  <2>4. HolderInv'
    OBVIOUS
  <2> QED
    BY <2>1, <2>2, <2>3, <2>4
<1>5. ASSUME NEW t \in Threads, Create(t) PROVE HoldInv'
  BY <1>5 DEF Create
<1>6. ASSUME NEW t \in Threads, LockQueue(t) PROVE HoldInv'
  BY <1>6 DEF LockQueue
<1>7. ASSUME NEW t \in Threads, Push(t) PROVE HoldInv'
  BY <1>7 DEF Push
<1>8. ASSUME NEW t \in Threads, Send(t) PROVE HoldInv'
  BY <1>8 DEF Send
<1>9. ASSUME NEW t \in Threads, Wait(t) PROVE HoldInv'
  BY <1>9 DEF Wait
<1>10. ASSUME NEW t \in Threads, SpuriousWake(t) PROVE HoldInv'
  BY <1>10 DEF SpuriousWake
<1>11. ASSUME NEW t \in Threads, Reacquire(t) PROVE HoldInv'
  BY <1>11 DEF Reacquire
<1>12. ASSUME NEW t \in Threads, UnrefTest(t) PROVE HoldInv'
  BY <1>12 DEF UnrefTest
<1>13. ASSUME NEW t \in Threads, UnrefClear(t) PROVE HoldInv'
  <2> USE <1>13 DEF UnrefClear
  <2>1. OneUpdate'
    OBVIOUS
  <2>2. UpdateInv'
    BY <1>0
  <2>3. CountInv'
    BY <1>0
  <2>4. HolderInv'
    OBVIOUS
  <2> QED
    BY <2>1, <2>2, <2>3, <2>4
<1>14. ASSUME NEW t \in Threads, UnrefStore(t) PROVE HoldInv'
  <2> USE <1>14 DEF UnrefStore
  <2>1. OneUpdate'
    OBVIOUS
  <2>2. UpdateInv'
    BY <1>0
  <2>3. CountInv'
    BY <1>0
  <2>4. HolderInv'
    OBVIOUS
  <2> QED
    BY <2>1, <2>2, <2>3, <2>4
<1>15. ASSUME NEW t \in Threads, Destroy(t) PROVE HoldInv'
  BY <1>15 DEF Destroy
<1>16. ASSUME NEW t \in Threads, Join(t) PROVE HoldInv'
  BY <1>16 DEF Join, InJavaScript
<1>17. CASE Poll
  BY <1>17 DEF Poll
<1>18. CASE LockDrain
  BY <1>18 DEF LockDrain
<1>19. CASE Pop
  BY <1>19 DEF Pop
<1>20. CASE FinishAny
  BY <1>20 DEF FinishAny, Finish
<1>21. CASE SignalLock
  BY <1>21 DEF SignalLock
<1>22. CASE SignalAndUnlock
  BY <1>22 DEF SignalAndUnlock
<1>23. CASE EndDrain
  BY <1>23 DEF EndDrain
<1>24. CASE DirectCall
  BY <1>24 DEF DirectCall, InJavaScript
<1>25. CASE DirectReturn
  BY <1>25 DEF DirectReturn, InJavaScript
<1>26. CASE JoinReturn
  BY <1>26 DEF JoinReturn
<1>27. CASE WorkEnds
  <2> USE <1>27 DEF WorkEnds
  <2>1. OneUpdate'
    OBVIOUS
  <2>2. UpdateInv'
    BY <1>0
  <2>3. CountInv'
    BY <1>0
  <2>4. HolderInv'
    OBVIOUS
  <2> QED
    BY <2>1, <2>2, <2>3, <2>4
<1>28. CASE WorkStore
  <2> USE <1>28 DEF WorkStore
  <2>1. OneUpdate'
    OBVIOUS
  <2>2. UpdateInv'
    BY <1>0
  <2>3. CountInv'
    <3>1. activeHandles' = One(asyncRef) % CounterSize
      BY <1>0
    <3>2. Counted' = One(asyncRef) % CounterSize
      BY <1>0
    <3> QED
      BY <3>1, <3>2
  <2>4. HolderInv'
    OBVIOUS
  <2> QED
    BY <2>1, <2>2, <2>3, <2>4
<1>29. CASE LoopExit
  BY <1>29 DEF LoopExit
<1>30. CASE UNCHANGED vars
  BY <1>30 DEF vars
<1> QED
  BY <1>1, <1>2, <1>3, <1>4, <1>5, <1>6, <1>7, <1>8, <1>9, <1>10, <1>11,
     <1>12, <1>13, <1>14, <1>15, <1>16, <1>17, <1>18, <1>19, <1>20, <1>21,
     <1>22, <1>23, <1>24, <1>25, <1>26, <1>27, <1>28, <1>29, <1>30
  DEF Next, LoopStep, CallStep, WatcherStep, ThreadStep

\* With serial uv_ref and uv_unref, once no thread is inside a call the handle
\* data->async is unreferenced and not counted: the event loop may exit.
THEOREM LoopReleased ==
  ASSUME SerialRefs
  PROVE  Spec => []HoldReleased
<1>1. TypeOK /\ HoldInv => HoldReleased
  BY DEF HoldInv, UpdateInv, CountInv, HolderInv, Counted, One, InsideHold, RefUpdating,
         HoldReleased
<1> QED
  BY <1>1, TypeInit, TypeStep, HoldInit, HoldStep, PTL DEF Spec

-----------------------------------------------------------------------------
(* The loop is held open for one thread at a time.                         *)

\* Calls of native threads do not overlap.
OneCaller == \A t, u \in Threads : pc[t] # "out" /\ pc[u] # "out" => t = u

\* The flag is set for as long as a thread needs it.
FlagHeld == \A t \in Threads : pc[t] \in InsideHold => asyncRef

\* While calls do not overlap, nobody clears the flag of another thread.
LEMMA FlagStep ==
  TypeOK /\ HoldInv /\ OneCaller /\ FlagHeld /\ [Next]_vars => FlagHeld'
<1> SUFFICES ASSUME TypeOK, HoldInv, OneCaller, FlagHeld, [Next]_vars PROVE FlagHeld'
  OBVIOUS
<1> USE DEF TypeOK, OneCaller, FlagHeld, InsideHold, Goto, MainAt,
            threadVars, invVars, queueVars, mainVars, loopVars
<1>1. ASSUME NEW t \in Threads, Enter(t) PROVE FlagHeld'
  BY <1>1 DEF Enter
<1>2. ASSUME NEW t \in Threads, RefTest(t) PROVE FlagHeld'
  BY <1>2 DEF RefTest
<1>3. ASSUME NEW t \in Threads, RefSet(t) PROVE FlagHeld'
  BY <1>3 DEF RefSet
<1>4. ASSUME NEW t \in Threads, RefStore(t) PROVE FlagHeld'
  BY <1>4 DEF RefStore, HoldInv, UpdateInv
<1>5. ASSUME NEW t \in Threads, Create(t) PROVE FlagHeld'
  BY <1>5 DEF Create
<1>6. ASSUME NEW t \in Threads, LockQueue(t) PROVE FlagHeld'
  BY <1>6 DEF LockQueue
<1>7. ASSUME NEW t \in Threads, Push(t) PROVE FlagHeld'
  BY <1>7 DEF Push
<1>8. ASSUME NEW t \in Threads, Send(t) PROVE FlagHeld'
  BY <1>8 DEF Send
<1>9. ASSUME NEW t \in Threads, Wait(t) PROVE FlagHeld'
  BY <1>9 DEF Wait
<1>10. ASSUME NEW t \in Threads, SpuriousWake(t) PROVE FlagHeld'
  BY <1>10 DEF SpuriousWake
<1>11. ASSUME NEW t \in Threads, Reacquire(t) PROVE FlagHeld'
  BY <1>11 DEF Reacquire
<1>12. ASSUME NEW t \in Threads, UnrefTest(t) PROVE FlagHeld'
  BY <1>12 DEF UnrefTest
<1>13. ASSUME NEW t \in Threads, UnrefClear(t) PROVE FlagHeld'
  BY <1>13 DEF UnrefClear
<1>14. ASSUME NEW t \in Threads, UnrefStore(t) PROVE FlagHeld'
  BY <1>14 DEF UnrefStore
<1>15. ASSUME NEW t \in Threads, Destroy(t) PROVE FlagHeld'
  BY <1>15 DEF Destroy
<1>16. ASSUME NEW t \in Threads, Join(t) PROVE FlagHeld'
  BY <1>16 DEF Join, InJavaScript
<1>17. CASE Poll
  BY <1>17 DEF Poll
<1>18. CASE LockDrain
  BY <1>18 DEF LockDrain
<1>19. CASE Pop
  BY <1>19 DEF Pop
<1>20. CASE FinishAny
  BY <1>20 DEF FinishAny, Finish
<1>21. CASE SignalLock
  BY <1>21 DEF SignalLock
<1>22. CASE SignalAndUnlock
  BY <1>22 DEF SignalAndUnlock
<1>23. CASE EndDrain
  BY <1>23 DEF EndDrain
<1>24. CASE DirectCall
  BY <1>24 DEF DirectCall, InJavaScript
<1>25. CASE DirectReturn
  BY <1>25 DEF DirectReturn, InJavaScript
<1>26. CASE JoinReturn
  BY <1>26 DEF JoinReturn
<1>27. CASE WorkEnds
  BY <1>27 DEF WorkEnds
<1>28. CASE WorkStore
  BY <1>28 DEF WorkStore
<1>29. CASE LoopExit
  BY <1>29 DEF LoopExit
<1>30. CASE UNCHANGED vars
  BY <1>30 DEF vars
<1> QED
  BY <1>1, <1>2, <1>3, <1>4, <1>5, <1>6, <1>7, <1>8, <1>9, <1>10, <1>11,
     <1>12, <1>13, <1>14, <1>15, <1>16, <1>17, <1>18, <1>19, <1>20, <1>21,
     <1>22, <1>23, <1>24, <1>25, <1>26, <1>27, <1>28, <1>29, <1>30
  DEF Next, LoopStep, CallStep, WatcherStep, ThreadStep

\* The loop does not end under the flag: its handle is counted.
LEMMA ExitIsFree ==
  ASSUME TypeOK, HoldInv, OneCaller, FlagHeld, CounterSize > 2, [Next]_vars,
         main # "exited", main' = "exited", NEW t \in Threads
  PROVE  pc[t] \notin InsideHold
<1>1. LoopExit
  BY DEF Next, LoopStep, CallStep, WatcherStep, ThreadStep, vars,
         Enter, RefTest, RefSet, RefStore, Create, LockQueue, Push, Send, Wait, SpuriousWake,
         Reacquire, UnrefTest, UnrefClear, UnrefStore, Destroy, Join, Poll, LockDrain, Pop,
         FinishAny, Finish, SignalLock, SignalAndUnlock, EndDrain, DirectCall, DirectReturn,
         JoinReturn, WorkEnds, WorkStore, mainVars, loopVars
<1>2. main # "work_store" /\ activeHandles = 0
  BY <1>1 DEF LoopExit, MainAt
<1> SUFFICES ASSUME pc[t] \in InsideHold  PROVE FALSE
  OBVIOUS
<1>3. asyncRef = TRUE
  BY DEF FlagHeld, TypeOK
<1>4. \A u \in Threads : pc[u] \notin {"ref_store", "unref_store"}
  BY DEF OneCaller, InsideHold
<1>5. activeHandles = Counted
  BY <1>2, <1>4 DEF HoldInv, CountInv
<1>6. Counted \in {1 % CounterSize, 2 % CounterSize}
  BY <1>3 DEF Counted, One
<1>7. CounterSize \in Nat
  BY BoundsAssumption
<1>8. 1 % CounterSize = 1 /\ 2 % CounterSize = 2
  BY <1>7
<1> QED  BY <1>2, <1>5, <1>6, <1>8

\* The loop ends while a thread is inside a call only if calls of several
\* threads have overlapped: for one at a time, uv_ref and uv_unref hold it open.
THEOREM LoopHeldForOne ==
  ASSUME SerialRefs, CounterSize > 2
  PROVE  Spec /\ []OneCaller => HoldsLoopOpen
<1> DEFINE Exit == main # "exited" /\ main' = "exited"
                     => \A t \in Threads : pc[t] \notin InsideHold
<1>1. Init => FlagHeld
  BY DEF Init, FlagHeld, InsideHold
<1>2. TypeOK /\ HoldInv /\ OneCaller /\ FlagHeld /\ [Next]_vars => [Exit]_vars
  <2> SUFFICES ASSUME TypeOK, HoldInv, OneCaller, FlagHeld, [Next]_vars,
                      main # "exited", main' = "exited", NEW t \in Threads
               PROVE  pc[t] \notin InsideHold
    OBVIOUS
  <2> QED  BY ExitIsFree
<1> QED
  BY <1>1, <1>2, TypeInit, TypeStep, HoldInit, HoldStep, FlagStep, PTL DEF Spec, HoldsLoopOpen
=============================================================================
