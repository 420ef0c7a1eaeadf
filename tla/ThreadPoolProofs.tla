-------------------------- MODULE ThreadPoolProofs -------------------------
(***************************************************************************)
(* ThreadPool for any number of workers and tasks: no wakeup is lost, and  *)
(* every task is executed once, although stop() does not lock mutex_.      *)
(***************************************************************************)
EXTENDS ThreadPool, FiniteSetTheorems, TLAPS

-----------------------------------------------------------------------------
(* The inductive invariant.                                                *)

\* mutex_ is held by the worker inside take(), if one is; a worker sleeps only
\* in wait().
MutexHeld ==
    /\ \A w \in Workers : mutex = w <=> pc[w] \in {"test", "wait"}
    /\ \A w \in waiting : pc[w] = "waiting"

\* A worker decides to wait while queue_ is empty, and nothing is put into it
\* before the wait gives mutex_ back.
WaitsForEmpty == \A w \in Workers : pc[w] = "wait" => queue = <<>>

\* Workers that will look at queue_ before they look at running_ again.
Committed ==
    {w \in Workers : \/ pc[w] \in {"take", "test", "wait"}
                     \/ pc[w] = "waiting" /\ w \notin waiting}

\* OneAwakePerTask itself is not inductive: an awake worker may end when stop() has
\* cleared running_.  The workers that notify() has woken may not.
TasksCovered == waiting = {} \/ Len(queue) <= Cardinality(Committed)

\* A worker has a task exactly while it executes it.
TaskHeld == \A w \in Workers : (task[w] # 0) <=> (pc[w] = "task")

Queued(t) == {i \in DOMAIN queue : queue[i] = t}

Executing(t) == {w \in Workers : task[w] = t}

\* Each task in one place, and one that run() has not been given yet in none.
Placed ==
    \A t \in 1..MaxTasks :
        done[t] + Cardinality(Queued(t)) + Cardinality(Executing(t))
          = IF t <= submitted THEN 1 ELSE 0

\* The latch counts the tasks that are not done.
LatchCounts ==
    /\ latch = Cardinality({t \in 1..MaxTasks : done[t] = 0})
    /\ main = "latched" => latch = 0

IInv ==
    /\ TypeOK /\ MutexHeld /\ WaitsForEmpty /\ TasksCovered
    /\ TaskHeld /\ Placed /\ LatchCounts

-----------------------------------------------------------------------------
(* Facts about the operators.                                              *)

\* How often an element is in a sequence, after Append and Tail.
LEMMA Occurrences ==
  ASSUME NEW q \in Seq(Nat), NEW t \in Nat
  PROVE  /\ IsFiniteSet({i \in DOMAIN q : q[i] = t})
         /\ Cardinality({i \in DOMAIN q : q[i] = t}) \in Nat
<1>1. DOMAIN q = 1..Len(q) /\ Len(q) \in Nat
  OBVIOUS
<1>2. IsFiniteSet(1..Len(q))
  BY <1>1, FS_Interval
<1>3. {i \in DOMAIN q : q[i] = t} \in SUBSET (1..Len(q))
  BY <1>1
<1> QED BY <1>2, <1>3, FS_Subset, FS_CardinalityType

LEMMA OccurrencesAppend ==
  ASSUME NEW q \in Seq(Nat), NEW t \in Nat, NEW e \in Nat
  PROVE  Cardinality({i \in DOMAIN Append(q, e) : Append(q, e)[i] = t})
           = Cardinality({i \in DOMAIN q : q[i] = t}) + (IF e = t THEN 1 ELSE 0)
<1> DEFINE S == {i \in DOMAIN q : q[i] = t}
           n == Len(q) + 1
<1>1. DOMAIN q = 1..Len(q) /\ Len(q) \in Nat /\ DOMAIN Append(q, e) = 1..n
  OBVIOUS
<1>2. \A i \in 1..Len(q) : Append(q, e)[i] = q[i]
  OBVIOUS
<1>3. Append(q, e)[n] = e
  OBVIOUS
<1>4. n \notin S
  BY <1>1
<1>5. {i \in DOMAIN Append(q, e) : Append(q, e)[i] = t} = IF e = t THEN S \cup {n} ELSE S
  <2>1. ASSUME NEW i PROVE i \in 1..n <=> i \in 1..Len(q) \/ i = n
    BY <1>1
  <2> HIDE DEF n
  <2> QED BY <1>1, <1>2, <1>3, <2>1
<1>6. IsFiniteSet(S) /\ Cardinality(S) \in Nat
  BY Occurrences
<1>7. Cardinality(S \cup {n}) = Cardinality(S) + 1
  <2> HIDE DEF S, n
  <2> QED BY <1>4, <1>6, FS_AddElement
<1> DEFINE T == {i \in DOMAIN Append(q, e) : Append(q, e)[i] = t}
<1>8. T = IF e = t THEN S \cup {n} ELSE S
  BY <1>5
<1>9. Cardinality(T) = Cardinality(S) + (IF e = t THEN 1 ELSE 0)
  <2> HIDE DEF S, T, n
  <2> QED BY <1>6, <1>7, <1>8
<1> QED BY <1>9

LEMMA OccurrencesTail ==
  ASSUME NEW q \in Seq(Nat), NEW t \in Nat, q # <<>>
  PROVE  Cardinality({i \in DOMAIN q : q[i] = t})
           = Cardinality({i \in DOMAIN Tail(q) : Tail(q)[i] = t})
             + (IF Head(q) = t THEN 1 ELSE 0)
<1> DEFINE S == {i \in DOMAIN q : q[i] = t}
           R == {i \in DOMAIN Tail(q) : Tail(q)[i] = t}
           f == [i \in R |-> i + 1]
<1>1. Len(q) \in Nat /\ Len(q) >= 1 /\ DOMAIN q = 1..Len(q)
  OBVIOUS
<1>2. /\ Tail(q) \in Seq(Nat) /\ DOMAIN Tail(q) = 1..(Len(q) - 1)
      /\ \A i \in 1..(Len(q) - 1) : Tail(q)[i] = q[i + 1]
      /\ Head(q) = q[1]
  OBVIOUS
<1>3. IsFiniteSet(R) /\ Cardinality(R) \in Nat /\ IsFiniteSet(S) /\ Cardinality(S) \in Nat
  BY <1>2, Occurrences
<1>4. f \in Bijection(R, S \ {1})
  <2>1. \A i \in R : i \in 1..(Len(q) - 1) /\ i + 1 \in S \ {1}
    BY <1>1, <1>2
  <2>2. \A j \in S \ {1} : j - 1 \in R /\ (j - 1) + 1 = j
    BY <1>1, <1>2
  <2>3. \A i, j \in R : i + 1 = j + 1 => i = j
    BY <2>1
  <2> HIDE DEF R, S
  <2> QED BY <2>1, <2>2, <2>3 DEF Bijection, Injection, Surjection, IsInjective
<1>5. Cardinality(S \ {1}) = Cardinality(R)
  BY <1>3, <1>4, FS_Bijection DEF ExistsBijection
<1>6. 1 \in S <=> Head(q) = t
  BY <1>1, <1>2
<1>7. Cardinality(S \ {1}) = IF 1 \in S THEN Cardinality(S) - 1 ELSE Cardinality(S)
  <2> HIDE DEF S
  <2> QED BY <1>3, FS_RemoveElement
<1>8. Cardinality(S) = Cardinality(R) + (IF Head(q) = t THEN 1 ELSE 0)
  <2> HIDE DEF R, S
  <2> QED BY <1>3, <1>5, <1>6, <1>7
<1> QED BY <1>8

\* Finiteness of what the invariant counts.
LEMMA Counted ==
  ASSUME TypeOK
  PROVE  /\ queue \in Seq(Nat)
         /\ \A t \in 1..MaxTasks :
              /\ IsFiniteSet(Queued(t)) /\ Cardinality(Queued(t)) \in Nat
              /\ IsFiniteSet(Executing(t)) /\ Cardinality(Executing(t)) \in Nat
         /\ IsFiniteSet(Committed) /\ Cardinality(Committed) \in Nat
         /\ IsFiniteSet({t \in 1..MaxTasks : done[t] = 0})
<1>1. queue \in Seq(Nat)
  BY ThreadPoolAssumption DEF TypeOK
<1>2. ASSUME NEW t \in 1..MaxTasks
      PROVE IsFiniteSet(Queued(t)) /\ Cardinality(Queued(t)) \in Nat
  <2>1. t \in Nat
    BY ThreadPoolAssumption
  <2> QED BY <1>1, <2>1, Occurrences DEF Queued
<1>3. ASSUME NEW T \in SUBSET Workers PROVE IsFiniteSet(T) /\ Cardinality(T) \in Nat
  BY ThreadPoolAssumption, FS_Subset, FS_CardinalityType
<1>4. \A t : Executing(t) \in SUBSET Workers
  BY DEF Executing
<1>5. Committed \in SUBSET Workers
  BY DEF Committed
<1>6. IsFiniteSet(1..MaxTasks)
  BY ThreadPoolAssumption, FS_Interval
<1>7. {t \in 1..MaxTasks : done[t] = 0} \in SUBSET (1..MaxTasks)
  OBVIOUS
<1>8. IsFiniteSet({t \in 1..MaxTasks : done[t] = 0})
  BY <1>6, <1>7, FS_Subset
<1> QED BY <1>1, <1>2, <1>3, <1>4, <1>5, <1>8

-----------------------------------------------------------------------------
(* Steps.                                                                  *)

\* A task that a worker executes was given to run(), is not done, and is neither
\* in queue_ nor with another worker.
LEMMA ExecutedOnce ==
  ASSUME IInv, NEW w \in Workers, pc[w] = "task"
  PROVE  /\ task[w] \in 1..MaxTasks /\ task[w] <= submitted
         /\ done[task[w]] = 0
         /\ Cardinality(Queued(task[w])) = 0
         /\ Cardinality(Executing(task[w])) = 1
<1> DEFINE t == task[w]
<1>1. t \in 1..MaxTasks
  BY ThreadPoolAssumption DEF IInv, TypeOK, TaskHeld
<1>2. w \in Executing(t)
  BY DEF Executing
<1>3. /\ IsFiniteSet(Executing(t)) /\ Cardinality(Executing(t)) \in Nat
      /\ Cardinality(Queued(t)) \in Nat /\ done[t] \in Nat
  BY <1>1, Counted DEF IInv, TypeOK
<1>4. Cardinality(Executing(t)) # 0
  BY <1>2, <1>3, FS_EmptySet
<1>5. done[t] + Cardinality(Queued(t)) + Cardinality(Executing(t))
        = IF t <= submitted THEN 1 ELSE 0
  BY <1>1 DEF IInv, Placed
<1>6. submitted \in Nat /\ t \in Nat
  BY <1>1, ThreadPoolAssumption DEF IInv, TypeOK
<1> HIDE DEF t
<1> QED BY <1>1, <1>3, <1>4, <1>5, <1>6 DEF t

\* A task that run() is given next is nowhere yet.
LEMMA NextTaskNowhere ==
  ASSUME IInv, submitted < MaxTasks
  PROVE  /\ submitted + 1 \in 1..MaxTasks
         /\ done[submitted + 1] = 0
<1> DEFINE t == submitted + 1
<1>1. t \in 1..MaxTasks /\ ~(t <= submitted)
  BY ThreadPoolAssumption DEF IInv, TypeOK
<1>2. done[t] + Cardinality(Queued(t)) + Cardinality(Executing(t)) = 0
  BY <1>1 DEF IInv, Placed
<1>3. Cardinality(Executing(t)) \in Nat /\ Cardinality(Queued(t)) \in Nat /\ done[t] \in Nat
  BY <1>1, Counted DEF IInv, TypeOK
<1> HIDE DEF t
<1> QED BY <1>1, <1>2, <1>3 DEF t

\* The latch after a task that was not done: one less to wait for.
LEMMA OneDone ==
  ASSUME TypeOK, LatchCounts, NEW t \in 1..MaxTasks, done[t] = 0,
         done' = [done EXCEPT ![t] = @ + 1]
  PROVE  /\ latch \in Nat \ {0} /\ latch - 1 \in 0..MaxTasks
         /\ latch - 1 = Cardinality({u \in 1..MaxTasks : done'[u] = 0})
         /\ done' \in [1..MaxTasks -> Nat]
<1> DEFINE S == {u \in 1..MaxTasks : done[u] = 0}
           R == {u \in 1..MaxTasks : done'[u] = 0}
<1>1. done \in [1..MaxTasks -> Nat] /\ latch \in 0..MaxTasks /\ MaxTasks \in Nat
  BY ThreadPoolAssumption DEF TypeOK
<1>2. /\ done' \in [1..MaxTasks -> Nat] /\ done'[t] # 0
      /\ \A u \in 1..MaxTasks : u # t => done'[u] = done[u]
  BY <1>1
<1>3. R = S \ {t} /\ t \in S
  BY <1>2
<1>4. IsFiniteSet(S) /\ latch = Cardinality(S)
  BY Counted DEF LatchCounts
<1>5. Cardinality(S \ {t}) = Cardinality(S) - 1 /\ Cardinality(S) # 0
  <2> HIDE DEF S
  <2> QED BY <1>3, <1>4, FS_RemoveElement, FS_EmptySet
<1>6. Cardinality(R) = latch - 1 /\ latch # 0
  <2> HIDE DEF R, S
  <2> QED BY <1>3, <1>4, <1>5
<1> HIDE DEF R
<1> QED BY <1>1, <1>2, <1>6 DEF R

LEMMA TypeStep == IInv /\ [Next]_vars => TypeOK'
<1> SUFFICES ASSUME IInv, [Next]_vars PROVE TypeOK'
  OBVIOUS
<1> USE ThreadPoolAssumption DEF IInv, TypeOK, poolVars, workerVars, mainVars
<1>1. ASSUME NEW w \in Workers, StartThread(w) PROVE TypeOK'
  BY <1>1 DEF StartThread
<1>2. CASE StartReturns
  BY <1>2 DEF StartReturns
<1>3. CASE Run
  <2>1. submitted' \in 0..MaxTasks /\ submitted + 1 \in 1..MaxTasks
    BY <1>3 DEF Run
  <2>2. CASE Threads = {}
    <3>1. /\ done' = [done EXCEPT ![submitted + 1] = @ + 1] /\ latch' = latch - 1
          /\ main' = "run"
      BY <1>3, <2>2 DEF Run, CountDown
    <3>2. latch' \in 0..MaxTasks /\ done' \in [1..MaxTasks -> Nat]
      BY <1>3, <3>1, NextTaskNowhere, OneDone DEF Run
    <3> QED BY <1>3, <2>1, <2>2, <3>1, <3>2 DEF Run
  <2>3. CASE Threads # {}
    <3>1. queue' \in Seq(1..MaxTasks)
      <4>1. queue' = Append(queue, submitted + 1) /\ queue \in Seq(1..MaxTasks)
        BY <1>3, <2>3 DEF Run
      <4> HIDE DEF IInv, TypeOK
      <4> QED BY <2>1, <4>1
    <3>2. waiting' \subseteq Workers
      BY <1>3, <2>3 DEF Run, Notify
    <3> QED BY <1>3, <2>1, <2>3, <3>1, <3>2 DEF Run
  <2> QED BY <2>2, <2>3
<1>4. CASE LatchWait
  BY <1>4 DEF LatchWait
<1>5. CASE Stop
  BY <1>5 DEF Stop
<1>6. CASE StopNotify
  BY <1>6 DEF StopNotify
<1>7. CASE Join
  BY <1>7 DEF Join
<1>8. ASSUME NEW w \in Workers, Loop(w) PROVE TypeOK'
  BY <1>8 DEF Loop
<1>9. ASSUME NEW w \in Workers, Lock(w) PROVE TypeOK'
  BY <1>9 DEF Lock
<1>10. ASSUME NEW w \in Workers, Test(w) PROVE TypeOK'
  <2>1. CASE queue = <<>>
    BY <1>10, <2>1 DEF Test
  <2>2. CASE queue # <<>>
    <3>1. Head(queue) \in 1..MaxTasks /\ Tail(queue) \in Seq(1..MaxTasks)
      BY <2>2
    <3>2. /\ mutex' = Nobody
          /\ pc' = [pc EXCEPT ![w] = "task"]
          /\ task' = [task EXCEPT ![w] = Head(queue)]
          /\ queue' = Tail(queue)
          /\ UNCHANGED <<numThreads, running, waiting, main, latch, submitted, done>>
      BY <1>10, <2>2 DEF Test, PopFront
    <3>3. pc' \in [Workers -> {"none", "loop", "take", "test", "wait", "waiting", "task", "ended"}]
      BY <3>2
    <3>4. task' \in [Workers -> 0..MaxTasks]
      BY <3>1, <3>2
    <3> QED BY <3>1, <3>2, <3>3, <3>4
  <2> QED BY <2>1, <2>2
<1>11. ASSUME NEW w \in Workers, Wait(w) PROVE TypeOK'
  BY <1>11 DEF Wait
<1>12. ASSUME NEW w \in Workers, ExecuteTask(w) PROVE TypeOK'
  <2>1. task[w] \in 1..MaxTasks /\ done[task[w]] = 0
    BY <1>12, ExecutedOnce DEF ExecuteTask
  <2>2. latch' \in 0..MaxTasks /\ done' \in [1..MaxTasks -> Nat]
    BY <1>12, <2>1, OneDone DEF ExecuteTask, CountDown
  <2>3. main' \in {"start", "run", "latch", "retest", "latched", "notify", "join", "stopped"}
    BY <1>12 DEF ExecuteTask, CountDown
  <2> QED BY <1>12, <2>2, <2>3 DEF ExecuteTask
<1>13. ASSUME NEW w \in Workers, SpuriousWakeup(w) PROVE TypeOK'
  BY <1>13 DEF SpuriousWakeup
<1>14. CASE SpuriousLatch
  BY <1>14 DEF SpuriousLatch
<1>15. CASE UNCHANGED vars
  BY <1>15 DEF vars
<1> QED
  BY <1>1, <1>2, <1>3, <1>4, <1>5, <1>6, <1>7, <1>8, <1>9, <1>10, <1>11, <1>12, <1>13,
     <1>14, <1>15 DEF Next, Main, Worker

\* Mutual exclusion in take(), and with it the emptiness of queue_ at a wait.
LEMMA MutexStep == IInv /\ [Next]_vars => MutexHeld' /\ WaitsForEmpty'
<1> SUFFICES ASSUME IInv, [Next]_vars PROVE MutexHeld' /\ WaitsForEmpty'
  OBVIOUS
<1>1. /\ TypeOK /\ MutexHeld /\ WaitsForEmpty
      /\ pc \in [Workers -> {"none", "loop", "take", "test", "wait", "waiting", "task", "ended"}]
  BY DEF IInv, TypeOK
<1> USE <1>1, NobodyAssumption DEF MutexHeld, WaitsForEmpty, poolVars, workerVars, mainVars
<1>2. ASSUME NEW w \in Workers, StartThread(w) PROVE MutexHeld' /\ WaitsForEmpty'
  BY <1>2 DEF StartThread
<1>3. CASE Run
  <2>1. UNCHANGED <<mutex, pc>> /\ waiting' \subseteq waiting
    BY <1>3 DEF Run, Notify
  <2>2. UNCHANGED queue \/ mutex = Nobody
    BY <1>3 DEF Run
  <2> QED BY <2>1, <2>2
<1>4. CASE \/ StartReturns \/ LatchWait \/ Stop \/ StopNotify \/ Join \/ SpuriousLatch
           \/ UNCHANGED vars
  <2>1. UNCHANGED <<mutex, pc, queue>> /\ waiting' \subseteq waiting
    BY <1>4 DEF StartReturns, LatchWait, Stop, StopNotify, Join, SpuriousLatch, vars
  <2> QED BY <2>1
<1>5. ASSUME NEW w \in Workers, Loop(w) PROVE MutexHeld' /\ WaitsForEmpty'
  BY <1>5 DEF Loop
<1>6. ASSUME NEW w \in Workers, Lock(w) PROVE MutexHeld' /\ WaitsForEmpty'
  BY <1>6 DEF Lock
<1>7. ASSUME NEW w \in Workers, Test(w) PROVE MutexHeld' /\ WaitsForEmpty'
  <2>1. mutex = w /\ \A v \in Workers : v # w => pc[v] \notin {"test", "wait"}
    BY <1>7 DEF Test
  <2>2. CASE queue = <<>> /\ running
    <3>1. pc' = [pc EXCEPT ![w] = "wait"] /\ UNCHANGED <<mutex, queue, waiting>>
      BY <1>7, <2>2 DEF Test
    <3> QED BY <1>7, <2>1, <2>2, <3>1 DEF Test
  <2>3. CASE ~(queue = <<>> /\ running)
    <3>1. PICK next \in {"loop", "task"} : pc' = [pc EXCEPT ![w] = next]
      BY <1>7, <2>3 DEF Test
    <3>2. mutex' = Nobody /\ UNCHANGED waiting
      BY <1>7, <2>3 DEF Test
    <3>3. \A v \in Workers : pc'[v] = IF v = w THEN next ELSE pc[v]
      BY <3>1
    <3>4. \A v \in Workers : pc'[v] \notin {"test", "wait"}
      BY <2>1, <3>3
    <3>5. \A v \in waiting : v \in Workers /\ v # w
      BY <1>7 DEF Test, TypeOK
    <3> QED BY <3>2, <3>3, <3>4, <3>5
  <2> QED BY <2>2, <2>3
<1>8. ASSUME NEW w \in Workers, Wait(w) PROVE MutexHeld' /\ WaitsForEmpty'
  BY <1>8 DEF Wait
<1>9. ASSUME NEW w \in Workers, ExecuteTask(w) PROVE MutexHeld' /\ WaitsForEmpty'
  BY <1>9 DEF ExecuteTask
<1>10. ASSUME NEW w \in Workers, SpuriousWakeup(w) PROVE MutexHeld' /\ WaitsForEmpty'
  BY <1>10 DEF SpuriousWakeup
<1> QED
  BY <1>2, <1>3, <1>4, <1>5, <1>6, <1>7, <1>8, <1>9, <1>10 DEF Next, Main, Worker

\* Who is woken by notify() stays committed until it has taken a task.
LEMMA CoveredStep == IInv /\ [Next]_vars => TasksCovered'
<1> SUFFICES ASSUME IInv, [Next]_vars PROVE TasksCovered'
  OBVIOUS
<1>1. /\ TypeOK /\ MutexHeld /\ TasksCovered
      /\ pc \in [Workers -> {"none", "loop", "take", "test", "wait", "waiting", "task", "ended"}]
      /\ waiting \subseteq Workers /\ Len(queue) \in Nat
  BY DEF IInv, TypeOK
<1>2. IsFiniteSet(Committed) /\ Cardinality(Committed) \in Nat
  BY <1>1, Counted
<1>3. IsFiniteSet(Committed') /\ Cardinality(Committed') \in Nat
  <2>1. Committed' \in SUBSET Workers
    BY DEF Committed
  <2> QED BY <2>1, ThreadPoolAssumption, FS_Subset, FS_CardinalityType
<1>4. ASSUME waiting' \subseteq waiting, Len(queue') = Len(queue),
             Committed \subseteq Committed'
      PROVE  TasksCovered'
  <2>1. Cardinality(Committed) <= Cardinality(Committed')
    BY <1>3, <1>4, FS_Subset
  <2>2. waiting' = {} \/ waiting # {}
    BY <1>4
  <2> QED BY <1>1, <1>2, <1>3, <1>4, <2>1, <2>2 DEF TasksCovered
<1> USE DEF poolVars, workerVars, mainVars
<1>5. ASSUME NEW w \in Workers, StartThread(w) PROVE TasksCovered'
  <2>1. Committed \subseteq Committed'
    BY <1>1, <1>5 DEF StartThread, Committed
  <2> QED BY <1>4, <1>5, <2>1 DEF StartThread
<1>6. CASE Run
  <2>1. UNCHANGED pc
    BY <1>6 DEF Run
  <2>2. CASE Threads = {}
    <3>1. UNCHANGED <<queue, waiting>>
      BY <1>6, <2>2 DEF Run
    <3> QED BY <1>4, <2>1, <3>1 DEF Committed
  <2>3. CASE Threads # {} /\ waiting = {}
    BY <1>6, <2>3 DEF Run, Notify, TasksCovered
  <2>4. CASE Threads # {} /\ waiting # {}
    <3>1. PICK w \in waiting : waiting' = waiting \ {w}
      BY <1>6, <2>4 DEF Run, Notify
    <3>2. Committed' = Committed \cup {w} /\ w \notin Committed
      BY <1>1, <2>1, <3>1 DEF Committed, MutexHeld
    <3>3. Cardinality(Committed') = Cardinality(Committed) + 1
      BY <1>2, <3>2, FS_AddElement
    <3>4. queue' = Append(queue, submitted + 1)
      BY <1>6, <2>4 DEF Run
    <3>5. Len(queue') = Len(queue) + 1
      BY <3>4 DEF IInv, TypeOK
    <3> QED BY <1>1, <1>2, <2>4, <3>3, <3>5 DEF TasksCovered
  <2> QED BY <2>2, <2>3, <2>4
<1>7. CASE StartReturns \/ LatchWait \/ Stop \/ Join \/ SpuriousLatch \/ UNCHANGED vars
  <2>1. UNCHANGED <<pc, queue, waiting>>
    BY <1>7 DEF StartReturns, LatchWait, Stop, Join, SpuriousLatch, vars
  <2> QED BY <1>4, <2>1 DEF Committed
<1>8. CASE StopNotify
  BY <1>8 DEF StopNotify, TasksCovered
<1>9. ASSUME NEW w \in Workers, Loop(w) PROVE TasksCovered'
  <2>1. Committed \subseteq Committed'
    BY <1>1, <1>9 DEF Loop, Committed
  <2> QED BY <1>4, <1>9, <2>1 DEF Loop
<1>10. ASSUME NEW w \in Workers, Lock(w) PROVE TasksCovered'
  <2>1. Committed \subseteq Committed'
    BY <1>1, <1>10 DEF Lock, Committed
  <2> QED BY <1>4, <1>10, <2>1 DEF Lock
<1>11. ASSUME NEW w \in Workers, Test(w) PROVE TasksCovered'
  <2>1. UNCHANGED waiting
    BY <1>11 DEF Test
  <2>2. CASE queue = <<>>
    <3>1. Len(queue') = 0
      BY <1>11, <2>2 DEF Test
    <3> QED BY <1>3, <3>1 DEF TasksCovered
  <2>3. CASE queue # <<>>
    <3>1. queue' = Tail(queue) /\ pc' = [pc EXCEPT ![w] = "task"]
      BY <1>11, <2>3 DEF Test, PopFront
    <3>2. Committed' = Committed \ {w} /\ w \in Committed
      BY <1>1, <1>11, <2>1, <3>1 DEF Test, Committed
    <3>3. Cardinality(Committed') = Cardinality(Committed) - 1
      BY <1>2, <3>2, FS_RemoveElement
    <3>4. Len(queue') = Len(queue) - 1
      BY <2>3, <3>1 DEF IInv, TypeOK
    <3> QED BY <1>1, <1>2, <2>1, <3>3, <3>4 DEF TasksCovered
  <2> QED BY <2>2, <2>3
<1>12. ASSUME NEW w \in Workers, Wait(w) PROVE TasksCovered'
  <2>1. Len(queue') = 0
    BY <1>12 DEF Wait, IInv, WaitsForEmpty
  <2> QED BY <1>3, <2>1 DEF TasksCovered
<1>13. ASSUME NEW w \in Workers, ExecuteTask(w) PROVE TasksCovered'
  <2>1. Committed \subseteq Committed'
    BY <1>1, <1>13 DEF ExecuteTask, Committed
  <2> QED BY <1>4, <1>13, <2>1 DEF ExecuteTask
<1>14. ASSUME NEW w \in Workers, SpuriousWakeup(w) PROVE TasksCovered'
  <2>1. Committed \subseteq Committed'
    BY <1>1, <1>14 DEF SpuriousWakeup, Committed
  <2> QED BY <1>4, <1>14, <2>1 DEF SpuriousWakeup
<1> QED
  BY <1>5, <1>6, <1>7, <1>8, <1>9, <1>10, <1>11, <1>12, <1>13, <1>14 DEF Next, Main, Worker

\* Tasks move from queue_ to a worker and are done; none is lost or taken twice.
LEMMA PlacedStep == IInv /\ [Next]_vars => TaskHeld' /\ Placed'
<1> SUFFICES ASSUME IInv, [Next]_vars PROVE TaskHeld' /\ Placed'
  OBVIOUS
<1>1. /\ TypeOK /\ TaskHeld /\ Placed
      /\ pc \in [Workers -> {"none", "loop", "take", "test", "wait", "waiting", "task", "ended"}]
      /\ task \in [Workers -> 0..MaxTasks] /\ MaxTasks \in Nat
      /\ submitted \in 0..MaxTasks /\ done \in [1..MaxTasks -> Nat]
      /\ queue \in Seq(Nat)
  BY Counted, ThreadPoolAssumption DEF IInv, TypeOK
<1>2. \A t \in 1..MaxTasks :
        /\ done[t] + Cardinality(Queued(t)) + Cardinality(Executing(t))
             = IF t <= submitted THEN 1 ELSE 0
        /\ done[t] \in Nat /\ Cardinality(Queued(t)) \in Nat
        /\ IsFiniteSet(Executing(t)) /\ Cardinality(Executing(t)) \in Nat
  BY <1>1, Counted DEF Placed
<1> USE DEF poolVars, workerVars, mainVars
\* Steps that neither give, take nor execute a task.
<1>3. ASSUME UNCHANGED <<done, queue, task, submitted>>,
             \A w \in Workers : pc'[w] = "task" <=> pc[w] = "task"
      PROVE  TaskHeld' /\ Placed'
  <2>1. TaskHeld'
    BY <1>1, <1>3 DEF TaskHeld
  <2>2. \A t : Queued(t)' = Queued(t) /\ Executing(t)' = Executing(t)
    BY <1>3 DEF Queued, Executing
  <2> QED BY <1>1, <1>3, <2>1, <2>2 DEF Placed
<1>4. ASSUME NEW w \in Workers, StartThread(w) PROVE TaskHeld' /\ Placed'
  BY <1>1, <1>3, <1>4 DEF StartThread
<1>5. CASE Run
  <2> DEFINE n == submitted + 1
  <2>1. /\ n \in 1..MaxTasks /\ submitted' = n /\ UNCHANGED <<pc, task>>
        /\ n \in Nat /\ submitted \in Nat
    BY <1>1, <1>5 DEF Run
  <2>2. TaskHeld'
    BY <1>1, <2>1 DEF TaskHeld
  <2>3. \A t : Executing(t)' = Executing(t)
    BY <2>1 DEF Executing
  <2>4. CASE Threads = {}
    <3>1. done' = [done EXCEPT ![n] = @ + 1] /\ UNCHANGED queue
      BY <1>5, <2>4 DEF Run
    <3>2. \A t : Queued(t)' = Queued(t)
      BY <3>1 DEF Queued
    <3>3. ASSUME NEW t \in 1..MaxTasks
          PROVE  done'[t] + Cardinality(Queued(t)') + Cardinality(Executing(t)')
                   = IF t <= submitted' THEN 1 ELSE 0
      <4>1. done'[t] = IF t = n THEN done[t] + 1 ELSE done[t]
        BY <1>1, <2>1, <3>1
      <4>2. Cardinality(Queued(t)') = Cardinality(Queued(t))
        BY <3>2
      <4>3. Cardinality(Executing(t)') = Cardinality(Executing(t))
        BY <2>3
      <4> QED BY <1>1, <1>2, <2>1, <4>1, <4>2, <4>3
    <3> QED BY <2>2, <3>3 DEF Placed
  <2>5. CASE Threads # {}
    <3>1. queue' = Append(queue, n) /\ UNCHANGED done
      BY <1>5, <2>5 DEF Run
    <3>2. ASSUME NEW t \in 1..MaxTasks
          PROVE  done'[t] + Cardinality(Queued(t)') + Cardinality(Executing(t)')
                   = IF t <= submitted' THEN 1 ELSE 0
      <4> HIDE DEF n
      <4>1. Cardinality(Queued(t)') = Cardinality(Queued(t)) + (IF n = t THEN 1 ELSE 0)
        <5>1. Queued(t)' = {i \in DOMAIN Append(queue, n) : Append(queue, n)[i] = t}
          BY <3>1 DEF Queued
        <5>2. t \in Nat
          BY <1>1
        <5>3. Cardinality({i \in DOMAIN Append(queue, n) : Append(queue, n)[i] = t})
                = Cardinality(Queued(t)) + (IF n = t THEN 1 ELSE 0)
          BY <1>1, <2>1, <5>2, OccurrencesAppend DEF Queued
        <5> QED BY <5>1, <5>3
      <4>2. Cardinality(Executing(t)') = Cardinality(Executing(t))
        BY <2>3
      <4>3. n = submitted + 1
        BY DEF n
      <4>4. done'[t] = done[t]
        BY <3>1
      <4> QED BY <1>2, <2>1, <4>1, <4>2, <4>3, <4>4
    <3> QED BY <2>2, <3>2 DEF Placed
  <2> QED BY <2>4, <2>5
<1>6. CASE \/ StartReturns \/ LatchWait \/ Stop \/ StopNotify \/ Join \/ SpuriousLatch
           \/ UNCHANGED vars
  <2>1. UNCHANGED <<done, queue, task, submitted, pc>>
    BY <1>6 DEF StartReturns, LatchWait, Stop, StopNotify, Join, SpuriousLatch, vars
  <2> QED BY <1>3, <2>1
<1>7. ASSUME NEW w \in Workers, Loop(w) \/ Lock(w) \/ Wait(w) \/ SpuriousWakeup(w)
      PROVE  TaskHeld' /\ Placed'
  <2>1. UNCHANGED <<done, queue, task, submitted>>
    BY <1>7 DEF Loop, Lock, Wait, SpuriousWakeup
  <2>2. \A v \in Workers : pc'[v] = "task" <=> pc[v] = "task"
    BY <1>1, <1>7 DEF Loop, Lock, Wait, SpuriousWakeup
  <2> QED BY <1>3, <2>1, <2>2
<1>8. ASSUME NEW w \in Workers, Test(w) PROVE TaskHeld' /\ Placed'
  <2>1. CASE queue = <<>>
    <3>1. UNCHANGED <<done, queue, task, submitted>>
      BY <1>8, <2>1 DEF Test
    <3>2. PICK next \in {"wait", "loop"} : pc' = [pc EXCEPT ![w] = next]
      BY <1>8, <2>1 DEF Test
    <3>3. \A v \in Workers : pc'[v] = "task" <=> pc[v] = "task"
      BY <1>1, <1>8, <3>2 DEF Test
    <3> QED BY <1>3, <3>1, <3>3
  <2>2. CASE queue # <<>>
    <3> DEFINE h == Head(queue)
    <3>1. /\ pc' = [pc EXCEPT ![w] = "task"] /\ task' = [task EXCEPT ![w] = h]
          /\ queue' = Tail(queue) /\ UNCHANGED <<done, submitted>>
      BY <1>8, <2>2 DEF Test, PopFront
    <3>2. h \in 1..MaxTasks
      BY <2>2, ThreadPoolAssumption DEF IInv, TypeOK
    <3>3. task[w] = 0 /\ pc[w] = "test"
      BY <1>1, <1>8 DEF Test, TaskHeld
    <3> HIDE DEF h
    <3>4. \A v \in Workers : /\ task'[v] = IF v = w THEN h ELSE task[v]
                             /\ pc'[v] = IF v = w THEN "task" ELSE pc[v]
      BY <1>1, <3>1
    <3>5. TaskHeld'
      BY <1>1, <3>2, <3>4 DEF TaskHeld
    <3>6. ASSUME NEW t \in 1..MaxTasks
          PROVE  done'[t] + Cardinality(Queued(t)') + Cardinality(Executing(t)')
                   = IF t <= submitted' THEN 1 ELSE 0
      <4>1. Cardinality(Queued(t)) = Cardinality(Queued(t)') + (IF h = t THEN 1 ELSE 0)
        <5>1. Queued(t)' = {i \in DOMAIN Tail(queue) : Tail(queue)[i] = t}
          BY <3>1 DEF Queued
        <5>2. t \in Nat
          BY <1>1
        <5>3. Cardinality(Queued(t))
                = Cardinality({i \in DOMAIN Tail(queue) : Tail(queue)[i] = t})
                  + (IF h = t THEN 1 ELSE 0)
          BY <1>1, <2>2, <5>2, OccurrencesTail DEF Queued, h
        <5> QED BY <5>1, <5>3
      <4>2. Executing(t)' = (IF h = t THEN Executing(t) \cup {w} ELSE Executing(t))
        BY <3>3, <3>4 DEF Executing
      <4>3. w \notin Executing(t)
        BY <3>3 DEF Executing
      <4>4. Cardinality(Executing(t)') = Cardinality(Executing(t)) + (IF h = t THEN 1 ELSE 0)
        <5>1. Cardinality(Executing(t) \cup {w}) = Cardinality(Executing(t)) + 1
          BY <1>2, <4>3, FS_AddElement
        <5> QED BY <1>2, <4>2, <5>1
      <4>5. Cardinality(Queued(t)') \in Nat
        <5>1. Queued(t)' = {i \in DOMAIN Tail(queue) : Tail(queue)[i] = t}
          BY <3>1 DEF Queued
        <5>2. t \in Nat /\ Tail(queue) \in Seq(Nat)
          BY <1>1, <2>2
        <5> QED BY <5>1, <5>2, Occurrences
      <4>6. done'[t] = done[t] /\ submitted' = submitted
        BY <3>1
      <4> QED BY <1>2, <4>1, <4>4, <4>5, <4>6
    <3> QED BY <3>5, <3>6 DEF Placed
  <2> QED BY <2>1, <2>2
<1>9. ASSUME NEW w \in Workers, ExecuteTask(w) PROVE TaskHeld' /\ Placed'
  <2> DEFINE x == task[w]
  <2>1. /\ done' = [done EXCEPT ![x] = @ + 1] /\ task' = [task EXCEPT ![w] = 0]
        /\ pc' = [pc EXCEPT ![w] = "loop"] /\ UNCHANGED <<queue, submitted>>
    BY <1>9 DEF ExecuteTask
  <2>2. x \in 1..MaxTasks
    BY <1>9, ExecutedOnce DEF ExecuteTask
  <2>3. \A v \in Workers : /\ task'[v] = IF v = w THEN 0 ELSE task[v]
                           /\ pc'[v] = IF v = w THEN "loop" ELSE pc[v]
    BY <1>1, <2>1
  <2>4. TaskHeld'
    BY <1>1, <2>3 DEF TaskHeld
  <2>5. ASSUME NEW t \in 1..MaxTasks
        PROVE  done'[t] + Cardinality(Queued(t)') + Cardinality(Executing(t)')
                 = IF t <= submitted' THEN 1 ELSE 0
    <3>1. Queued(t)' = Queued(t)
      BY <2>1 DEF Queued
    <3>2. Executing(t)' = Executing(t) \ {w} /\ (w \in Executing(t) <=> x = t)
      BY <2>3 DEF Executing
    <3>3. done'[t] = IF t = x THEN done[t] + 1 ELSE done[t]
      BY <1>1, <2>1, <2>2
    <3> HIDE DEF x
    <3>4. Cardinality(Executing(t)')
            = IF x = t THEN Cardinality(Executing(t)) - 1 ELSE Cardinality(Executing(t))
      BY <1>2, <3>2, FS_RemoveElement
    <3>5. Cardinality(Queued(t)') = Cardinality(Queued(t)) /\ submitted' = submitted
      BY <2>1, <3>1
    <3> QED BY <1>2, <3>3, <3>4, <3>5
  <2> QED BY <2>4, <2>5 DEF Placed
<1> QED
  BY <1>4, <1>5, <1>6, <1>7, <1>8, <1>9 DEF Next, Main, Worker

\* The latch is counted down once per task.
LEMMA LatchStep == IInv /\ [Next]_vars => LatchCounts'
<1> SUFFICES ASSUME IInv, [Next]_vars PROVE LatchCounts'
  OBVIOUS
<1>1. TypeOK /\ LatchCounts /\ latch \in Nat
  BY ThreadPoolAssumption DEF IInv, TypeOK
<1> USE DEF poolVars, workerVars, mainVars
<1>2. ASSUME UNCHANGED <<done, latch>>, main' = "latched" => main = "latched" \/ latch = 0
      PROVE  LatchCounts'
  BY <1>1, <1>2 DEF LatchCounts
<1>3. ASSUME NEW t \in 1..MaxTasks, done[t] = 0, done' = [done EXCEPT ![t] = @ + 1],
             latch' = latch - 1, main' = "latched" => main = "latched"
      PROVE  LatchCounts'
  <2>1. latch # 0 /\ latch' = Cardinality({u \in 1..MaxTasks : done'[u] = 0})
    BY <1>1, <1>3, OneDone
  <2>2. main' # "latched"
    BY <1>1, <1>3, <2>1 DEF LatchCounts
  <2> QED BY <2>1, <2>2 DEF LatchCounts
<1>4. CASE Run
  <2>1. submitted + 1 \in 1..MaxTasks /\ done[submitted + 1] = 0
    BY <1>4, NextTaskNowhere DEF Run
  <2>2. CASE Threads = {}
    <3>1. /\ done' = [done EXCEPT ![submitted + 1] = @ + 1] /\ latch' = latch - 1
          /\ main' = "run"
      BY <1>4, <2>2 DEF Run, CountDown
    <3> QED BY <1>3, <2>1, <3>1
  <2>3. CASE Threads # {}
    BY <1>2, <1>4, <2>3 DEF Run
  <2> QED BY <2>2, <2>3
<1>5. CASE LatchWait
  BY <1>1, <1>2, <1>5 DEF LatchWait
<1>6. CASE StartReturns \/ Stop \/ StopNotify \/ Join \/ SpuriousLatch \/ UNCHANGED vars
  BY <1>2, <1>6 DEF StartReturns, Stop, StopNotify, Join, SpuriousLatch, vars
<1>7. ASSUME NEW w \in Workers, ExecuteTask(w) PROVE LatchCounts'
  <2>1. task[w] \in 1..MaxTasks /\ done[task[w]] = 0
    BY <1>7, ExecutedOnce DEF ExecuteTask
  <2>2. /\ done' = [done EXCEPT ![task[w]] = @ + 1] /\ latch' = latch - 1
        /\ main' = "latched" => main = "latched"
    BY <1>7 DEF ExecuteTask, CountDown
  <2> QED BY <1>3, <2>1, <2>2
<1>8. ASSUME NEW w \in Workers,
             StartThread(w) \/ Loop(w) \/ Lock(w) \/ Test(w) \/ Wait(w) \/ SpuriousWakeup(w)
      PROVE  LatchCounts'
  BY <1>2, <1>8 DEF StartThread, Loop, Lock, Test, Wait, SpuriousWakeup
<1> QED
  BY <1>4, <1>5, <1>6, <1>7, <1>8 DEF Next, Main, Worker

LEMMA InitIInv == Init => IInv
<1> SUFFICES ASSUME Init PROVE IInv
  OBVIOUS
<1>1. TypeOK
  BY ThreadPoolAssumption DEF Init, TypeOK
<1>2. MutexHeld /\ WaitsForEmpty /\ TasksCovered /\ TaskHeld
  BY NobodyAssumption DEF Init, MutexHeld, WaitsForEmpty, TasksCovered, TaskHeld
<1>3. Placed
  <2>1. ASSUME NEW t \in 1..MaxTasks
        PROVE  /\ done[t] = 0 /\ Queued(t) = {} /\ Executing(t) = {} /\ ~(t <= submitted)
    BY ThreadPoolAssumption DEF Init, Queued, Executing
  <2>2. \A t \in 1..MaxTasks : Cardinality(Queued(t)) = 0 /\ Cardinality(Executing(t)) = 0
    BY <2>1, FS_EmptySet
  <2> QED BY <2>1, <2>2 DEF Placed
<1>4. LatchCounts
  <2>1. {t \in 1..MaxTasks : done[t] = 0} = 1..MaxTasks
    BY DEF Init
  <2>2. Cardinality(1..MaxTasks) = MaxTasks
    BY ThreadPoolAssumption, FS_Interval
  <2> QED BY <2>1, <2>2 DEF Init, LatchCounts
<1> QED BY <1>1, <1>2, <1>3, <1>4 DEF IInv

\* The inductive invariant of take, run and stop holds in every reachable state.
THEOREM Inductive == Spec => []IInv
<1>1. IInv /\ [Next]_vars => IInv'
  BY TypeStep, MutexStep, CoveredStep, PlacedStep, LatchStep DEF IInv
<1> QED BY InitIInv, <1>1, PTL DEF Spec

-----------------------------------------------------------------------------
(* The results.                                                            *)

\* No wakeup of Condition::notify is lost, whatever the number of threads, and
\* although ThreadPool::stop sets running_ and notifies without mutex_: there are
\* never more tasks in queue_ than workers awake to take them, or nobody waits.
THEOREM NoWakeupLost == Spec => []OneAwakePerTask
<1>1. IInv => OneAwakePerTask
  <2> SUFFICES ASSUME IInv PROVE OneAwakePerTask
    OBVIOUS
  <2> DEFINE Awake == {w \in Threads \ waiting : pc[w] # "ended"}
  <2>1. Committed \subseteq Awake
    BY DEF IInv, MutexHeld, Committed, Threads
  <2>2. Awake \in SUBSET Workers
    BY DEF Threads
  <2>3. IsFiniteSet(Awake) /\ Cardinality(Awake) \in Nat
    BY <2>2, ThreadPoolAssumption, FS_Subset, FS_CardinalityType
  <2>4. Cardinality(Committed) <= Cardinality(Awake) /\ Cardinality(Committed) \in Nat
    BY <2>1, <2>3, Counted, FS_Subset DEF IInv
  <2>5. Len(queue) \in Nat
    BY DEF IInv, TypeOK
  <2>6. waiting = {} \/ Len(queue) <= Cardinality(Awake)
    <3> HIDE DEF Awake
    <3> QED BY <2>3, <2>4, <2>5 DEF IInv, TasksCovered
  <2> QED BY <2>6 DEF IInv, OneAwakePerTask
<1> QED BY Inductive, <1>1, PTL

\* Every task given to ThreadPool::run is in queue_, with one worker, or was
\* executed, once; and CountDownLatch::wait returns only after all were executed.
THEOREM TasksExecutedOnce == Spec => []EachTaskOnce
<1>1. IInv => EachTaskOnce
  <2> SUFFICES ASSUME IInv PROVE EachTaskOnce
    OBVIOUS
  <2>1. ASSUME NEW t \in 1..submitted
        PROVE  1 = done[t] + Cardinality(Queued(t)) + Cardinality(Executing(t))
    <3>1. t \in 1..MaxTasks /\ t <= submitted
      BY ThreadPoolAssumption DEF IInv, TypeOK
    <3> QED BY <3>1 DEF IInv, Placed
  <2>2. ASSUME main = "latched", NEW t \in 1..MaxTasks PROVE done[t] > 0
    <3> DEFINE S == {u \in 1..MaxTasks : done[u] = 0}
    <3>1. Cardinality(S) = 0 /\ IsFiniteSet(S)
      BY <2>2, Counted DEF IInv, LatchCounts
    <3>2. S = {}
      <4> HIDE DEF S
      <4> QED BY <3>1, FS_EmptySet
    <3>3. done[t] # 0 /\ done[t] \in Nat
      BY <3>2 DEF IInv, TypeOK
    <3> QED BY <3>3
  <2> QED BY <2>1, <2>2 DEF EachTaskOnce, Queued, Executing
<1> QED BY Inductive, <1>1, PTL
=============================================================================
