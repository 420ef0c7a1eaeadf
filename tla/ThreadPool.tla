----------------------------- MODULE ThreadPool ----------------------------
(***************************************************************************)
(* ThreadPool with its MutexLock, Condition and Threads, used as its test  *)
(* does: start, run tasks that count a CountDownLatch down, wait for the   *)
(* latch or not, stop.                                                     *)
(*                                                                         *)
(* run, wait and countDown are critical sections and one step each.  take  *)
(* is more than one: stop() does not lock mutex_.                          *)
(***************************************************************************)
EXTENDS Naturals, Sequences, FiniteSets

CONSTANTS Workers,    \* threads the pool may have
          MaxTasks,   \* number of tasks, and count of the latch
          StopRace    \* may stop() notify while a worker is between test and wait?

ASSUME ThreadPoolAssumption ==
    /\ IsFiniteSet(Workers)
    /\ MaxTasks \in Nat
    /\ StopRace \in BOOLEAN

Nobody == "nobody"

ASSUME NobodyAssumption == Nobody \notin Workers

VARIABLES
    numThreads,  \* argument of start
    running,     \* running_
    queue,       \* queue_
    mutex,       \* who holds mutex_
    waiting,     \* threads that sleep in cond_.wait()
    pc,          \* what each worker is doing, "none" before its Thread is started
    task,        \* the task it has taken
    main,        \* what the thread that owns the pool is doing
    latch,       \* count_ of the latch
    submitted,   \* tasks given to run
    done         \* tasks executed, how often

poolVars == <<running, queue, mutex, waiting>>
workerVars == <<pc, task>>
mainVars == <<main, latch, submitted, done>>
vars == <<numThreads, poolVars, workerVars, mainVars>>

Threads == {w \in Workers : pc[w] # "none"}

TypeOK ==
    /\ numThreads \in 0..Cardinality(Workers)
    /\ running \in BOOLEAN
    /\ queue \in Seq(1..MaxTasks)
    /\ mutex \in Workers \cup {Nobody}
    /\ waiting \subseteq Workers
    /\ pc \in [Workers -> {"none", "loop", "take", "test", "wait", "waiting", "task", "ended"}]
    /\ task \in [Workers -> 0..MaxTasks]
    /\ main \in {"start", "run", "latch", "retest", "latched", "notify", "join", "stopped"}
    /\ latch \in 0..MaxTasks
    /\ submitted \in 0..MaxTasks
    /\ done \in [1..MaxTasks -> Nat]

Init ==
    /\ numThreads \in 0..Cardinality(Workers)
    /\ running = TRUE
    /\ queue = <<>>
    /\ mutex = Nobody
    /\ waiting = {}
    /\ pc = [w \in Workers |-> "none"]
    /\ task = [w \in Workers |-> 0]
    /\ main = "start"
    /\ latch = MaxTasks
    /\ submitted = 0
    /\ done = [t \in 1..MaxTasks |-> 0]

-----------------------------------------------------------------------------
(* The thread that owns the pool.                                          *)

\* ThreadPool::start, Thread::start.
StartThread(w) ==
    /\ main = "start"
    /\ Cardinality(Threads) < numThreads
    /\ pc[w] = "none"
    /\ pc' = [pc EXCEPT ![w] = "loop"]
    /\ UNCHANGED <<numThreads, poolVars, task, mainVars>>

StartReturns ==
    /\ main = "start"
    /\ Cardinality(Threads) = numThreads
    /\ main' = "run"
    /\ UNCHANGED <<numThreads, poolVars, workerVars, latch, submitted, done>>

\* CountDownLatch::countDown by a task: at zero, who waits is notified.
CountDown(m) ==
    /\ latch' = latch - 1
    /\ main' = IF m = "latch" /\ latch = 1 THEN "retest" ELSE m

\* Condition::notify.
Notify ==
    \/ waiting = {} /\ UNCHANGED waiting
    \/ \E w \in waiting : waiting' = waiting \ {w}

\* Mutant: nobody is notified.
RunSilently ==
    /\ main = "run" /\ submitted < MaxTasks
    /\ Threads # {} /\ mutex = Nobody
    /\ submitted' = submitted + 1
    /\ queue' = Append(queue, submitted + 1)
    /\ UNCHANGED <<numThreads, running, mutex, waiting, workerVars, main, latch, done>>

\* ThreadPool::run: without threads the task is executed at once.
Run ==
    /\ main = "run" /\ submitted < MaxTasks
    /\ submitted' = submitted + 1
    /\ IF Threads = {}
       THEN /\ done' = [done EXCEPT ![submitted + 1] = @ + 1]
            /\ CountDown("run")
            /\ UNCHANGED poolVars
       ELSE /\ mutex = Nobody
            /\ queue' = Append(queue, submitted + 1)
            /\ Notify
            /\ UNCHANGED <<running, mutex, main, latch, done>>
    /\ UNCHANGED <<numThreads, workerVars>>

\* CountDownLatch::wait.
LatchWait ==
    /\ \/ main = "run" /\ submitted = MaxTasks
       \/ main = "retest"
    /\ main' = IF latch > 0 THEN "latch" ELSE "latched"
    /\ UNCHANGED <<numThreads, poolVars, workerVars, latch, submitted, done>>

\* ThreadPool::stop: running_, notifyAll, and join of every thread.
Stop ==
    /\ main \in {"run", "latched"}
    /\ running' = FALSE
    /\ main' = "notify"
    /\ UNCHANGED <<numThreads, queue, mutex, waiting, workerVars, latch, submitted, done>>

\* Mutant: notify instead of notifyAll.
StopNotifyOne ==
    /\ main = "notify"
    /\ Notify
    /\ main' = "join"
    /\ UNCHANGED <<numThreads, running, queue, mutex, workerVars, latch, submitted, done>>

StopNotify ==
    /\ main = "notify"
    /\ StopRace \/ \A w \in Workers : pc[w] # "wait"
    /\ waiting' = {}
    /\ main' = "join"
    /\ UNCHANGED <<numThreads, running, queue, mutex, workerVars, latch, submitted, done>>

Join ==
    /\ main = "join"
    /\ \A w \in Threads : pc[w] = "ended"
    /\ main' = "stopped"
    /\ UNCHANGED <<numThreads, poolVars, workerVars, latch, submitted, done>>

-----------------------------------------------------------------------------
(* ThreadPool::runInThread and take.                                       *)

Loop(w) ==
    /\ pc[w] = "loop"
    /\ pc' = [pc EXCEPT ![w] = IF running THEN "take" ELSE "ended"]
    /\ UNCHANGED <<numThreads, poolVars, task, mainVars>>

\* MutexLock::lock, on entry and when wait() returns.
Lock(w) ==
    /\ pc[w] = "take" \/ (pc[w] = "waiting" /\ w \notin waiting)
    /\ mutex = Nobody
    /\ mutex' = w
    /\ pc' = [pc EXCEPT ![w] = "test"]
    /\ UNCHANGED <<numThreads, running, queue, waiting, task, mainVars>>

\* Mutant: the task is not removed.
PopFrontKept(s) == IF Len(s) = 1 THEN <<>> ELSE s

PopFront(s) == Tail(s)

\* The body of take() after wait() or on entry: pop_front, or go to sleep.
Test(w) ==
    /\ pc[w] = "test"
    /\ IF queue = <<>> /\ running
       THEN pc' = [pc EXCEPT ![w] = "wait"] /\ UNCHANGED <<mutex, queue, task>>
       ELSE /\ mutex' = Nobody
            /\ IF queue = <<>>
               THEN pc' = [pc EXCEPT ![w] = "loop"] /\ UNCHANGED <<queue, task>>
               ELSE /\ pc' = [pc EXCEPT ![w] = "task"]
                    /\ task' = [task EXCEPT ![w] = Head(queue)]
                    /\ queue' = PopFront(queue)
    /\ UNCHANGED <<numThreads, running, waiting, mainVars>>

\* Condition::wait releases mutex_.
Wait(w) ==
    /\ pc[w] = "wait"
    /\ waiting' = waiting \cup {w}
    /\ mutex' = Nobody
    /\ pc' = [pc EXCEPT ![w] = "waiting"]
    /\ UNCHANGED <<numThreads, running, queue, task, mainVars>>

ExecuteTask(w) ==
    /\ pc[w] = "task"
    /\ done' = [done EXCEPT ![task[w]] = @ + 1]
    /\ CountDown(main)
    /\ pc' = [pc EXCEPT ![w] = "loop"]
    /\ task' = [task EXCEPT ![w] = 0]
    /\ UNCHANGED <<numThreads, poolVars, submitted>>

\* pthread_cond_wait may return without reason.
SpuriousWakeup(w) ==
    /\ w \in waiting
    /\ waiting' = waiting \ {w}
    /\ UNCHANGED <<numThreads, running, queue, mutex, workerVars, mainVars>>

SpuriousLatch ==
    /\ main = "latch"
    /\ main' = "retest"
    /\ UNCHANGED <<numThreads, poolVars, workerVars, latch, submitted, done>>

Worker(w) == Loop(w) \/ Lock(w) \/ Test(w) \/ Wait(w) \/ ExecuteTask(w)

Main == StartReturns \/ Run \/ LatchWait \/ Stop \/ StopNotify \/ Join

Next ==
    \/ Main
    \/ \E w \in Workers : StartThread(w) \/ Worker(w) \/ SpuriousWakeup(w)
    \/ SpuriousLatch

Spec == Init /\ [][Next]_vars

\* The threads run.
FairSpec ==
    /\ Spec
    /\ WF_vars(StopNotify) /\ WF_vars(Join) /\ WF_vars(LatchWait)
    /\ \A w \in Workers : WF_vars(Worker(w))

-----------------------------------------------------------------------------
(* Properties.                                                             *)

\* No wakeup is lost: as many workers are awake as tasks are in queue_, or all.
\* One notify() per task is enough because take() waits only when queue_ is empty.
OneAwakePerTask ==
    /\ TypeOK
    /\ waiting = {} \/ Len(queue) <= Cardinality({w \in Threads \ waiting : pc[w] # "ended"})

\* A task given to the pool is in queue_, or one worker has it, or it was executed,
\* once; and when CountDownLatch::wait has returned, the tasks that count down are
\* done, spurious wakeups or not.
EachTaskOnce ==
    /\ \A t \in 1..submitted :
        1 = done[t] + Cardinality({i \in DOMAIN queue : queue[i] = t})
                    + Cardinality({w \in Workers : task[w] = t})
    /\ main = "latched" => \A t \in 1..MaxTasks : done[t] > 0

\* A task is executed in the end, unless stop() comes first; stop() joins its
\* threads and returns.
PoolMakesProgress ==
    /\ \A t \in 1..MaxTasks : submitted >= t ~> (done[t] > 0 \/ ~running)
    /\ main = "notify" ~> main = "stopped"
=============================================================================
