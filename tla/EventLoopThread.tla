-------------------------- MODULE EventLoopThread --------------------------
(***************************************************************************)
(* EventLoopThread (src/net/EventLoopThread.cpp): an object, constructed   *)
(* and destroyed by Owner, whose thread creates an EventLoop on its stack, *)
(* publishes a pointer to it and runs it.  Composed with EventLoop, whose  *)
(* LoopThread is the new thread and whose Callers include Owner.           *)
(*                                                                         *)
(* thread_ is declared before mutex_ and cond_ (EventLoopThread.h:27-29),  *)
(* so the new thread runs while the constructor has still to initialise    *)
(* the mutex: initialising it frees it, whoever holds it.                  *)
(***************************************************************************)
EXTENDS EventLoop

CONSTANTS Owner,       \* the thread that has the EventLoopThread object
          CtorFirst,   \* TRUE: schedules where the new thread reaches the
                       \* lock only after the constructor has returned
          UserQuits    \* does user code call quit() on the loop itself?

ASSUME OwnerAssumption == Owner \in Callers

ASSUME ScheduleAssumption == CtorFirst \in BOOLEAN /\ UserQuits \in BOOLEAN

VARIABLES
    owner,    \* where Owner is, see OwnerPcs
    thread,   \* where threadFunc is, see ThreadPcs
    mutex,    \* who holds mutex_
    loop_     \* loop_: NULL or the address of the loop

threadVars == <<owner, thread, mutex, loop_>>

allVars == <<vars, threadVars>>

OwnerPcs == {"ctor", "constructed", "check", "toWait", "asleep", "woken",
             "using", "dtor", "joining", "joined"}

ThreadPcs == {"created", "publish", "notify", "ready", "looping", "ended"}

ThreadTypeOK ==
    /\ TypeOK
    /\ owner \in OwnerPcs
    /\ thread \in ThreadPcs
    /\ mutex \in {"free", "owner", "thread"}
    /\ loop_ \in {"null", "loop"}

\* thread_ has been started by the constructor's initialiser list.
ThreadInit ==
    /\ Init
    /\ owner = "ctor"
    /\ thread = "created"
    /\ mutex = "free"
    /\ loop_ = "null"

-----------------------------------------------------------------------------
(* threadFunc.                                                             *)

ThreadLock ==
    /\ thread = "created"
    /\ CtorFirst => owner # "ctor"
    /\ mutex = "free"
    /\ mutex' = "thread"
    /\ thread' = "publish"
    /\ UNCHANGED <<vars, owner, loop_>>

ThreadPublish ==
    /\ thread = "publish"
    /\ loop_' = "loop"
    /\ thread' = "notify"
    /\ UNCHANGED <<vars, owner, mutex>>

\* Mutant of ThreadNotify: the waiter is not notified.
ThreadUnlockOnly ==
    /\ thread = "notify"
    /\ mutex' = "free"
    /\ thread' = "ready"
    /\ UNCHANGED <<vars, owner, loop_>>

\* notify_all, and the end of the critical section.
ThreadNotify ==
    /\ thread = "notify"
    /\ owner' = IF owner = "asleep" THEN "woken" ELSE owner
    /\ mutex' = "free"
    /\ thread' = "ready"
    /\ UNCHANGED <<vars, loop_>>

ThreadLoop ==
    /\ thread = "ready"
    /\ Loop
    /\ thread' = "looping"
    /\ UNCHANGED <<owner, mutex, loop_>>

\* loop() has returned: ~EventLoop closes the eventfd and the thread ends.
\* loop_ keeps the address of the dead object.
ThreadEnd ==
    /\ thread = "looping" /\ pc = "idle"
    /\ thread' = "ended"
    /\ UNCHANGED <<vars, owner, mutex, loop_>>

-----------------------------------------------------------------------------
(* Owner: constructor, startLoop, destructor.                              *)

\* The initialisers of mutex_ and cond_, after that of thread_.
CtorReturn ==
    /\ owner = "ctor"
    /\ mutex' = "free"
    /\ owner' = "constructed"
    /\ UNCHANGED <<vars, thread, loop_>>

StartLoopLock ==
    /\ owner \in {"constructed", "woken"}
    /\ mutex = "free"
    /\ mutex' = "owner"
    /\ owner' = "check"
    /\ UNCHANGED <<vars, thread, loop_>>

\* Mutant of StartLoopCheck: loop_ is not tested again after a wakeup.
StartLoopNoRecheck ==
    /\ owner = "check"
    /\ \/ loop_ = "null" /\ owner' = "toWait" /\ UNCHANGED mutex
       \/ owner' = "using" /\ mutex' = "free"
    /\ UNCHANGED <<vars, thread, loop_>>

\* while (loop_ == NULL): go to wait, or unlock and return loop_.
StartLoopCheck ==
    /\ owner = "check"
    /\ IF loop_ = "null"
       THEN owner' = "toWait" /\ UNCHANGED mutex
       ELSE owner' = "using" /\ mutex' = "free"
    /\ UNCHANGED <<vars, thread, loop_>>

StartLoopWait ==
    /\ owner = "toWait"
    /\ mutex' = "free"
    /\ owner' = "asleep"
    /\ UNCHANGED <<vars, thread, loop_>>

\* A condition variable may wake up by itself.
SpuriousWakeup ==
    /\ owner = "asleep"
    /\ owner' = "woken"
    /\ UNCHANGED <<vars, thread, mutex, loop_>>

\* ~EventLoopThread: loop_->quit(), in the two steps of Quit.
DtorQuit ==
    /\ owner = "using"
    /\ Quit(Owner)
    /\ owner' = "dtor"
    /\ UNCHANGED <<thread, mutex, loop_>>

DtorQuitReturn ==
    /\ owner = "dtor"
    /\ QuitReturn(Owner)
    /\ owner' = "joining"
    /\ UNCHANGED <<thread, mutex, loop_>>

Join ==
    /\ owner = "joining"
    /\ thread = "ended"
    /\ owner' = "joined"
    /\ UNCHANGED <<vars, thread, mutex, loop_>>

-----------------------------------------------------------------------------
\* The loop's users: threads that got the pointer from startLoop, until the
\* loop or the EventLoopThread ends, and the callbacks on the loop thread.
MayCall(t) ==
    IF t = LoopThread THEN thread = "looping"
                      ELSE owner = "using" /\ thread # "ended"

UserCall(t) ==
    /\ \/ MayCall(t) /\ QueueInLoop(t)
       \/ MayCall(t) /\ UserQuits /\ Quit(t)
       \/ QueueInLoopReturn(t)
       \/ (t = Owner => owner # "dtor") /\ QuitReturn(t)
    /\ UNCHANGED threadVars

LoopBody ==
    /\ \/ TestQuit \/ Poll \/ PollTimeout
       \/ HandleRead \/ (\E c \in IoChannels : HandleEvent(c)) \/ HandleEventReturn
       \/ DoPendingFunctors \/ CallFunctor \/ FunctorReturn
       \/ DoPendingFunctorsReturn
    /\ UNCHANGED threadVars

\* The object is gone: nothing is left to do.
Done == owner = "joined" /\ UNCHANGED allVars

ThreadNext ==
    \/ ThreadLock \/ ThreadPublish \/ ThreadNotify \/ ThreadLoop \/ ThreadEnd
    \/ CtorReturn \/ StartLoopLock \/ StartLoopCheck \/ StartLoopWait
    \/ SpuriousWakeup \/ DtorQuit \/ DtorQuitReturn \/ Join
    \/ (\E t \in Threads : UserCall(t))
    \/ LoopBody
    \/ Done

ThreadSpec == ThreadInit /\ [][ThreadNext]_allVars

\* Both threads go on when they can.  The owner may use the loop for ever, a
\* spurious wakeup may never come, and a mutex is granted when it is free
\* often enough.
ThreadFairSpec ==
    /\ ThreadSpec
    /\ Progress
    /\ SF_allVars(ThreadLock) /\ SF_allVars(StartLoopLock)
    /\ WF_allVars(ThreadPublish) /\ WF_allVars(ThreadNotify)
    /\ WF_allVars(ThreadLoop) /\ WF_allVars(ThreadEnd)
    /\ WF_allVars(CtorReturn) /\ WF_allVars(StartLoopCheck)
    /\ WF_allVars(StartLoopWait) /\ WF_allVars(DtorQuitReturn)
    /\ WF_allVars(Join)

-----------------------------------------------------------------------------
(* Properties.                                                             *)

\* startLoop returns a pointer only to an EventLoop that exists: it has been
\* constructed and published by the new thread (EventLoopThread.cpp:26).  And where
\* the constructor has initialised mutex_ in time, startLoop is not asleep after the
\* only notification: no order of lock, test, wait and notify loses it.
StartLoopResult ==
    /\ ThreadTypeOK
    /\ owner \in {"using", "dtor", "joining"} =>
         loop_ = "loop" /\ thread \notin {"created", "publish"}
    /\ CtorFirst /\ owner = "asleep" => thread \in {"created", "publish", "notify"}

\* startLoop returns (mutex_, cond_, the while loop and notify_all).
StartLoopReturns == owner = "constructed" ~> owner = "using"

\* The destructor returns, once its quit() reaches a loop that is running.
RunningLoopIsJoined == (owner = "joining" /\ looping /\ quit) ~> owner = "joined"

\* The destructor returns: quit() ends the EventLoop's work (EventLoop.h:32).
DtorReturns == owner = "joining" ~> owner = "joined"

=============================================================================
