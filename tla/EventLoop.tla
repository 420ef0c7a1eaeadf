----------------------------- MODULE EventLoop -----------------------------
(***************************************************************************)
(* One EventLoop (src/net/EventLoop.cpp): the loop thread that polls,      *)
(* dispatches events and executes the functors other threads hand to it,   *)
(* and the threads that call queueInLoop, runInLoop and quit on it.        *)
(*                                                                         *)
(* A call of queueInLoop or quit by a thread is two steps, because the     *)
(* code is: the shared state is changed first (under mutex_ for the        *)
(* functors), the eventfd is written afterwards, and the loop thread may   *)
(* do anything in between.                                                 *)
(*                                                                         *)
(* Data: a functor is its position in the order of submission.  The        *)
(* eventfd's counter is abstracted to whether it is readable, which is all *)
(* that a level-triggered epoll and a read that resets it tell apart.      *)
(***************************************************************************)
EXTENDS Naturals, Sequences, FiniteSets

CONSTANTS LoopThread,   \* the thread that created the EventLoop (threadId_)
          Callers,      \* the other threads that hold a pointer to it
          IoChannels,   \* the channels registered besides wakeupChannel_
          WakeupChannel,
          EarlyQueue,   \* does LoopThread call queueInLoop outside of loop()?
          MaxFunctors   \* bound: functors submitted in a behaviour

Threads == Callers \cup {LoopThread}

Channels == IoChannels \cup {WakeupChannel}

ASSUME ThreadsAssumption == LoopThread \notin Callers

ASSUME ChannelsAssumption == WakeupChannel \notin IoChannels

ASSUME EarlyQueueAssumption == EarlyQueue \in BOOLEAN

ASSUME MaxFunctorsAssumption == MaxFunctors \in Nat

VARIABLES
    pc,         \* where LoopThread is, see LoopPcs
    looping,    \* looping_
    quit,       \* quit_
    calling,    \* callingPendingFunctors_
    pending,    \* pendingFunctors_, guarded by mutex_
    functors,   \* local of doPendingFunctors: what is still to be called
    wakeupFd,   \* is the eventfd readable (its counter positive)?
    active,     \* activeChannels_ that handleEvent was not called for yet
    call,       \* the call each thread is in the middle of
    submitted,  \* functors pushed so far; names the next one
    ran         \* functors called so far, in order

vars == <<pc, looping, quit, calling, pending, functors, wakeupFd, active,
          call, submitted, ran>>

\* "idle"        LoopThread runs user code outside of loop()
\* "test"        at while (!quit_)
\* "poll"        inside epoll_wait
\* "dispatch"    in the loop over activeChannels_
\* "inCallback"  in a user callback called by Channel::handleEvent
\* "run"         in the loop over the local functors
\* "inFunctor"   in a functor
LoopPcs == {"idle", "test", "poll", "dispatch", "inCallback", "run", "inFunctor"}

\* "pushed": the functor is in pendingFunctors_, the wakeup is still to be
\* decided.  "quitting": quit_ is set, the eventfd is still to be written.
Calls == {"none", "pushed", "quitting"}

Functors == 1..MaxFunctors

TypeOK ==
    /\ pc \in LoopPcs
    /\ looping \in BOOLEAN
    /\ quit \in BOOLEAN
    /\ calling \in BOOLEAN
    /\ pending \in Seq(Functors)
    /\ functors \in Seq(Functors)
    /\ wakeupFd \in BOOLEAN
    /\ active \subseteq Channels
    /\ call \in [Threads -> Calls]
    /\ submitted \in 0..MaxFunctors
    /\ ran \in Seq(Functors)

Init ==
    /\ pc = "idle"
    /\ looping = FALSE
    /\ quit = FALSE
    /\ calling = FALSE
    /\ pending = <<>>
    /\ functors = <<>>
    /\ wakeupFd = FALSE
    /\ active = {}
    /\ call = [t \in Threads |-> "none"]
    /\ submitted = 0
    /\ ran = <<>>

-----------------------------------------------------------------------------
(* Calls any thread may make.                                              *)

isInLoopThread(t) == t = LoopThread

\* Where a thread executes code of the user, which may call into the loop:
\* anywhere for a thread of its own, between two steps of the loop for
\* LoopThread.
InUserCode(t) ==
    /\ call[t] = "none"
    /\ isInLoopThread(t) => pc \in {"idle", "inCallback", "inFunctor"}

\* queueInLoop up to the end of the critical section.  runInLoop of another
\* thread is the same call; on LoopThread it runs cb inside its caller, where
\* InUserCode holds already.
QueueInLoop(t) ==
    /\ InUserCode(t)
    /\ isInLoopThread(t) /\ pc = "idle" => EarlyQueue
    /\ submitted < MaxFunctors
    /\ submitted' = submitted + 1
    /\ pending' = Append(pending, submitted + 1)
    /\ call' = [call EXCEPT ![t] = "pushed"]
    /\ UNCHANGED <<pc, looping, quit, calling, functors, wakeupFd, active, ran>>

\* Mutant of NeedsWakeup: the second operand of || is forgotten.
NeedsWakeupOtherThreadOnly(t) == ~isInLoopThread(t)

\* The condition at the end of queueInLoop.
NeedsWakeup(t) == ~isInLoopThread(t) \/ calling

QueueInLoopReturn(t) ==
    /\ call[t] = "pushed"
    /\ wakeupFd' = (wakeupFd \/ NeedsWakeup(t))
    /\ call' = [call EXCEPT ![t] = "none"]
    /\ UNCHANGED <<pc, looping, quit, calling, pending, functors, active,
                   submitted, ran>>

Quit(t) ==
    /\ InUserCode(t)
    /\ quit' = TRUE
    /\ call' = [call EXCEPT ![t] = "quitting"]
    /\ UNCHANGED <<pc, looping, calling, pending, functors, wakeupFd, active,
                   submitted, ran>>

\* Mutant of QuitReturn: quit() leaves the loop asleep.
QuitReturnSilently(t) ==
    /\ call[t] = "quitting"
    /\ call' = [call EXCEPT ![t] = "none"]
    /\ UNCHANGED <<pc, looping, quit, calling, pending, functors, wakeupFd,
                   active, submitted, ran>>

QuitReturn(t) ==
    /\ call[t] = "quitting"
    /\ wakeupFd' = (wakeupFd \/ ~isInLoopThread(t))
    /\ call' = [call EXCEPT ![t] = "none"]
    /\ UNCHANGED <<pc, looping, quit, calling, pending, functors, active,
                   submitted, ran>>

-----------------------------------------------------------------------------
(* The loop.                                                               *)

\* Entry of loop(): assert(!looping_) holds because only LoopThread enters.
\* quit_ is cleared, so a quit() that came earlier is forgotten.
Loop ==
    /\ pc = "idle" /\ call[LoopThread] = "none"
    /\ pc' = "test"
    /\ looping' = TRUE
    /\ quit' = FALSE
    /\ UNCHANGED <<calling, pending, functors, wakeupFd, active, call,
                   submitted, ran>>

TestQuit ==
    /\ pc = "test"
    /\ pc' = IF quit THEN "idle" ELSE "poll"
    /\ looping' = ~quit
    /\ UNCHANGED <<quit, calling, pending, functors, wakeupFd, active, call,
                   submitted, ran>>

\* epoll_wait returns some of the ready channels (as many as fit the event
\* list).  wakeupChannel_ is ready when the eventfd is readable; when another
\* channel is ready is up to the environment.
Poll ==
    /\ pc = "poll"
    /\ \E ready \in SUBSET IoChannels :
         \E returned \in SUBSET (ready \cup {c \in {WakeupChannel} : wakeupFd}) :
            /\ returned # {}
            /\ active' = returned
    /\ pc' = "dispatch"
    /\ UNCHANGED <<looping, quit, calling, pending, functors, wakeupFd, call,
                   submitted, ran>>

\* kPollTimeMs passed without an event.
PollTimeout ==
    /\ pc = "poll"
    /\ ~wakeupFd
    /\ active' = {}
    /\ pc' = "dispatch"
    /\ UNCHANGED <<looping, quit, calling, pending, functors, wakeupFd, call,
                   submitted, ran>>

\* EventLoop::handleRead, the read callback of wakeupChannel_.
HandleRead ==
    /\ pc = "dispatch"
    /\ WakeupChannel \in active
    /\ active' = active \ {WakeupChannel}
    /\ wakeupFd' = FALSE
    /\ UNCHANGED <<pc, looping, quit, calling, pending, functors, call,
                   submitted, ran>>

HandleEvent(c) ==
    /\ pc = "dispatch"
    /\ c \in active
    /\ active' = active \ {c}
    /\ pc' = "inCallback"
    /\ UNCHANGED <<looping, quit, calling, pending, functors, wakeupFd, call,
                   submitted, ran>>

HandleEventReturn ==
    /\ pc = "inCallback" /\ call[LoopThread] = "none"
    /\ pc' = "dispatch"
    /\ UNCHANGED <<looping, quit, calling, pending, functors, wakeupFd, active,
                   call, submitted, ran>>

\* Mutant of DoPendingFunctors: a copy of the vector instead of the swap.
DoPendingFunctorsCopy ==
    /\ pc = "dispatch"
    /\ active = {}
    /\ calling' = TRUE
    /\ functors' = pending
    /\ pc' = "run"
    /\ UNCHANGED <<looping, quit, pending, wakeupFd, active, call, submitted,
                   ran>>

\* doPendingFunctors up to the end of the critical section.
DoPendingFunctors ==
    /\ pc = "dispatch"
    /\ active = {}
    /\ calling' = TRUE
    /\ functors' = pending
    /\ pending' = <<>>
    /\ pc' = "run"
    /\ UNCHANGED <<looping, quit, wakeupFd, active, call, submitted, ran>>

CallFunctor ==
    /\ pc = "run"
    /\ functors # <<>>
    /\ ran' = Append(ran, Head(functors))
    /\ functors' = Tail(functors)
    /\ pc' = "inFunctor"
    /\ UNCHANGED <<looping, quit, calling, pending, wakeupFd, active, call,
                   submitted>>

FunctorReturn ==
    /\ pc = "inFunctor" /\ call[LoopThread] = "none"
    /\ pc' = "run"
    /\ UNCHANGED <<looping, quit, calling, pending, functors, wakeupFd, active,
                   call, submitted, ran>>

\* Mutant of DoPendingFunctorsReturn: callingPendingFunctors_ stays set.
DoPendingFunctorsReturnNoReset ==
    /\ pc = "run"
    /\ functors = <<>>
    /\ pc' = "test"
    /\ UNCHANGED <<looping, quit, calling, pending, functors, wakeupFd, active,
                   call, submitted, ran>>

\* Mutant of DoPendingFunctorsReturn: the eventfd is drained after the
\* functors ran instead of before the swap.
DoPendingFunctorsReturnDrain ==
    /\ pc = "run"
    /\ functors = <<>>
    /\ calling' = FALSE
    /\ wakeupFd' = FALSE
    /\ pc' = "test"
    /\ UNCHANGED <<looping, quit, pending, functors, active, call, submitted,
                   ran>>

DoPendingFunctorsReturn ==
    /\ pc = "run"
    /\ functors = <<>>
    /\ calling' = FALSE
    /\ pc' = "test"
    /\ UNCHANGED <<looping, quit, pending, functors, wakeupFd, active, call,
                   submitted, ran>>

-----------------------------------------------------------------------------
CallStep(t) == QueueInLoop(t) \/ QueueInLoopReturn(t) \/ Quit(t) \/ QuitReturn(t)

LoopStep ==
    \/ Loop \/ TestQuit \/ Poll \/ PollTimeout
    \/ HandleRead \/ (\E c \in IoChannels : HandleEvent(c)) \/ HandleEventReturn
    \/ DoPendingFunctors \/ CallFunctor \/ FunctorReturn
    \/ DoPendingFunctorsReturn

Next == (\E t \in Threads : CallStep(t)) \/ LoopStep

Spec == Init /\ [][Next]_vars

\* A thread that began a call goes on with it, and the loop thread does not
\* stop between two statements; a user callback returns, however many calls
\* it makes before (hence strong fairness).  epoll_wait returns when wakeupFd
\* is readable.  Nothing obliges the user to call loop(), quit() or
\* queueInLoop(), a channel to become ready, or the poll to time out.
Progress ==
    /\ \A t \in Threads : WF_vars(QueueInLoopReturn(t) \/ QuitReturn(t))
    /\ WF_vars(TestQuit)
    /\ WF_vars(wakeupFd /\ Poll)
    /\ WF_vars(HandleRead \/ (\E c \in IoChannels : HandleEvent(c)))
    /\ SF_vars(HandleEventReturn)
    /\ WF_vars(DoPendingFunctors \/ DoPendingFunctorsReturn)
    /\ WF_vars(CallFunctor)
    /\ SF_vars(FunctorReturn)

FairSpec == Spec /\ Progress

-----------------------------------------------------------------------------
(* Properties.                                                             *)

\* The flags the code keeps say where the loop thread is: looping_ is set
\* exactly inside loop(), callingPendingFunctors_ exactly inside
\* doPendingFunctors, and nothing of one phase is left over in another.
FlagsAgree ==
    /\ looping <=> pc # "idle"
    /\ calling <=> pc \in {"run", "inFunctor"}
    /\ functors # <<>> => calling
    /\ active # {} => pc \in {"dispatch", "inCallback"}
    /\ call[LoopThread] # "none" => pc \in {"idle", "inCallback", "inFunctor"}

\* Another thread is about to write the eventfd.
WakeupUnderWay == wakeupFd \/ \E t \in Callers : call[t] # "none"

\* From the swap in doPendingFunctors until epoll_wait returns the next time,
\* a functor in pendingFunctors_ has its wakeup: the eventfd is readable, or
\* whoever pushed the functor is about to write it.  (While channels are
\* dispatched handleRead may have consumed the wakeup: the swap is still to
\* come, so nothing is lost.)
PendingCovered ==
    pending # <<>> =>
        \/ pc \in {"dispatch", "inCallback"}
        \/ WakeupUnderWay
        \/ call[LoopThread] = "pushed"

\* Outside of loop() LoopThread does not queue anything silently.
QueuesInsideLoop == call[LoopThread] = "pushed" => pc # "idle"

QuitCovered == quit /\ pc = "poll" => WakeupUnderWay

\* The inductive invariant: what makes PromptWakeup hold, see EventLoopProofs.
Inv == TypeOK /\ FlagsAgree /\ PendingCovered /\ QueuesInsideLoop /\ QuitCovered

\* No lost wakeup: whenever the loop thread sleeps in epoll_wait although a
\* functor waits or quit() was called, the eventfd is readable or a thread is
\* about to write it, so the loop need not sleep until kPollTimeMs
\* (the condition in queueInLoop, the order handleRead / doPendingFunctors).
PromptWakeup == pc = "poll" /\ (pending # <<>> \/ quit) => WakeupUnderWay

\* Functors are executed once each, in the order of the pushes: the vector
\* swapped out by doPendingFunctors followed by pendingFunctors_ is the queue
\* of the abstract specification.
Tasks == INSTANCE TaskQueue WITH queue <- functors \o pending, executed <- ran

ImplementsTaskQueue == Tasks!Spec

\* A functor handed to a running loop is executed, unless the loop is quit
\* before it gets to it (queueInLoop, wakeup, doPendingFunctors).
FunctorsRun ==
    \A f \in Functors :
        (looping /\ f <= submitted) ~> (~looping \/ \E i \in DOMAIN ran : ran[i] = f)

\* quit() ends a running loop, from whichever thread it is called and whether
\* or not the loop is asleep.
QuitStops == (looping /\ quit) ~> ~looping

=============================================================================
