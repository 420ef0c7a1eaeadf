-------------------------- MODULE EventLoopProofs --------------------------
(* Proofs about EventLoop, for any number of threads, channels and functors, *)
(* and about EventLoopThread, which runs one.                                *)
EXTENDS EventLoopThread, TLAPS

USE DEF Threads, Channels, Functors, LoopPcs, Calls

\* Every variable keeps its type: in particular a functor that is called was
\* pushed before, and pendingFunctors_ never holds anything else.
LEMMA TypeStep == TypeOK /\ [Next]_vars => TypeOK'
<1> SUFFICES ASSUME TypeOK, [Next]_vars PROVE TypeOK'
  OBVIOUS
<1> USE MaxFunctorsAssumption DEF TypeOK
<1>1. ASSUME NEW t \in Threads, QueueInLoop(t) PROVE TypeOK'
  <2>1. submitted + 1 \in Functors
    BY <1>1 DEF QueueInLoop
  <2>2. pending' \in Seq(Functors)
    BY <1>1, <2>1 DEF QueueInLoop
  <2> QED BY <1>1, <2>1, <2>2 DEF QueueInLoop
<1>2. ASSUME NEW t \in Threads, QueueInLoopReturn(t) PROVE TypeOK'
  BY <1>2 DEF QueueInLoopReturn, NeedsWakeup, isInLoopThread
<1>3. ASSUME NEW t \in Threads, Quit(t) PROVE TypeOK'
  BY <1>3 DEF Quit
<1>4. ASSUME NEW t \in Threads, QuitReturn(t) PROVE TypeOK'
  BY <1>4 DEF QuitReturn, isInLoopThread
<1>5. CASE Loop BY <1>5 DEF Loop
<1>6. CASE TestQuit BY <1>6 DEF TestQuit
<1>7. CASE Poll BY <1>7 DEF Poll
<1>8. CASE PollTimeout BY <1>8 DEF PollTimeout
<1>9. CASE HandleRead BY <1>9 DEF HandleRead
<1>10. ASSUME NEW c \in IoChannels, HandleEvent(c) PROVE TypeOK'
  BY <1>10 DEF HandleEvent
<1>11. CASE HandleEventReturn BY <1>11 DEF HandleEventReturn
<1>12. CASE DoPendingFunctors BY <1>12 DEF DoPendingFunctors
<1>13. CASE CallFunctor
  <2>1. Head(functors) \in Functors /\ Tail(functors) \in Seq(Functors)
    BY <1>13 DEF CallFunctor
  <2>2. ran' \in Seq(Functors)
    BY <1>13, <2>1 DEF CallFunctor
  <2> QED BY <1>13, <2>1, <2>2 DEF CallFunctor
<1>14. CASE FunctorReturn BY <1>14 DEF FunctorReturn
<1>15. CASE DoPendingFunctorsReturn BY <1>15 DEF DoPendingFunctorsReturn
<1>16. CASE UNCHANGED vars BY <1>16 DEF vars
<1> QED
  BY <1>1, <1>2, <1>3, <1>4, <1>5, <1>6, <1>7, <1>8, <1>9, <1>10, <1>11,
     <1>12, <1>13, <1>14, <1>15, <1>16 DEF Next, CallStep, LoopStep

\* A new EventLoop has the right types.
LEMMA TypeInit == Init => TypeOK
<1> SUFFICES ASSUME Init PROVE TypeOK
  OBVIOUS
<1>1. <<>> \in Seq(Functors)
  OBVIOUS
<1>2. pending \in Seq(Functors) /\ functors \in Seq(Functors) /\ ran \in Seq(Functors)
  BY <1>1 DEF Init
<1>3. submitted \in 0..MaxFunctors
  BY MaxFunctorsAssumption DEF Init
<1>4. call \in [Threads -> Calls]
  BY DEF Init
<1> QED BY <1>2, <1>3, <1>4 DEF Init, TypeOK

\* TypeOK holds in every state of every behaviour, whatever LoopThread queues.
THEOREM TypeCorrect == Spec => []TypeOK
BY TypeInit, TypeStep, PTL DEF Spec

-----------------------------------------------------------------------------
(* No lost wakeup.  PromptWakeup alone is not inductive: that a sleeping    *)
(* loop is covered depends on what was covered when it went to sleep, hence *)
(* PendingCovered over all phases after the swap; and that a functor queued *)
(* by a functor is covered depends on callingPendingFunctors_ being right,  *)
(* hence FlagsAgree.                                                        *)

\* A step preserves the correspondence of the flags with the loop's phase.
LEMMA FlagsStep == Inv /\ [Next]_vars => FlagsAgree'
<1> SUFFICES ASSUME Inv, [Next]_vars PROVE FlagsAgree'
  OBVIOUS
<1> USE ThreadsAssumption DEF Inv, TypeOK, FlagsAgree
<1>1. ASSUME NEW t \in Threads, QueueInLoop(t) PROVE FlagsAgree'
  BY <1>1 DEF QueueInLoop, InUserCode, isInLoopThread
<1>2. ASSUME NEW t \in Threads, QueueInLoopReturn(t) PROVE FlagsAgree'
  BY <1>2 DEF QueueInLoopReturn
<1>3. ASSUME NEW t \in Threads, Quit(t) PROVE FlagsAgree'
  BY <1>3 DEF Quit, InUserCode, isInLoopThread
<1>4. ASSUME NEW t \in Threads, QuitReturn(t) PROVE FlagsAgree'
  BY <1>4 DEF QuitReturn
<1>5. CASE Loop BY <1>5 DEF Loop
<1>6. CASE TestQuit BY <1>6 DEF TestQuit
<1>7. CASE Poll BY <1>7 DEF Poll
<1>8. CASE PollTimeout BY <1>8 DEF PollTimeout
<1>9. CASE HandleRead BY <1>9 DEF HandleRead
<1>10. ASSUME NEW c \in IoChannels, HandleEvent(c) PROVE FlagsAgree'
  BY <1>10 DEF HandleEvent
<1>11. CASE HandleEventReturn BY <1>11 DEF HandleEventReturn
<1>12. CASE DoPendingFunctors BY <1>12 DEF DoPendingFunctors
<1>13. CASE CallFunctor BY <1>13 DEF CallFunctor
<1>14. CASE FunctorReturn BY <1>14 DEF FunctorReturn
<1>15. CASE DoPendingFunctorsReturn BY <1>15 DEF DoPendingFunctorsReturn
<1>16. CASE UNCHANGED vars BY <1>16 DEF vars
<1> QED
  BY <1>1, <1>2, <1>3, <1>4, <1>5, <1>6, <1>7, <1>8, <1>9, <1>10, <1>11,
     <1>12, <1>13, <1>14, <1>15, <1>16 DEF Next, CallStep, LoopStep

\* A step of a caller or of the loop leaves no functor and no quit() without
\* a wakeup, provided LoopThread queues functors only inside loop().
LEMMA CoveredStep ==
  ASSUME EarlyQueue = FALSE, Inv, [Next]_vars
  PROVE  PendingCovered' /\ QueuesInsideLoop' /\ QuitCovered'
<1> DEFINE Goal == PendingCovered /\ QueuesInsideLoop /\ QuitCovered
<1> SUFFICES Goal'
  OBVIOUS
<1> USE ThreadsAssumption
    DEF Inv, TypeOK, PendingCovered, QueuesInsideLoop, QuitCovered, WakeupUnderWay
<1>1. ASSUME NEW t \in Threads, QueueInLoop(t) PROVE Goal'
  \* The pusher itself covers the functor.
  <2>1. CASE t = LoopThread
    BY <1>1, <2>1 DEF QueueInLoop, InUserCode, isInLoopThread
  <2>2. CASE t \in Callers
    BY <1>1, <2>2 DEF QueueInLoop, InUserCode, isInLoopThread
  <2> QED BY <2>1, <2>2
<1>2. ASSUME NEW t \in Threads, QueueInLoopReturn(t) PROVE Goal'
  \* The eventfd is written, or LoopThread is in an event callback and the
  \* swap is still to come.
  <2>1. CASE t = LoopThread
    BY <1>2, <2>1 DEF QueueInLoopReturn, NeedsWakeup, isInLoopThread, FlagsAgree
  <2>2. CASE t \in Callers
    BY <1>2, <2>2 DEF QueueInLoopReturn, NeedsWakeup, isInLoopThread
  <2> QED BY <2>1, <2>2
<1>3. ASSUME NEW t \in Threads, Quit(t) PROVE Goal'
  BY <1>3 DEF Quit, InUserCode, isInLoopThread
<1>4. ASSUME NEW t \in Threads, QuitReturn(t) PROVE Goal'
  <2>1. CASE t = LoopThread
    BY <1>4, <2>1 DEF QuitReturn, isInLoopThread
  <2>2. CASE t \in Callers
    BY <1>4, <2>2 DEF QuitReturn, isInLoopThread
  <2> QED BY <2>1, <2>2
<1>5. CASE Loop BY <1>5 DEF Loop
<1>6. CASE TestQuit BY <1>6 DEF TestQuit, FlagsAgree
<1>7. CASE Poll BY <1>7 DEF Poll
<1>8. CASE PollTimeout BY <1>8 DEF PollTimeout
<1>9. CASE HandleRead BY <1>9 DEF HandleRead
<1>10. ASSUME NEW c \in IoChannels, HandleEvent(c) PROVE Goal'
  BY <1>10 DEF HandleEvent
<1>11. CASE HandleEventReturn BY <1>11 DEF HandleEventReturn
<1>12. CASE DoPendingFunctors BY <1>12 DEF DoPendingFunctors
<1>13. CASE CallFunctor BY <1>13 DEF CallFunctor, FlagsAgree
<1>14. CASE FunctorReturn BY <1>14 DEF FunctorReturn
<1>15. CASE DoPendingFunctorsReturn
  BY <1>15 DEF DoPendingFunctorsReturn, FlagsAgree
<1>16. CASE UNCHANGED vars BY <1>16 DEF vars
<1> QED
  BY <1>1, <1>2, <1>3, <1>4, <1>5, <1>6, <1>7, <1>8, <1>9, <1>10, <1>11,
     <1>12, <1>13, <1>14, <1>15, <1>16 DEF Next, CallStep, LoopStep

\* The inductive invariant holds when LoopThread queues only inside loop().
THEOREM Invariance ==
  ASSUME EarlyQueue = FALSE PROVE Spec => []Inv
<1>1. Init => Inv
  BY TypeInit
     DEF Init, Inv, FlagsAgree, PendingCovered, QueuesInsideLoop,
         QuitCovered, WakeupUnderWay
<1>2. Inv /\ [Next]_vars => Inv'
  BY TypeStep, FlagsStep, CoveredStep DEF Inv
<1> QED BY <1>1, <1>2, PTL DEF Spec

\* A loop asleep in epoll_wait with a functor waiting, or with quit() called,
\* has a wakeup under way.
THEOREM NoLostWakeup ==
  ASSUME EarlyQueue = FALSE PROVE Spec => []PromptWakeup
<1>1. Inv => PromptWakeup
  BY DEF Inv, PromptWakeup, PendingCovered, QuitCovered, FlagsAgree
<1> QED BY <1>1, Invariance, PTL

-----------------------------------------------------------------------------
(* EventLoop implements TaskQueue.                                          *)

\* The local vector of doPendingFunctors is empty whenever it is not running.
FunctorsLocal == TypeOK /\ (pc # "run" /\ pc # "inFunctor" => functors = <<>>)

\* Only doPendingFunctors fills that vector, and it returns with it empty.
LEMMA FunctorsLocalStep == FunctorsLocal /\ [Next]_vars => FunctorsLocal'
<1> SUFFICES ASSUME FunctorsLocal, [Next]_vars PROVE FunctorsLocal'
  OBVIOUS
<1>1. TypeOK'
  BY TypeStep DEF FunctorsLocal
<1>2. (pc # "run" /\ pc # "inFunctor" => functors = <<>>)'
  BY DEF FunctorsLocal, TypeOK, Next, CallStep, LoopStep, vars, QueueInLoop,
         QueueInLoopReturn, Quit, QuitReturn, Loop, TestQuit, Poll,
         PollTimeout, HandleRead, HandleEvent, HandleEventReturn,
         DoPendingFunctors, CallFunctor, FunctorReturn, DoPendingFunctorsReturn
<1> QED BY <1>1, <1>2 DEF FunctorsLocal

\* Appending to the second of two vectors appends to their concatenation.
LEMMA ConcatAppend ==
  ASSUME NEW S, NEW s \in Seq(S), NEW u \in Seq(S), NEW e \in S
  PROVE  s \o Append(u, e) = Append(s \o u, e)
OBVIOUS

\* Taking the head of the first of two vectors takes it of the concatenation.
LEMMA ConcatHead ==
  ASSUME NEW S, NEW s \in Seq(S), NEW u \in Seq(S), s # <<>>
  PROVE  /\ s \o u # <<>>
         /\ Head(s \o u) = Head(s)
         /\ Tail(s \o u) = Tail(s) \o u
OBVIOUS

\* Swapping pendingFunctors_ into an empty vector leaves the concatenation alone.
LEMMA ConcatEmpty ==
  ASSUME NEW S, NEW s \in Seq(S)
  PROVE  s \o <<>> = s /\ <<>> \o s = s
OBVIOUS

\* Every step of the loop is a step of the abstract queue or a stutter.
LEMMA StepSimulation == FunctorsLocal /\ [Next]_vars => [Tasks!Next]_Tasks!vars
<1> SUFFICES ASSUME FunctorsLocal, [Next]_vars PROVE [Tasks!Next]_Tasks!vars
  OBVIOUS
<1> USE DEF FunctorsLocal, TypeOK, Tasks!Next, Tasks!vars
<1>1. ASSUME NEW t \in Threads, QueueInLoop(t) PROVE Tasks!Submit
  <2>1. submitted + 1 \in Functors
    BY <1>1, MaxFunctorsAssumption DEF QueueInLoop
  <2>2. (functors \o pending)' = Append(functors \o pending, submitted + 1)
    BY <1>1, <2>1, ConcatAppend DEF QueueInLoop
  <2> QED BY <1>1, <2>2 DEF QueueInLoop, Tasks!Submit
<1>2. CASE DoPendingFunctors
  BY <1>2, ConcatEmpty DEF DoPendingFunctors
<1>3. CASE CallFunctor
  <2>1. /\ functors \o pending # <<>>
        /\ Head(functors \o pending) = Head(functors)
        /\ Tail(functors \o pending) = Tail(functors) \o pending
    BY <1>3, ConcatHead DEF CallFunctor
  <2>2. Tasks!Execute
    BY <1>3, <2>1 DEF CallFunctor, Tasks!Execute
  <2> QED BY <2>2
<1>4. CASE UNCHANGED <<functors, pending, submitted, ran>>
  BY <1>4
<1> QED
  BY <1>1, <1>2, <1>3, <1>4
     DEF Next, CallStep, LoopStep, vars, QueueInLoopReturn, Quit, QuitReturn,
         Loop, TestQuit, Poll, PollTimeout, HandleRead, HandleEvent,
         HandleEventReturn, FunctorReturn, DoPendingFunctorsReturn

\* Functors are executed once each and in the order in which they were pushed,
\* whichever threads push them and however the swaps fall.
THEOREM Refinement == Spec => ImplementsTaskQueue
<1>1. Init => Tasks!Init
  <2>1. Init => functors \o pending = <<>>
    BY ConcatEmpty DEF Init
  <2> QED BY <2>1 DEF Init, Tasks!Init
<1>2. Init => FunctorsLocal
  BY TypeInit DEF Init, FunctorsLocal
<1> QED
  BY <1>1, <1>2, FunctorsLocalStep, StepSimulation, PTL
     DEF Spec, ImplementsTaskQueue, Tasks!Spec

-----------------------------------------------------------------------------
(* EventLoopThread.                                                         *)

\* What the new thread and Owner do to the loop are steps of EventLoop.
LEMMA ThreadStepIsLoopStep == [ThreadNext]_allVars => [Next]_vars
<1> SUFFICES ASSUME [ThreadNext]_allVars PROVE [Next]_vars
  OBVIOUS
<1>1. CASE \/ ThreadLock \/ ThreadPublish \/ ThreadNotify \/ ThreadEnd \/ CtorReturn
           \/ StartLoopLock \/ StartLoopCheck \/ StartLoopWait \/ SpuriousWakeup \/ Join
           \/ Done \/ UNCHANGED allVars
  BY <1>1 DEF ThreadLock, ThreadPublish, ThreadNotify, ThreadEnd, CtorReturn, StartLoopLock,
              StartLoopCheck, StartLoopWait, SpuriousWakeup, Join, Done, allVars
<1>2. CASE ThreadLoop
  BY <1>2 DEF ThreadLoop, Next, LoopStep
<1>3. CASE DtorQuit \/ DtorQuitReturn
  BY <1>3, OwnerAssumption DEF DtorQuit, DtorQuitReturn, Next, CallStep
<1>4. ASSUME NEW t \in Threads, UserCall(t) PROVE Next
  BY <1>4 DEF UserCall, Next, CallStep
<1>5. CASE LoopBody
  BY <1>5 DEF LoopBody, Next, LoopStep
<1> QED BY <1>1, <1>2, <1>3, <1>4, <1>5 DEF ThreadNext

\* The loop that an EventLoopThread runs is an EventLoop: what is proved of Spec,
\* above all Refinement and NoLostWakeup, holds of it.
THEOREM ThreadRunsLoop == ThreadSpec => Spec
<1>1. ThreadInit => Init
  BY DEF ThreadInit
<1> QED BY <1>1, ThreadStepIsLoopStep, PTL DEF ThreadSpec, Spec

\* The loop of an EventLoopThread has no lost wakeup.
THEOREM ThreadPromptWakeup ==
  ASSUME EarlyQueue = FALSE PROVE ThreadSpec => []PromptWakeup
BY ThreadRunsLoop, NoLostWakeup, PTL

\* StartLoopResult, the pointer and the notification, is inductive with: loop_ is set
\* from publish on; each thread is in its critical section only with mutex_, which is
\* so when the constructor does not initialise mutex_ while it is held; and so loop_
\* does not change between Owner's test of it and its wait.
StartLoopInv ==
    /\ ThreadTypeOK
    /\ loop_ = "loop" <=> thread \notin {"created", "publish"}
    /\ owner \in {"using", "dtor", "joining"} => loop_ = "loop"
    /\ CtorFirst =>
         /\ owner = "ctor" => thread = "created"
         /\ owner \in {"check", "toWait"} <=> mutex = "owner"
         /\ thread \in {"publish", "notify"} <=> mutex = "thread"
         /\ owner = "toWait" => loop_ = "null"
         /\ owner = "asleep" => thread \in {"created", "publish", "notify"}

LEMMA StartLoopStep == StartLoopInv /\ [ThreadNext]_allVars => StartLoopInv'
<1> SUFFICES ASSUME StartLoopInv, [ThreadNext]_allVars PROVE StartLoopInv'
  OBVIOUS
<1>1. TypeOK'
  BY TypeStep, ThreadStepIsLoopStep DEF StartLoopInv, ThreadTypeOK
<1> USE DEF StartLoopInv, ThreadTypeOK, OwnerPcs, ThreadPcs
<1>2. CASE ThreadLock BY <1>1, <1>2 DEF ThreadLock
<1>3. CASE ThreadPublish BY <1>1, <1>3 DEF ThreadPublish
<1>4. CASE ThreadNotify BY <1>1, <1>4 DEF ThreadNotify
<1>5. CASE ThreadLoop \/ ThreadEnd BY <1>1, <1>5 DEF ThreadLoop, ThreadEnd
<1>6. CASE CtorReturn BY <1>1, <1>6 DEF CtorReturn
<1>7. CASE StartLoopLock BY <1>1, <1>7 DEF StartLoopLock
<1>8. CASE StartLoopCheck BY <1>1, <1>8 DEF StartLoopCheck
<1>9. CASE StartLoopWait BY <1>1, <1>9 DEF StartLoopWait
<1>10. CASE SpuriousWakeup BY <1>1, <1>10 DEF SpuriousWakeup
<1>11. CASE DtorQuit \/ DtorQuitReturn \/ Join
  BY <1>1, <1>11 DEF DtorQuit, DtorQuitReturn, Join
<1>12. CASE UNCHANGED threadVars BY <1>1, <1>12 DEF threadVars
<1> QED
  BY <1>2, <1>3, <1>4, <1>5, <1>6, <1>7, <1>8, <1>9, <1>10, <1>11, <1>12
     DEF ThreadNext, UserCall, LoopBody, Done, allVars, threadVars

\* startLoop returns a published loop, and does not sleep through the notification.
THEOREM StartLoopCorrect == ThreadSpec => []StartLoopResult
<1>1. ThreadInit => StartLoopInv
  BY TypeInit DEF ThreadInit, StartLoopInv, ThreadTypeOK, OwnerPcs, ThreadPcs
<1>2. StartLoopInv => StartLoopResult
  BY DEF StartLoopInv, StartLoopResult
<1> QED BY <1>1, <1>2, StartLoopStep, PTL DEF ThreadSpec
=============================================================================
