----------------------------- MODULE TaskQueue -----------------------------
(***************************************************************************)
(* What EventLoop promises to a caller of queueInLoop (EventLoop.h:41-42): *)
(* the callbacks handed to the loop are executed one at a time, each of    *)
(* them once, in the order in which they were handed over.  Nothing is     *)
(* said here about threads, the mutex, the eventfd or the swap: those are  *)
(* the business of EventLoop, which is shown to implement this module.     *)
(***************************************************************************)
EXTENDS Naturals, Sequences

VARIABLES submitted,  \* how many functors were handed over so far
          queue,      \* functors that wait, oldest first
          executed    \* functors that ran, oldest first

vars == <<submitted, queue, executed>>

Init == submitted = 0 /\ queue = <<>> /\ executed = <<>>

\* A functor is named by its position in the order of submission.
Submit == /\ submitted' = submitted + 1
          /\ queue' = Append(queue, submitted + 1)
          /\ UNCHANGED executed

Execute == /\ queue # <<>>
           /\ executed' = Append(executed, Head(queue))
           /\ queue' = Tail(queue)
           /\ UNCHANGED submitted

Next == Submit \/ Execute

Spec == Init /\ [][Next]_vars
=============================================================================
