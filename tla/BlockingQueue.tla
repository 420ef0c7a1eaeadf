--------------------------- MODULE BlockingQueue ---------------------------
(***************************************************************************)
(* BlockingQueue and BoundedBlockingQueue.  A critical section is a step:  *)
(* it ends with the mutex released, by wait or by return.  A thread in a   *)
(* waiting set sleeps; a thread that is in a call and in none will try     *)
(* again, as its while loop does.                                          *)
(***************************************************************************)
EXTENDS Naturals, Sequences

VARIABLES
    queue,      \* queue_
    capacity,   \* of the circular_buffer; BlockingQueue has none: Unbounded
    notEmpty,   \* threads waiting in take
    notFull     \* threads waiting in put

Unbounded == 0

queueVars == <<queue, capacity, notEmpty, notFull>>

full == capacity # Unbounded /\ Len(queue) = capacity

\* Condition::notify wakes one of the threads that wait, if any does.
Notify(waiting, waitingAfter) ==
    \/ waiting = {} /\ waitingAfter = {}
    \/ \E t \in waiting : waitingAfter = waiting \ {t}

PutWaits(t) ==
    /\ full /\ t \notin notFull
    /\ notFull' = notFull \cup {t}
    /\ UNCHANGED <<queue, capacity, notEmpty>>

\* Mutant: nobody is notified.
PutSilently(t, x) ==
    /\ ~full /\ t \notin notFull
    /\ queue' = Append(queue, x)
    /\ UNCHANGED <<capacity, notEmpty, notFull>>

Put(t, x) ==
    /\ ~full /\ t \notin notFull
    /\ queue' = Append(queue, x)
    /\ Notify(notEmpty, notEmpty')
    /\ UNCHANGED <<capacity, notFull>>

TakeWaits(t) ==
    /\ queue = <<>> /\ t \notin notEmpty
    /\ notEmpty' = notEmpty \cup {t}
    /\ UNCHANGED <<queue, capacity, notFull>>

\* Removes Head(queue).  BlockingQueue has no notFull_ to notify: nobody waits.
Take(t) ==
    /\ queue # <<>> /\ t \notin notEmpty
    /\ queue' = Tail(queue)
    /\ Notify(notFull, notFull')
    /\ UNCHANGED <<capacity, notEmpty>>

SpuriousWakeup(t) ==
    /\ t \in notEmpty \cup notFull
    /\ notEmpty' = notEmpty \ {t}
    /\ notFull' = notFull \ {t}
    /\ UNCHANGED <<queue, capacity>>
=============================================================================
