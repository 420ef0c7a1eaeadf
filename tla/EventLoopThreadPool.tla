------------------------ MODULE EventLoopThreadPool ------------------------
(***************************************************************************)
(* EventLoopThreadPool (src/net/EventLoopThreadPool.cpp): how the loops    *)
(* that getNextLoop hands out are chosen.  All its functions assert that   *)
(* they run on the base loop's thread, so its steps do not interleave.     *)
(***************************************************************************)
EXTENDS Integers

CONSTANTS MaxThreads,   \* bound: largest argument of setThreadNum
          MaxHandouts   \* bound: calls of getNextLoop in a behaviour

ASSUME MaxThreadsAssumption == MaxThreads \in Nat

ASSUME MaxHandoutsAssumption == MaxHandouts \in Nat

VARIABLES numThreads,  \* numThreads_
          started,     \* started_
          size,        \* loops_.size(); the loops are 0..size-1
          next,        \* next_
          handed,      \* how often each loop of loops_ was handed out
          handouts     \* calls of getNextLoop so far, those of baseLoop_ included

poolVars == <<numThreads, started, size, next, handed, handouts>>

PoolTypeOK ==
    /\ numThreads \in 0..MaxThreads
    /\ started \in BOOLEAN
    /\ size \in 0..MaxThreads
    /\ next \in Nat
    /\ handed \in [0..(size - 1) -> Nat]
    /\ handouts \in 0..MaxHandouts

PoolInit ==
    /\ numThreads = 0
    /\ started = FALSE
    /\ size = 0
    /\ next = 0
    /\ handed = [i \in 0..(0 - 1) |-> 0]
    /\ handouts = 0

\* setThreadNum is a plain setter: after start it has no effect on loops_.
SetThreadNum(n) ==
    /\ numThreads' = n
    /\ UNCHANGED <<started, size, next, handed, handouts>>

\* start creates numThreads_ threads and waits for each one's loop.
Start ==
    /\ ~started
    /\ started' = TRUE
    /\ size' = numThreads
    /\ handed' = [i \in 0..(numThreads - 1) |-> 0]
    /\ UNCHANGED <<numThreads, next, handouts>>

\* Mutant of GetNextLoop: > instead of >= when next_ is wrapped.
GetNextLoopOffByOne ==
    /\ handouts < MaxHandouts
    /\ handouts' = handouts + 1
    /\ IF size = 0
       THEN UNCHANGED <<next, handed>>
       ELSE /\ handed' = [handed EXCEPT ![IF next < size THEN next ELSE 0] = @ + 1]
            /\ next' = IF next + 1 > size THEN 0 ELSE next + 1
    /\ UNCHANGED <<numThreads, started, size>>

\* The base loop when there is no other, else the loops in turn.
GetNextLoop ==
    /\ handouts < MaxHandouts
    /\ handouts' = handouts + 1
    /\ IF size = 0
       THEN UNCHANGED <<next, handed>>
       ELSE /\ handed' = [handed EXCEPT ![next] = @ + 1]
            /\ next' = IF next + 1 >= size THEN 0 ELSE next + 1
    /\ UNCHANGED <<numThreads, started, size>>

PoolNext == (\E n \in 0..MaxThreads : SetThreadNum(n)) \/ Start \/ GetNextLoop

PoolSpec == PoolInit /\ [][PoolNext]_poolVars

-----------------------------------------------------------------------------
\* next_ is a valid index of loops_, and the loops before it have been handed
\* out exactly once more than those from it on.
RoundRobin ==
    /\ PoolTypeOK
    /\ next < size \/ next = 0
    /\ ~started => size = 0
    /\ \A i \in 0..(size - 1) :
          handed[i] = IF i < next THEN handed[size - 1] + 1 ELSE handed[size - 1]
=============================================================================
