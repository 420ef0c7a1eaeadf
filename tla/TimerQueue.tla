----------------------------- MODULE TimerQueue -----------------------------
(***************************************************************************)
(* TimerQueue and Timer (src/net/TimerQueue.cpp, Timer.h): timers that any *)
(* thread adds and cancels, kept in two sets on the loop thread and driven *)
(* by one timerfd.                                                         *)
(*                                                                         *)
(* addTimer and cancel go through EventLoop::runInLoop: on the loop thread *)
(* they act at once, from another thread they are functors in a queue      *)
(* (TaskQueue).  A Timer lives at an address that the allocator reuses;    *)
(* its sequence_ is unique.  Time is a clock of ticks; the 100us minimum   *)
(* of resetTimerfd is one tick.                                            *)
(***************************************************************************)
EXTENDS Naturals, Sequences, FiniteSets

CONSTANTS Callers,     \* threads other than the loop thread
          Addrs,       \* addresses new Timer may return
          Intervals,   \* values of interval; 0.0: the timer does not repeat
          MaxTimers,   \* bound: timers created in a behaviour
          MaxTime,     \* bound: latest expiration asked for
          MaxNow,      \* bound: the clock stops here
          MaxQueue     \* bound: functors queued at a time

ASSUME AddrsAssumption == Addrs \subseteq Nat

ASSUME IntervalsAssumption == Intervals \subseteq Nat

ASSUME BoundsAssumption ==
    {MaxTimers, MaxTime, MaxNow, MaxQueue} \subseteq Nat /\ MaxNow > 0

VARIABLES
    now,              \* Timestamp::now()
    armed,            \* when timerfd_ becomes readable; 0: never
    heap,             \* sequence_ of the Timer at each address; 0: free
    expiration,       \* expiration_ of each Timer, by sequence_
    interval,         \* interval_ of each Timer, by sequence_
    created,          \* s_numCreated_
    timers,           \* timers_: <<expiration, address>>
    activeTimers,     \* activeTimers_: <<address, sequence>>
    cancelingTimers,  \* cancelingTimers_
    expired,          \* handleRead's vector of expired entries
    torun,            \* those of them that have still to be run
    readNow,          \* handleRead's now
    pc,               \* "idle", or in handleRead: "calling", "callback"
    queue,            \* functors queued by Callers
    caller,           \* the addTimer each caller is in the middle of
    ids,              \* TimerIds returned by addTimer
    cancelled         \* sequences cancelled while active or expired

loopVars == <<timers, activeTimers, cancelingTimers, expired, torun, readNow, pc>>

memVars == <<heap, expiration, interval, created>>

vars == <<now, armed, memVars, loopVars, queue, caller, ids, cancelled>>

Sequences_ == 1..MaxTimers

\* callingExpiredTimers_ is true exactly while expired timers are being run.
callingExpiredTimers == pc # "idle"

NoCall == [pc |-> "idle", addr |-> 0, seq |-> 0]

Init ==
    /\ now = 1
    /\ armed = 0
    /\ heap = [a \in Addrs |-> 0]
    /\ expiration = [s \in Sequences_ |-> 0]
    /\ interval = [s \in Sequences_ |-> 0]
    /\ created = 0
    /\ timers = {}
    /\ activeTimers = {}
    /\ cancelingTimers = {}
    /\ expired = {}
    /\ torun = {}
    /\ readNow = 0
    /\ pc = "idle"
    /\ queue = <<>>
    /\ caller = [t \in Callers |-> NoCall]
    /\ ids = {}
    /\ cancelled = {}

-----------------------------------------------------------------------------
(* Helpers.                                                                *)

\* The order of std::set<Entry>: by expiration, then by address.
Before(e, f) == e[1] < f[1] \/ (e[1] = f[1] /\ e[2] <= f[2])

First(entries) == CHOOSE e \in entries : \A f \in entries : Before(e, f)

\* resetTimerfd: at the expiration, and not before the next tick.
ArmedAt(when) == IF when > now THEN when ELSE now + 1

\* Mutant of ArmedAfterInsert: the new timer is compared the wrong way round.
ArmedAfterInsertLatest(when) ==
    IF timers = {} \/ when > First(timers)[1] THEN ArmedAt(when) ELSE armed

\* insert's earliestChanged, and what addTimerInLoop makes of it.
ArmedAfterInsert(when) ==
    IF timers = {} \/ when < First(timers)[1] THEN ArmedAt(when) ELSE armed

\* new Timer(cb, when, interval)
NewTimer(a, when, iv) ==
    /\ created < MaxTimers
    /\ heap[a] = 0
    /\ created' = created + 1
    /\ heap' = [heap EXCEPT ![a] = created + 1]
    /\ expiration' = [expiration EXCEPT ![created + 1] = when]
    /\ interval' = [interval EXCEPT ![created + 1] = iv]

\* Bound: the last tick finds the loop polling and nothing is inserted after it,
\* so that the clock does not stop under a timerfd that has just been armed.
BeforeLastTick == now < MaxNow

\* LoopThread executes code of the user.
InUserCode == pc \in {"idle", "callback"}

\* The addresses of the timers whose addTimerInLoop is still queued.
Queued == {queue[i].addr : i \in {j \in DOMAIN queue : queue[j].op = "add"}}

\* For the properties: the timers that were cancelled while they were in timers_ or
\* being run.  A cancellation that overtakes the functor that adds the timer is not
\* found by the code.
NoteCancel(id) ==
    cancelled' = IF heap[id[1]] = id[2] /\ \E e \in timers \cup expired : e[2] = id[1]
                 THEN cancelled \cup {id[2]} ELSE cancelled

-----------------------------------------------------------------------------
(* addTimer and cancel, called by another thread.                          *)

AddTimer(t, a, when, iv) ==
    /\ caller[t] = NoCall
    /\ NewTimer(a, when, iv)
    /\ caller' = [caller EXCEPT ![t] = [pc |-> "runInLoop", addr |-> a, seq |-> created + 1]]
    /\ UNCHANGED <<now, armed, loopVars, queue, ids, cancelled>>

AddTimerRunInLoop(t) ==
    /\ caller[t].pc = "runInLoop"
    /\ Len(queue) < MaxQueue
    /\ queue' = Append(queue, [op |-> "add", addr |-> caller[t].addr, seq |-> caller[t].seq])
    /\ caller' = [caller EXCEPT ![t].pc = "return"]
    /\ UNCHANGED <<now, armed, memVars, loopVars, ids, cancelled>>

\* return TimerId(timer, timer->sequence()): the Timer is read after it was
\* given to the loop thread, which may have deleted it and allocated another
\* one there.  What is read is then the old value or the new.
AddTimerReturn(t) ==
    /\ caller[t].pc = "return"
    /\ \E s \in {caller[t].seq} \cup ({heap[caller[t].addr]} \ {0}) :
         ids' = ids \cup {<<caller[t].addr, s>>}
    /\ caller' = [caller EXCEPT ![t] = NoCall]
    /\ UNCHANGED <<now, armed, memVars, loopVars, queue, cancelled>>

Cancel(t, id) ==
    /\ caller[t] = NoCall
    /\ Len(queue) < MaxQueue
    /\ queue' = Append(queue, [op |-> "cancel", addr |-> id[1], seq |-> id[2]])
    /\ UNCHANGED <<now, armed, memVars, loopVars, caller, ids, cancelled>>

-----------------------------------------------------------------------------
(* addTimerInLoop and cancelInLoop, on the loop thread.                    *)

\* The queued functor only has the address; the object is read through it.
AddTimerInLoop ==
    /\ BeforeLastTick
    /\ pc = "idle" /\ queue # <<>> /\ Head(queue).op = "add"
    /\ LET a == Head(queue).addr
           when == expiration[heap[a]]
       IN  /\ armed' = ArmedAfterInsert(when)
           /\ timers' = timers \cup {<<when, a>>}
           /\ activeTimers' = activeTimers \cup {<<a, heap[a]>>}
    /\ queue' = Tail(queue)
    /\ UNCHANGED <<now, memVars, cancelingTimers, expired, torun, readNow, pc,
                   caller, ids, cancelled>>

\* Mutant of CancelInLoop: a timer whose callbacks are being run is not found.
CancelInLoopNoDefer(id) ==
    /\ IF id \in activeTimers
       THEN /\ timers' = timers \ {<<expiration[heap[id[1]]], id[1]>>}
            /\ activeTimers' = activeTimers \ {id}
            /\ heap' = [heap EXCEPT ![id[1]] = 0]
       ELSE UNCHANGED <<timers, activeTimers, heap>>
    /\ NoteCancel(id)
    /\ UNCHANGED <<cancelingTimers, now, armed, expiration, interval, created, expired,
                   torun, readNow, pc, caller, ids>>

\* Mutant of CancelInLoop: timers_ is not cleaned up.
CancelInLoopActiveOnly(id) ==
    /\ IF id \in activeTimers
       THEN /\ activeTimers' = activeTimers \ {id}
            /\ heap' = [heap EXCEPT ![id[1]] = 0]
            /\ UNCHANGED <<timers, cancelingTimers>>
       ELSE /\ cancelingTimers' = IF callingExpiredTimers THEN cancelingTimers \cup {id}
                                                          ELSE cancelingTimers
            /\ UNCHANGED <<timers, activeTimers, heap>>
    /\ NoteCancel(id)
    /\ UNCHANGED <<now, armed, expiration, interval, created, expired, torun, readNow,
                   pc, caller, ids>>

\* An active timer is removed from both sets and deleted; one that is being run
\* is remembered for reset; any other is not known (any more, or yet).
CancelInLoop(id) ==
    /\ IF id \in activeTimers
       THEN /\ timers' = timers \ {<<expiration[heap[id[1]]], id[1]>>}
            /\ activeTimers' = activeTimers \ {id}
            /\ heap' = [heap EXCEPT ![id[1]] = 0]
            /\ UNCHANGED cancelingTimers
       ELSE /\ cancelingTimers' = IF callingExpiredTimers THEN cancelingTimers \cup {id}
                                                          ELSE cancelingTimers
            /\ UNCHANGED <<timers, activeTimers, heap>>
    /\ NoteCancel(id)
    /\ UNCHANGED <<now, armed, expiration, interval, created, expired, torun, readNow,
                   pc, caller, ids>>

CancelQueued ==
    /\ pc = "idle" /\ queue # <<>> /\ Head(queue).op = "cancel"
    /\ CancelInLoop(<<Head(queue).addr, Head(queue).seq>>)
    /\ queue' = Tail(queue)

CancelOnLoop(id) ==
    /\ InUserCode
    /\ CancelInLoop(id)
    /\ UNCHANGED queue

\* addTimer on the loop thread: created, inserted and returned at once.
AddTimerOnLoop(a, when, iv) ==
    /\ BeforeLastTick
    /\ InUserCode
    /\ NewTimer(a, when, iv)
    /\ armed' = ArmedAfterInsert(when)
    /\ timers' = timers \cup {<<when, a>>}
    /\ activeTimers' = activeTimers \cup {<<a, created + 1>>}
    /\ ids' = ids \cup {<<a, created + 1>>}
    /\ UNCHANGED <<now, cancelingTimers, expired, torun, readNow, pc, queue, caller,
                   cancelled>>

-----------------------------------------------------------------------------
(* handleRead: the timerfd is readable.                                    *)

\* readTimerfd, getExpired (everything up to and including now), and the
\* start of the loop over expired.
HandleRead ==
    /\ pc = "idle" /\ armed # 0 /\ armed <= now
    /\ LET due == {e \in timers : e[1] <= now}
       IN  /\ expired' = due
           /\ torun' = due
           /\ timers' = timers \ due
           /\ activeTimers' = {p \in activeTimers : \A e \in due : e[2] # p[1]}
    /\ armed' = 0
    /\ readNow' = now
    /\ cancelingTimers' = {}
    /\ pc' = "calling"
    /\ UNCHANGED <<now, memVars, queue, caller, ids, cancelled>>

RunTimer ==
    /\ pc = "calling" /\ torun # {}
    /\ torun' = torun \ {First(torun)}
    /\ pc' = "callback"
    /\ UNCHANGED <<now, armed, memVars, timers, activeTimers, cancelingTimers, expired,
                   readNow, queue, caller, ids, cancelled>>

RunTimerReturn ==
    /\ pc = "callback"
    /\ pc' = "calling"
    /\ UNCHANGED <<now, armed, memVars, timers, activeTimers, cancelingTimers, expired,
                   torun, readNow, queue, caller, ids, cancelled>>

\* The expired timers that reset restarts: Timer::repeat and not cancelled.
Restarted ==
    {e \in expired : /\ interval[heap[e[2]]] > 0
                     /\ <<e[2], heap[e[2]]>> \notin cancelingTimers}

\* Mutant of Reset: the timerfd is not armed again.
ResetDisarmed ==
    /\ pc = "calling" /\ torun = {}
    /\ LET again == {e[2] : e \in Restarted}
           over == {e[2] : e \in expired} \ again
       IN  /\ expiration' = [s \in Sequences_ |->
                                IF \E a \in again : heap[a] = s
                                THEN readNow + interval[s] ELSE expiration[s]]
           /\ timers' = timers \cup {<<readNow + interval[heap[a]], a>> : a \in again}
           /\ activeTimers' = activeTimers \cup {<<a, heap[a]>> : a \in again}
           /\ heap' = [a \in Addrs |-> IF a \in over THEN 0 ELSE heap[a]]
    /\ expired' = {}
    /\ pc' = "idle"
    /\ UNCHANGED <<now, armed, interval, created, cancelingTimers, torun, readNow, queue,
                   caller, ids, cancelled>>

\* Mutant of Reset: a timer that does not repeat is not deleted.
ResetLeak ==
    /\ pc = "calling" /\ torun = {}
    /\ LET again == {e[2] : e \in Restarted}
       IN  /\ expiration' = [s \in Sequences_ |->
                                IF \E a \in again : heap[a] = s
                                THEN readNow + interval[s] ELSE expiration[s]]
           /\ timers' = timers \cup {<<readNow + interval[heap[a]], a>> : a \in again}
           /\ activeTimers' = activeTimers \cup {<<a, heap[a]>> : a \in again}
    /\ armed' = IF timers' = {} THEN armed ELSE ArmedAt(First(timers')[1])
    /\ expired' = {}
    /\ pc' = "idle"
    /\ UNCHANGED <<now, heap, interval, created, cancelingTimers, torun, readNow, queue,
                   caller, ids, cancelled>>

\* reset: restart and insert or delete each expired timer, then arm the timerfd
\* for the earliest one.
Reset ==
    /\ pc = "calling" /\ torun = {}
    /\ LET again == {e[2] : e \in Restarted}
           over == {e[2] : e \in expired} \ again
       IN  /\ expiration' = [s \in Sequences_ |->
                                IF \E a \in again : heap[a] = s
                                THEN readNow + interval[s] ELSE expiration[s]]
           /\ timers' = timers \cup {<<readNow + interval[heap[a]], a>> : a \in again}
           /\ activeTimers' = activeTimers \cup {<<a, heap[a]>> : a \in again}
           /\ heap' = [a \in Addrs |-> IF a \in over THEN 0 ELSE heap[a]]
    /\ armed' = IF timers' = {} THEN armed ELSE ArmedAt(First(timers')[1])
    /\ expired' = {}
    /\ pc' = "idle"
    /\ UNCHANGED <<now, interval, created, cancelingTimers, torun, readNow, queue,
                   caller, ids, cancelled>>

Tick ==
    /\ BeforeLastTick
    /\ now + 1 = MaxNow => pc = "idle"
    /\ now' = now + 1
    /\ UNCHANGED <<armed, memVars, loopVars, queue, caller, ids, cancelled>>

-----------------------------------------------------------------------------
CallerStep ==
    \E t \in Callers :
        \/ \E a \in Addrs, when \in 1..MaxTime, iv \in Intervals : AddTimer(t, a, when, iv)
        \/ AddTimerRunInLoop(t) \/ AddTimerReturn(t)
        \/ \E id \in ids : Cancel(t, id)

UserStep ==
    \/ \E a \in Addrs, when \in 1..MaxTime, iv \in Intervals : AddTimerOnLoop(a, when, iv)
    \/ \E id \in ids : CancelOnLoop(id)

Next ==
    \/ CallerStep \/ UserStep
    \/ AddTimerInLoop \/ CancelQueued
    \/ HandleRead \/ RunTimer \/ RunTimerReturn \/ Reset
    \/ Tick

Spec == Init /\ [][Next]_vars

\* The clock runs, and the loop thread executes queued functors, returns from
\* callbacks and polls the timerfd.
FairSpec ==
    /\ Spec
    /\ WF_vars(Tick)
    /\ WF_vars(AddTimerInLoop) /\ WF_vars(CancelQueued)
    /\ WF_vars(HandleRead) /\ WF_vars(RunTimer)
    /\ WF_vars(RunTimerReturn) /\ WF_vars(Reset)

-----------------------------------------------------------------------------
(* Properties.                                                             *)

TypeOK ==
    /\ now \in 1..MaxNow
    /\ armed \in Nat
    /\ heap \in [Addrs -> 0..MaxTimers]
    /\ expiration \in [Sequences_ -> Nat]
    /\ interval \in [Sequences_ -> Intervals \cup {0}]
    /\ created \in 0..MaxTimers
    /\ timers \subseteq Nat \X Addrs
    /\ activeTimers \subseteq Addrs \X Sequences_
    /\ cancelingTimers \subseteq Addrs \X Sequences_
    /\ expired \subseteq Nat \X Addrs
    /\ torun \subseteq expired
    /\ readNow \in Nat
    /\ pc \in {"idle", "calling", "callback"}
    /\ queue \in Seq([op : {"add", "cancel"}, addr : Addrs, seq : Sequences_])
    /\ caller \in [Callers -> {NoCall} \cup
                     [pc : {"runInLoop", "return"}, addr : Addrs, seq : Sequences_]]
    /\ ids \subseteq Addrs \X Sequences_
    /\ cancelled \subseteq Sequences_

\* timers_ and activeTimers_ hold the same timers (TimerQueue.h:67), each once,
\* under its current expiration and its own sequence, so that the asserts on
\* their sizes hold and cancel finds what it has to erase.
SetsAgree ==
    /\ TypeOK
    /\ activeTimers = {<<e[2], heap[e[2]]>> : e \in timers}
    /\ \A e \in timers \cup expired : heap[e[2]] # 0 /\ e[1] = expiration[heap[e[2]]]
    /\ \A e, f \in timers \cup expired : e[2] = f[2] => e = f

\* A Timer that has been created and not deleted has exactly one owner: the
\* caller that is about to hand it over, the queued functor, timers_, or
\* handleRead's vector.  So none leaks and none is deleted twice.
OneOwner ==
    \A a \in Addrs :
        LET inTimers == \E e \in timers : e[2] = a
            inExpired == \E e \in expired : e[2] = a
            inQueue == a \in Queued
            inCall == \E t \in Callers : caller[t].pc = "runInLoop" /\ caller[t].addr = a
        IN  IF heap[a] = 0
            THEN ~(inTimers \/ inExpired \/ inQueue \/ inCall)
            ELSE Cardinality({i \in 1..4 : <<inTimers, inExpired, inQueue, inCall>>[i]}) = 1

\* While the loop can poll, the timerfd is armed for the earliest timer, or one
\* tick away when that is overdue: no timer waits for another one's.
ArmedForEarliest ==
    pc = "idle" /\ timers # {} =>
        armed # 0 /\ (armed <= now + 1 \/ armed <= First(timers)[1])

\* A timer that was cancelled while it was active, or by a callback while it was
\* being run, is never active again (cancelingTimers_, reset).
CancelledStaysOut == \A p \in activeTimers : p[2] \notin cancelled

\* A timer that has been inserted leaves timers_ once its time has come, because
\* handleRead takes it or because it is cancelled: neither an insertion, nor a
\* cancellation, nor reset leaves the timerfd armed for later than that.
DueTimersRun ==
    \A s \in Sequences_ :
        LET waiting == \E p \in activeTimers : p[2] = s /\ expiration[s] <= MaxNow
        IN  waiting ~> ~waiting

\* addTimer can be called by any thread (TimerQueue.cpp:109): the Timer it reads
\* the sequence from is still the one it created.
AddTimerReadsItsTimer ==
    \A t \in Callers : caller[t].pc = "return" => heap[caller[t].addr] = caller[t].seq

=============================================================================
