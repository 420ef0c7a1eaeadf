-------------------------- MODULE TimerQueueProofs -------------------------
(***************************************************************************)
(* TimerQueue for any number of threads, addresses and timers: its two     *)
(* sets agree, a Timer has one owner, the timerfd is armed for the         *)
(* earliest one, and a cancelled one does not come back.                   *)
(***************************************************************************)
EXTENDS TimerQueue, FiniteSetTheorems, NaturalsInduction, TLAPS

-----------------------------------------------------------------------------
(* The inductive invariant.                                                *)

\* The four places that may own the Timer at an address.
InTimers(a) == \E e \in timers : e[2] = a

InExpired(a) == \E e \in expired : e[2] = a

InQueue(a) == \E i \in DOMAIN queue : queue[i].op = "add" /\ queue[i].addr = a

InCall(a) == \E t \in Callers : caller[t].pc = "runInLoop" /\ caller[t].addr = a

\* The conjuncts of SetsAgree.
ActivesOf(T, h) == {<<e[2], h[e[2]]>> : e \in T}

Actives == activeTimers = ActivesOf(timers, heap)

Entries == \A e \in timers \cup expired : heap[e[2]] # 0 /\ e[1] = expiration[heap[e[2]]]

OneEntry == \A e, f \in timers \cup expired : e[2] = f[2] => e = f

\* OneOwner, place by place.
Owned ==
    \A a \in Addrs :
        /\ heap[a] # 0 <=> InTimers(a) \/ InExpired(a) \/ InQueue(a) \/ InCall(a)
        /\ InTimers(a) => ~InExpired(a) /\ ~InQueue(a) /\ ~InCall(a)
        /\ InExpired(a) => ~InQueue(a) /\ ~InCall(a)
        /\ InQueue(a) => ~InCall(a)

\* A Timer is handed over once: no two functors add it and no two calls will.
QueuedOnce ==
    \A i, j \in DOMAIN queue :
        queue[i].op = "add" /\ queue[j].op = "add" /\ queue[i].addr = queue[j].addr => i = j

CalledOnce ==
    \A t, u \in Callers :
        /\ caller[t].pc = "runInLoop" /\ caller[u].pc = "runInLoop"
        /\ caller[t].addr = caller[u].addr
        => t = u

\* sequence_ is unique among the Timers that exist and were cancelled.
Unique ==
    /\ \A a \in Addrs : heap[a] <= created
    /\ \A a, b \in Addrs : heap[a] = heap[b] /\ heap[a] # 0 => a = b
    /\ \A s \in cancelled : s <= created

\* A cancelled Timer still exists only while handleRead runs it, and reset will
\* find it in cancelingTimers_.
CancelledIsKnown ==
    \A a \in Addrs : heap[a] \in cancelled => InExpired(a) /\ <<a, heap[a]>> \in cancelingTimers

\* ArmedForEarliest for every timer instead of the earliest.
ArmedForAll ==
    pc = "idle" => \A e \in timers : armed # 0 /\ (armed <= now + 1 \/ armed <= e[1])

IInv ==
    /\ TypeOK /\ Actives /\ Entries /\ OneEntry
    /\ Owned /\ QueuedOnce /\ CalledOnce
    /\ Unique /\ CancelledIsKnown
    /\ ArmedForAll
    /\ pc = "idle" => expired = {}

-----------------------------------------------------------------------------
(* Facts about the operators.                                              *)

LEMMA LeastNumber ==
  ASSUME NEW T \in SUBSET Nat, T # {}
  PROVE  \E x \in T : \A y \in T : x <= y
<1>1. PICK x \in T : \A y \in T : ~(<<y, x>> \in OpToRel(<, Nat))
  BY NatLessThanWellFounded, WFMin
<1>2. \A y \in T : ~(y < x)
  BY <1>1 DEF OpToRel
<1> QED BY <1>2

\* A set of entries that is not empty has a first one, timers_.begin().
LEMMA FirstIsFirst ==
  ASSUME NEW T \in SUBSET (Nat \X Addrs), T # {}
  PROVE  First(T) \in T /\ \A e \in T : First(T)[1] <= e[1]
<1> DEFINE T1 == {e[1] : e \in T}
<1>1. T1 \in SUBSET Nat /\ T1 # {}
  OBVIOUS
<1>2. PICK x \in T1 : \A y \in T1 : x <= y
  <2> HIDE DEF T1
  <2> QED BY <1>1, LeastNumber
<1> DEFINE T2 == {e[2] : e \in {d \in T : d[1] = x}}
<1>3. T2 \in SUBSET Nat /\ T2 # {}
  <2>1. PICK d \in T : d[1] = x
    BY <1>2
  <2>2. d[2] \in T2
    BY <2>1
  <2> QED BY <2>2, AddrsAssumption
<1>4. PICK z \in T2 : \A y \in T2 : z <= y
  <2> HIDE DEF T2
  <2> QED BY <1>3, LeastNumber
<1>5. PICK d \in T : d[1] = x /\ d[2] = z
  BY <1>4
<1>6. \A f \in T : f[1] \in Nat /\ f[2] \in Nat /\ x \in Nat /\ z \in Nat
  BY <1>5, AddrsAssumption
<1>7. \A f \in T : Before(d, f)
  <2> SUFFICES ASSUME NEW f \in T PROVE Before(d, f)
    OBVIOUS
  <2>1. x <= f[1]
    BY <1>2
  <2>2. f[1] = x => z <= f[2]
    BY <1>4
  <2> QED BY <1>5, <1>6, <2>1, <2>2 DEF Before
<1>8. First(T) \in T /\ \A f \in T : Before(First(T), f)
  BY <1>7 DEF First
<1>9. \A f \in T : First(T)[1] <= f[1]
  BY <1>6, <1>8 DEF Before
<1> QED BY <1>8, <1>9

Functors == [op : {"add", "cancel"}, addr : Addrs, seq : Sequences_]

Calls == {NoCall} \cup [pc : {"runInLoop", "return"}, addr : Addrs, seq : Sequences_]

\* queueInLoop: a functor at the end of the queue.
LEMMA QueueAppend ==
  ASSUME queue \in Seq(Functors), QueuedOnce, NEW f \in Functors,
         f.op = "add" => ~InQueue(f.addr), queue' = Append(queue, f)
  PROVE  /\ queue' \in Seq(Functors) /\ QueuedOnce'
         /\ \A a : InQueue(a)' <=> InQueue(a) \/ (f.op = "add" /\ f.addr = a)
<1> DEFINE n == Len(queue) + 1
<1>1. /\ queue' \in Seq(Functors) /\ DOMAIN queue = 1..Len(queue) /\ DOMAIN queue' = 1..n
      /\ Len(queue) \in Nat
  OBVIOUS
<1>2. queue'[n] = f /\ \A i \in DOMAIN queue : queue'[i] = queue[i]
  OBVIOUS
<1>3. \A i : i \in DOMAIN queue' <=> i \in DOMAIN queue \/ i = n
  BY <1>1
<1>4. n \notin DOMAIN queue
  BY <1>1
<1> HIDE DEF n
<1>5. \A a : InQueue(a)' <=> InQueue(a) \/ (f.op = "add" /\ f.addr = a)
  BY <1>2, <1>3 DEF InQueue
<1>6. QueuedOnce'
  BY <1>2, <1>3 DEF QueuedOnce, InQueue
<1> QED BY <1>1, <1>5, <1>6

\* doPendingFunctors takes the first functor out of the queue.
LEMMA QueueTail ==
  ASSUME queue \in Seq(Functors), QueuedOnce, queue # <<>>, queue' = Tail(queue)
  PROVE  /\ Head(queue) \in Functors
         /\ queue' \in Seq(Functors) /\ QueuedOnce'
         /\ Head(queue).op = "add" => InQueue(Head(queue).addr)
         /\ \A a : InQueue(a)' <=> InQueue(a) /\ ~(Head(queue).op = "add" /\ Head(queue).addr = a)
<1>1. /\ DOMAIN queue = 1..Len(queue) /\ DOMAIN queue' = 1..(Len(queue) - 1)
      /\ Len(queue) \in Nat \ {0} /\ queue' \in Seq(Functors)
      /\ Head(queue) = queue[1] /\ queue[1] \in Functors
  OBVIOUS
<1>2. \A i \in DOMAIN queue' : i + 1 \in DOMAIN queue \ {1} /\ queue'[i] = queue[i + 1]
  BY <1>1
<1>3. \A j \in DOMAIN queue \ {1} : j - 1 \in DOMAIN queue' /\ queue'[j - 1] = queue[j]
  BY <1>1
<1>4. 1 \in DOMAIN queue
  BY <1>1
<1>5. QueuedOnce'
  <2> SUFFICES ASSUME NEW i \in DOMAIN queue', NEW j \in DOMAIN queue',
                      queue'[i].op = "add", queue'[j].op = "add",
                      queue'[i].addr = queue'[j].addr
               PROVE  i = j
    BY DEF QueuedOnce
  <2>1. i + 1 = j + 1
    BY <1>2 DEF QueuedOnce
  <2> QED BY <1>1, <2>1
<1>6. ASSUME NEW a PROVE InQueue(a)' <=> \E j \in DOMAIN queue \ {1} : queue[j].op = "add" /\ queue[j].addr = a
  BY <1>2, <1>3 DEF InQueue
<1>7. ASSUME NEW a
      PROVE InQueue(a)' <=> InQueue(a) /\ ~(queue[1].op = "add" /\ queue[1].addr = a)
  <2> DEFINE Adds(j) == queue[j].op = "add" /\ queue[j].addr = a
  <2>1. InQueue(a) <=> \E j \in DOMAIN queue : Adds(j)
    BY DEF InQueue
  <2>2. InQueue(a)' <=> \E j \in DOMAIN queue \ {1} : Adds(j)
    BY <1>6
  <2>3. \A i, j \in DOMAIN queue : Adds(i) /\ Adds(j) => i = j
    BY DEF QueuedOnce
  <2>4. InQueue(a)' <=> InQueue(a) /\ ~Adds(1)
    <3> HIDE DEF Adds
    <3> QED BY <1>4, <2>1, <2>2, <2>3
  <2> QED BY <2>4
<1>8. queue[1].op = "add" => InQueue(queue[1].addr)
  BY <1>4 DEF InQueue
<1> QED BY <1>1, <1>5, <1>7, <1>8

-----------------------------------------------------------------------------
(* Steps that leave the timers alone: RunTimer, RunTimerReturn, Tick, and  *)
(* the return of addTimer and the call of cancel.                          *)

LEMMA QuietStep ==
  ASSUME IInv, TypeOK', UNCHANGED <<memVars, timers, activeTimers, expired, cancelled>>,
         cancelingTimers \subseteq cancelingTimers',
         QueuedOnce', \A a : InQueue(a)' <=> InQueue(a),
         CalledOnce', \A a : InCall(a)' <=> InCall(a),
         UNCHANGED armed, now <= now', pc' = "idle" => pc = "idle"
  PROVE  IInv'
<1> USE DEF IInv, memVars
<1>1. Actives' /\ Entries' /\ OneEntry'
  BY DEF Actives, Entries, OneEntry
<1>2. \A a : (InTimers(a)' <=> InTimers(a)) /\ (InExpired(a)' <=> InExpired(a))
  BY DEF InTimers, InExpired
<1>3. Owned'
  BY <1>2 DEF Owned
<1>4. Unique' /\ CancelledIsKnown'
  BY <1>2 DEF Unique, CancelledIsKnown
<1>5. ArmedForAll'
  <2> SUFFICES ASSUME pc' = "idle", NEW e \in timers
               PROVE  armed' # 0 /\ (armed' <= now' + 1 \/ armed' <= e[1])
    BY DEF ArmedForAll
  <2>1. armed # 0 /\ (armed <= now + 1 \/ armed <= e[1])
    BY DEF ArmedForAll
  <2>2. armed \in Nat /\ now \in Nat /\ now' \in Nat /\ armed' = armed /\ now <= now'
    BY BoundsAssumption DEF TypeOK
  <2> HIDE DEF IInv
  <2>3. armed <= now + 1 => armed <= now' + 1
    <3>1. ASSUME NEW x \in Nat, NEW m \in Nat, NEW n \in Nat, m <= n, x <= m + 1
          PROVE  x <= n + 1
      BY <3>1
    <3> QED BY <2>2, <3>1
  <2> QED BY <2>1, <2>2, <2>3
<1> QED BY <1>1, <1>3, <1>4, <1>5

LEMMA QuietSteps ==
  ASSUME IInv, RunTimer \/ RunTimerReturn \/ Tick \/ UNCHANGED vars
  PROVE  IInv'
<1>1. TypeOK
  BY DEF IInv
<1>2. /\ UNCHANGED <<memVars, timers, activeTimers, expired, cancelled, cancelingTimers, armed,
                     queue, caller, ids, readNow>>
      /\ pc' = "idle" => pc = "idle"
  BY DEF RunTimer, RunTimerReturn, Tick, vars, loopVars
<1>3. now' \in 1..MaxNow /\ now <= now'
  BY <1>1, BoundsAssumption DEF RunTimer, RunTimerReturn, Tick, BeforeLastTick, vars, loopVars, TypeOK
<1>4. torun' \subseteq expired' /\ pc' \in {"idle", "calling", "callback"}
  BY <1>1 DEF RunTimer, RunTimerReturn, Tick, vars, loopVars, TypeOK
<1>5. TypeOK'
  BY <1>1, <1>2, <1>3, <1>4 DEF TypeOK, memVars
<1>6. QueuedOnce' /\ CalledOnce'
  BY <1>2 DEF IInv, QueuedOnce, CalledOnce
<1>7. \A a : (InQueue(a)' <=> InQueue(a)) /\ (InCall(a)' <=> InCall(a))
  BY <1>2 DEF InQueue, InCall
<1> QED BY <1>2, <1>3, <1>5, <1>6, <1>7, QuietStep

LEMMA AddTimerReturnStep ==
  ASSUME IInv, NEW t \in Callers, AddTimerReturn(t)
  PROVE  IInv'
<1>1. TypeOK /\ caller \in [Callers -> Calls] /\ caller[t].pc = "return"
  BY DEF IInv, TypeOK, Calls, AddTimerReturn
<1>2. /\ caller' = [caller EXCEPT ![t] = NoCall]
      /\ UNCHANGED <<now, armed, memVars, loopVars, queue, cancelled>>
  BY DEF AddTimerReturn
<1>3. caller[t].addr \in Addrs /\ caller[t].seq \in Sequences_
  BY <1>1 DEF Calls, NoCall
<1>4. ids' \subseteq Addrs \X Sequences_
  <2>1. heap[caller[t].addr] \in 0..MaxTimers
    BY <1>1, <1>3 DEF TypeOK
  <2>2. PICK s \in {caller[t].seq} \cup ({heap[caller[t].addr]} \ {0}) :
          ids' = ids \cup {<<caller[t].addr, s>>}
    BY DEF AddTimerReturn
  <2>3. s \in Sequences_
    BY <1>3, <2>1, BoundsAssumption DEF Sequences_
  <2> QED BY <1>1, <1>3, <2>2, <2>3 DEF TypeOK
<1>5. caller' \in [Callers -> Calls]
  BY <1>1, <1>2 DEF Calls
<1>6. TypeOK'
  BY <1>1, <1>2, <1>4, <1>5 DEF TypeOK, memVars, loopVars, Calls
<1>7. \A u \in Callers : caller'[u].pc = "runInLoop" => caller'[u] = caller[u]
  BY <1>1, <1>2 DEF NoCall
<1>8. \A u \in Callers : caller[u].pc = "runInLoop" => caller'[u] = caller[u]
  BY <1>1, <1>2
<1>9. CalledOnce' /\ \A a : InCall(a)' <=> InCall(a)
  BY <1>7, <1>8 DEF IInv, CalledOnce, InCall
<1>10. QueuedOnce' /\ \A a : InQueue(a)' <=> InQueue(a)
  BY <1>2 DEF IInv, QueuedOnce, InQueue
<1>11. now <= now'
  BY <1>1, <1>2, BoundsAssumption DEF TypeOK
<1> QED BY <1>2, <1>6, <1>9, <1>10, <1>11, QuietStep DEF loopVars

LEMMA CancelStep ==
  ASSUME IInv, NEW t \in Callers, NEW id \in ids, Cancel(t, id)
  PROVE  IInv'
<1>1. TypeOK /\ queue \in Seq(Functors) /\ QueuedOnce
  BY DEF IInv, TypeOK, Functors
<1> DEFINE f == [op |-> "cancel", addr |-> id[1], seq |-> id[2]]
<1>2. /\ queue' = Append(queue, f)
      /\ UNCHANGED <<now, armed, memVars, loopVars, caller, ids, cancelled>>
  BY DEF Cancel
<1>3. f \in Functors /\ f.op = "cancel"
  BY <1>1 DEF TypeOK, Functors
<1> HIDE DEF f
<1>4. /\ queue' \in Seq(Functors) /\ QueuedOnce'
      /\ \A a : InQueue(a)' <=> InQueue(a)
  BY <1>1, <1>2, <1>3, QueueAppend
<1>5. TypeOK'
  BY <1>1, <1>2, <1>4 DEF TypeOK, memVars, loopVars, Functors
<1>6. CalledOnce' /\ \A a : InCall(a)' <=> InCall(a)
  BY <1>2 DEF IInv, CalledOnce, InCall
<1>7. now <= now'
  BY <1>1, <1>2, BoundsAssumption DEF TypeOK
<1> QED BY <1>2, <1>4, <1>5, <1>6, <1>7, QuietStep DEF loopVars

-----------------------------------------------------------------------------
(* addTimer.                                                               *)

\* new Timer takes a free address and a new sequence, and is not owned yet.
LEMMA NewTimerFacts ==
  ASSUME IInv, NEW a \in Addrs, NEW when \in 1..MaxTime, NEW iv \in Intervals,
         NewTimer(a, when, iv)
  PROVE  /\ created + 1 \in Sequences_ /\ created' \in 0..MaxTimers /\ created' = created + 1
         /\ heap' \in [Addrs -> 0..MaxTimers]
         /\ expiration' \in [Sequences_ -> Nat]
         /\ interval' \in [Sequences_ -> Intervals \cup {0}]
         /\ \A b \in Addrs : heap'[b] = IF b = a THEN created + 1 ELSE heap[b]
         /\ expiration'[created + 1] = when
         /\ heap'[a] # 0
         /\ ~InTimers(a) /\ ~InExpired(a) /\ ~InQueue(a) /\ ~InCall(a)
         /\ \A e \in timers \cup expired :
               e[2] # a /\ heap'[e[2]] = heap[e[2]] /\ expiration'[heap[e[2]]] = e[1]
         /\ \A b \in Addrs : heap'[b] <= created'
         /\ \A b, c \in Addrs : heap'[b] = heap'[c] /\ heap'[b] # 0 => b = c
         /\ \A q \in cancelled : q <= created' /\ q # created + 1
<1>1. /\ TypeOK /\ heap \in [Addrs -> 0..MaxTimers] /\ expiration \in [Sequences_ -> Nat]
      /\ interval \in [Sequences_ -> Intervals \cup {0}] /\ created \in 0..MaxTimers
      /\ MaxTimers \in Nat /\ MaxTime \in Nat /\ cancelled \subseteq Sequences_
      /\ timers \subseteq Nat \X Addrs /\ expired \subseteq Nat \X Addrs
  BY BoundsAssumption DEF IInv, TypeOK
<1>2. /\ created < MaxTimers /\ heap[a] = 0 /\ created' = created + 1
      /\ heap' = [heap EXCEPT ![a] = created + 1]
      /\ expiration' = [expiration EXCEPT ![created + 1] = when]
      /\ interval' = [interval EXCEPT ![created + 1] = iv]
  BY DEF NewTimer
<1>3. /\ created + 1 \in Sequences_ /\ created' \in 0..MaxTimers /\ created \in Nat
      /\ created + 1 \in 0..MaxTimers
  BY <1>1, <1>2 DEF Sequences_
<1>4. heap' \in [Addrs -> 0..MaxTimers] /\ interval' \in [Sequences_ -> Intervals \cup {0}]
  BY <1>1, <1>2, <1>3
<1>5. /\ expiration' \in [Sequences_ -> Nat] /\ expiration'[created + 1] = when
      /\ \A q \in Sequences_ : q # created + 1 => expiration'[q] = expiration[q]
  BY <1>1, <1>2, <1>3
<1>6. /\ \A b \in Addrs : heap'[b] = IF b = a THEN created + 1 ELSE heap[b]
      /\ heap'[a] # 0
  BY <1>1, <1>2, <1>3
<1>7. ~InTimers(a) /\ ~InExpired(a) /\ ~InQueue(a) /\ ~InCall(a)
  BY <1>2 DEF IInv, Owned
<1>8. \A b \in Addrs : heap[b] \in Nat /\ heap[b] <= created /\ heap[b] # created + 1
  BY <1>1, <1>3 DEF IInv, Unique
<1>9. ASSUME NEW e \in timers \cup expired
      PROVE  e[2] # a /\ heap'[e[2]] = heap[e[2]] /\ expiration'[heap[e[2]]] = e[1]
  <2>1. e[2] \in Addrs /\ e[2] # a
    BY <1>1, <1>7 DEF InTimers, InExpired
  <2>2. heap[e[2]] # 0 /\ e[1] = expiration[heap[e[2]]]
    BY DEF IInv, Entries
  <2>3. heap[e[2]] \in Sequences_ /\ heap[e[2]] # created + 1
    BY <1>1, <1>8, <2>1, <2>2 DEF Sequences_
  <2> QED BY <1>5, <1>6, <2>1, <2>2, <2>3
<1>10. \A b \in Addrs : heap'[b] <= created'
  BY <1>2, <1>3, <1>6, <1>8
<1>11. \A b, c \in Addrs : heap'[b] = heap'[c] /\ heap'[b] # 0 => b = c
  BY <1>6, <1>8 DEF IInv, Unique
<1>12. \A q \in cancelled : q <= created' /\ q # created + 1
  <2>1. \A q \in cancelled : q <= created /\ q \in Nat
    BY <1>1 DEF IInv, Unique, Sequences_
  <2> QED BY <1>2, <1>3, <2>1
<1> QED BY <1>2, <1>3, <1>4, <1>5, <1>6, <1>7, <1>9, <1>10, <1>11, <1>12

LEMMA AddTimerStep ==
  ASSUME IInv, NEW t \in Callers, NEW a \in Addrs, NEW when \in 1..MaxTime,
         NEW iv \in Intervals, AddTimer(t, a, when, iv)
  PROVE  IInv'
<1>1. TypeOK /\ caller \in [Callers -> Calls] /\ caller[t] = NoCall
  BY DEF IInv, TypeOK, Calls, AddTimer
<1> DEFINE c == [pc |-> "runInLoop", addr |-> a, seq |-> created + 1]
<1>2. /\ NewTimer(a, when, iv) /\ caller' = [caller EXCEPT ![t] = c]
      /\ UNCHANGED <<now, armed, loopVars, queue, ids, cancelled>>
  BY DEF AddTimer
<1>3. /\ created + 1 \in Sequences_ /\ created' \in 0..MaxTimers
      /\ heap' \in [Addrs -> 0..MaxTimers]
      /\ expiration' \in [Sequences_ -> Nat]
      /\ interval' \in [Sequences_ -> Intervals \cup {0}]
  BY <1>2, NewTimerFacts
<1>4. c \in Calls /\ c.pc = "runInLoop" /\ c.addr = a
  BY <1>3 DEF Calls
<1> HIDE DEF c
<1>5. caller' \in [Callers -> Calls]
  BY <1>1, <1>2, <1>4
<1>6. TypeOK'
  BY <1>1, <1>2, <1>3, <1>5 DEF TypeOK, loopVars, Calls
<1>7. /\ \A b \in Addrs : heap'[b] = IF b = a THEN created + 1 ELSE heap[b]
      /\ ~InTimers(a) /\ ~InExpired(a) /\ ~InQueue(a) /\ ~InCall(a) /\ heap'[a] # 0
      /\ \A e \in timers \cup expired :
            e[2] # a /\ heap'[e[2]] = heap[e[2]] /\ expiration'[heap[e[2]]] = e[1]
  BY <1>2, NewTimerFacts
<1>8. Actives' /\ Entries' /\ OneEntry'
  BY <1>2, <1>7 DEF IInv, Actives, ActivesOf, Entries, OneEntry, loopVars
<1>9. \A b : /\ InTimers(b)' <=> InTimers(b)
             /\ InExpired(b)' <=> InExpired(b)
             /\ InQueue(b)' <=> InQueue(b)
  BY <1>2 DEF InTimers, InExpired, InQueue, loopVars
<1>10. \A u \in Callers : caller'[u] = IF u = t THEN c ELSE caller[u]
  BY <1>1, <1>2
<1>11. caller[t].pc # "runInLoop"
  BY <1>1 DEF NoCall
<1>12. \A b : InCall(b)' <=> InCall(b) \/ b = a
  BY <1>4, <1>10, <1>11 DEF InCall
<1>13. CalledOnce'
  BY <1>4, <1>7, <1>10 DEF IInv, CalledOnce, InCall
<1>14. Owned'
  BY <1>7, <1>9, <1>12 DEF IInv, Owned
<1>15. QueuedOnce'
  BY <1>2 DEF IInv, QueuedOnce
<1>16. Unique'
  BY <1>2, NewTimerFacts DEF Unique
<1>17. CancelledIsKnown'
  <2>1. created + 1 \notin cancelled
    BY <1>2, NewTimerFacts
  <2> QED BY <1>2, <1>7, <1>9, <2>1 DEF IInv, CancelledIsKnown, loopVars
<1>18. ArmedForAll' /\ (pc' = "idle" => expired' = {})
  BY <1>2 DEF IInv, ArmedForAll, loopVars
<1> QED BY <1>6, <1>8, <1>13, <1>14, <1>15, <1>16, <1>17, <1>18 DEF IInv

\* runInLoop: the functor owns the Timer now.
LEMMA AddTimerRunInLoopStep ==
  ASSUME IInv, NEW t \in Callers, AddTimerRunInLoop(t)
  PROVE  IInv'
<1> DEFINE a == caller[t].addr
           f == [op |-> "add", addr |-> a, seq |-> caller[t].seq]
<1>1. /\ TypeOK /\ caller \in [Callers -> Calls] /\ caller[t].pc = "runInLoop"
      /\ queue \in Seq(Functors) /\ QueuedOnce /\ CalledOnce
  BY DEF IInv, TypeOK, Calls, Functors, AddTimerRunInLoop
<1>2. /\ queue' = Append(queue, f) /\ caller' = [caller EXCEPT ![t].pc = "return"]
      /\ UNCHANGED <<now, armed, memVars, loopVars, ids, cancelled>>
  BY DEF AddTimerRunInLoop
<1>3. caller[t] \in [pc : {"runInLoop", "return"}, addr : Addrs, seq : Sequences_]
  BY <1>1 DEF Calls, NoCall
<1>4. f \in Functors /\ f.op = "add" /\ f.addr = a /\ a \in Addrs /\ InCall(a)
  BY <1>1, <1>3 DEF Functors, InCall
<1>5. \A u \in Callers : caller'[u] = IF u = t THEN [caller[t] EXCEPT !.pc = "return"] ELSE caller[u]
  BY <1>1, <1>2
<1>6. caller' \in [Callers -> Calls] /\ caller'[t].pc = "return"
  BY <1>1, <1>2, <1>3, <1>5 DEF Calls
<1>7. ~InQueue(a) /\ ~InTimers(a) /\ ~InExpired(a) /\ heap[a] # 0
  BY <1>4 DEF IInv, Owned
<1>8. \A b : InCall(b)' <=> InCall(b) /\ b # a
  BY <1>1, <1>5, <1>6 DEF InCall, CalledOnce
<1>9. CalledOnce'
  BY <1>1, <1>5, <1>6 DEF CalledOnce
<1> HIDE DEF a, f
<1>10. /\ queue' \in Seq(Functors) /\ QueuedOnce'
       /\ \A b : InQueue(b)' <=> InQueue(b) \/ b = a
  BY <1>1, <1>2, <1>4, <1>7, QueueAppend
<1>11. TypeOK'
  BY <1>1, <1>2, <1>6, <1>10 DEF TypeOK, memVars, loopVars, Functors, Calls
<1>12. \A b : (InTimers(b)' <=> InTimers(b)) /\ (InExpired(b)' <=> InExpired(b))
  BY <1>2 DEF InTimers, InExpired, loopVars
<1>13. Owned'
  <2>1. heap' = heap
    BY <1>2 DEF memVars
  <2> QED BY <1>4, <1>7, <1>8, <1>10, <1>12, <2>1 DEF IInv, Owned
<1>14. Actives' /\ Entries' /\ OneEntry'
  BY <1>2 DEF IInv, Actives, Entries, OneEntry, memVars, loopVars
<1>15. Unique' /\ CancelledIsKnown'
  BY <1>2, <1>12 DEF IInv, Unique, CancelledIsKnown, memVars, loopVars
<1>16. ArmedForAll' /\ (pc' = "idle" => expired' = {})
  BY <1>2 DEF IInv, ArmedForAll, loopVars
<1> QED BY <1>9, <1>10, <1>11, <1>13, <1>14, <1>15, <1>16 DEF IInv

\* insert and resetTimerfd: the timerfd is armed for the new timer if it is the
\* earliest, and was for an earlier one if it is not.
LEMMA ArmedInsert ==
  ASSUME IInv, NEW a \in Addrs, NEW when \in Nat, armed' = ArmedAfterInsert(when),
         timers' = timers \cup {<<when, a>>}, UNCHANGED <<now, pc>>
  PROVE  armed' \in Nat /\ ArmedForAll'
<1>1. armed \in Nat /\ now \in Nat /\ timers \in SUBSET (Nat \X Addrs)
  BY BoundsAssumption DEF IInv, TypeOK
<1>2. ArmedAt(when) \in Nat /\ ArmedAt(when) # 0
  BY <1>1 DEF ArmedAt
<1>3. armed' \in Nat
  BY <1>1, <1>2 DEF ArmedAfterInsert
<1>4. ASSUME pc = "idle", NEW e \in timers'
      PROVE  armed' # 0 /\ (armed' <= now + 1 \/ armed' <= e[1])
  <2>1. e[1] \in Nat /\ (e \in timers \/ e[1] = when)
    BY <1>1
  <2>2. CASE timers = {} \/ when < First(timers)[1]
    <3>1. armed' = ArmedAt(when)
      BY <2>2 DEF ArmedAfterInsert
    <3>2. when <= e[1]
      <4>1. CASE e \in timers
        <5>1. First(timers) \in timers /\ First(timers)[1] <= e[1]
          BY <1>1, <4>1, FirstIsFirst
        <5>2. when < First(timers)[1] /\ First(timers)[1] \in Nat
          BY <1>1, <2>2, <4>1, <5>1
        <5> QED BY <2>1, <5>1, <5>2
      <4> QED BY <2>1, <4>1
    <3> QED BY <1>1, <1>2, <2>1, <3>1, <3>2 DEF ArmedAt
  <2>3. CASE ~(timers = {} \/ when < First(timers)[1])
    <3>1. armed' = armed
      BY <2>3 DEF ArmedAfterInsert
    <3>2. First(timers) \in timers /\ First(timers)[1] <= when /\ First(timers)[1] \in Nat
      BY <1>1, <2>3, FirstIsFirst
    <3>3. \A d \in timers : armed # 0 /\ (armed <= now + 1 \/ armed <= d[1])
      BY <1>4 DEF IInv, ArmedForAll
    <3>4. armed <= First(timers)[1] => armed <= when
      BY <1>1, <3>2
    <3> QED BY <2>1, <3>1, <3>2, <3>3, <3>4
  <2> QED BY <2>2, <2>3
<1> QED BY <1>3, <1>4 DEF ArmedForAll

LEMMA InsertedEntry ==
  ASSUME NEW a, NEW when, timers' = timers \cup {<<when, a>>}
  PROVE  \A b : InTimers(b)' <=> InTimers(b) \/ b = a
<1> DEFINE d == <<when, a>>
<1>1. d[2] = a /\ timers' = timers \cup {d}
  OBVIOUS
<1> HIDE DEF d
<1> QED BY <1>1 DEF InTimers

LEMMA AddTimerOnLoopStep ==
  ASSUME IInv, NEW a \in Addrs, NEW when \in 1..MaxTime, NEW iv \in Intervals,
         AddTimerOnLoop(a, when, iv)
  PROVE  IInv'
<1>1. TypeOK /\ when \in Nat
  BY BoundsAssumption DEF IInv
<1> DEFINE n == created + 1
<1>2. /\ NewTimer(a, when, iv) /\ armed' = ArmedAfterInsert(when)
      /\ timers' = timers \cup {<<when, a>>}
      /\ activeTimers' = activeTimers \cup {<<a, n>>}
      /\ ids' = ids \cup {<<a, n>>}
      /\ UNCHANGED <<now, cancelingTimers, expired, torun, readNow, pc, queue, caller, cancelled>>
  BY DEF AddTimerOnLoop
<1>3. /\ n \in Sequences_ /\ created' \in 0..MaxTimers
      /\ heap' \in [Addrs -> 0..MaxTimers]
      /\ expiration' \in [Sequences_ -> Nat]
      /\ interval' \in [Sequences_ -> Intervals \cup {0}]
  BY <1>2, NewTimerFacts
<1>4. /\ \A b \in Addrs : heap'[b] = IF b = a THEN n ELSE heap[b]
      /\ ~InTimers(a) /\ ~InExpired(a) /\ ~InQueue(a) /\ ~InCall(a) /\ heap'[a] # 0
      /\ \A e \in timers \cup expired :
            e[2] # a /\ heap'[e[2]] = heap[e[2]] /\ expiration'[heap[e[2]]] = e[1]
      /\ expiration'[n] = when
  BY <1>2, NewTimerFacts
<1>5. armed' \in Nat /\ ArmedForAll'
  BY <1>1, <1>2, ArmedInsert
<1>6. Unique'
  BY <1>2, NewTimerFacts DEF Unique
<1>7. n \notin cancelled
  BY <1>2, NewTimerFacts
<1> HIDE DEF n
<1>8. TypeOK'
  <2>1. timers' \subseteq Nat \X Addrs
    BY <1>1, <1>2 DEF TypeOK
  <2>2. activeTimers' \subseteq Addrs \X Sequences_ /\ ids' \subseteq Addrs \X Sequences_
    BY <1>1, <1>2, <1>3 DEF TypeOK
  <2> QED BY <1>1, <1>2, <1>3, <1>5, <2>1, <2>2 DEF TypeOK
<1>9. Actives'
  <2>1. activeTimers = ActivesOf(timers, heap')
    BY <1>4 DEF IInv, Actives, ActivesOf
  <2>2. heap'[a] = n
    BY <1>4
  <2> DEFINE d == <<when, a>>
  <2>3. d[2] = a /\ timers' = timers \cup {d} /\ activeTimers' = activeTimers \cup {<<a, n>>}
    BY <1>2
  <2> HIDE DEF d
  <2>4. ActivesOf(timers', heap') = ActivesOf(timers, heap') \cup {<<d[2], heap'[d[2]]>>}
    BY <2>3 DEF ActivesOf
  <2>5. activeTimers' = ActivesOf(timers', heap')
    BY <2>1, <2>2, <2>3, <2>4
  <2> QED BY <2>5 DEF Actives
<1>10. Entries'
  <2>1. heap'[a] = n
    BY <1>4
  <2>2. \A e \in timers \cup expired : heap'[e[2]] # 0 /\ e[1] = expiration'[heap'[e[2]]]
    BY <1>4 DEF IInv, Entries
  <2> QED BY <1>2, <1>4, <2>1, <2>2 DEF Entries
<1>11. OneEntry'
  BY <1>2, <1>4 DEF IInv, OneEntry
<1>12. \A b : /\ InTimers(b)' <=> InTimers(b) \/ b = a
              /\ InExpired(b)' <=> InExpired(b)
              /\ InQueue(b)' <=> InQueue(b)
              /\ InCall(b)' <=> InCall(b)
  BY <1>2, InsertedEntry DEF InExpired, InQueue, InCall
<1>13. Owned'
  BY <1>4, <1>12 DEF IInv, Owned
<1>14. QueuedOnce' /\ CalledOnce'
  BY <1>2 DEF IInv, QueuedOnce, CalledOnce
<1>15. CancelledIsKnown'
  BY <1>2, <1>4, <1>7, <1>12 DEF IInv, CancelledIsKnown
<1>16. pc' = "idle" => expired' = {}
  BY <1>2 DEF IInv
<1> QED BY <1>5, <1>6, <1>8, <1>9, <1>10, <1>11, <1>13, <1>14, <1>15, <1>16 DEF IInv

\* addTimerInLoop as a functor: timers_ owns the Timer now.
LEMMA AddTimerInLoopStep ==
  ASSUME IInv, AddTimerInLoop
  PROVE  IInv'
<1> DEFINE a == Head(queue).addr
           when == expiration[heap[a]]
<1>1. TypeOK /\ queue \in Seq(Functors) /\ QueuedOnce
  BY DEF IInv, TypeOK, Functors
<1>2. /\ queue # <<>> /\ Head(queue).op = "add" /\ queue' = Tail(queue)
      /\ armed' = ArmedAfterInsert(when)
      /\ timers' = timers \cup {<<when, a>>}
      /\ activeTimers' = activeTimers \cup {<<a, heap[a]>>}
      /\ UNCHANGED <<now, memVars, cancelingTimers, expired, torun, readNow, pc, caller, ids,
                     cancelled>>
  BY DEF AddTimerInLoop
<1>3. /\ queue' \in Seq(Functors) /\ QueuedOnce' /\ InQueue(a) /\ a \in Addrs
      /\ \A b : InQueue(b)' <=> InQueue(b) /\ b # a
  <2>1. Head(queue) \in Functors
    BY <1>1, <1>2, QueueTail
  <2> QED BY <1>1, <1>2, <2>1, QueueTail DEF Functors
<1>4. heap[a] # 0 /\ ~InTimers(a) /\ ~InExpired(a) /\ ~InCall(a)
  BY <1>3 DEF IInv, Owned
<1>5. heap[a] \in Sequences_
  BY <1>1, <1>3, <1>4, BoundsAssumption DEF TypeOK, Sequences_
<1>6. when \in Nat
  BY <1>1, <1>5 DEF TypeOK
<1>7. when = expiration[heap[a]]
  OBVIOUS
<1> HIDE DEF a, when
<1>8. armed' \in Nat /\ ArmedForAll'
  BY <1>2, <1>3, <1>6, ArmedInsert
<1>9. TypeOK'
  <2>1. timers' \subseteq Nat \X Addrs
    BY <1>1, <1>2, <1>3, <1>6 DEF TypeOK
  <2>2. activeTimers' \subseteq Addrs \X Sequences_
    BY <1>1, <1>2, <1>3, <1>5 DEF TypeOK
  <2> QED BY <1>1, <1>2, <1>3, <1>8, <2>1, <2>2 DEF TypeOK, memVars, Functors
<1>10. Actives' /\ Entries' /\ OneEntry'
  <2>1. \A e \in timers \cup expired : e[2] # a
    BY <1>4 DEF InTimers, InExpired
  <2>2. UNCHANGED <<heap, expiration, expired>>
    BY <1>2 DEF memVars
  <2>3. Actives'
    <3> DEFINE d == <<when, a>>
    <3>1. d[2] = a /\ timers' = timers \cup {d} /\ activeTimers' = activeTimers \cup {<<a, heap[a]>>}
      BY <1>2
    <3> HIDE DEF d
    <3>2. activeTimers = ActivesOf(timers, heap)
      BY DEF IInv, Actives
    <3>3. ActivesOf(timers', heap') = ActivesOf(timers, heap') \cup {<<d[2], heap'[d[2]]>>}
      BY <3>1 DEF ActivesOf
    <3>4. activeTimers' = ActivesOf(timers', heap')
      BY <2>2, <3>1, <3>2, <3>3
    <3> QED BY <3>4 DEF Actives
  <2>4. Entries'
    BY <1>2, <1>4, <1>7, <2>2 DEF IInv, Entries
  <2>5. OneEntry'
    BY <1>2, <2>1, <2>2 DEF IInv, OneEntry
  <2> QED BY <2>3, <2>4, <2>5
<1>11. \A b : /\ InTimers(b)' <=> InTimers(b) \/ b = a
              /\ InExpired(b)' <=> InExpired(b)
              /\ InCall(b)' <=> InCall(b)
  BY <1>2, InsertedEntry DEF InExpired, InCall
<1>12. heap' = heap
  BY <1>2 DEF memVars
<1>13. Owned'
  BY <1>3, <1>4, <1>11, <1>12 DEF IInv, Owned
<1>14. CalledOnce'
  BY <1>2 DEF IInv, CalledOnce
<1>15. Unique' /\ CancelledIsKnown'
  BY <1>2, <1>11 DEF IInv, Unique, CancelledIsKnown, memVars
<1>16. pc' = "idle" => expired' = {}
  BY <1>2 DEF IInv
<1> QED BY <1>3, <1>8, <1>9, <1>10, <1>13, <1>14, <1>15, <1>16 DEF IInv

-----------------------------------------------------------------------------
(* cancelInLoop.                                                           *)

\* An active timer is in timers_ under its expiration, and nowhere else.
LEMMA ActiveFacts ==
  ASSUME IInv, NEW id \in activeTimers
  PROVE  /\ id = <<id[1], heap[id[1]]>> /\ id[1] \in Addrs
         /\ heap[id[1]] = id[2] /\ heap[id[1]] # 0
         /\ <<expiration[heap[id[1]]], id[1]>> \in timers
         /\ \A e \in timers : e[2] = id[1] <=> e = <<expiration[heap[id[1]]], id[1]>>
<1>1. PICK e \in timers : id = <<e[2], heap[e[2]]>>
  BY DEF IInv, Actives, ActivesOf
<1>2. e \in Nat \X Addrs
  BY DEF IInv, TypeOK
<1>3. heap[e[2]] # 0 /\ e[1] = expiration[heap[e[2]]]
  BY DEF IInv, Entries
<1>4. id[1] = e[2] /\ id[2] = heap[e[2]] /\ e = <<e[1], e[2]>> /\ e[2] \in Addrs
  BY <1>1, <1>2
<1>5. e = <<expiration[heap[id[1]]], id[1]>>
  BY <1>3, <1>4
<1>6. \A f \in timers : f[2] = e[2] => f = e
  BY DEF IInv, OneEntry
<1>7. \A f \in timers : f[2] = id[1] <=> f = <<expiration[heap[id[1]]], id[1]>>
  BY <1>4, <1>5, <1>6
<1> QED BY <1>1, <1>3, <1>4, <1>5, <1>7

LEMMA CancelInLoopStep ==
  ASSUME IInv, NEW id \in Addrs \X Sequences_, CancelInLoop(id),
         queue' \in Seq(Functors), QueuedOnce', \A a : InQueue(a)' <=> InQueue(a)
  PROVE  IInv'
<1>1. TypeOK
  BY DEF IInv
<1>2. UNCHANGED <<now, armed, expiration, interval, created, expired, torun, readNow, pc,
                  caller, ids>>
  BY DEF CancelInLoop
<1>3. CalledOnce' /\ \A b : (InCall(b)' <=> InCall(b)) /\ (InExpired(b)' <=> InExpired(b))
  BY <1>2 DEF IInv, CalledOnce, InCall, InExpired
<1>4. CASE id \in activeTimers
  <2> DEFINE a == id[1]
             d == <<expiration[heap[a]], a>>
  <2>1. /\ timers' = timers \ {d} /\ activeTimers' = activeTimers \ {id}
        /\ heap' = [heap EXCEPT ![a] = 0] /\ UNCHANGED cancelingTimers
    BY <1>4 DEF CancelInLoop
  <2>2. /\ id = <<a, heap[a]>> /\ a \in Addrs /\ heap[a] = id[2] /\ heap[a] # 0
        /\ d \in timers /\ \A e \in timers : e[2] = a <=> e = d
    BY <1>4, ActiveFacts
  <2> HIDE DEF a, d
  <2>3. d[2] = a
    BY <2>2
  <2>4. InTimers(a) /\ ~InExpired(a) /\ ~InQueue(a) /\ ~InCall(a)
    <3>1. InTimers(a)
      BY <2>2, <2>3 DEF InTimers
    <3> QED BY <2>2, <3>1 DEF IInv, Owned
  <2>5. cancelled' = cancelled \cup {id[2]}
    BY <2>2, <2>3 DEF CancelInLoop, NoteCancel, a
  <2>6. heap' \in [Addrs -> 0..MaxTimers] /\ \A b \in Addrs : heap'[b] = IF b = a THEN 0 ELSE heap[b]
    BY <1>1, <2>1, <2>2, BoundsAssumption DEF TypeOK
  <2>7. TypeOK'
    <3>1. timers' \subseteq Nat \X Addrs /\ activeTimers' \subseteq Addrs \X Sequences_
      BY <1>1, <2>1 DEF TypeOK
    <3>2. cancelled' \subseteq Sequences_
      BY <1>1, <2>5 DEF TypeOK
    <3> QED BY <1>1, <1>2, <2>1, <2>6, <3>1, <3>2 DEF TypeOK, Functors
  <2>8. \A e \in timers' \cup expired : e \in Nat \X Addrs /\ e[2] # a /\ heap'[e[2]] = heap[e[2]]
    <3>1. \A e \in timers' \cup expired : e \in Nat \X Addrs /\ e[2] # a
      BY <1>1, <2>1, <2>2, <2>4 DEF InExpired, TypeOK
    <3> QED BY <2>6, <3>1
  <2>9. Entries' /\ OneEntry'
    BY <1>2, <2>1, <2>8 DEF IInv, Entries, OneEntry
  <2>10. Actives'
    <3>1. activeTimers = ActivesOf(timers, heap)
      BY DEF IInv, Actives
    <3>2. ASSUME NEW p PROVE p \in activeTimers \ {id} <=> p \in ActivesOf(timers', heap')
      <4>1. ASSUME p \in activeTimers, p # id PROVE p \in ActivesOf(timers', heap')
        <5>1. PICK e \in timers : p = <<e[2], heap[e[2]]>>
          BY <3>1, <4>1 DEF ActivesOf
        <5>2. e # d
          BY <2>2, <2>3, <4>1, <5>1
        <5>3. e \in timers' /\ heap'[e[2]] = heap[e[2]]
          BY <2>1, <2>8, <5>2
        <5> QED BY <5>1, <5>3 DEF ActivesOf
      <4>2. ASSUME p \in ActivesOf(timers', heap') PROVE p \in activeTimers /\ p # id
        <5>1. PICK e \in timers' : p = <<e[2], heap'[e[2]]>>
          BY <4>2 DEF ActivesOf
        <5>2. e \in timers /\ heap'[e[2]] = heap[e[2]] /\ e[2] # a
          BY <2>1, <2>8
        <5>3. p # id
          BY <2>2, <5>1, <5>2
        <5> QED BY <3>1, <5>1, <5>2, <5>3 DEF ActivesOf
      <4> QED BY <4>1, <4>2
    <3> QED BY <2>1, <3>2 DEF Actives
  <2>11. \A b : InTimers(b)' <=> InTimers(b) /\ b # a
    BY <2>1, <2>2, <2>3 DEF InTimers
  <2>12. Owned'
    BY <1>3, <2>4, <2>6, <2>11 DEF IInv, Owned
  <2>13. Unique'
    <3>1. \A b \in Addrs : heap[b] \in Nat /\ heap[b] <= created /\ created \in Nat
      BY <1>1, BoundsAssumption DEF IInv, Unique, TypeOK
    <3>2. \A b \in Addrs : heap'[b] <= created
      BY <2>6, <3>1
    <3>3. id[2] <= created
      BY <2>2, <3>1
    <3> QED BY <1>2, <2>5, <2>6, <3>2, <3>3 DEF IInv, Unique
  <2>14. CancelledIsKnown'
    <3> SUFFICES ASSUME NEW b \in Addrs, heap'[b] \in cancelled'
                 PROVE  InExpired(b)' /\ <<b, heap'[b]>> \in cancelingTimers'
      BY DEF CancelledIsKnown
    <3>1. 0 \notin cancelled'
      BY <2>7, BoundsAssumption DEF TypeOK, Sequences_
    <3>2. b # a /\ heap'[b] = heap[b]
      BY <2>6, <3>1
    <3>3. heap[b] # heap[a]
      BY <2>2, <3>2 DEF IInv, Unique
    <3>4. heap[b] \in cancelled
      BY <2>2, <2>5, <3>2, <3>3
    <3> QED BY <1>3, <2>1, <3>2, <3>4 DEF IInv, CancelledIsKnown
  <2>15. ArmedForAll' /\ (pc' = "idle" => expired' = {})
    BY <1>2, <2>1 DEF IInv, ArmedForAll
  <2> QED BY <1>3, <2>7, <2>9, <2>10, <2>12, <2>13, <2>14, <2>15 DEF IInv
<1>5. CASE id \notin activeTimers
  <2>1. /\ cancelingTimers' = (IF pc # "idle" THEN cancelingTimers \cup {id} ELSE cancelingTimers)
        /\ UNCHANGED <<timers, activeTimers, heap>>
    BY <1>5 DEF CancelInLoop, callingExpiredTimers
  <2>2. id[1] \in Addrs /\ id[2] \in Sequences_ /\ id = <<id[1], id[2]>>
    OBVIOUS
  <2>3. \/ cancelled' = cancelled
        \/ /\ cancelled' = cancelled \cup {id[2]} /\ heap[id[1]] = id[2]
           /\ \E e \in timers \cup expired : e[2] = id[1]
    BY DEF CancelInLoop, NoteCancel
  <2>4. ~(InTimers(id[1]) /\ heap[id[1]] = id[2])
    BY <1>5, <2>2 DEF IInv, Actives, ActivesOf, InTimers
  <2>5. \/ cancelled' = cancelled
        \/ /\ cancelled' = cancelled \cup {id[2]} /\ heap[id[1]] = id[2]
           /\ InExpired(id[1]) /\ id \in cancelingTimers'
    BY <2>1, <2>3, <2>4 DEF IInv, InTimers, InExpired
  <2>6. TypeOK'
    <3>1. cancelingTimers' \subseteq Addrs \X Sequences_ /\ cancelled' \subseteq Sequences_
      BY <1>1, <2>1, <2>2, <2>5 DEF TypeOK
    <3> QED BY <1>1, <1>2, <2>1, <3>1 DEF TypeOK, Functors
  <2>7. Actives' /\ Entries' /\ OneEntry'
    BY <1>2, <2>1 DEF IInv, Actives, Entries, OneEntry
  <2>8. \A b : InTimers(b)' <=> InTimers(b)
    BY <2>1 DEF InTimers
  <2>9. Owned'
    BY <1>3, <2>1, <2>8 DEF IInv, Owned
  <2>10. Unique'
    <3>1. heap[id[1]] <= created
      BY <2>2 DEF IInv, Unique
    <3> QED BY <1>2, <2>1, <2>5, <3>1 DEF IInv, Unique
  <2>11. CancelledIsKnown'
    <3> SUFFICES ASSUME NEW b \in Addrs, heap[b] \in cancelled'
                 PROVE  InExpired(b) /\ <<b, heap[b]>> \in cancelingTimers'
      BY <1>3, <2>1 DEF CancelledIsKnown
    <3>1. CASE heap[b] \in cancelled
      BY <2>1, <3>1 DEF IInv, CancelledIsKnown
    <3>2. CASE heap[b] \notin cancelled
      <4>1. heap[b] = id[2] /\ heap[id[1]] = id[2] /\ InExpired(id[1]) /\ id \in cancelingTimers'
        BY <2>5, <3>2
      <4>2. id[2] # 0
        BY <2>2, BoundsAssumption DEF Sequences_
      <4>3. b = id[1]
        BY <2>2, <4>1, <4>2 DEF IInv, Unique
      <4> QED BY <2>2, <4>1, <4>3
    <3> QED BY <3>1, <3>2
  <2>12. ArmedForAll' /\ (pc' = "idle" => expired' = {})
    BY <1>2, <2>1 DEF IInv, ArmedForAll
  <2> QED BY <1>3, <2>6, <2>7, <2>9, <2>10, <2>11, <2>12 DEF IInv
<1> QED BY <1>4, <1>5

LEMMA CancelSteps ==
  ASSUME IInv, CancelQueued \/ \E id \in ids : CancelOnLoop(id)
  PROVE  IInv'
<1>1. TypeOK /\ queue \in Seq(Functors) /\ QueuedOnce
  BY DEF IInv, TypeOK, Functors
<1>2. CASE CancelQueued
  <2>1. queue # <<>> /\ queue' = Tail(queue) /\ Head(queue).op = "cancel"
    BY <1>2 DEF CancelQueued
  <2>2. /\ Head(queue) \in Functors /\ queue' \in Seq(Functors) /\ QueuedOnce'
        /\ \A a : InQueue(a)' <=> InQueue(a)
    BY <1>1, <2>1, QueueTail
  <2>3. <<Head(queue).addr, Head(queue).seq>> \in Addrs \X Sequences_
    BY <2>2 DEF Functors
  <2>4. CancelInLoop(<<Head(queue).addr, Head(queue).seq>>)
    BY <1>2 DEF CancelQueued
  <2> QED BY <2>2, <2>3, <2>4, CancelInLoopStep
<1>3. ASSUME NEW id \in ids, CancelOnLoop(id) PROVE IInv'
  <2>1. id \in Addrs \X Sequences_
    BY <1>1 DEF TypeOK
  <2>2. CancelInLoop(id) /\ queue' = queue
    BY <1>3 DEF CancelOnLoop
  <2>3. queue' \in Seq(Functors) /\ QueuedOnce' /\ \A a : InQueue(a)' <=> InQueue(a)
    BY <1>1, <2>2 DEF QueuedOnce, InQueue
  <2> QED BY <2>1, <2>2, <2>3, CancelInLoopStep
<1> QED BY <1>2, <1>3

-----------------------------------------------------------------------------
(* handleRead.                                                             *)

LEMMA HandleReadStep ==
  ASSUME IInv, HandleRead
  PROVE  IInv'
<1> DEFINE due == {e \in timers : e[1] <= now}
<1>1. TypeOK /\ pc = "idle" /\ expired = {}
  BY DEF IInv, HandleRead
<1>2. /\ expired' = due /\ torun' = due /\ timers' = timers \ due
      /\ activeTimers' = {p \in activeTimers : \A e \in due : e[2] # p[1]}
      /\ armed' = 0 /\ readNow' = now /\ cancelingTimers' = {} /\ pc' = "calling"
      /\ UNCHANGED <<now, memVars, queue, caller, ids, cancelled>>
  BY DEF HandleRead
<1>3. due \subseteq timers
  OBVIOUS
<1> HIDE DEF due
<1>4. UNCHANGED <<heap, expiration, interval, created>>
  BY <1>2 DEF memVars
<1>5. TypeOK'
  <2>1. /\ timers' \subseteq Nat \X Addrs /\ expired' \subseteq Nat \X Addrs
        /\ activeTimers' \subseteq Addrs \X Sequences_ /\ torun' \subseteq expired'
        /\ readNow' \in Nat
    BY <1>1, <1>2, <1>3, BoundsAssumption DEF TypeOK
  <2> QED BY <1>1, <1>2, <1>4, <2>1 DEF TypeOK
<1>6. \A e, f \in timers : e[2] = f[2] => e = f
  BY DEF IInv, OneEntry
<1>7. timers' \cup expired' = timers
  BY <1>2, <1>3
<1>8. Entries' /\ OneEntry'
  BY <1>4, <1>7 DEF IInv, Entries, OneEntry
<1>9. Actives'
  <2>1. activeTimers = ActivesOf(timers, heap)
    BY DEF IInv, Actives
  <2>2. ASSUME NEW p
        PROVE  p \in activeTimers /\ (\A e \in due : e[2] # p[1]) <=> p \in ActivesOf(timers', heap)
    <3>1. ASSUME p \in activeTimers, \A e \in due : e[2] # p[1]
          PROVE  p \in ActivesOf(timers', heap)
      <4>1. PICK e \in timers : p = <<e[2], heap[e[2]]>>
        BY <2>1, <3>1 DEF ActivesOf
      <4>2. e \in timers'
        BY <1>2, <3>1, <4>1
      <4> QED BY <4>1, <4>2 DEF ActivesOf
    <3>2. ASSUME p \in ActivesOf(timers', heap)
          PROVE  p \in activeTimers /\ \A e \in due : e[2] # p[1]
      <4>1. PICK e \in timers' : p = <<e[2], heap[e[2]]>>
        BY <3>2 DEF ActivesOf
      <4>2. e \in timers /\ e \notin due
        BY <1>2
      <4>3. p \in activeTimers
        BY <2>1, <4>1, <4>2 DEF ActivesOf
      <4>4. p[1] = e[2]
        BY <4>1
      <4> QED BY <1>3, <1>6, <4>2, <4>3, <4>4
    <3> QED BY <3>1, <3>2
  <2>3. activeTimers' = ActivesOf(timers', heap)
    BY <1>2, <2>2
  <2> QED BY <1>4, <2>3 DEF Actives
<1>10. \A b : /\ InTimers(b) <=> InTimers(b)' \/ InExpired(b)'
              /\ ~(InTimers(b)' /\ InExpired(b)')
              /\ ~InExpired(b)
              /\ InQueue(b)' <=> InQueue(b)
              /\ InCall(b)' <=> InCall(b)
  <2>1. \A b : ~InExpired(b)
    BY <1>1 DEF InExpired
  <2>2. \A b : (InQueue(b)' <=> InQueue(b)) /\ (InCall(b)' <=> InCall(b))
    BY <1>2 DEF InQueue, InCall
  <2>3. \A b : /\ InTimers(b) <=> InTimers(b)' \/ InExpired(b)'
               /\ ~(InTimers(b)' /\ InExpired(b)')
    BY <1>2, <1>3, <1>6, <1>7 DEF InTimers, InExpired
  <2> QED BY <2>1, <2>2, <2>3
<1>11. Owned'
  BY <1>4, <1>10 DEF IInv, Owned
<1>12. QueuedOnce' /\ CalledOnce'
  BY <1>2 DEF IInv, QueuedOnce, CalledOnce
<1>13. Unique'
  BY <1>2, <1>4 DEF IInv, Unique
<1>14. CancelledIsKnown'
  BY <1>2, <1>4, <1>10 DEF IInv, CancelledIsKnown
<1>15. ArmedForAll' /\ (pc' = "idle" => expired' = {})
  BY <1>2 DEF ArmedForAll
<1> QED BY <1>5, <1>8, <1>9, <1>11, <1>12, <1>13, <1>14, <1>15 DEF IInv

LEMMA RestartIsNatural ==
  ASSUME IInv
  PROVE  \A q \in Sequences_ :
           interval[q] \in Nat /\ expiration[q] \in Nat /\ readNow + interval[q] \in Nat
<1>1. /\ interval \in [Sequences_ -> Intervals \cup {0}] /\ readNow \in Nat
      /\ expiration \in [Sequences_ -> Nat]
  BY DEF IInv, TypeOK
<1>2. Intervals \cup {0} \subseteq Nat
  BY IntervalsAssumption
<1>3. \A q \in Sequences_ : interval[q] \in Nat
  BY <1>1, <1>2
<1> QED BY <1>1, <1>3

\* reset: every Timer of the vector goes back to timers_ or is deleted.
LEMMA ResetStep ==
  ASSUME IInv, Reset
  PROVE  IInv'
<1> DEFINE again == {e[2] : e \in Restarted}
           over == {e[2] : e \in expired} \ again
           new(a) == readNow + interval[heap[a]]
           added == {<<readNow + interval[heap[a]], a>> : a \in again}
<1>1. /\ TypeOK /\ heap \in [Addrs -> 0..MaxTimers] /\ MaxTimers \in Nat
      /\ timers \subseteq Nat \X Addrs /\ expired \subseteq Nat \X Addrs
  BY BoundsAssumption DEF IInv, TypeOK
<1>2. /\ expiration' = [q \in Sequences_ |-> IF \E a \in again : heap[a] = q
                                             THEN readNow + interval[q] ELSE expiration[q]]
      /\ timers' = timers \cup added
      /\ activeTimers' = activeTimers \cup {<<a, heap[a]>> : a \in again}
      /\ heap' = [a \in Addrs |-> IF a \in over THEN 0 ELSE heap[a]]
      /\ armed' = (IF timers' = {} THEN armed ELSE ArmedAt(First(timers')[1]))
      /\ expired' = {} /\ pc' = "idle" /\ torun = {}
      /\ UNCHANGED <<now, interval, created, cancelingTimers, torun, readNow, queue, caller, ids,
                     cancelled>>
  BY DEF Reset
<1>3. \A a \in again : /\ a \in Addrs /\ InExpired(a) /\ heap[a] \in Sequences_
                       /\ <<a, heap[a]>> \notin cancelingTimers
  <2>1. \A e \in expired : e[2] \in Addrs /\ heap[e[2]] # 0
    BY <1>1 DEF IInv, Entries
  <2>2. \A e \in expired : heap[e[2]] \in Sequences_
    BY <1>1, <2>1 DEF Sequences_
  <2> QED BY <2>1, <2>2 DEF Restarted, InExpired
<1>4. \A a : InExpired(a) <=> a \in again \/ a \in over
  BY DEF InExpired, Restarted
<1>5. \A a \in over : a \notin again
  OBVIOUS
<1>6. \A a \in again : new(a) \in Nat
  <2>1. readNow \in Nat
    BY <1>1 DEF TypeOK
  <2>2. \A a \in again : interval[heap[a]] \in Nat
    BY <1>3, RestartIsNatural
  <2> HIDE DEF again
  <2> QED BY <2>1, <2>2
<1>7. \A d \in added : \E a \in again : d = <<new(a), a>>
  OBVIOUS
<1>8. \A a \in again : <<new(a), a>> \in added
  OBVIOUS
<1>9. \A a \in Addrs : heap'[a] = IF a \in over THEN 0 ELSE heap[a]
  BY <1>2
<1>10. \A a \in again : expiration'[heap[a]] = new(a)
  BY <1>2, <1>3
<1>11. \A q \in Sequences_ : (\A a \in again : heap[a] # q) => expiration'[q] = expiration[q]
  BY <1>2
<1>12. expiration' \in [Sequences_ -> Nat]
  <2>1. \A q \in Sequences_ : readNow + interval[q] \in Nat /\ expiration[q] \in Nat
    BY RestartIsNatural
  <2> HIDE DEF again
  <2> QED BY <1>2, <2>1
<1> HIDE DEF again, over, new, added
<1>13. TypeOK'
  <2>1. timers' \subseteq Nat \X Addrs
    <3>1. ASSUME NEW d \in added PROVE d \in Nat \X Addrs
      <4>1. PICK a \in again : d = <<new(a), a>>
        BY <1>7
      <4> QED BY <1>3, <1>6, <4>1
    <3> QED BY <1>1, <1>2, <3>1
  <2>2. activeTimers' \subseteq Addrs \X Sequences_
    <3>1. activeTimers \subseteq Addrs \X Sequences_
      BY <1>1 DEF TypeOK
    <3> QED BY <1>2, <1>3, <3>1
  <2>3. heap' \in [Addrs -> 0..MaxTimers]
    BY <1>1, <1>2
  <2>4. armed' \in Nat
    <3>1. timers' # {} => First(timers')[1] \in Nat
      BY <2>1, FirstIsFirst
    <3> QED BY <1>1, <1>2, <3>1, BoundsAssumption DEF TypeOK, ArmedAt
  <2>5. expired' \subseteq Nat \X Addrs /\ torun' \subseteq expired' /\ pc' \in {"idle", "calling", "callback"}
    BY <1>2
  <2> QED BY <1>1, <1>2, <1>12, <2>1, <2>2, <2>3, <2>4, <2>5 DEF TypeOK
<1>14. \A e \in timers : /\ e[2] \in Addrs /\ e[2] \notin again /\ e[2] \notin over
                         /\ heap'[e[2]] = heap[e[2]]
  <2>1. \A e \in timers : e[2] \in Addrs /\ InTimers(e[2])
    BY <1>1 DEF InTimers
  <2>2. \A e \in timers : ~InExpired(e[2])
    BY <2>1 DEF IInv, Owned
  <2> QED BY <1>4, <1>9, <2>1, <2>2
<1>15. \A a \in again : heap'[a] = heap[a] /\ heap[a] # 0
  <2>1. \A a \in again : a \notin over /\ a \in Addrs
    BY <1>3, <1>5
  <2>2. \A q \in Sequences_ : q # 0
    BY <1>1 DEF Sequences_
  <2> QED BY <1>3, <1>9, <2>1, <2>2
<1>16. \A d \in added : d[2] \in again /\ d[1] = new(d[2]) /\ d = <<new(d[2]), d[2]>>
  BY <1>7
<1>17. Entries'
  <2>1. ASSUME NEW e \in timers PROVE heap'[e[2]] # 0 /\ e[1] = expiration'[heap'[e[2]]]
    <3>1. heap[e[2]] # 0 /\ e[1] = expiration[heap[e[2]]]
      BY DEF IInv, Entries
    <3>2. heap[e[2]] \in Sequences_
      BY <1>1, <1>14, <3>1 DEF Sequences_
    <3>3. \A a \in again : heap[a] # heap[e[2]]
      BY <1>3, <1>14, <3>1 DEF IInv, Unique
    <3> QED BY <1>11, <1>14, <3>1, <3>2, <3>3
  <2>2. ASSUME NEW d \in added PROVE heap'[d[2]] # 0 /\ d[1] = expiration'[heap'[d[2]]]
    BY <1>10, <1>15, <1>16
  <2> QED BY <1>2, <2>1, <2>2 DEF Entries
<1>18. OneEntry'
  <2>1. \A e, f \in timers : e[2] = f[2] => e = f
    BY DEF IInv, OneEntry
  <2>2. \A d, g \in added : d[2] = g[2] => d = g
    BY <1>16
  <2>3. \A e \in timers, d \in added : e[2] # d[2]
    BY <1>14, <1>16
  <2>4. timers' \cup expired' = timers \cup added
    BY <1>2
  <2> QED BY <2>1, <2>2, <2>3, <2>4 DEF OneEntry
<1>19. Actives'
  <2>1. activeTimers = ActivesOf(timers, heap)
    BY DEF IInv, Actives
  <2>2. ASSUME NEW p
        PROVE  p \in activeTimers' <=> p \in ActivesOf(timers', heap')
    <3>1. p \in activeTimers' <=> (\E e \in timers : p = <<e[2], heap[e[2]]>>)
                                  \/ \E a \in again : p = <<a, heap[a]>>
      BY <1>2, <2>1 DEF ActivesOf
    <3>2. p \in ActivesOf(timers', heap') <=> (\E e \in timers : p = <<e[2], heap'[e[2]]>>)
                                              \/ \E d \in added : p = <<d[2], heap'[d[2]]>>
      BY <1>2 DEF ActivesOf
    <3>3. (\E d \in added : p = <<d[2], heap'[d[2]]>>) <=> \E a \in again : p = <<a, heap[a]>>
      <4>1. ASSUME NEW d \in added PROVE <<d[2], heap'[d[2]]>> = <<d[2], heap[d[2]]>> /\ d[2] \in again
        BY <1>15, <1>16
      <4>2. ASSUME NEW a \in again
            PROVE \E d \in added : d[2] = a /\ <<d[2], heap'[d[2]]>> = <<a, heap[a]>>
        <5>1. <<new(a), a>> \in added /\ <<new(a), a>>[2] = a
          BY <1>8
        <5> QED BY <1>15, <5>1
      <4> QED BY <4>1, <4>2
    <3> QED BY <1>14, <3>1, <3>2, <3>3
  <2> QED BY <2>2 DEF Actives, ActivesOf
<1>20. \A b : /\ InTimers(b)' <=> InTimers(b) \/ b \in again
              /\ ~InExpired(b)'
              /\ InQueue(b)' <=> InQueue(b)
              /\ InCall(b)' <=> InCall(b)
  <2>1. \A b : (\E d \in added : d[2] = b) <=> b \in again
    <3>1. ASSUME NEW b \in again PROVE \E d \in added : d[2] = b
      <4>1. <<new(b), b>> \in added /\ <<new(b), b>>[2] = b
        BY <1>8
      <4> QED BY <4>1
    <3> QED BY <1>16, <3>1
  <2>2. \A b : InTimers(b)' <=> InTimers(b) \/ b \in again
    BY <1>2, <2>1 DEF InTimers
  <2>3. \A b : ~InExpired(b)' /\ (InQueue(b)' <=> InQueue(b)) /\ (InCall(b)' <=> InCall(b))
    BY <1>2 DEF InExpired, InQueue, InCall
  <2> QED BY <2>2, <2>3
<1>21. Owned'
  BY <1>4, <1>5, <1>9, <1>20 DEF IInv, Owned
<1>22. QueuedOnce' /\ CalledOnce'
  BY <1>2 DEF IInv, QueuedOnce, CalledOnce
<1>23. Unique'
  <2>1. \A a \in Addrs : 0 <= created /\ heap[a] <= created
    BY <1>1, BoundsAssumption DEF IInv, Unique, TypeOK
  <2> QED BY <1>2, <1>9, <2>1 DEF IInv, Unique
<1>24. CancelledIsKnown'
  <2> SUFFICES ASSUME NEW b \in Addrs, heap'[b] \in cancelled PROVE FALSE
    BY <1>2 DEF CancelledIsKnown
  <2>1. 0 \notin cancelled
    BY <1>1 DEF TypeOK, Sequences_
  <2>2. heap'[b] = heap[b] /\ b \notin over
    BY <1>9, <2>1
  <2>3. InExpired(b) /\ <<b, heap[b]>> \in cancelingTimers
    BY <2>2 DEF IInv, CancelledIsKnown
  <2> QED BY <1>3, <1>4, <2>2, <2>3
<1>25. ArmedForAll'
  <2> SUFFICES ASSUME NEW e \in timers'
               PROVE  armed' # 0 /\ (armed' <= now' + 1 \/ armed' <= e[1])
    BY DEF ArmedForAll
  <2>1. timers' \in SUBSET (Nat \X Addrs) /\ now' = now /\ now \in Nat
    BY <1>1, <1>2, <1>13, BoundsAssumption DEF TypeOK
  <2>2. First(timers') \in timers' /\ First(timers')[1] <= e[1]
    BY <2>1, FirstIsFirst
  <2>3. First(timers')[1] \in Nat /\ e[1] \in Nat
    BY <2>1, <2>2
  <2>4. armed' = IF First(timers')[1] > now THEN First(timers')[1] ELSE now + 1
    BY <1>2 DEF ArmedAt
  <2> QED BY <2>1, <2>2, <2>3, <2>4
<1> QED
  BY <1>2, <1>13, <1>17, <1>18, <1>19, <1>21, <1>22, <1>23, <1>24, <1>25 DEF IInv

-----------------------------------------------------------------------------
(* The results.                                                            *)

LEMMA InitIInv == Init => IInv
<1> SUFFICES ASSUME Init PROVE IInv
  OBVIOUS
<1>1. TypeOK
  BY BoundsAssumption DEF Init, TypeOK, NoCall
<1>2. Actives /\ Entries /\ OneEntry
  BY DEF Init, Actives, ActivesOf, Entries, OneEntry
<1>3. Owned
  BY DEF Init, Owned, InTimers, InExpired, InQueue, InCall, NoCall
<1>4. QueuedOnce /\ CalledOnce
  BY DEF Init, QueuedOnce, CalledOnce, NoCall
<1>5. Unique /\ CancelledIsKnown /\ ArmedForAll
  BY DEF Init, Unique, CancelledIsKnown, ArmedForAll
<1> QED BY <1>1, <1>2, <1>3, <1>4, <1>5 DEF Init, IInv

\* The inductive invariant of the two sets, the heap of Timers and the timerfd holds in
\* every reachable state.
THEOREM Inductive == Spec => []IInv
<1>1. IInv /\ [Next]_vars => IInv'
  <2> SUFFICES ASSUME IInv, [Next]_vars PROVE IInv'
    OBVIOUS
  <2>1. CASE CallerStep
    BY <2>1, AddTimerStep, AddTimerRunInLoopStep, AddTimerReturnStep, CancelStep DEF CallerStep
  <2>2. CASE UserStep
    BY <2>2, AddTimerOnLoopStep, CancelSteps DEF UserStep
  <2> QED
    BY <2>1, <2>2, AddTimerInLoopStep, CancelSteps, HandleReadStep, ResetStep, QuietSteps DEF Next
<1> QED BY InitIInv, <1>1, PTL DEF Spec

\* timers_ and activeTimers_ hold the same timers, each once and under its current
\* expiration, whatever threads add and cancel and whatever callbacks do while
\* handleRead runs them: the asserts of insert, cancelInLoop and getExpired hold.
THEOREM TimerSetsAgree == Spec => []SetsAgree
<1>1. IInv => SetsAgree
  BY DEF IInv, Actives, ActivesOf, Entries, OneEntry, SetsAgree
<1> QED BY Inductive, <1>1, PTL

\* No Timer leaks and none is deleted twice: between new in addTimer and delete in
\* cancelInLoop or reset it has exactly one owner.
THEOREM TimersHaveOneOwner == Spec => []OneOwner
<1>1. IInv => OneOwner
  <2> SUFFICES ASSUME IInv, NEW a \in Addrs
               PROVE  IF heap[a] = 0
                      THEN ~(InTimers(a) \/ InExpired(a) \/ a \in Queued \/ InCall(a))
                      ELSE Cardinality({i \in 1..4 : <<InTimers(a), InExpired(a), a \in Queued,
                                                       InCall(a)>>[i]}) = 1
    BY DEF OneOwner, InTimers, InExpired, InCall
  <2>1. a \in Queued <=> InQueue(a)
    BY DEF Queued, InQueue
  <2>2. CASE heap[a] = 0
    BY <2>1, <2>2 DEF IInv, Owned
  <2>3. CASE heap[a] # 0
    <3> DEFINE owns == <<InTimers(a), InExpired(a), a \in Queued, InCall(a)>>
               Owners == {i \in 1..4 : owns[i]}
    <3>1. /\ owns[1] = InTimers(a) /\ owns[2] = InExpired(a)
          /\ owns[3] = (a \in Queued) /\ owns[4] = InCall(a)
      OBVIOUS
    <3>2. \A i : i \in 1..4 <=> i \in {1, 2, 3, 4}
      OBVIOUS
    <3> HIDE DEF owns
    <3>3. \E i \in {1, 2, 3, 4} : \A j \in {1, 2, 3, 4} : owns[j] <=> i = j
      BY <2>1, <2>3, <3>1 DEF IInv, Owned
    <3>4. PICK i \in {1, 2, 3, 4} : Owners = {i}
      BY <3>2, <3>3
    <3> HIDE DEF Owners
    <3>5. Cardinality(Owners) = 1
      BY <3>4, FS_Singleton
    <3> QED BY <2>3, <3>5 DEF Owners, owns
  <2> QED BY <2>2, <2>3
<1> QED BY Inductive, <1>1, PTL

\* When the loop polls, the timerfd is armed for the earliest timer or the next
\* tick: insert's earliestChanged and reset's nextExpire leave no timer behind.
THEOREM TimerfdIsArmed == Spec => []ArmedForEarliest
<1>1. IInv => ArmedForEarliest
  <2> SUFFICES ASSUME IInv, pc = "idle", timers # {}
               PROVE  armed # 0 /\ (armed <= now + 1 \/ armed <= First(timers)[1])
    BY DEF ArmedForEarliest
  <2>1. First(timers) \in timers
    BY FirstIsFirst DEF IInv, TypeOK
  <2> QED BY <2>1 DEF IInv, ArmedForAll
<1> QED BY Inductive, <1>1, PTL

\* A timer cancelled while it was active, or by a callback while handleRead was
\* running it, is not active again: reset finds it in cancelingTimers_.
THEOREM CancelledTimersStayOut == Spec => []CancelledStaysOut
<1>1. IInv => CancelledStaysOut
  <2> SUFFICES ASSUME IInv, NEW p \in activeTimers, p[2] \in cancelled PROVE FALSE
    BY DEF CancelledStaysOut
  <2>1. p[1] \in Addrs /\ heap[p[1]] = p[2] /\ InTimers(p[1])
    BY ActiveFacts DEF InTimers
  <2>2. InExpired(p[1])
    BY <2>1 DEF IInv, CancelledIsKnown
  <2> QED BY <2>1, <2>2 DEF IInv, Owned
<1> QED BY Inductive, <1>1, PTL
=============================================================================
