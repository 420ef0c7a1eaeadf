-------------------------- MODULE TcpClientProofs --------------------------
(***************************************************************************)
(* TcpClient and its Connector for any number of connections and every     *)
(* careful user that calls on the loop thread, or from another thread      *)
(* without connecting again after stop(): asserts, descriptors, raw        *)
(* pointers.                                                               *)
(***************************************************************************)
EXTENDS TcpClient, SequenceTheorems, FiniteSetTheorems, TLAPS

\* Another thread that calls connect() again after stop() cannot see that the first
\* startInLoop is still queued, or a timer just set that its cancel does not know of:
\* it starts a second attempt.  Code on the loop thread can connect again, but not while
\* a retry timer that it can no longer cancel has yet to run.
CarefulUsers ==
    \A s \in Setups :
        s.careful /\ (s.caller = "other" => ~({"connect", "stop"} \subseteq s.calls))

-----------------------------------------------------------------------------
(* The inductive invariant.                                                *)

OpRecords == [op : Ops, arg : Nat]

Items(w) == {w[i] : i \in DOMAIN w}

\* What an attempt waits for or goes on with, and the timer of ~TcpClient.
Attempt(x) == x.op \in {"startInLoop", "startNow", "timer", "retry", "runAfter", "restart",
                        "newConnection", "removeConnector"}

Event(x) == x.op \in {"getExpired", "handleWrite", "handleError", "handleClose"}

Functor(x) == x.op \in {"startInLoop", "resetChannel", "cancel", "connectDestroyed",
                        "shutdownInLoop"}

Once(x) == x.op \notin {"cancel", "shutdownInLoop"}

\* The order of the work w of the loop thread, of which the first n are todo: the rest
\* of a handler, events, "swap", functors.
Attempts(w) == \A i, j \in DOMAIN w : Attempt(w[i]) /\ Attempt(w[j]) => i = j
Repeats(w) == \A i, j \in DOMAIN w : w[i] = w[j] /\ Once(w[i]) => i = j
Rests(w, n) ==
    \A i \in DOMAIN w : Attempt(w[i]) /\ w[i].op # "startInLoop" => i = 1 /\ n # 0
Swaps(w, n) == \A i \in DOMAIN w : w[i].op = "swap" => i = n /\ w[i] = Do("swap")
Events(w, n) == \A i \in DOMAIN w : Event(w[i]) => i < n /\ w[n].op = "swap"
Functors(w, n) == \A i \in DOMAIN w : Functor(w[i]) /\ i <= n => w[n].op # "swap"
Resets(w, n) ==
    \A i \in DOMAIN w : w[i].op = "resetChannel" /\ n < i => n # 0 /\ w[n].op = "swap"
ErrorsFirst(w) ==
    \A i, j \in DOMAIN w : w[i].op = "handleError" /\ w[j].op = "handleWrite" => i < j
Plain(w) ==
    \A i \in DOMAIN w :
        w[i].op \in {"resetChannel", "handleWrite", "handleError"} => w[i].arg = 0

Ordered(w, n) ==
    /\ Attempts(w) /\ Repeats(w) /\ Rests(w, n) /\ Swaps(w, n) /\ Events(w, n)
    /\ Functors(w, n) /\ Resets(w, n) /\ ErrorsFirst(w) /\ Plain(w)

Has(o) == \E x \in Items(Work) : x.op = o

Attempting == \E x \in Items(Work) : Attempt(x)

\* There is one attempt, and what the connector's state says of it.
Tokens ==
    /\ timers \subseteq {timerId}
    /\ Attempting \/ user = "start" => timers = {} /\ channel # "added" /\ connection = 0
    /\ user = "start" => ~Attempting
    /\ timers # {} => channel # "added" /\ connection = 0
    /\ channel = "added" => connection = 0

States ==
    /\ channel = "added" => state = "kConnecting"
    /\ timers # {} \/ user = "start" => state = "kDisconnected"
    /\ Has("startInLoop") \/ Has("startNow") \/ Has("timer") \/ Has("retry") \/ Has("runAfter")
         => state = "kDisconnected"
    /\ connection # 0 \/ Has("newConnection") => state = "kConnected"

\* channel_ is reset by a functor, before anything can start an attempt.
ChannelReset ==
    /\ Has("resetChannel") <=> channel = "removed"
    /\ Has("startInLoop") \/ Has("startNow") \/ Has("restart") \/ user = "start"
         => channel = "null"
    /\ Has("handleClose") => channel = "null"
    /\ channel = "removed" \/ Has("handleWrite") \/ Has("handleError")
         => ~Has("timer") /\ (Has("getExpired") => object # "alive")
    /\ Has("handleError") => channel = "added"
    /\ Has("handleWrite") => \/ channel = "added"
                             \/ channel = "removed" /\ state = "kDisconnected"

Live(c) == conn[c] \in {"up", "shut", "peerClosed"}

Connections ==
    /\ \A c \in Conns : conn[c] = "none" <=> c >= nextConnId
    /\ \A c \in Conns : Live(c) => connection = c
    /\ nextConnId > MaxConns => connection = MaxConns /\ conn[MaxConns] \in {"up", "shut"}
    /\ \A x \in Items(Work) : x.op = "handleClose" => x.arg \in Conns /\ conn[x.arg] = "peerClosed"
    /\ \A x \in Items(Work) :
         x.op = "connectDestroyed" => x.arg \in Conns /\ conn[x.arg] = "closed"

\* Who calls, and what it has called.
Users ==
    /\ ~called => /\ timers = {} /\ channel = "null" /\ connection = 0
                  /\ state = "kDisconnected" /\ user # "start"
                  /\ \A x \in Items(Work) : Attempt(x) => x.op = "removeConnector"
    /\ stopped \/ user \in {"stop", "cancel"} => "stop" \in setup.calls
    /\ setup.caller = "loop" => user = "idle" /\ ~Has("startInLoop")
    /\ setup.caller = "loop" /\ stopped =>
         /\ timers = {} /\ ~clientConnect
         /\ ~Has("runAfter") /\ ~Has("restart") /\ ~Has("startNow")
    /\ ~setup.retry => ~Has("restart")
    /\ (setup.caller = "loop" \/ ~setup.retry) /\ (stopped \/ user = "cancel") => ~connect

\* Once ~TcpClient has run, the connector starts nothing any more; once the connector is
\* gone too, nothing of it is under way.
Gone ==
    /\ object # "alive" => timers = {} /\ setup.caller = "loop"
    /\ object # "alive" => \A x \in Items(Work) :
                             Attempt(x) => x.op \in {"timer", "retry", "removeConnector"}
    /\ object # "alive" => \A c \in Conns : Live(c) => closeCallback[c] = "detail"
    /\ object = "destroyed" => ~connect /\ connection = 0
    /\ object = "released" => ~Attempting /\ channel = "null"
    /\ Has("removeConnector") => object = "destroyed" /\ channel = "null"

Owned == {c \in Conns : conn[c] \in {"up", "shut", "peerClosed", "closed"}}

Sockets == open = Cardinality(Owned) + (IF channel = "added" THEN 1 ELSE 0)
                                     + (IF Has("newConnection") THEN 1 ELSE 0)

IInv ==
    /\ TypeOK /\ Ordered(Work, Len(todo))
    /\ Tokens /\ States /\ ChannelReset /\ Connections /\ Users /\ Gone /\ Sockets

-----------------------------------------------------------------------------
(* The order of the work.                                                  *)

\* The loop thread is done with the first of its work.
LEMMA DropFirst ==
  ASSUME NEW w \in Seq(OpRecords), NEW n \in 1..Len(w), Ordered(w, n), w[1].op # "swap"
  PROVE  /\ Tail(w) \in Seq(OpRecords) /\ Ordered(Tail(w), n - 1)
         /\ w[1] \in OpRecords
         /\ Items(w) = Items(Tail(w)) \cup {w[1]}
         /\ Once(w[1]) => w[1] \notin Items(Tail(w))
         /\ Attempt(w[1]) => \A x \in Items(Tail(w)) : ~Attempt(x)
         /\ w[1].op = "handleWrite" => \A x \in Items(Tail(w)) : x.op # "handleError"
<1> DEFINE v == Tail(w)
           m == n - 1
<1>1. /\ v \in Seq(OpRecords) /\ DOMAIN w = 1..Len(w) /\ DOMAIN v = 1..(Len(w) - 1)
      /\ Len(w) \in Nat \ {0} /\ w[1] \in OpRecords
  OBVIOUS
<1>2. \A i \in DOMAIN v : i + 1 \in DOMAIN w /\ i + 1 # 1 /\ v[i] = w[i + 1] /\ i \in Nat
  BY <1>1
<1>3. \A j \in DOMAIN w : j = 1 \/ (j - 1 \in DOMAIN v /\ v[j - 1] = w[j])
  BY <1>1
<1>4. 1 \in DOMAIN w /\ m \in Nat /\ m + 1 = n
  BY <1>1
<1>5. m # 0 => v[m] = w[n]
  BY <1>1, <1>4
<1> HIDE DEF v, m
<1>6. Attempts(v) /\ Repeats(v)
  <2>1. \A i, j \in DOMAIN v : i + 1 = j + 1 => i = j
    BY <1>2
  <2> QED BY <1>2, <2>1 DEF Ordered, Attempts, Repeats
<1>7. Rests(v, m)
  BY <1>2 DEF Ordered, Rests
<1>8. Swaps(v, m)
  BY <1>2, <1>4 DEF Ordered, Swaps
<1>9. Events(v, m)
  <2> SUFFICES ASSUME NEW i \in DOMAIN v, Event(v[i]) PROVE i < m /\ v[m].op = "swap"
    BY DEF Events
  <2>1. i + 1 < n /\ w[n].op = "swap"
    BY <1>2 DEF Ordered, Events
  <2> QED BY <1>2, <1>4, <1>5, <2>1
<1>10. Functors(v, m)
  <2> SUFFICES ASSUME NEW i \in DOMAIN v, Functor(v[i]), i <= m PROVE v[m].op # "swap"
    BY DEF Functors
  <2>1. i + 1 <= n /\ m # 0
    BY <1>1, <1>2, <1>4
  <2>2. w[n].op # "swap"
    BY <1>2, <2>1 DEF Ordered, Functors
  <2> QED BY <1>5, <2>1, <2>2
<1>11. Resets(v, m)
  <2> SUFFICES ASSUME NEW i \in DOMAIN v, v[i].op = "resetChannel", m < i
               PROVE  m # 0 /\ v[m].op = "swap"
    BY DEF Resets
  <2>1. n < i + 1
    BY <1>2, <1>4
  <2>2. w[n].op = "swap"
    BY <1>2, <2>1 DEF Ordered, Resets
  <2>3. m # 0
    BY <1>4, <2>2
  <2> QED BY <1>5, <2>2, <2>3
<1>12. ErrorsFirst(v) /\ Plain(v)
  BY <1>2 DEF Ordered, ErrorsFirst, Plain
<1>13. Ordered(v, m)
  BY <1>6, <1>7, <1>8, <1>9, <1>10, <1>11, <1>12 DEF Ordered
<1>14. Items(w) = Items(v) \cup {w[1]}
  BY <1>2, <1>3, <1>4 DEF Items
<1>15. Once(w[1]) => w[1] \notin Items(v)
  BY <1>2, <1>4 DEF Ordered, Repeats, Items
<1>16. Attempt(w[1]) => \A x \in Items(v) : ~Attempt(x)
  BY <1>2, <1>4 DEF Ordered, Attempts, Items
<1>17. w[1].op = "handleWrite" => \A x \in Items(v) : x.op # "handleError"
  <2> SUFFICES ASSUME w[1].op = "handleWrite", NEW i \in DOMAIN v, v[i].op = "handleError"
               PROVE  FALSE
    BY DEF Items
  <2>1. i + 1 < 1
    BY <1>2, <1>4 DEF Ordered, ErrorsFirst
  <2> QED BY <1>2, <2>1
<1> QED BY <1>1, <1>13, <1>14, <1>15, <1>16, <1>17 DEF v, m

\* A handler goes on with a step of its own.
LEMMA PushFirst ==
  ASSUME NEW v \in Seq(OpRecords), NEW m \in 0..Len(v), Ordered(v, m),
         NEW x \in OpRecords, Attempt(x), x.op # "startInLoop",
         \A y \in Items(v) : ~Attempt(y)
  PROVE  /\ <<x>> \o v \in Seq(OpRecords) /\ Ordered(<<x>> \o v, m + 1)
         /\ Items(<<x>> \o v) = Items(v) \cup {x}
<1> DEFINE w == <<x>> \o v
           n == m + 1
<1>1. /\ w \in Seq(OpRecords) /\ DOMAIN v = 1..Len(v) /\ DOMAIN w = 1..(Len(v) + 1)
      /\ Len(v) \in Nat /\ w[1] = x
  OBVIOUS
<1>2. \A i \in DOMAIN v : i + 1 \in DOMAIN w /\ w[i + 1] = v[i] /\ i \in Nat
  BY <1>1
<1>3. \A j \in DOMAIN w : j \in Nat /\ (j = 1 \/ (j - 1 \in DOMAIN v /\ v[j - 1] = w[j]))
  BY <1>1
<1>4. 1 \in DOMAIN w /\ n \in Nat \ {0} /\ m \in Nat /\ n - 1 = m
  BY <1>1
<1>5. m # 0 => w[n] = v[m]
  BY <1>1, <1>4
<1>6. x.op \in {"startNow", "timer", "retry", "runAfter", "restart", "newConnection",
                "removeConnector"}
  BY DEF Attempt
<1> HIDE DEF w, n
<1>7. \A j \in DOMAIN w : Attempt(w[j]) => j = 1
  BY <1>3 DEF Items
<1>8. Attempts(w) /\ Rests(w, n)
  BY <1>4, <1>7 DEF Attempts, Rests
<1>9. Repeats(w)
  <2> SUFFICES ASSUME NEW i \in DOMAIN w, NEW j \in DOMAIN w, w[i] = w[j], Once(w[i])
               PROVE  i = j
    BY DEF Repeats
  <2>1. CASE i = 1 \/ j = 1
    BY <1>1, <1>7, <2>1
  <2>2. CASE i # 1 /\ j # 1
    <3>1. i - 1 = j - 1
      BY <1>3, <2>2 DEF Ordered, Repeats
    <3> QED BY <1>3, <3>1
  <2> QED BY <2>1, <2>2
<1>10. Swaps(w, n)
  <2> SUFFICES ASSUME NEW i \in DOMAIN w, w[i].op = "swap" PROVE i = n /\ w[i] = Do("swap")
    BY DEF Swaps
  <2>1. i # 1
    BY <1>1, <1>6
  <2>2. i - 1 = m /\ v[i - 1] = Do("swap")
    BY <1>3, <2>1 DEF Ordered, Swaps
  <2> QED BY <1>3, <1>4, <2>1, <2>2
<1>11. Events(w, n)
  <2> SUFFICES ASSUME NEW i \in DOMAIN w, Event(w[i]) PROVE i < n /\ w[n].op = "swap"
    BY DEF Events
  <2>1. i # 1
    BY <1>1, <1>6 DEF Event
  <2>2. i - 1 < m /\ v[m].op = "swap" /\ i - 1 \in DOMAIN v
    BY <1>3, <2>1 DEF Ordered, Events
  <2> QED BY <1>1, <1>3, <1>4, <1>5, <2>2
<1>12. Functors(w, n)
  <2> SUFFICES ASSUME NEW i \in DOMAIN w, Functor(w[i]), i <= n PROVE w[n].op # "swap"
    BY DEF Functors
  <2>1. i # 1
    BY <1>1, <1>6 DEF Functor
  <2>2. i - 1 <= m /\ i - 1 \in DOMAIN v /\ m # 0
    BY <1>1, <1>3, <1>4, <2>1
  <2>3. v[m].op # "swap"
    BY <1>3, <2>1, <2>2 DEF Ordered, Functors
  <2> QED BY <1>5, <2>2, <2>3
<1>13. Resets(w, n)
  <2> SUFFICES ASSUME NEW i \in DOMAIN w, w[i].op = "resetChannel", n < i
               PROVE  n # 0 /\ w[n].op = "swap"
    BY DEF Resets
  <2>1. i # 1
    BY <1>1, <1>6
  <2>2. m < i - 1 /\ i - 1 \in DOMAIN v
    BY <1>1, <1>3, <1>4, <2>1
  <2>3. m # 0 /\ v[m].op = "swap"
    BY <1>3, <2>1, <2>2 DEF Ordered, Resets
  <2> QED BY <1>4, <1>5, <2>3
<1>14. ErrorsFirst(w) /\ Plain(w)
  <2>1. Plain(w)
    BY <1>1, <1>3, <1>6 DEF Ordered, Plain
  <2>2. ASSUME NEW i \in DOMAIN w, NEW j \in DOMAIN w, w[i].op = "handleError",
               w[j].op = "handleWrite"
        PROVE  i < j
    <3>1. i # 1 /\ j # 1
      BY <1>1, <1>6, <2>2
    <3>2. i - 1 < j - 1
      BY <1>3, <2>2, <3>1 DEF Ordered, ErrorsFirst
    <3> QED BY <1>3, <3>2
  <2> QED BY <2>1, <2>2 DEF ErrorsFirst
<1>15. Ordered(w, n)
  BY <1>8, <1>9, <1>10, <1>11, <1>12, <1>13, <1>14 DEF Ordered
<1>16. Items(w) = Items(v) \cup {x}
  BY <1>1, <1>2, <1>3, <1>4 DEF Items
<1> QED BY <1>1, <1>15, <1>16 DEF w, n

\* A functor is queued.
LEMMA AppendLast ==
  ASSUME NEW v \in Seq(OpRecords), NEW n \in 0..Len(v), Ordered(v, n),
         NEW x \in OpRecords, Functor(x),
         Once(x) => x \notin Items(v),
         Attempt(x) => \A y \in Items(v) : ~Attempt(y),
         x.op = "resetChannel" => x.arg = 0 /\ n # 0 /\ v[n].op = "swap"
  PROVE  /\ Append(v, x) \in Seq(OpRecords) /\ Ordered(Append(v, x), n)
         /\ Items(Append(v, x)) = Items(v) \cup {x}
<1> DEFINE w == Append(v, x)
           k == Len(v) + 1
<1>1. /\ w \in Seq(OpRecords) /\ DOMAIN v = 1..Len(v) /\ DOMAIN w = 1..k /\ Len(v) \in Nat
      /\ w[k] = x /\ \A i \in DOMAIN v : w[i] = v[i]
  OBVIOUS
<1>2. \A i \in DOMAIN w : i = k \/ i \in DOMAIN v
  BY <1>1
<1>3. k \in DOMAIN w /\ DOMAIN v \subseteq DOMAIN w /\ k \notin DOMAIN v /\ n < k /\ k \in Nat
  BY <1>1
<1>4. n # 0 => n \in DOMAIN v /\ w[n] = v[n]
  BY <1>1
<1>5. \A i \in DOMAIN v : i < k
  BY <1>1
<1>6. x.op \in {"startInLoop", "resetChannel", "cancel", "connectDestroyed", "shutdownInLoop"}
  BY DEF Functor
<1> HIDE DEF w, k
<1>7. Attempts(w) /\ Repeats(w)
  <2>1. Attempts(w)
    BY <1>1, <1>2 DEF Ordered, Attempts, Items
  <2>2. Repeats(w)
    BY <1>1, <1>2 DEF Ordered, Repeats, Items
  <2> QED BY <2>1, <2>2
<1>8. Rests(w, n)
  BY <1>1, <1>2, <1>6 DEF Ordered, Rests, Attempt
<1>9. Swaps(w, n)
  BY <1>1, <1>2, <1>6 DEF Ordered, Swaps
<1>10. Events(w, n)
  <2> SUFFICES ASSUME NEW i \in DOMAIN w, Event(w[i]) PROVE i < n /\ w[n].op = "swap"
    BY DEF Events
  <2>1. i \in DOMAIN v
    BY <1>1, <1>2, <1>6 DEF Event
  <2>2. i < n /\ v[n].op = "swap"
    BY <1>1, <2>1 DEF Ordered, Events
  <2>3. n # 0
    BY <1>1, <2>1, <2>2
  <2> QED BY <1>4, <2>2, <2>3
<1>11. Functors(w, n)
  <2> SUFFICES ASSUME NEW i \in DOMAIN w, Functor(w[i]), i <= n PROVE w[n].op # "swap"
    BY DEF Functors
  <2>1. i \in DOMAIN v /\ n # 0
    BY <1>1, <1>2, <1>3
  <2> QED BY <1>1, <1>4, <2>1 DEF Ordered, Functors
<1>12. Resets(w, n)
  <2> SUFFICES ASSUME NEW i \in DOMAIN w, w[i].op = "resetChannel", n < i
               PROVE  n # 0 /\ w[n].op = "swap"
    BY DEF Resets
  <2>1. n # 0 /\ v[n].op = "swap"
    BY <1>1, <1>2 DEF Ordered, Resets
  <2> QED BY <1>4, <2>1
<1>13. ErrorsFirst(w) /\ Plain(w)
  BY <1>1, <1>2, <1>6 DEF Ordered, ErrorsFirst, Plain
<1>14. Ordered(w, n)
  BY <1>7, <1>8, <1>9, <1>10, <1>11, <1>12, <1>13 DEF Ordered
<1>15. Items(w) = Items(v) \cup {x}
  BY <1>1, <1>2, <1>3 DEF Items
<1> QED BY <1>1, <1>14, <1>15 DEF w

\* doPendingFunctors swaps pendingFunctors_ out when all events are handled.
LEMMA SwapFirst ==
  ASSUME NEW w \in Seq(OpRecords), NEW n \in 1..Len(w), Ordered(w, n), w[1].op = "swap"
  PROVE  /\ n = 1 /\ Tail(w) \in Seq(OpRecords) /\ Ordered(Tail(w), Len(Tail(w)))
         /\ Items(w) = Items(Tail(w)) \cup {Do("swap")}
         /\ \A x \in Items(Tail(w)) : ~Event(x) /\ x.op # "swap"
<1> DEFINE v == Tail(w)
           m == Len(v)
<1>1. /\ v \in Seq(OpRecords) /\ DOMAIN w = 1..Len(w) /\ DOMAIN v = 1..m
      /\ Len(w) \in Nat \ {0} /\ m \in Nat /\ m = Len(w) - 1
  OBVIOUS
<1>2. \A i \in DOMAIN v : i + 1 \in DOMAIN w /\ i + 1 # 1 /\ v[i] = w[i + 1] /\ i \in Nat
  BY <1>1
<1>3. \A j \in DOMAIN w : j = 1 \/ (j - 1 \in DOMAIN v /\ v[j - 1] = w[j])
  BY <1>1
<1>4. 1 \in DOMAIN w
  BY <1>1
<1> HIDE DEF v, m
<1>5. n = 1 /\ w[1] = Do("swap")
  BY <1>4 DEF Ordered, Swaps
<1>6. \A i \in DOMAIN v : ~Event(v[i]) /\ v[i].op # "swap"
  <2> TAKE i \in DOMAIN v
  <2>1. ~Event(v[i])
    <3>1. ~(i + 1 < 1)
      BY <1>2
    <3> QED BY <1>2, <1>5, <3>1 DEF Ordered, Events
  <2>2. v[i].op # "swap"
    BY <1>2, <1>5 DEF Ordered, Swaps
  <2> QED BY <2>1, <2>2
<1>7. Attempts(v) /\ Repeats(v)
  <2>1. \A i, j \in DOMAIN v : i + 1 = j + 1 => i = j
    BY <1>2
  <2> QED BY <1>2, <2>1 DEF Ordered, Attempts, Repeats
<1>8. Rests(v, m) /\ Swaps(v, m) /\ Events(v, m)
  BY <1>2, <1>6 DEF Ordered, Rests, Swaps, Events
<1>9. Functors(v, m)
  <2> SUFFICES ASSUME NEW i \in DOMAIN v, i <= m PROVE v[m].op # "swap"
    BY DEF Functors
  <2>1. m \in DOMAIN v
    BY <1>1
  <2> QED BY <1>6, <2>1
<1>10. Resets(v, m)
  BY <1>1 DEF Resets
<1>11. ErrorsFirst(v) /\ Plain(v)
  BY <1>2, <1>6 DEF Ordered, ErrorsFirst, Plain, Event
<1>12. Ordered(v, m)
  BY <1>7, <1>8, <1>9, <1>10, <1>11 DEF Ordered
<1>13. Items(w) = Items(v) \cup {Do("swap")}
  BY <1>2, <1>3, <1>4, <1>5 DEF Items
<1> QED BY <1>1, <1>5, <1>6, <1>12, <1>13 DEF v, m, Items

\* poll returns with events s.
LEMMA PollOrder ==
  ASSUME NEW q \in Seq(OpRecords), Ordered(q, 0),
         NEW s \in Seq(OpRecords),
         \A i \in DOMAIN s : Event(s[i]),
         \A i, j \in DOMAIN s : s[i] = s[j] => i = j,
         \A i, j \in DOMAIN s : s[i].op = "handleError" /\ s[j].op = "handleWrite" => j = i + 1,
         \A i \in DOMAIN s : s[i].op \in {"handleWrite", "handleError"} => s[i].arg = 0
  PROVE  /\ s \o <<Do("swap")>> \in Seq(OpRecords)
         /\ (s \o <<Do("swap")>>) \o q \in Seq(OpRecords)
         /\ Ordered((s \o <<Do("swap")>>) \o q, Len(s \o <<Do("swap")>>))
         /\ Items((s \o <<Do("swap")>>) \o q) = Items(s) \cup {Do("swap")} \cup Items(q)
         /\ \A x \in Items(q) : x.op # "resetChannel"
<1> DEFINE d == Do("swap")
           t == s \o <<d>>
           w == t \o q
           n == Len(s) + 1
<1>1. d \in OpRecords /\ d.op = "swap" /\ d.arg = 0
  BY DEF Do, Op, OpRecords, Ops
<1>2. d = Do("swap")
  OBVIOUS
<1> HIDE DEF d
<1>3. /\ t \in Seq(OpRecords) /\ Len(t) = n /\ Len(s) \in Nat /\ Len(q) \in Nat
      /\ DOMAIN s = 1..Len(s) /\ DOMAIN q = 1..Len(q)
      /\ t[n] = d /\ \A i \in DOMAIN s : t[i] = s[i]
  BY <1>1
<1>4. DOMAIN t = 1..n
  BY <1>3
<1> HIDE DEF t
<1>5. /\ w \in Seq(OpRecords) /\ DOMAIN w = 1..(n + Len(q))
      /\ \A i \in 1..n : w[i] = t[i]
      /\ \A i \in (n + 1)..(n + Len(q)) : w[i] = q[i - n]
  BY <1>3, <1>4
<1> HIDE DEF w
<1>6. /\ \A i \in DOMAIN s : i \in DOMAIN w /\ i < n /\ w[i] = s[i]
      /\ n \in DOMAIN w /\ w[n] = d /\ n \in Nat \ {0}
      /\ \A i \in DOMAIN q : i + n \in DOMAIN w /\ w[i + n] = q[i]
      /\ \A i \in DOMAIN w : \/ i \in DOMAIN s
                             \/ i = n
                             \/ i - n \in DOMAIN q /\ w[i] = q[i - n] /\ n < i /\ i \in Nat
  <2>1. \A i \in DOMAIN s : i \in DOMAIN w /\ i < n /\ w[i] = s[i]
    BY <1>3, <1>5
  <2>2. n \in DOMAIN w /\ w[n] = d /\ n \in Nat \ {0}
    BY <1>3, <1>5
  <2>3. \A i \in DOMAIN q : i + n \in DOMAIN w /\ w[i + n] = q[i]
    <3> TAKE i \in DOMAIN q
    <3>1. i + n \in (n + 1)..(n + Len(q)) /\ (i + n) - n = i
      BY <1>3
    <3>2. w[i + n] = q[(i + n) - n]
      BY <1>5, <3>1
    <3>3. i + n \in DOMAIN w
      BY <1>3, <1>5, <3>1
    <3> QED BY <3>1, <3>2, <3>3
  <2>4. ASSUME NEW i \in DOMAIN w, i \notin DOMAIN s, i # n
        PROVE  i - n \in DOMAIN q /\ w[i] = q[i - n] /\ n < i /\ i \in Nat
    <3>1. i \in (n + 1)..(n + Len(q)) /\ i - n \in DOMAIN q /\ n < i /\ i \in Nat
      BY <1>3, <1>5, <2>4
    <3> QED BY <1>5, <3>1
  <2> QED BY <2>1, <2>2, <2>3, <2>4
<1> HIDE DEF n
<1>7. \A i \in DOMAIN q : /\ ~Event(q[i]) /\ q[i].op # "swap" /\ q[i].op # "resetChannel"
                          /\ Attempt(q[i]) => q[i].op = "startInLoop"
  <2>1. \A i \in DOMAIN q : i # 0 /\ ~(i < 0) /\ 0 < i
    BY <1>3
  <2> QED BY <2>1 DEF Ordered, Events, Swaps, Resets, Rests
<1>8. \A i \in DOMAIN s : /\ ~Attempt(s[i]) /\ ~Functor(s[i]) /\ s[i].op # "swap"
                          /\ s[i].op # "resetChannel"
  BY DEF Event, Attempt, Functor
<1>9. ~Attempt(d) /\ ~Functor(d) /\ ~Event(d)
  BY <1>1 DEF Event, Attempt, Functor
<1>10. Attempts(w)
  <2> SUFFICES ASSUME NEW i \in DOMAIN w, NEW j \in DOMAIN w, Attempt(w[i]), Attempt(w[j])
               PROVE  i = j
    BY DEF Attempts
  <2>1. i - n = j - n /\ i \in Nat /\ j \in Nat
    BY <1>6, <1>8, <1>9 DEF Ordered, Attempts
  <2> QED BY <1>6, <2>1
<1>11. Repeats(w)
  <2> SUFFICES ASSUME NEW i \in DOMAIN w, NEW j \in DOMAIN w, w[i] = w[j], Once(w[i])
               PROVE  i = j
    BY DEF Repeats
  <2>1. CASE i \in DOMAIN s
    BY <1>1, <1>6, <1>7, <1>8, <1>9, <2>1
  <2>2. CASE i = n
    BY <1>1, <1>6, <1>7, <1>8, <1>9, <2>2
  <2>3. CASE i - n \in DOMAIN q /\ w[i] = q[i - n] /\ n < i /\ i \in Nat
    <3>1. ~Event(w[i]) /\ w[i].op # "swap"
      BY <1>7, <2>3
    <3>2. j - n \in DOMAIN q /\ w[j] = q[j - n] /\ j \in Nat
      BY <1>1, <1>6, <3>1
    <3>3. i - n = j - n
      BY <2>3, <3>2 DEF Ordered, Repeats
    <3> QED BY <1>6, <2>3, <3>2, <3>3
  <2> QED BY <1>6, <2>1, <2>2, <2>3
<1>12. Rests(w, n) /\ Swaps(w, n) /\ Events(w, n)
  BY <1>1, <1>2, <1>6, <1>7, <1>8, <1>9 DEF Rests, Swaps, Events
<1>13. Functors(w, n)
  <2> SUFFICES ASSUME NEW i \in DOMAIN w, Functor(w[i]), i <= n PROVE FALSE
    BY DEF Functors
  <2>1. i - n \in DOMAIN q /\ n < i /\ i \in Nat
    BY <1>6, <1>8, <1>9
  <2> QED BY <1>6, <2>1
<1>14. Resets(w, n)
  BY <1>1, <1>6 DEF Resets
<1>15. ErrorsFirst(w) /\ Plain(w)
  <2>1. Plain(w)
    BY <1>1, <1>6, <1>7, <1>8 DEF Plain, Event
  <2>2. ASSUME NEW i \in DOMAIN w, NEW j \in DOMAIN w, w[i].op = "handleError",
               w[j].op = "handleWrite"
        PROVE  i < j
    <3>1. i \in DOMAIN s /\ j \in DOMAIN s
      BY <1>1, <1>6, <1>7, <2>2 DEF Event
    <3>2. j = i + 1
      BY <1>6, <2>2, <3>1
    <3> QED BY <1>3, <3>1, <3>2
  <2> QED BY <2>1, <2>2 DEF ErrorsFirst
<1>16. Ordered(w, n)
  BY <1>10, <1>11, <1>12, <1>13, <1>14, <1>15 DEF Ordered
<1>17. Items(w) = Items(s) \cup {d} \cup Items(q)
  <2>1. Items(w) \subseteq Items(s) \cup {d} \cup Items(q)
    BY <1>6 DEF Items
  <2>2. Items(s) \cup {d} \cup Items(q) \subseteq Items(w)
    BY <1>6 DEF Items
  <2> QED BY <2>1, <2>2
<1>18. \A x \in Items(q) : x.op # "resetChannel"
  BY <1>7 DEF Items
<1> QED BY <1>2, <1>3, <1>5, <1>16, <1>17, <1>18 DEF t, w, d

-----------------------------------------------------------------------------
(* todo and pendingFunctors_.                                              *)

Fine(t, q) == t \in Seq(OpRecords) /\ q \in Seq(OpRecords) /\ Ordered(t \o q, Len(t))

\* The events of this iteration are being handled.
InEvents(t) == t # <<>> /\ t[Len(t)].op = "swap"

\* What the loop thread does next, and what is left then.
LEMMA FirstDone ==
  ASSUME NEW t, NEW q, Fine(t, q), t # <<>>, Head(t).op # "swap"
  PROVE  /\ Fine(Tail(t), q) /\ Head(t) \in OpRecords
         /\ Items(t \o q) = Items(Tail(t) \o q) \cup {Head(t)}
         /\ Once(Head(t)) => Head(t) \notin Items(Tail(t) \o q)
         /\ Attempt(Head(t)) => \A x \in Items(Tail(t) \o q) : ~Attempt(x)
         /\ Head(t).op = "handleWrite" => \A x \in Items(Tail(t) \o q) : x.op # "handleError"
         /\ Event(Head(t)) => InEvents(Tail(t))
         /\ \A x \in Items(Tail(t) \o q) : Attempt(x) => x.op = "startInLoop"
         /\ Functor(Head(t)) => \A x \in Items(Tail(t) \o q) : ~Event(x)
         /\ Head(t).op \in {"resetChannel", "handleWrite", "handleError"} =>
              \A x \in Items(Tail(t) \o q) : x.op # Head(t).op
<1> DEFINE w == t \o q
           n == Len(t)
<1>1. t \in Seq(OpRecords) /\ q \in Seq(OpRecords) /\ Ordered(w, n)
  BY DEF Fine
<1>2. /\ w \in Seq(OpRecords) /\ n \in 1..Len(w) /\ w[1] = Head(t)
      /\ Tail(t) \in Seq(OpRecords) /\ Len(Tail(t)) = n - 1
  BY <1>1
<1>3. Tail(w) = Tail(t) \o q
  BY <1>1
<1> HIDE DEF w, n
<1>4. /\ Tail(w) \in Seq(OpRecords) /\ Ordered(Tail(w), n - 1)
      /\ w[1] \in OpRecords
      /\ Items(w) = Items(Tail(w)) \cup {w[1]}
      /\ Once(w[1]) => w[1] \notin Items(Tail(w))
      /\ Attempt(w[1]) => \A x \in Items(Tail(w)) : ~Attempt(x)
      /\ w[1].op = "handleWrite" => \A x \in Items(Tail(w)) : x.op # "handleError"
  BY <1>1, <1>2, DropFirst
<1>5. Fine(Tail(t), q)
  BY <1>1, <1>2, <1>3, <1>4 DEF Fine
<1>6. Event(Head(t)) => InEvents(Tail(t))
  <2> SUFFICES ASSUME Event(Head(t)) PROVE InEvents(Tail(t))
    OBVIOUS
  <2>1. 1 \in DOMAIN w
    BY <1>2
  <2>2. 1 < n /\ w[n].op = "swap"
    BY <1>1, <1>2, <2>1 DEF Ordered, Events
  <2>3. Tail(t)[n - 1] = w[n] /\ Tail(t) # <<>>
    <3>1. w[n] = t[n] /\ n \in 2..Len(t) /\ n \in Nat
      BY <1>1, <1>2, <2>2 DEF w, n
    <3>2. Len(Tail(t)) = n - 1 /\ n - 1 \in 1..Len(Tail(t)) /\ (n - 1) + 1 = n
      BY <1>2, <3>1
    <3>3. Tail(t)[n - 1] = t[(n - 1) + 1]
      BY <1>1, <3>2, HeadTailProperties
    <3>4. Tail(t) # <<>>
      BY <3>1, <3>2
    <3> QED BY <3>1, <3>2, <3>3, <3>4
  <2> QED BY <1>2, <2>2, <2>3 DEF InEvents
<1>7. \A x \in Items(Tail(w)) : Attempt(x) => x.op = "startInLoop"
  <2> SUFFICES ASSUME NEW i \in DOMAIN Tail(w), Attempt(Tail(w)[i])
               PROVE  Tail(w)[i].op = "startInLoop"
    BY DEF Items
  <2>1. i + 1 \in DOMAIN w /\ i + 1 # 1 /\ Tail(w)[i] = w[i + 1]
    BY <1>2
  <2> QED BY <1>1, <2>1 DEF Ordered, Rests
<1>8. Functor(Head(t)) => \A x \in Items(Tail(w)) : ~Event(x)
  <2> SUFFICES ASSUME Functor(w[1]), NEW x \in Items(w), Event(x) PROVE FALSE
    BY <1>2, <1>4
  <2>1. w[n].op = "swap"
    BY <1>1 DEF Ordered, Events, Items
  <2>2. 1 \in DOMAIN w /\ 1 <= n
    BY <1>2
  <2> QED BY <1>1, <2>1, <2>2 DEF Ordered, Functors
<1>9. w[1].op \in {"resetChannel", "handleWrite", "handleError"} =>
        \A x \in Items(Tail(w)) : x.op # w[1].op
  <2> SUFFICES ASSUME w[1].op \in {"resetChannel", "handleWrite", "handleError"},
                      NEW x \in Items(Tail(w)), x.op = w[1].op
               PROVE  FALSE
    OBVIOUS
  <2>1. x \in OpRecords /\ x \in Items(w) /\ w[1] \in Items(w)
    <3>1. \A i \in DOMAIN Tail(w) : Tail(w)[i] \in OpRecords
      BY <1>4
    <3> QED BY <1>4, <3>1 DEF Items
  <2>2. x.arg = 0 /\ w[1].arg = 0
    BY <1>1, <2>1 DEF Ordered, Plain, Items
  <2>3. x = w[1]
    BY <1>4, <2>1, <2>2 DEF OpRecords
  <2> QED BY <1>4, <2>3 DEF Once
<1> QED BY <1>2, <1>3, <1>4, <1>5, <1>6, <1>7, <1>8, <1>9 DEF w

LEMMA FirstPut ==
  ASSUME NEW t, NEW q, Fine(t, q), NEW x \in OpRecords, Attempt(x), x.op # "startInLoop",
         \A y \in Items(t \o q) : ~Attempt(y)
  PROVE  /\ Fine(<<x>> \o t, q) /\ Items((<<x>> \o t) \o q) = Items(t \o q) \cup {x}
         /\ InEvents(t) => InEvents(<<x>> \o t)
<1> DEFINE v == t \o q
           m == Len(t)
           u == <<x>> \o t
<1>1. t \in Seq(OpRecords) /\ q \in Seq(OpRecords) /\ Ordered(v, m)
  BY DEF Fine
<1>2. v \in Seq(OpRecords) /\ m \in 0..Len(v)
  BY <1>1
<1>3. u \o q = <<x>> \o v /\ Len(u) = m + 1 /\ u \in Seq(OpRecords)
  BY <1>1
<1>4. InEvents(t) => InEvents(u)
  BY <1>1 DEF InEvents
<1> HIDE DEF v, m, u
<1>5. /\ <<x>> \o v \in Seq(OpRecords) /\ Ordered(<<x>> \o v, m + 1)
      /\ Items(<<x>> \o v) = Items(v) \cup {x}
  BY <1>1, <1>2, PushFirst DEF v
<1> QED BY <1>1, <1>3, <1>4, <1>5 DEF Fine, u, v

LEMMA LastPut ==
  ASSUME NEW t, NEW q, Fine(t, q), NEW x \in OpRecords, Functor(x),
         Once(x) => x \notin Items(t \o q),
         Attempt(x) => \A y \in Items(t \o q) : ~Attempt(y),
         x.op = "resetChannel" => x.arg = 0 /\ InEvents(t)
  PROVE  Fine(t, Append(q, x)) /\ Items(t \o Append(q, x)) = Items(t \o q) \cup {x}
<1> DEFINE v == t \o q
           n == Len(t)
           r == Append(q, x)
<1>1. t \in Seq(OpRecords) /\ q \in Seq(OpRecords) /\ Ordered(v, n)
  BY DEF Fine
<1>2. v \in Seq(OpRecords) /\ n \in 0..Len(v)
  BY <1>1
<1>3. t \o r = Append(v, x) /\ r \in Seq(OpRecords)
  BY <1>1
<1>4. InEvents(t) => n # 0 /\ v[n].op = "swap"
  BY <1>1 DEF InEvents
<1> HIDE DEF v, n, r
<1>5. /\ Append(v, x) \in Seq(OpRecords) /\ Ordered(Append(v, x), n)
      /\ Items(Append(v, x)) = Items(v) \cup {x}
  BY <1>1, <1>2, <1>4, AppendLast DEF v
<1> QED BY <1>1, <1>3, <1>5 DEF Fine, r, v, n

LEMMA SwapDone ==
  ASSUME NEW t, NEW q, Fine(t, q), t # <<>>, Head(t).op = "swap"
  PROVE  /\ Fine(q, <<>>) /\ Items(t \o q) = Items(q \o <<>>) \cup {Do("swap")}
         /\ \A x \in Items(q \o <<>>) : ~Event(x) /\ x.op # "swap"
<1> DEFINE w == t \o q
           n == Len(t)
<1>1. t \in Seq(OpRecords) /\ q \in Seq(OpRecords) /\ Ordered(w, n)
  BY DEF Fine
<1>2. w \in Seq(OpRecords) /\ n \in 1..Len(w) /\ w[1] = Head(t) /\ Tail(w) = Tail(t) \o q
  BY <1>1
<1> HIDE DEF w, n
<1>3. /\ n = 1 /\ Tail(w) \in Seq(OpRecords) /\ Ordered(Tail(w), Len(Tail(w)))
      /\ Items(w) = Items(Tail(w)) \cup {Do("swap")}
      /\ \A x \in Items(Tail(w)) : ~Event(x) /\ x.op # "swap"
  BY <1>1, <1>2, SwapFirst
<1>4. Tail(t) = <<>>
  <2>1. Tail(t) \in Seq(OpRecords) /\ Len(Tail(t)) = 0
    BY <1>1, <1>3, HeadTailProperties DEF n
  <2> QED BY <2>1, EmptySeq
<1>5. Tail(w) = q /\ q \o <<>> = q /\ <<>> \in Seq(OpRecords)
  <2>1. <<>> \o q = q /\ q \o <<>> = q
    BY <1>1, ConcatEmptySeq
  <2>2. Tail(w) = <<>> \o q
    BY <1>2, <1>4
  <2>3. <<>> \in Seq(OpRecords)
    OBVIOUS
  <2> QED BY <2>1, <2>2, <2>3
<1> QED BY <1>1, <1>3, <1>5 DEF Fine, w

\* Code of the user on the loop thread does not run inside an attempt.
LEMMA UserCode ==
  ASSUME NEW t, NEW q, Fine(t, q), \A x \in Items(t \o q) : x.op # "startInLoop",
         \A o \in {"retry", "runAfter", "newConnection", "restart", "startNow"} :
           ~(t # <<>> /\ Head(t).op = o)
  PROVE  \A x \in Items(t \o q) : Attempt(x) => x.op \in {"timer", "removeConnector"}
<1> SUFFICES ASSUME NEW i \in DOMAIN (t \o q), Attempt((t \o q)[i])
             PROVE  (t \o q)[i].op \in {"timer", "removeConnector"}
  BY DEF Items
<1>1. t \in Seq(OpRecords) /\ q \in Seq(OpRecords)
  BY DEF Fine
<1>2. (t \o q)[i].op # "startInLoop"
  BY DEF Items
<1>3. i = 1 /\ Len(t) # 0
  BY <1>2 DEF Fine, Ordered, Rests
<1>4. t # <<>> /\ (t \o q)[1] = Head(t)
  BY <1>1, <1>3
<1> QED BY <1>2, <1>3, <1>4 DEF Attempt

-----------------------------------------------------------------------------
(* What a handler leaves of the work.                                      *)

Left == Items(Tail(todo) \o queue)

LEMMA IInvFine == IInv => Fine(todo, queue)
BY DEF IInv, TypeOK, Fine, OpRecords, Work

LEMMA Handled ==
  ASSUME IInv, NEW o, Now(o), o # "swap"
  PROVE  /\ Fine(Tail(todo), queue) /\ Head(todo) \in OpRecords /\ Head(todo).op = o
         /\ Items(Work) = Left \cup {Head(todo)}
         /\ Once(Head(todo)) => Head(todo) \notin Left
         /\ Attempt(Head(todo)) => \A x \in Left : ~Attempt(x)
         /\ o = "handleWrite" => \A x \in Left : x.op # "handleError"
         /\ Event(Head(todo)) => InEvents(Tail(todo))
         /\ \A x \in Left : Attempt(x) => x.op = "startInLoop"
         /\ Functor(Head(todo)) => \A x \in Left : ~Event(x)
         /\ o \in {"resetChannel", "handleWrite", "handleError"} => \A x \in Left : x.op # o
<1>1. Fine(todo, queue) /\ todo # <<>> /\ Head(todo).op = o
  BY IInvFine DEF Now
<1> QED BY <1>1, FirstDone DEF Left, Work

\* Continue, with or without a step more and a functor for the next iteration.
LEMMA AfterDone ==
  ASSUME IInv, NEW o, Now(o), o # "swap", Continue(<<>>), queue' = queue
  PROVE  Fine(todo, queue)' /\ Items(Work)' = Left
<1>1. Fine(Tail(todo), queue)
  BY Handled
<1>2. todo' = Tail(todo)
  <2>1. Tail(todo) \in Seq(OpRecords)
    BY <1>1 DEF Fine
  <2> QED BY <2>1 DEF Continue
<1> QED BY <1>1, <1>2 DEF Work, Left

LEMMA AfterNext ==
  ASSUME IInv, NEW o, Now(o), o # "swap",
         NEW x \in OpRecords, Attempt(x), x.op # "startInLoop", \A y \in Left : ~Attempt(y),
         Continue(<<x>>), queue' = queue
  PROVE  Fine(todo, queue)' /\ Items(Work)' = Left \cup {x}
<1>1. Fine(Tail(todo), queue)
  BY Handled
<1>2. todo' = <<x>> \o Tail(todo)
  BY DEF Continue
<1>3. /\ Fine(<<x>> \o Tail(todo), queue)
      /\ Items((<<x>> \o Tail(todo)) \o queue) = Left \cup {x}
  BY <1>1, FirstPut DEF Left
<1> QED BY <1>2, <1>3 DEF Work

\* What queueInLoop asks of a functor of the loop thread.
Queueable(y) ==
    /\ y \in OpRecords /\ Functor(y) /\ ~Attempt(y)
    /\ Once(y) => y \notin Left
    /\ y.op = "resetChannel" => y.arg = 0

LEMMA AfterQueue ==
  ASSUME IInv, NEW o, Now(o), Event(Head(todo)),
         NEW y, Queueable(y), Continue(<<>>), queue' = Append(queue, y)
  PROVE  Fine(todo, queue)' /\ Items(Work)' = Left \cup {y}
<1>1. o # "swap"
  BY DEF Now, Event
<1>2. Fine(Tail(todo), queue) /\ InEvents(Tail(todo))
  BY <1>1, Handled
<1>3. todo' = Tail(todo)
  <2>1. Tail(todo) \in Seq(OpRecords)
    BY <1>2 DEF Fine
  <2> QED BY <2>1 DEF Continue
<1>4. /\ Fine(Tail(todo), Append(queue, y))
      /\ Items(Tail(todo) \o Append(queue, y)) = Left \cup {y}
  BY <1>2, LastPut DEF Left, Queueable
<1> QED BY <1>3, <1>4 DEF Work

LEMMA AfterNextQueue ==
  ASSUME IInv, NEW o, Now(o), Event(Head(todo)),
         NEW x \in OpRecords, Attempt(x), x.op # "startInLoop", \A y \in Left : ~Attempt(y),
         NEW y, Queueable(y), Continue(<<x>>), queue' = Append(queue, y)
  PROVE  Fine(todo, queue)' /\ Items(Work)' = Left \cup {x, y}
<1> DEFINE t == <<x>> \o Tail(todo)
<1>1. o # "swap"
  BY DEF Now, Event
<1>2. Fine(Tail(todo), queue) /\ InEvents(Tail(todo))
  BY <1>1, Handled
<1>3. todo' = t
  BY DEF Continue
<1>4. Fine(t, queue) /\ Items(t \o queue) = Left \cup {x} /\ InEvents(t)
  BY <1>2, FirstPut DEF Left
<1> HIDE DEF t
<1>5. x # y
  BY DEF Queueable
<1>6. Fine(t, Append(queue, y)) /\ Items(t \o Append(queue, y)) = Items(t \o queue) \cup {y}
  BY <1>4, <1>5, LastPut DEF Queueable
<1> QED BY <1>3, <1>4, <1>6 DEF Work

\* The conjuncts of IInv besides the order.
Content ==
    /\ Tokens /\ States /\ ChannelReset /\ Connections /\ Users /\ Gone /\ Sockets

LEMMA Together == ASSUME TypeOK', Fine(todo, queue)', Content' PROVE IInv'
BY DEF IInv, Fine, Work, Content

LEMMA DoFacts ==
  /\ \A o \in Ops : Do(o) \in OpRecords /\ Do(o).op = o /\ Do(o).arg = 0
  /\ \A o \in Ops, a \in Nat : Op(o, a) \in OpRecords /\ Op(o, a).op = o /\ Op(o, a).arg = a
BY DEF Do, Op, OpRecords

LEMMA OwnedFinite == IsFiniteSet(Owned) /\ Cardinality(Owned) \in Nat
<1>1. IsFiniteSet(Conns)
  BY SetupsAssumption, FS_Interval DEF Conns
<1>2. IsFiniteSet(Owned)
  BY <1>1, FS_Subset DEF Owned
<1> QED BY <1>2, FS_CardinalityType

\* Steps that leave the connections and the descriptors alone.
LEMMA SocketsKept ==
  ASSUME Sockets, UNCHANGED <<conn, channel, open>>, Has("newConnection")' <=> Has("newConnection")
  PROVE  Sockets'
<1>1. Owned' = Owned
  BY DEF Owned
<1> QED BY <1>1 DEF Sockets

-----------------------------------------------------------------------------
(* The handlers of the Connector.                                          *)

\* Who has something to do for an attempt.
LEMMA AttemptOf ==
  ASSUME IInv, NEW x \in Items(Work), Attempt(x)
  PROVE  /\ x.op # "removeConnector" => called
         /\ x.op \notin {"timer", "retry", "removeConnector"} => object = "alive"
BY DEF IInv, Users, Gone

LEMMA RetryStep == ASSUME IInv, Retry, UNCHANGED clientVars PROVE IInv'
<1> USE DEF clientVars, connVars, userVars, attemptVars, timerVars
<1>1. /\ Now("retry") /\ UNCHANGED <<connect, state, channel, sock, open, delay, timerId, timers,
                                     queue, reachable>>
      /\ Continue(IF connect THEN <<Do("runAfter")>> ELSE <<>>)
  BY DEF Retry
<1>2. /\ Head(todo).op = "retry" /\ Items(Work) = Left \cup {Head(todo)}
      /\ \A x \in Left : ~Attempt(x)
  BY <1>1, Handled DEF Attempt
<1>3. Do("runAfter") \in OpRecords /\ Do("runAfter").op = "runAfter"
  BY DoFacts DEF Ops
<1>4. /\ Fine(todo, queue)'
      /\ Items(Work)' = Left \cup (IF connect THEN {Do("runAfter")} ELSE {})
  <2>1. CASE connect
    BY <1>1, <1>2, <1>3, <2>1, AfterNext DEF Attempt
  <2>2. CASE ~connect
    BY <1>1, <2>2, AfterDone
  <2> QED BY <2>1, <2>2
<1>5. TypeOK'
  BY <1>1, <1>4 DEF IInv, TypeOK, Fine, OpRecords
<1>6. Attempting /\ Has("retry") /\ Head(todo) \in Items(Work)
  BY <1>2 DEF Attempting, Has, Attempt
<1> DEFINE P == Items(Work)
<1>7. /\ \A x \in P' : x \in Left \/ (x.op = "runAfter" /\ connect)
      /\ \A x \in P : x \in Left \/ x.op = "retry"
      /\ Left \subseteq P' /\ Left \subseteq P
  BY <1>2, <1>3, <1>4
<1> HIDE DEF P
<1> USE DEF Attempting, Has
<1>8. Tokens' /\ States'
  BY <1>1, <1>6, <1>7 DEF IInv, Tokens, States, Attempt, P
<1>9. ChannelReset'
  BY <1>1, <1>6, <1>7 DEF IInv, ChannelReset, P
<1>10. Connections'
  BY <1>1, <1>7 DEF IInv, Connections, Live, P
<1>11. called /\ (connect => object = "alive")
  <2>1. called
    BY <1>2, AttemptOf DEF Attempt
  <2>2. object \in {"alive", "destroyed", "released"}
    BY DEF IInv, TypeOK
  <2> QED BY <1>6, <2>1, <2>2 DEF IInv, Gone
<1>12. Users'
  <2>1. Has("startInLoop")' => Has("startInLoop")
    BY <1>7 DEF P
  <2>2. Has("restart")' => Has("restart")
    BY <1>7 DEF P
  <2>3. Has("startNow")' => Has("startNow")
    BY <1>7 DEF P
  <2>4. Has("runAfter")' => connect
    BY <1>1, <1>7, <1>4, <1>2 DEF IInv, Attempt, P
  <2>5. setup.caller = "loop" /\ stopped => ~connect
    BY DEF IInv, Users
  <2> HIDE DEF Has
  <2> QED BY <1>1, <1>11, <2>1, <2>2, <2>3, <2>4, <2>5 DEF IInv, Users
<1>13. Gone'
  <2>1. object # "alive" => P' \subseteq P
    BY <1>7, <1>11 DEF P
  <2> QED BY <1>1, <1>7, <1>11, <2>1 DEF IInv, Gone, Live, P, Attempt
<1>14. Sockets'
  <2>1. Has("newConnection")' <=> Has("newConnection")
    BY <1>7 DEF P
  <2> QED BY <1>1, <2>1, SocketsKept DEF IInv
<1> QED BY <1>4, <1>5, <1>8, <1>9, <1>10, <1>12, <1>13, <1>14, Together DEF Content

\* Work is done that changes nothing, or cancels a timer.
LEMMA LessWork ==
  ASSUME IInv, TypeOK', Fine(todo, queue)',
         UNCHANGED <<connect, state, channel, open, timerId, setup, clientConnect, connection,
                     conn, closeCallback, nextConnId, user, called, stopped>>,
         timers' \subseteq timers,
         \/ object' = object
         \/ object = "destroyed" /\ object' = "released" /\ ~Attempting' /\ channel = "null",
         Items(Work)' \subseteq Items(Work),
         \A x \in Items(Work) :
            x.op \in {"resetChannel", "newConnection"} => x \in Items(Work)'
  PROVE  IInv'
<1> DEFINE P == Items(Work)
<1>1. P' \subseteq P
  OBVIOUS
<1>2. \A x \in P : x.op = "resetChannel" => x \in P'
  OBVIOUS
<1>3. \A x \in P : x.op = "newConnection" => x \in P'
  OBVIOUS
<1> HIDE DEF P
<1> USE DEF Attempting, Has
<1>4. Tokens' /\ States'
  BY <1>1 DEF IInv, Tokens, States, P
<1>5. ChannelReset'
  BY <1>1, <1>2 DEF IInv, ChannelReset, P
<1>6. Connections'
  BY <1>1 DEF IInv, Connections, Live, P
<1>7. Users'
  BY <1>1 DEF IInv, Users, P
<1>8. Gone'
  BY <1>1 DEF IInv, Gone, Live, Attempt, P
<1>9. Sockets'
  <2>1. Has("newConnection")' <=> Has("newConnection")
    BY <1>1, <1>3 DEF P
  <2> QED BY <2>1, SocketsKept DEF IInv
<1> QED BY <1>4, <1>5, <1>6, <1>7, <1>8, <1>9, Together DEF Content

\* cancel, shutdownInLoop, removeConnector, and a handleWrite after handleError.
LEMMA PlainSteps ==
  ASSUME IInv,
         \/ CancelInLoop /\ UNCHANGED clientVars
         \/ ShutdownInLoop
         \/ RemoveConnector
         \/ HandleWrite /\ state # "kConnecting" /\ UNCHANGED clientVars
  PROVE  IInv'
<1> USE DEF clientVars, connVars, userVars, attemptVars, timerVars
<1>1. PICK o \in {"cancel", "shutdownInLoop", "removeConnector", "handleWrite"} :
        /\ Now(o) /\ Continue(<<>>)
        /\ object' = IF o = "removeConnector" THEN "released" ELSE object
  BY DEF CancelInLoop, ShutdownInLoop, RemoveConnector, HandleWrite
<1>2. /\ UNCHANGED <<connect, state, channel, sock, open, delay, timerId, queue, reachable, setup,
                     clientConnect, connection, conn, closeCallback, nextConnId, user, called,
                     stopped>>
      /\ timers' \subseteq timers
  BY DEF CancelInLoop, ShutdownInLoop, RemoveConnector, HandleWrite
<1>3. Fine(todo, queue)' /\ Items(Work)' = Left
  BY <1>1, <1>2, AfterDone
<1>4. Head(todo).op = o /\ Items(Work) = Left \cup {Head(todo)}
  BY <1>1, Handled
<1>5. \/ object' = object
      \/ object = "destroyed" /\ object' = "released" /\ ~Attempting' /\ channel = "null"
  <2> SUFFICES ASSUME o = "removeConnector"
               PROVE  object = "destroyed" /\ ~Attempting' /\ channel = "null"
    BY <1>1
  <2>1. object = "destroyed" /\ channel = "null"
    BY <1>4 DEF IInv, Gone, Has
  <2>2. \A x \in Left : ~Attempt(x)
    BY <1>1, <1>4, Handled DEF Attempt
  <2> QED BY <1>3, <2>1, <2>2 DEF Attempting
<1>6. TypeOK'
  BY <1>2, <1>3, <1>5 DEF IInv, TypeOK, Fine, OpRecords
<1> QED BY <1>1, <1>2, <1>3, <1>4, <1>5, <1>6, LessWork

LEMMA SwapStep == ASSUME IInv, Swap, UNCHANGED clientVars PROVE IInv'
<1> USE DEF clientVars, connVars, userVars, attemptVars, timerVars
<1>1. /\ todo # <<>> /\ Head(todo).op = "swap" /\ todo' = queue /\ queue' = <<>>
      /\ UNCHANGED <<connect, state, channel, sock, open, delay, timerId, timers, reachable>>
  BY DEF Swap, Now
<1>2. /\ Fine(queue, <<>>) /\ Items(todo \o queue) = Items(queue \o <<>>) \cup {Do("swap")}
  BY <1>1, IInvFine, SwapDone
<1>3. Fine(todo, queue)' /\ Items(Work)' = Items(queue \o <<>>)
  BY <1>1, <1>2 DEF Work
<1>4. Items(Work) = Items(Work)' \cup {Do("swap")} /\ Do("swap").op = "swap"
  BY <1>2, <1>3, DoFacts DEF Work, Ops
<1>5. TypeOK'
  BY <1>1, <1>3 DEF IInv, TypeOK, Fine, OpRecords
<1> QED BY <1>1, <1>3, <1>4, <1>5, LessWork

LEMMA ServerStep == ASSUME IInv, ServerComesUp, UNCHANGED clientVars PROVE IInv'
<1> USE DEF clientVars, connVars, userVars, attemptVars, timerVars
<1>1. /\ UNCHANGED <<connect, state, channel, sock, open, delay, timerId, timers, queue, todo>>
      /\ reachable' = TRUE
  BY DEF ServerComesUp
<1>2. Fine(todo, queue)' /\ Items(Work)' = Items(Work)
  BY <1>1, IInvFine DEF Work
<1>3. TypeOK'
  BY <1>1 DEF IInv, TypeOK
<1> QED BY <1>1, <1>2, <1>3, LessWork

\* Among the numbers up to one more than are in use one is free.
LEMMA NewTimerIdFree ==
  ASSUME NEW S, IsFiniteSet(S) PROVE NewTimerId(S) \in Nat \ S
<1> DEFINE c == Cardinality(S)
<1>1. c \in Nat
  BY FS_CardinalityType
<1>2. IsFiniteSet(1..c + 1) /\ Cardinality(1..c + 1) = c + 1
  <2>1. 1 \in Int /\ c + 1 \in Int /\ ~(1 > c + 1) /\ (c + 1) - 1 + 1 = c + 1
    BY <1>1
  <2> HIDE DEF c
  <2> QED BY <2>1, FS_Interval
<1>3. ~(1..c + 1 \subseteq S)
  <2> SUFFICES ASSUME 1..c + 1 \subseteq S PROVE FALSE
    OBVIOUS
  <2>1. Cardinality(1..c + 1) <= c
    BY FS_Subset
  <2> QED BY <1>1, <1>2, <2>1
<1>4. \E i \in 1..c + 1 : i \notin S
  BY <1>3
<1>5. NewTimerId(S) \in 1..c + 1 /\ NewTimerId(S) \notin S
  BY <1>4 DEF NewTimerId
<1> QED BY <1>1, <1>5

LEMMA TimersInFinite == ASSUME NEW s \in Seq(OpRecords) PROVE IsFiniteSet(TimersIn(s))
<1> DEFINE D == {j \in DOMAIN s : s[j].op \in {"cancel", "timer"}}
           T == {s[i].arg : i \in D}
           f == [i \in D |-> s[i].arg]
<1>1. IsFiniteSet(1..Len(s)) /\ DOMAIN s = 1..Len(s)
  BY FS_Interval
<1>2. IsFiniteSet(D)
  BY <1>1, FS_Subset
<1>3. f \in Surjection(D, T)
  BY DEF Surjection
<1>4. IsFiniteSet(T)
  BY <1>2, <1>3, FS_Surjection
<1> QED BY <1>4 DEF TimersIn

LEMMA RunAfterStep == ASSUME IInv, RunAfter, UNCHANGED clientVars PROVE IInv'
<1> USE DEF clientVars, connVars, userVars, attemptVars, timerVars
<1>1. /\ Now("runAfter") /\ Continue(<<>>) /\ delay' = NextDelay(delay)
      /\ timerId' = NewTimerId(timers \cup TimersIn(queue \o todo))
      /\ timers' = timers \cup {timerId'}
      /\ UNCHANGED <<connect, state, channel, sock, open, queue, reachable>>
  BY DEF RunAfter
<1>2. /\ Head(todo).op = "runAfter" /\ Items(Work) = Left \cup {Head(todo)}
      /\ \A x \in Left : ~Attempt(x)
  BY <1>1, Handled DEF Attempt
<1>3. Fine(todo, queue)' /\ Items(Work)' = Left
  BY <1>1, AfterDone
<1>4. Attempting /\ Has("runAfter") /\ Head(todo) \in Items(Work)
  BY <1>2 DEF Attempting, Has, Attempt
<1>5. timers = {} /\ called /\ object = "alive"
  BY <1>2, <1>4, AttemptOf DEF IInv, Tokens, Attempt
<1>6. timerId' \in Nat /\ timers' = {timerId'}
  <2>1. queue \o todo \in Seq(OpRecords)
    BY DEF IInv, TypeOK, OpRecords
  <2>2. IsFiniteSet(timers \cup TimersIn(queue \o todo))
    BY <1>5, <2>1, TimersInFinite
  <2> QED BY <1>1, <1>5, <2>2, NewTimerIdFree
<1>7. delay' \in Delays
  <2>1. delay \in Delays
    BY DEF IInv, TypeOK
  <2> QED BY <1>1, <2>1 DEF Delays, NextDelay, kMaxRetryDelayMs
<1>8. TypeOK'
  <2>1. UNCHANGED <<connect, state, channel, sock, open, reachable, setup, clientConnect,
                    connection, conn, closeCallback, nextConnId, object, user, called, stopped>>
    BY <1>1
  <2>2. timers' \subseteq Nat
    BY <1>6
  <2> QED BY <1>3, <1>6, <1>7, <2>1, <2>2 DEF IInv, TypeOK, Fine, OpRecords
<1> DEFINE P == Items(Work)
<1>9. P' = Left /\ Left \subseteq P /\ \A x \in P : x \in Left \/ x.op = "runAfter"
  BY <1>2, <1>3
<1> HIDE DEF P
<1> USE DEF Attempting, Has
<1>10. Tokens' /\ States'
  BY <1>1, <1>2, <1>4, <1>6, <1>9 DEF IInv, Tokens, States, Attempt, P
<1>11. ChannelReset'
  BY <1>1, <1>9 DEF IInv, ChannelReset, P
<1>12. Connections'
  BY <1>1, <1>9 DEF IInv, Connections, Live, P
<1>13. Users'
  BY <1>1, <1>4, <1>5, <1>9 DEF IInv, Users, P
<1>14. Gone'
  BY <1>1, <1>4, <1>5, <1>9 DEF IInv, Gone, Live, P
<1>15. Sockets'
  <2>1. Has("newConnection")' <=> Has("newConnection")
    BY <1>9 DEF P
  <2> QED BY <1>1, <2>1, SocketsKept DEF IInv
<1> QED BY <1>3, <1>8, <1>10, <1>11, <1>12, <1>13, <1>14, <1>15, Together DEF Content

\* The channel of an attempt is reset.
LEMMA ResetChannelStep == ASSUME IInv, ResetChannel, UNCHANGED clientVars PROVE IInv'
<1> USE DEF clientVars, connVars, userVars, attemptVars, timerVars
<1>1. /\ Now("resetChannel") /\ Continue(<<>>) /\ channel' = "null"
      /\ UNCHANGED <<connect, state, sock, open, delay, timerId, timers, queue, reachable>>
  BY DEF ResetChannel
<1>2. /\ Head(todo).op = "resetChannel" /\ Items(Work) = Left \cup {Head(todo)}
      /\ \A x \in Left : ~Event(x) /\ x.op # "resetChannel"
  BY <1>1, Handled DEF Functor
<1>3. Fine(todo, queue)' /\ Items(Work)' = Left
  BY <1>1, AfterDone
<1>4. channel = "removed"
  BY <1>2 DEF IInv, ChannelReset, Has
<1>5. TypeOK'
  BY <1>1, <1>3 DEF IInv, TypeOK, Fine, OpRecords
<1> DEFINE P == Items(Work)
<1>6. P' = Left /\ Left \subseteq P /\ \A x \in P : x \in Left \/ x.op = "resetChannel"
  BY <1>2, <1>3
<1> HIDE DEF P
<1> USE DEF Attempting, Has
<1>7. Tokens' /\ States'
  BY <1>1, <1>4, <1>6 DEF IInv, Tokens, States, P
<1>8. ChannelReset'
  BY <1>1, <1>2, <1>4, <1>6 DEF IInv, ChannelReset, Event, P
<1>9. Connections'
  BY <1>1, <1>6 DEF IInv, Connections, Live, P
<1>10. Users'
  BY <1>1, <1>6 DEF IInv, Users, P
<1>11. Gone'
  BY <1>1, <1>6 DEF IInv, Gone, Live, P
<1>12. Sockets'
  <2>1. Has("newConnection")' <=> Has("newConnection")
    BY <1>6 DEF P
  <2>2. Owned' = Owned
    BY DEF Owned
  <2> QED BY <1>1, <1>4, <2>1, <2>2 DEF IInv, Sockets
<1> QED BY <1>3, <1>5, <1>7, <1>8, <1>9, <1>10, <1>11, <1>12, Together DEF Content

LEMMA RestartStep == ASSUME IInv, Restart, UNCHANGED clientVars PROVE IInv'
<1> USE DEF clientVars, connVars, userVars, attemptVars, timerVars
<1>1. /\ Now("restart") /\ Continue(<<Do("startNow")>>) /\ state' = "kDisconnected"
      /\ delay' = kInitRetryDelayMs /\ connect' = TRUE
      /\ UNCHANGED <<channel, sock, open, timerId, timers, queue, reachable>>
  BY DEF Restart
<1>2. /\ Head(todo).op = "restart" /\ Items(Work) = Left \cup {Head(todo)}
      /\ \A x \in Left : ~Attempt(x)
  BY <1>1, Handled DEF Attempt
<1>3. Do("startNow") \in OpRecords /\ Do("startNow").op = "startNow"
  BY DoFacts DEF Ops
<1>4. Fine(todo, queue)' /\ Items(Work)' = Left \cup {Do("startNow")}
  BY <1>1, <1>2, <1>3, AfterNext DEF Attempt
<1>5. Attempting /\ Has("restart") /\ Head(todo) \in Items(Work)
  BY <1>2 DEF Attempting, Has, Attempt
<1>6. channel = "null" /\ connection = 0 /\ timers = {} /\ called /\ object = "alive"
  BY <1>2, <1>5, AttemptOf DEF IInv, ChannelReset, Tokens, Attempt
<1>7. TypeOK'
  BY <1>1, <1>4 DEF IInv, TypeOK, Fine, OpRecords, Delays, kInitRetryDelayMs
<1> DEFINE P == Items(Work)
<1>8. /\ \A x \in P' : x \in Left \/ x.op = "startNow"
      /\ \A x \in P : x \in Left \/ x.op = "restart"
      /\ Left \subseteq P' /\ Left \subseteq P
  BY <1>2, <1>3, <1>4
<1> HIDE DEF P
<1> USE DEF Attempting, Has
<1>9. Tokens'
  BY <1>1, <1>5, <1>6, <1>8 DEF IInv, Tokens, P
<1>10. States'
  <2>1. ~Has("newConnection")'
    BY <1>2, <1>8 DEF Attempt, P
  <2> QED BY <1>1, <1>6, <2>1 DEF States
<1>11. ChannelReset'
  BY <1>1, <1>6, <1>8 DEF IInv, ChannelReset, P
<1>12. Connections'
  BY <1>1, <1>8 DEF IInv, Connections, Live, P
<1>13. Users'
  BY <1>1, <1>5, <1>6, <1>8 DEF IInv, Users, TypeOK, P
<1>14. Gone'
  BY <1>1, <1>5, <1>6, <1>8 DEF IInv, Gone, Live, P
<1>15. Sockets'
  <2>1. Has("newConnection")' <=> Has("newConnection")
    BY <1>8 DEF P
  <2> QED BY <1>1, <2>1, SocketsKept DEF IInv
<1> QED BY <1>4, <1>7, <1>9, <1>10, <1>11, <1>12, <1>13, <1>14, <1>15, Together DEF Content

\* What startInLoop finds, called by start or restart, as a functor, or by a timer.
LEMMA StartFinds ==
  ASSUME IInv, NEW o \in {"startInLoop", "startNow", "timer"}, Now(o)
  PROVE  /\ Items(Work) = Left \cup {Head(todo)} /\ Head(todo).op = o
         /\ \A x \in Left : /\ ~Attempt(x)
                            /\ x.op \notin {"resetChannel", "handleWrite", "handleError",
                                            "handleClose"}
         /\ channel = "null" /\ state = "kDisconnected" /\ connection = 0
         /\ timers = {} /\ user # "start" /\ called
         /\ connect => object = "alive"
<1>1. /\ Items(Work) = Left \cup {Head(todo)} /\ Head(todo).op = o
      /\ Attempt(Head(todo)) => \A x \in Left : ~Attempt(x)
  BY Handled
<1>2. Head(todo) \in Items(Work) /\ Left \subseteq Items(Work) /\ Has(o)
  BY <1>1 DEF Has
<1>3. Attempt(Head(todo)) /\ Attempting
  BY <1>1, <1>2 DEF Attempting, Attempt
<1>4. timers = {} /\ channel # "added" /\ connection = 0 /\ user # "start"
  BY <1>3 DEF IInv, Tokens
<1>5. channel = "null" /\ state = "kDisconnected"
  BY <1>2, <1>4 DEF IInv, States, ChannelReset, TypeOK
<1>6. called
  BY <1>1, <1>2, <1>3 DEF IInv, Users
<1>7. connect => object = "alive"
  BY <1>3 DEF IInv, Gone, TypeOK
<1>8. \A x \in Left : ~Attempt(x)
  BY <1>1, <1>3
<1>9. \A x \in Left : x.op \notin {"resetChannel", "handleWrite", "handleError", "handleClose"}
  <2>1. \A x \in Left : x.op \notin {"resetChannel", "handleWrite", "handleError"}
    BY <1>2, <1>5 DEF IInv, ChannelReset, Has
  <2>2. \A x \in Left : x.op # "handleClose"
    <3> SUFFICES ASSUME NEW x \in Left, x.op = "handleClose" PROVE FALSE
      OBVIOUS
    <3>1. x.arg \in Conns /\ Live(x.arg)
      BY <1>2 DEF IInv, Connections, Live
    <3>2. connection = x.arg
      BY <3>1 DEF IInv, Connections
    <3>3. x.arg # 0
      BY <3>1, SetupsAssumption DEF Conns
    <3> QED BY <1>4, <3>2, <3>3
  <2> QED BY <2>1, <2>2
<1> QED BY <1>1, <1>4, <1>5, <1>6, <1>7, <1>8, <1>9

\* The attempt ends at once, is retried, or waits for its socket.
LEMMA StartStep ==
  ASSUME IInv, StartInLoop, UNCHANGED clientVars
  PROVE  IInv'
<1> USE DEF clientVars, connVars, userVars, attemptVars, timerVars
<1>1. PICK o \in {"startInLoop", "startNow", "timer"} : Now(o)
  BY DEF StartInLoop
<1>2. /\ UNCHANGED <<connect, delay, timerId, timers, queue, reachable>>
      /\ IF connect THEN Connect ELSE Continue(<<>>) /\ UNCHANGED <<state, channel, sock, open>>
  BY DEF StartInLoop
<1>3. /\ Items(Work) = Left \cup {Head(todo)} /\ Head(todo).op = o
      /\ \A x \in Left : /\ ~Attempt(x)
                         /\ x.op \notin {"resetChannel", "handleWrite", "handleError",
                                         "handleClose"}
      /\ channel = "null" /\ state = "kDisconnected" /\ connection = 0
      /\ timers = {} /\ user # "start" /\ called
      /\ connect => object = "alive"
  BY <1>1, StartFinds
<1>4. timers' = {}
  BY <1>2, <1>3
<1>5. \/ Continue(<<>>) /\ UNCHANGED <<state, channel, open>> /\ sock' \in {sock, "fatal"}
      \/ /\ Continue(<<Do("retry")>>) /\ UNCHANGED <<state, channel, sock, open>>
         /\ object = "alive"
      \/ /\ object = "alive"
         /\ Continue(<<>>) /\ state' = "kConnecting" /\ channel' = "added" /\ open' = open + 1
         /\ sock' \in {"ok", "error", "self"}
  <2>1. CASE connect
    <3>1. PICK result \in {"ok", "error", "self", "again", "fatal"} :
            CASE result = "fatal" ->
                    /\ Continue(<<>>)
                    /\ sock' = "fatal"
                    /\ UNCHANGED <<state, channel, open>>
              [] result = "again" ->
                    /\ Continue(<<Do("retry")>>)
                    /\ state' = "kDisconnected"
                    /\ UNCHANGED <<channel, sock, open>>
              [] OTHER ->
                    /\ Continue(<<>>)
                    /\ state' = "kConnecting"
                    /\ channel' = "added"
                    /\ sock' = result
                    /\ open' = open + 1
      BY <1>2, <2>1 DEF Connect, ConnectResults
    <3> QED BY <1>3, <2>1, <3>1
  <2>2. CASE ~connect
    BY <1>2, <2>2
  <2> QED BY <2>1, <2>2
<1>6. Do("retry") \in OpRecords /\ Do("retry").op = "retry"
  BY DoFacts DEF Ops
<1> DEFINE P == Items(Work)
<1>7. CASE Continue(<<>>) /\ UNCHANGED <<state, channel, open>> /\ sock' \in {sock, "fatal"}
  <2>1. Fine(todo, queue)' /\ Items(Work)' = Left
    BY <1>1, <1>2, <1>7, AfterDone
  <2>2. TypeOK'
    BY <1>2, <1>4, <1>7, <2>1 DEF IInv, TypeOK, Fine, OpRecords
  <2> QED BY <1>2, <1>3, <1>4, <1>7, <2>1, <2>2, LessWork
<1>8. CASE /\ Continue(<<Do("retry")>>) /\ UNCHANGED <<state, channel, sock, open>>
           /\ object = "alive"
  <2>1. Fine(todo, queue)' /\ Items(Work)' = Left \cup {Do("retry")}
    BY <1>1, <1>2, <1>3, <1>6, <1>8, AfterNext DEF Attempt
  <2>2. TypeOK'
    BY <1>2, <1>4, <1>8, <2>1 DEF IInv, TypeOK, Fine, OpRecords
  <2>3. /\ \A x \in P' : x \in Left \/ x.op = "retry"
        /\ \A x \in P : x \in Left \/ x.op = o
        /\ Left \subseteq P' /\ Left \subseteq P
    BY <1>3, <1>6, <2>1
  <2> HIDE DEF P
  <2> USE DEF Attempting, Has
  <2>4. Tokens' /\ States'
    BY <1>3, <1>4, <1>8, <2>3 DEF IInv, Tokens, States, Attempt, P
  <2>5. ChannelReset'
    BY <1>3, <1>8, <2>3 DEF IInv, ChannelReset, P
  <2>6. Connections'
    BY <2>3 DEF IInv, Connections, Live, P
  <2>7. Users'
    BY <1>2, <1>3, <1>8, <2>3 DEF IInv, Users, P
  <2>8. Gone'
    BY <1>3, <1>8, <2>3 DEF IInv, Gone, Live, P
  <2>9. Sockets'
    <3>1. Has("newConnection")' <=> Has("newConnection")
      BY <2>3 DEF P
    <3> QED BY <1>8, <3>1, SocketsKept DEF IInv
  <2> QED BY <2>1, <2>2, <2>4, <2>5, <2>6, <2>7, <2>8, <2>9, Together DEF Content
<1>9. CASE /\ object = "alive"
           /\ Continue(<<>>) /\ state' = "kConnecting" /\ channel' = "added" /\ open' = open + 1
           /\ sock' \in {"ok", "error", "self"}
  <2>1. Fine(todo, queue)' /\ Items(Work)' = Left
    BY <1>1, <1>2, <1>9, AfterDone
  <2>2. TypeOK'
    BY <1>2, <1>4, <1>9, <2>1 DEF IInv, TypeOK, Fine, OpRecords
  <2>3. /\ P' = Left /\ Left \subseteq P
        /\ \A x \in P : x \in Left \/ x.op = o
    BY <1>3, <2>1
  <2> HIDE DEF P
  <2> USE DEF Attempting, Has
  <2>4. Tokens' /\ States'
    BY <1>3, <1>4, <1>9, <2>3 DEF IInv, Tokens, States, Attempt, P
  <2>5. ChannelReset'
    BY <1>3, <1>9, <2>3 DEF IInv, ChannelReset, Attempt, P
  <2>6. Connections'
    BY <2>3 DEF IInv, Connections, Live, P
  <2>7. Users'
    BY <1>2, <1>3, <1>9, <2>3 DEF IInv, Users, P
  <2>8. Gone'
    BY <1>3, <1>9, <2>3 DEF IInv, Gone, Live, P
  <2>9. Sockets'
    <3>1. Has("newConnection")' <=> Has("newConnection")
      BY <2>3 DEF P
    <3>2. Owned' = Owned
      BY DEF Owned
    <3>3. ~Has("newConnection")
      BY <1>3, <2>3 DEF P, Attempt
    <3>4. Cardinality(Owned) = open
      BY <1>3, <3>3, OwnedFinite DEF IInv, Sockets
    <3> QED BY <1>9, <3>1, <3>2, <3>3, <3>4 DEF IInv, Sockets, TypeOK
  <2> QED BY <2>1, <2>2, <2>4, <2>5, <2>6, <2>7, <2>8, <2>9, Together DEF Content
<1> QED BY <1>5, <1>7, <1>8, <1>9

\* handleWrite and handleError take the channel of the attempt from the poller, then
\* hand its socket on or close it.
LEMMA AttemptEnds ==
  ASSUME IInv, NEW o \in {"handleWrite", "handleError"}, Now(o),
         NEW next \in {"nothing", "retry", "newConnection"},
         o = "handleWrite" => state = "kConnecting",
         o = "handleError" => next = "retry",
         next = "newConnection" => connect,
         RemoveAndResetChannel,
         Continue(IF next = "nothing" THEN <<>> ELSE <<Do(next)>>),
         state' = IF next = "retry" THEN "kDisconnected" ELSE "kConnected",
         open' = IF next = "newConnection" THEN open ELSE open - 1,
         UNCHANGED <<connect, delay, timerId, timers, reachable>>,
         UNCHANGED clientVars
  PROVE  IInv'
<1> USE DEF clientVars, connVars, userVars
<1>1. /\ Items(Work) = Left \cup {Head(todo)} /\ Head(todo).op = o
      /\ \A x \in Left : x.op # o
      /\ o = "handleWrite" => \A x \in Left : x.op # "handleError"
  BY Handled
<1>2. Head(todo) \in Items(Work) /\ Left \subseteq Items(Work) /\ Has(o)
  BY <1>1 DEF Has
<1>3. channel = "added"
  BY <1>2 DEF IInv, ChannelReset
<1>4. /\ ~Attempting /\ timers = {} /\ connection = 0 /\ user # "start" /\ called
      /\ object # "released" /\ (connect => object = "alive")
      /\ \A x \in Left : x.op \notin {"resetChannel", "timer", "handleClose"}
      /\ (\E x \in Left : x.op = "getExpired") => object # "alive"
  <2>1. ~Attempting /\ timers = {} /\ connection = 0 /\ user # "start" /\ called
    BY <1>3 DEF IInv, Tokens, Users
  <2>3. object # "released" /\ (connect => object = "alive")
    BY <1>3 DEF IInv, Gone, TypeOK
  <2>4. (\E x \in Left : x.op = "getExpired") => object # "alive"
    BY <1>2 DEF IInv, ChannelReset, Has
  <2>2. \A x \in Left : x.op \notin {"resetChannel", "timer", "handleClose"}
    BY <1>2, <1>3 DEF IInv, ChannelReset, Has
  <2> QED BY <2>1, <2>2, <2>3, <2>4
<1>5. \A x \in Left : ~Attempt(x)
  BY <1>2, <1>4 DEF Attempting
<1>6. /\ Do("resetChannel") \in OpRecords /\ Do("resetChannel").op = "resetChannel"
      /\ Do("resetChannel").arg = 0
      /\ Do("retry") \in OpRecords /\ Do("retry").op = "retry"
      /\ Do("newConnection") \in OpRecords /\ Do("newConnection").op = "newConnection"
  BY DoFacts DEF Ops
<1>7. Queueable(Do("resetChannel")) /\ Event(Head(todo))
  BY <1>1, <1>4, <1>6 DEF Queueable, Functor, Attempt, Event
<1>8. channel' = "removed" /\ sock' = "none" /\ queue' = Append(queue, Do("resetChannel"))
  BY DEF RemoveAndResetChannel
<1>9. /\ Fine(todo, queue)'
      /\ Items(Work)' = Left \cup {Do("resetChannel")}
                             \cup (IF next = "nothing" THEN {} ELSE {Do(next)})
  <2>1. CASE next = "nothing"
    BY <1>7, <1>8, <2>1, AfterQueue
  <2>2. CASE next # "nothing"
    <3>1. Do(next) \in OpRecords /\ Attempt(Do(next)) /\ Do(next).op # "startInLoop"
      BY <1>6, <2>2 DEF Attempt
    <3>2. Continue(<<Do(next)>>)
      BY <2>2
    <3>3. Fine(todo, queue)' /\ Items(Work)' = Left \cup {Do(next), Do("resetChannel")}
      BY <1>5, <1>7, <1>8, <3>1, <3>2, AfterNextQueue
    <3> QED BY <2>2, <3>3
  <2> QED BY <2>1, <2>2
<1> DEFINE P == Items(Work)
<1>10. /\ \A x \in P' : x \in Left \/ x.op = "resetChannel" \/ x.op = next
       /\ \A x \in P : x \in Left \/ x.op = o
       /\ Left \subseteq P' /\ Left \subseteq P
       /\ \E x \in P' : x.op = "resetChannel"
       /\ next = "newConnection" => \E x \in P' : x.op = "newConnection"
  BY <1>1, <1>6, <1>9
<1> HIDE DEF P
<1> USE DEF Attempting, Has
<1>11. open = Cardinality(Owned) + 1 /\ Cardinality(Owned) \in Nat
  <2>1. ~Has("newConnection")
    BY <1>4 DEF Attempt
  <2> QED BY <1>3, <2>1, OwnedFinite DEF IInv, Sockets
<1>12. TypeOK'
  <2>1. open' \in Nat
    BY <1>11
  <2> QED BY <1>8, <1>9, <2>1 DEF IInv, TypeOK, Fine, OpRecords
<1>13. Tokens'
  BY <1>4, <1>8, <1>10 DEF IInv, Tokens, P
<1>14. States'
  BY <1>4, <1>5, <1>8, <1>10 DEF States, Attempt, P
<1>15. ChannelReset'
  BY <1>1, <1>4, <1>5, <1>8, <1>10 DEF ChannelReset, Attempt, P
<1>16. Connections'
  BY <1>10 DEF IInv, Connections, Live, P
<1>17. Users'
  BY <1>4, <1>5, <1>10 DEF IInv, Users, Attempt, P
<1>18. Gone'
  BY <1>4, <1>5, <1>8, <1>10 DEF IInv, Gone, Live, Attempt, P
<1>19. Sockets'
  <2>1. Has("newConnection")' <=> next = "newConnection"
    BY <1>5, <1>10 DEF Attempt, P
  <2>2. Owned' = Owned
    BY DEF Owned
  <2> QED BY <1>8, <1>11, <2>1, <2>2 DEF Sockets
<1> QED
  BY <1>9, <1>12, <1>13, <1>14, <1>15, <1>16, <1>17, <1>18, <1>19, Together DEF Content

LEMMA HandleWriteStep ==
  ASSUME IInv, HandleWrite, state = "kConnecting", UNCHANGED clientVars PROVE IInv'
<1> USE DEF timerVars
<1>1. /\ Now("handleWrite") /\ RemoveAndResetChannel
      /\ UNCHANGED <<connect, delay, timerId, timers, reachable>>
  BY DEF HandleWrite
<1>2. CASE sock = "ok" /\ connect
  <2>1. Continue(<<Do("newConnection")>>) /\ state' = "kConnected" /\ open' = open
    BY <1>2 DEF HandleWrite
  <2> QED BY <1>1, <1>2, <2>1, AttemptEnds
<1>3. CASE sock = "ok" /\ ~connect
  <2>1. Continue(<<>>) /\ state' = "kConnected" /\ open' = open - 1
    BY <1>3 DEF HandleWrite
  <2> QED BY <1>1, <2>1, AttemptEnds
<1>4. CASE sock # "ok"
  <2>1. Continue(<<Do("retry")>>) /\ state' = "kDisconnected" /\ open' = open - 1
    BY <1>4 DEF HandleWrite
  <2> QED BY <1>1, <2>1, AttemptEnds
<1> QED BY <1>2, <1>3, <1>4

LEMMA HandleErrorStep == ASSUME IInv, HandleError, UNCHANGED clientVars PROVE IInv'
<1>1. /\ Now("handleError") /\ RemoveAndResetChannel /\ Continue(<<Do("retry")>>)
      /\ state' = "kDisconnected" /\ open' = open - 1
      /\ UNCHANGED <<connect, delay, timerId, timers, reachable>>
  BY DEF HandleError, timerVars
<1> QED BY <1>1, AttemptEnds

-----------------------------------------------------------------------------
(* The connections.                                                        *)

\* Work of one kind for one connection is there once.
LEMMA OfOneConnection ==
  ASSUME IInv, NEW o, Now(o), o # "swap", Once(Head(todo))
  PROVE  \A x \in Left : x.op = o => x.arg # Head(todo).arg
<1>1. Fine(Tail(todo), queue) /\ Head(todo) \in OpRecords /\ Head(todo).op = o
      /\ Head(todo) \notin Left
  BY Handled
<1>2. \A x \in Left : x \in OpRecords
  <2>1. Tail(todo) \o queue \in Seq(OpRecords)
    BY <1>1 DEF Fine
  <2>2. \A i \in DOMAIN (Tail(todo) \o queue) : (Tail(todo) \o queue)[i] \in OpRecords
    BY <2>1
  <2> QED BY <2>2 DEF Left, Items
<1> QED BY <1>1, <1>2 DEF OpRecords

LEMMA NewConnectionStep == ASSUME IInv, NewConnection PROVE IInv'
<1> USE DEF userVars, attemptVars, timerVars
<1> DEFINE c == nextConnId
           P == Items(Work)
<1>1. /\ Now("newConnection") /\ Continue(<<>>) /\ conn' = [conn EXCEPT ![c] = "up"]
      /\ connection' = c /\ nextConnId' = c + 1
      /\ UNCHANGED <<connect, state, channel, sock, open, delay, timerId, timers, queue, reachable,
                     setup, clientConnect, closeCallback, object, user, called, stopped>>
  BY DEF NewConnection
<1>2. /\ Items(Work) = Left \cup {Head(todo)} /\ Head(todo).op = "newConnection"
      /\ \A x \in Left : ~Attempt(x)
  BY <1>1, Handled DEF Attempt
<1>3. Fine(todo, queue)' /\ Items(Work)' = Left
  BY <1>1, AfterDone
<1>4. /\ Attempting /\ Has("newConnection") /\ Head(todo) \in Items(Work)
  BY <1>2 DEF Attempting, Has, Attempt
<1>5. /\ timers = {} /\ channel # "added" /\ connection = 0 /\ user # "start"
      /\ state = "kConnected" /\ object = "alive" /\ called
  BY <1>2, <1>4, AttemptOf DEF IInv, Tokens, States, Attempt
<1>6. MaxConns \in Nat \ {0} /\ c \in Conns /\ conn[c] = "none" /\ c \in Nat \ {0}
  <2>1. MaxConns \in Nat \ {0} /\ c \in 1..MaxConns + 1
    BY SetupsAssumption DEF IInv, TypeOK
  <2>2. ~(c > MaxConns)
    BY <1>5, <2>1 DEF IInv, Connections
  <2>3. c \in Conns /\ c >= c
    BY <2>1, <2>2 DEF Conns
  <2> QED BY <2>1, <2>3 DEF IInv, Connections
<1>7. /\ \A d \in Conns : conn'[d] = IF d = c THEN "up" ELSE conn[d]
      /\ \A d \in Conns : d # 0 /\ ~Live(d)
  <2>1. \A d \in Conns : conn'[d] = IF d = c THEN "up" ELSE conn[d]
    BY <1>1 DEF IInv, TypeOK
  <2>2. \A d \in Conns : d # 0
    BY <1>6 DEF Conns
  <2> QED BY <1>5, <2>1, <2>2 DEF IInv, Connections
<1>8. TypeOK'
  <2>1. conn' \in [Conns -> {"none", "up", "shut", "peerClosed", "closed", "destroyed"}]
    BY <1>1 DEF IInv, TypeOK
  <2>2. nextConnId' \in 1..MaxConns + 1 /\ connection' \in {0} \cup Conns
    BY <1>1, <1>6 DEF Conns
  <2>3. UNCHANGED <<connect, state, channel, sock, open, delay, timerId, timers, reachable,
                    setup, clientConnect, closeCallback, object, user, called, stopped>>
    BY <1>1
  <2> QED BY <1>3, <2>1, <2>2, <2>3 DEF IInv, TypeOK, Fine, OpRecords
<1>9. P' = Left /\ Left \subseteq P /\ \A x \in P : x \in Left \/ x.op = "newConnection"
  BY <1>2, <1>3
<1> HIDE DEF P, c
<1> USE DEF Attempting, Has
<1>10. Tokens' /\ States'
  BY <1>1, <1>2, <1>5, <1>9 DEF IInv, Tokens, States, Attempt, P
<1>11. ChannelReset'
  BY <1>1, <1>9 DEF IInv, ChannelReset, P
<1>12. Connections'
  <2>1. \A d \in Conns : (conn[d] = "none" <=> d >= nextConnId)'
    <3>1. \A d \in Conns : (d >= c + 1 <=> d >= c /\ d # c)
      BY <1>6 DEF Conns
    <3> QED BY <1>1, <1>6, <1>7, <3>1 DEF IInv, Connections, c
  <2>2. \A d \in Conns : (Live(d) => connection = d)'
    BY <1>1, <1>7 DEF Live
  <2>3. (nextConnId > MaxConns => connection = MaxConns /\ conn[MaxConns] \in {"up", "shut"})'
    <3>1. c + 1 > MaxConns => c = MaxConns
      BY <1>6 DEF Conns
    <3> QED BY <1>1, <1>6, <1>7, <3>1
  <2>4. \A x \in P' : x.op = "handleClose" => x.arg \in Conns /\ conn'[x.arg] = "peerClosed"
    BY <1>6, <1>7, <1>9 DEF IInv, Connections, P
  <2>5. \A x \in P' : x.op = "connectDestroyed" => x.arg \in Conns /\ conn'[x.arg] = "closed"
    BY <1>6, <1>7, <1>9 DEF IInv, Connections, P
  <2> QED BY <2>1, <2>2, <2>3, <2>4, <2>5 DEF Connections, P
<1>13. Users'
  BY <1>1, <1>5, <1>9 DEF IInv, Users, P
<1>14. Gone'
  BY <1>1, <1>5, <1>9 DEF IInv, Gone, P
<1>15. Sockets'
  <2>1. ~Has("newConnection")'
    BY <1>2, <1>9 DEF Attempt, P
  <2>2. Owned' = Owned \cup {c} /\ c \notin Owned
    BY <1>6, <1>7 DEF Owned
  <2>3. Cardinality(Owned') = Cardinality(Owned) + 1
    BY <2>2, OwnedFinite, FS_AddElement
  <2> QED BY <1>1, <1>4, <1>5, <2>1, <2>3, OwnedFinite DEF IInv, Sockets
<1> QED BY <1>3, <1>8, <1>10, <1>11, <1>12, <1>13, <1>14, <1>15, Together DEF Content

LEMMA HandleCloseStep == ASSUME IInv, HandleClose PROVE IInv'
<1> USE DEF userVars, attemptVars, timerVars
<1> DEFINE c == Head(todo).arg
           mine == closeCallback[c] = "client"
           again == mine /\ setup.retry /\ clientConnect
           P == Items(Work)
<1>1. /\ Now("handleClose") /\ Continue(IF again THEN <<Do("restart")>> ELSE <<>>)
      /\ conn' = [conn EXCEPT ![c] = "closed"]
      /\ connection' = IF mine THEN 0 ELSE connection
      /\ queue' = Append(queue, Op("connectDestroyed", c))
      /\ UNCHANGED <<connect, state, channel, sock, open, delay, timerId, timers, reachable,
                     setup, clientConnect, closeCallback, nextConnId, object, user, called, stopped>>
  BY DEF HandleClose
<1>2. /\ Items(Work) = Left \cup {Head(todo)} /\ Head(todo).op = "handleClose"
      /\ Head(todo) \in OpRecords /\ Head(todo) \in Items(Work)
  BY <1>1, Handled
<1>3. c \in Conns /\ conn[c] = "peerClosed" /\ connection = c /\ c # 0 /\ c \in Nat
  <2>1. c \in Conns /\ conn[c] = "peerClosed" /\ connection = c
    BY <1>2 DEF IInv, Connections, Live
  <2> QED BY <2>1, SetupsAssumption DEF Conns
<1>4. /\ timers = {} /\ channel = "null" /\ user # "start" /\ ~Attempting
      /\ state = "kConnected" /\ called /\ (mine => object = "alive")
  <2>1. /\ timers = {} /\ user # "start" /\ ~Attempting /\ called /\ state = "kConnected"
    BY <1>3 DEF IInv, Tokens, States, Users
  <2>2. channel = "null"
    BY <1>2 DEF IInv, ChannelReset, Has
  <2>3. mine => object = "alive"
    BY <1>3 DEF IInv, Gone, Live
  <2> QED BY <2>1, <2>2, <2>3
<1>5. /\ \A d \in Conns : conn'[d] = IF d = c THEN "closed" ELSE conn[d]
      /\ \A d \in Conns : Live(d) => d = c
  BY <1>1, <1>3 DEF IInv, TypeOK, Connections
<1>6. /\ \A x \in Left : ~Attempt(x)
      /\ \A x \in Left : x.op # "handleClose"
      /\ \A x \in Left : x.op = "connectDestroyed" => x.arg # c
  <2>1. \A x \in Left : ~Attempt(x)
    BY <1>2, <1>4 DEF Attempting
  <2>2. \A x \in Left : x.op = "handleClose" => x.arg # c
    BY <1>1, <1>2, OfOneConnection DEF Once
  <2>3. \A x \in Left : x.op # "handleClose"
    BY <1>2, <1>5, <2>2 DEF IInv, Connections, Live
  <2>4. \A x \in Left : x.op = "connectDestroyed" => x.arg # c
    BY <1>2, <1>3 DEF IInv, Connections
  <2> QED BY <2>1, <2>3, <2>4
<1>7. /\ Do("restart") \in OpRecords /\ Do("restart").op = "restart"
      /\ Op("connectDestroyed", c) \in OpRecords /\ Op("connectDestroyed", c).arg = c
      /\ Op("connectDestroyed", c).op = "connectDestroyed"
  BY <1>3, DoFacts DEF Ops
<1>8. Queueable(Op("connectDestroyed", c)) /\ Event(Head(todo))
  <2> DEFINE y == Op("connectDestroyed", c)
  <2>1. y \in OpRecords /\ y.op = "connectDestroyed" /\ y.arg = c
    BY <1>7
  <2> HIDE DEF y
  <2>2. Queueable(y)
    BY <1>6, <2>1 DEF Queueable, Functor, Attempt
  <2> QED BY <1>2, <2>2 DEF Event, y
<1>9. /\ Fine(todo, queue)'
      /\ Items(Work)' = Left \cup {Op("connectDestroyed", c)}
                             \cup (IF again THEN {Do("restart")} ELSE {})
  <2>1. CASE again
    <3>1. Attempt(Do("restart")) /\ Do("restart").op # "startInLoop"
      BY <1>7 DEF Attempt
    <3>2. Continue(<<Do("restart")>>)
      BY <1>1, <2>1
    <3>3. Fine(todo, queue)' /\ Items(Work)' = Left \cup {Do("restart"), Op("connectDestroyed", c)}
      BY <1>1, <1>6, <1>7, <1>8, <3>1, <3>2, AfterNextQueue
    <3> QED BY <2>1, <3>3
  <2>2. CASE ~again
    <3>1. Continue(<<>>)
      BY <1>1, <2>2
    <3>2. Fine(todo, queue)' /\ Items(Work)' = Left \cup {Op("connectDestroyed", c)}
      BY <1>1, <1>8, <3>1, AfterQueue
    <3> QED BY <2>2, <3>2
  <2> QED BY <2>1, <2>2
<1>10. /\ \A x \in P' : \/ x \in Left
                        \/ x.op = "connectDestroyed" /\ x.arg = c
                        \/ x.op = "restart" /\ again
       /\ \A x \in P : x \in Left \/ x.op = "handleClose"
       /\ Left \subseteq P' /\ Left \subseteq P
  BY <1>2, <1>7, <1>9
<1>11. TypeOK'
  <2>1. conn' \in [Conns -> {"none", "up", "shut", "peerClosed", "closed", "destroyed"}]
    BY <1>1 DEF IInv, TypeOK
  <2>2. connection' \in {0} \cup Conns
    BY <1>1 DEF IInv, TypeOK
  <2>3. UNCHANGED <<connect, state, channel, sock, open, delay, timerId, timers, reachable, setup,
                    clientConnect, closeCallback, nextConnId, object, user, called, stopped>>
    BY <1>1
  <2> QED BY <1>9, <2>1, <2>2, <2>3 DEF IInv, TypeOK, Fine, OpRecords
<1>12. connection' = 0 \/ (connection' = c /\ ~mine)
  BY <1>1, <1>3
<1> HIDE DEF P, c, mine, again
<1> USE DEF Attempting, Has
<1>13. Tokens'
  BY <1>1, <1>4, <1>6, <1>10, <1>12 DEF Tokens, Attempt, P, again
<1>14. States'
  BY <1>1, <1>4, <1>6, <1>10 DEF States, Attempt, P
<1>15. ChannelReset'
  BY <1>1, <1>4, <1>6, <1>10 DEF IInv, ChannelReset, P
<1>16. Connections'
  <2>1. \A d \in Conns : (conn[d] = "none" <=> d >= nextConnId)'
    BY <1>1, <1>3, <1>5 DEF IInv, Connections
  <2>2. \A d \in Conns : (Live(d) => connection = d)'
    BY <1>5 DEF Live
  <2>3. (nextConnId > MaxConns => connection = MaxConns /\ conn[MaxConns] \in {"up", "shut"})'
    BY <1>1, <1>3 DEF IInv, Connections
  <2>4. \A x \in P' : x.op = "handleClose" => x.arg \in Conns /\ conn'[x.arg] = "peerClosed"
    BY <1>6, <1>10
  <2>5. \A x \in P' : x.op = "connectDestroyed" => x.arg \in Conns /\ conn'[x.arg] = "closed"
    BY <1>3, <1>5, <1>6, <1>10 DEF IInv, Connections, P
  <2> QED BY <2>1, <2>2, <2>3, <2>4, <2>5 DEF Connections, P
<1>17. Users'
  BY <1>1, <1>4, <1>10 DEF IInv, Users, P, again
<1>18. Gone'
  BY <1>1, <1>4, <1>5, <1>6, <1>10 DEF IInv, Gone, Live, Attempt, P, again
<1>19. Sockets'
  <2>1. Has("newConnection")' <=> Has("newConnection")
    BY <1>10 DEF P
  <2>2. Owned' = Owned
    BY <1>3, <1>5 DEF Owned
  <2> QED BY <1>1, <2>1, <2>2 DEF IInv, Sockets
<1> QED
  BY <1>9, <1>11, <1>13, <1>14, <1>15, <1>16, <1>17, <1>18, <1>19, Together DEF Content

LEMMA ConnectDestroyedStep == ASSUME IInv, ConnectDestroyed PROVE IInv'
<1> USE DEF userVars, attemptVars, timerVars
<1> DEFINE c == Head(todo).arg
           P == Items(Work)
<1>1. /\ Now("connectDestroyed") /\ Continue(<<>>) /\ conn' = [conn EXCEPT ![c] = "destroyed"]
      /\ open' = open - 1
      /\ UNCHANGED <<connect, state, channel, sock, delay, timerId, timers, queue, reachable,
                     setup, clientConnect, connection, closeCallback, nextConnId, object, user,
                     called, stopped>>
  BY DEF ConnectDestroyed
<1>2. /\ Items(Work) = Left \cup {Head(todo)} /\ Head(todo).op = "connectDestroyed"
      /\ Head(todo) \in Items(Work)
  BY <1>1, Handled
<1>3. c \in Conns /\ conn[c] = "closed"
  BY <1>2 DEF IInv, Connections
<1>4. Fine(todo, queue)' /\ Items(Work)' = Left
  BY <1>1, AfterDone
<1>5. \A d \in Conns : conn'[d] = IF d = c THEN "destroyed" ELSE conn[d]
  BY <1>1 DEF IInv, TypeOK
<1>6. \A x \in Left : x.op = "connectDestroyed" => x.arg # c
  BY <1>1, <1>2, OfOneConnection DEF Once
<1>7. /\ P' = Left /\ Left \subseteq P
      /\ \A x \in P : x \in Left \/ x.op = "connectDestroyed"
  BY <1>2, <1>4
<1> HIDE DEF P, c
<1> USE DEF Attempting, Has
<1>8. /\ Owned' = Owned \ {c} /\ c \in Owned
      /\ Cardinality(Owned') = Cardinality(Owned) - 1 /\ Cardinality(Owned') \in Nat
      /\ Cardinality(Owned) \in Nat
  <2>1. Owned' = Owned \ {c} /\ c \in Owned
    BY <1>3, <1>5 DEF Owned
  <2>2. Cardinality(Owned') = Cardinality(Owned) - 1 /\ IsFiniteSet(Owned')
    BY <2>1, OwnedFinite, FS_RemoveElement
  <2>3. Cardinality(Owned') \in Nat
    BY <2>2, FS_CardinalityType
  <2> QED BY <2>1, <2>2, <2>3, OwnedFinite
<1>9. Sockets' /\ open' \in Nat
  <2>1. Has("newConnection")' <=> Has("newConnection")
    BY <1>7 DEF P
  <2> QED BY <1>1, <1>8, <2>1 DEF IInv, Sockets
<1>10. TypeOK'
  <2>1. conn' \in [Conns -> {"none", "up", "shut", "peerClosed", "closed", "destroyed"}]
    BY <1>1 DEF IInv, TypeOK
  <2>2. UNCHANGED <<connect, state, channel, sock, delay, timerId, timers, reachable,
                    setup, clientConnect, connection, closeCallback, nextConnId, object, user,
                    called, stopped>>
    BY <1>1
  <2> QED BY <1>4, <1>9, <2>1, <2>2 DEF IInv, TypeOK, Fine, OpRecords
<1>11. Tokens' /\ States'
  BY <1>1, <1>7 DEF IInv, Tokens, States, P
<1>12. ChannelReset'
  BY <1>1, <1>7 DEF IInv, ChannelReset, P
<1>13. Connections'
  <2>1. \A d \in Conns : (conn[d] = "none" <=> d >= nextConnId)'
    BY <1>1, <1>3, <1>5 DEF IInv, Connections
  <2>2. \A d \in Conns : (Live(d) => connection = d)'
    BY <1>1, <1>5 DEF IInv, Connections, Live
  <2>3. (nextConnId > MaxConns => connection = MaxConns /\ conn[MaxConns] \in {"up", "shut"})'
    <3>1. MaxConns \in Conns
      BY SetupsAssumption DEF Conns
    <3> QED BY <1>1, <1>3, <1>5, <3>1 DEF IInv, Connections
  <2>4. \A x \in P' : x.op = "handleClose" => x.arg \in Conns /\ conn'[x.arg] = "peerClosed"
    BY <1>3, <1>5, <1>7 DEF IInv, Connections, P
  <2>5. \A x \in P' : x.op = "connectDestroyed" => x.arg \in Conns /\ conn'[x.arg] = "closed"
    BY <1>5, <1>6, <1>7 DEF IInv, Connections, P
  <2> QED BY <2>1, <2>2, <2>3, <2>4, <2>5 DEF Connections, P
<1>14. Users'
  BY <1>1, <1>7 DEF IInv, Users, P
<1>15. Gone'
  BY <1>1, <1>5, <1>7 DEF IInv, Gone, Live, P
<1> QED BY <1>4, <1>9, <1>10, <1>11, <1>12, <1>13, <1>14, <1>15, Together DEF Content

-----------------------------------------------------------------------------
(* poll.                                                                   *)

\* What poll may return with, and when.
LEMMA PolledEvents ==
  ASSUME IInv, NEW e \in ChannelEvents \cup {{}}, NEW s \in SUBSET ClientEvents
  PROVE  /\ IsFiniteSet(e \cup s) /\ e \cup s \subseteq OpRecords
         /\ \A x \in e \cup s :
              /\ Event(x)
              /\ x.op \in {"handleWrite", "handleError"} => x.arg = 0 /\ channel = "added"
              /\ x.op = "getExpired" => timers # {} \/ object = "destroyed"
              /\ x.op = "handleClose" => x.arg \in Conns /\ conn[x.arg] = "peerClosed"
<1> DEFINE w == Do("handleWrite")
           f == Do("handleError")
           t == Do("getExpired")
           h == Op("handleClose", connection)
<1>1. e \subseteq {w, f} /\ (e # {} => channel = "added")
  BY DEF ChannelEvents
<1>2. \A x \in ClientEvents :
        \/ x = t /\ (timers # {} \/ object = "destroyed")
        \/ x = h /\ connection \in Conns /\ conn[connection] = "peerClosed"
  <2>1. \A d \in Conns : conn[d] = "peerClosed" => connection = d
    BY DEF IInv, Connections, Live
  <2> QED BY <2>1 DEF ClientEvents, LastOwner
<1>3. connection \in Nat
  BY SetupsAssumption DEF IInv, TypeOK, Conns
<1>4. /\ w \in OpRecords /\ w.op = "handleWrite" /\ w.arg = 0
      /\ f \in OpRecords /\ f.op = "handleError" /\ f.arg = 0
      /\ t \in OpRecords /\ t.op = "getExpired"
      /\ h \in OpRecords /\ h.op = "handleClose" /\ h.arg = connection
  BY <1>3, DoFacts DEF Ops
<1> HIDE DEF w, f, t, h
<1>5. \A x \in e \cup s : \/ x \in {w, f} /\ channel = "added"
                          \/ x = t /\ (timers # {} \/ object = "destroyed")
                          \/ x = h /\ connection \in Conns /\ conn[connection] = "peerClosed"
  BY <1>1, <1>2
<1>6. IsFiniteSet(e \cup s)
  <2>1. /\ IsFiniteSet({w}) /\ IsFiniteSet({f}) /\ IsFiniteSet({t}) /\ IsFiniteSet({h})
    BY FS_Singleton
  <2>2. IsFiniteSet({w} \cup {f} \cup {t} \cup {h})
    BY <2>1, FS_Union
  <2>3. e \cup s \subseteq {w} \cup {f} \cup {t} \cup {h}
    BY <1>5
  <2> QED BY <2>2, <2>3, FS_Subset
<1> QED BY <1>4, <1>5, <1>6 DEF Event

LEMMA PollStep == ASSUME IInv, Poll PROVE IInv'
<1> USE DEF clientVars, connVars, userVars, attemptVars, timerVars
<1>1. PICK e \in ChannelEvents \cup {{}}, s \in SUBSET ClientEvents :
        \E order \in SetToSeqs(e \cup s) :
          /\ \A i, j \in DOMAIN order :
               order[i].op = "handleError" /\ order[j].op = "handleWrite" => j = i + 1
          /\ todo' = order \o <<Do("swap")>>
  BY DEF Poll, PollFor
<1>2. PICK order \in SetToSeqs(e \cup s) :
        /\ \A i, j \in DOMAIN order :
             order[i].op = "handleError" /\ order[j].op = "handleWrite" => j = i + 1
        /\ todo' = order \o <<Do("swap")>>
  BY <1>1
<1>3. /\ todo = <<>>
      /\ UNCHANGED <<connect, state, channel, sock, open, delay, timerId, timers, queue, reachable,
                     setup, clientConnect, connection, conn, closeCallback, nextConnId, object,
                     user, called, stopped>>
  BY DEF Poll, PollFor
<1> DEFINE E == e \cup s
           P == Items(Work)
<1>4. /\ IsFiniteSet(E) /\ E \subseteq OpRecords
      /\ \A x \in E : /\ Event(x)
                      /\ x.op \in {"handleWrite", "handleError"} => x.arg = 0 /\ channel = "added"
                      /\ x.op = "getExpired" => timers # {} \/ object = "destroyed"
                      /\ x.op = "handleClose" => x.arg \in Conns /\ conn[x.arg] = "peerClosed"
  BY PolledEvents
<1> HIDE DEF E
<1>5. /\ order \in Seq(OpRecords)
      /\ \A i \in DOMAIN order : order[i] \in E
      /\ \A i, j \in DOMAIN order : order[i] = order[j] => i = j
  <2>1. Cardinality(E) \in Nat
    BY <1>4, FS_CardinalityType
  <2>2. /\ order \in [1..Cardinality(E) -> E]
        /\ \A i, j \in 1..Cardinality(E) : order[i] = order[j] => i = j
    BY <1>2 DEF SetToSeqs, E
  <2> HIDE <1>2
  <2>3. order \in Seq(OpRecords)
    BY <1>4, <2>1, <2>2
  <2> QED BY <2>2, <2>3
<1>6. queue \in Seq(OpRecords) /\ Ordered(queue, 0) /\ Items(Work) = Items(queue)
  <2>1. queue \in Seq(OpRecords)
    BY DEF IInv, TypeOK, OpRecords
  <2>2. todo \o queue = queue /\ Len(todo) = 0
    BY <1>3, <2>1, ConcatEmptySeq
  <2> QED BY <2>1, <2>2 DEF IInv, Work
<1>7. /\ order \o <<Do("swap")>> \in Seq(OpRecords)
      /\ (order \o <<Do("swap")>>) \o queue \in Seq(OpRecords)
      /\ Ordered((order \o <<Do("swap")>>) \o queue, Len(order \o <<Do("swap")>>))
      /\ Items((order \o <<Do("swap")>>) \o queue) = Items(order) \cup {Do("swap")} \cup Items(queue)
      /\ \A x \in Items(queue) : x.op # "resetChannel"
  <2>1. \A i \in DOMAIN order : Event(order[i])
    BY <1>4, <1>5
  <2>2. \A i \in DOMAIN order : order[i].op \in {"handleWrite", "handleError"} => order[i].arg = 0
    BY <1>4, <1>5
  <2> QED BY <1>2, <1>5, <1>6, <2>1, <2>2, PollOrder
<1>8. /\ Fine(todo, queue)'
      /\ Items(Work)' = Items(order) \cup {Do("swap")} \cup Items(Work)
  BY <1>2, <1>3, <1>6, <1>7 DEF Fine, Work
<1>9. Do("swap").op = "swap"
  BY DoFacts DEF Ops
<1>10. /\ \A x \in P' : x \in P \/ x.op = "swap" \/ x \in E
       /\ P \subseteq P'
       /\ \A x \in P : x.op # "resetChannel"
  BY <1>5, <1>6, <1>7, <1>8, <1>9 DEF Items
<1>11. TypeOK'
  BY <1>3, <1>8 DEF IInv, TypeOK, Fine, OpRecords
<1> HIDE DEF P
<1> USE DEF Attempting, Has
<1>12. channel # "removed" /\ \A x \in E : x.op = "handleClose" => connection # 0
  <2>1. channel # "removed"
    BY <1>10 DEF IInv, ChannelReset, P
  <2>2. \A x \in E : x.op = "handleClose" => connection = x.arg /\ x.arg # 0
    BY <1>4, SetupsAssumption DEF IInv, Connections, Live, Conns
  <2> QED BY <2>1, <2>2
<1>13. \A x \in E : ~Attempt(x) /\ x.op # "resetChannel" /\ x.op # "connectDestroyed"
  BY <1>4 DEF Event, Attempt
<1>14. \A x \in P' : Attempt(x) => x \in P /\ x.op = "startInLoop"
  <2>1. \A x \in P' : Attempt(x) => x \in P
    BY <1>10, <1>13 DEF Attempt
  <2>2. \A i \in DOMAIN queue : i # 0
    BY <1>6
  <2>3. \A x \in P : Attempt(x) => x.op = "startInLoop"
    BY <1>6, <2>2 DEF Ordered, Rests, Items, P
  <2> QED BY <2>1, <2>3
<1>15. Tokens'
  BY <1>3, <1>10, <1>14 DEF IInv, Tokens, P
<1>16. States'
  BY <1>3, <1>10, <1>14 DEF IInv, States, Attempt, P
<1>17. ChannelReset'
  <2>1. Has("resetChannel")' <=> channel' = "removed"
    BY <1>3, <1>10, <1>12, <1>13 DEF P
  <2>2. (Has("startInLoop") \/ Has("startNow") \/ Has("restart") \/ user = "start"
           => channel = "null")'
    BY <1>3, <1>14 DEF IInv, ChannelReset, Attempt, P
  <2>3. (Has("handleClose") => channel = "null")'
    BY <1>3, <1>10, <1>12 DEF IInv, ChannelReset, Tokens, TypeOK, P
  <2>4. ~Event(Do("swap")) /\ \A x \in P : ~Event(x)
    <3>1. \A i \in DOMAIN queue : ~(i < 0)
      BY <1>6
    <3> QED BY <1>6, <1>9, <3>1 DEF Ordered, Events, Items, P, Event
  <2>5. ~Has("timer")' /\ ~Has("handleWrite") /\ ~Has("handleError") /\ ~Has("getExpired")
    BY <1>14, <2>4 DEF Attempt, Event, P
  <2>6. (Has("handleWrite") \/ Has("handleError") => channel = "added")'
    BY <1>3, <1>4, <1>10, <2>5 DEF P
  <2>7. (Has("getExpired") /\ channel = "added" => object # "alive")'
    BY <1>3, <1>4, <1>10, <2>5 DEF IInv, Tokens, P
  <2> QED BY <1>3, <1>12, <2>1, <2>2, <2>3, <2>5, <2>6, <2>7 DEF ChannelReset
<1>18. Connections'
  BY <1>3, <1>4, <1>10, <1>13 DEF IInv, Connections, Live, P
<1>19. Users'
  BY <1>3, <1>10, <1>14 DEF IInv, Users, Attempt, P
<1>20. Gone'
  BY <1>3, <1>4, <1>10, <1>14 DEF IInv, Gone, Live, Attempt, P
<1>21. Sockets'
  <2>1. Has("newConnection")' <=> Has("newConnection")
    BY <1>10, <1>14 DEF Attempt, P
  <2> QED BY <1>3, <2>1, SocketsKept DEF IInv
<1> QED
  BY <1>8, <1>11, <1>15, <1>16, <1>17, <1>18, <1>19, <1>20, <1>21, Together DEF Content

\* What getExpired takes out of the queue runs at once.
LEMMA BatchOfOne ==
  ASSUME NEW x, NEW b \in SetToSeqs({x}) PROVE b = <<x>>
<1>1. Cardinality({x}) = 1
  BY FS_Singleton
<1>2. b \in [1..1 -> {x}]
  BY <1>1 DEF SetToSeqs
<1> QED BY <1>2

LEMMA BatchOfNone ==
  ASSUME NEW b \in SetToSeqs({}) PROVE b = <<>>
<1>1. Cardinality({}) = 0
  BY FS_EmptySet
<1>2. b \in [1..0 -> {}]
  BY <1>1 DEF SetToSeqs
<1> QED BY <1>2

\* The retry timer expires: no channel is left of the attempt before.
LEMMA RetryTimerExpires ==
  ASSUME IInv, Now("getExpired"), timers # {}, timers' = {},
         Continue(<<Op("timer", timerId)>>),
         UNCHANGED <<connect, state, channel, sock, open, delay, timerId, queue, reachable>>,
         UNCHANGED clientVars
  PROVE  IInv'
<1> USE DEF clientVars, connVars, userVars
<1> DEFINE P == Items(Work)
           x == Op("timer", timerId)
<1>1. /\ Head(todo).op = "getExpired" /\ Items(Work) = Left \cup {Head(todo)}
  BY Handled
<1>2. x \in OpRecords /\ x.op = "timer"
  BY DoFacts DEF IInv, TypeOK, Ops
<1>3. /\ ~Attempting /\ channel # "added" /\ connection = 0 /\ user # "start"
      /\ object = "alive" /\ called /\ state = "kDisconnected" /\ timers = {timerId}
  BY DEF IInv, Tokens, States, Users, Gone
<1>4. Has("getExpired")
  BY <1>1 DEF Has
<1>5. channel = "null" /\ ~Has("handleWrite") /\ ~Has("handleError")
  BY <1>3, <1>4 DEF IInv, ChannelReset, TypeOK
<1>6. \A y \in Left : ~Attempt(y)
  BY <1>1, <1>3 DEF Attempting
<1> HIDE DEF x
<1>7. Fine(todo, queue)' /\ Items(Work)' = Left \cup {x}
  <2>1. Attempt(x) /\ x.op # "startInLoop" /\ Continue(<<x>>)
    BY <1>2 DEF Attempt, x
  <2> QED BY <1>2, <1>6, <2>1, AfterNext
<1>8. TypeOK'
  <2>1. UNCHANGED <<connect, state, channel, sock, open, delay, timerId, reachable, setup,
                    clientConnect, connection, conn, closeCallback, nextConnId, object, user,
                    called, stopped>>
    BY DEF connVars
  <2> QED BY <1>7, <2>1 DEF IInv, TypeOK, Fine, OpRecords
<1>9. /\ \A y \in P' : y \in Left \/ y.op = "timer"
      /\ Left \subseteq P' /\ Left \subseteq P
      /\ \A y \in P : y \in Left \/ y.op = "getExpired"
  BY <1>1, <1>2, <1>7
<1> HIDE DEF P
<1> USE DEF Attempting, Has
<1>10. Tokens' /\ States'
  BY <1>3, <1>5, <1>6, <1>9 DEF IInv, Tokens, States, Attempt, P
<1>11. ChannelReset'
  BY <1>3, <1>5, <1>9 DEF IInv, ChannelReset, P
<1>12. Connections'
  BY <1>9 DEF IInv, Connections, Live, P
<1>13. Users'
  BY <1>3, <1>6, <1>9 DEF IInv, Users, Attempt, P
<1>14. Gone'
  BY <1>3, <1>9 DEF IInv, Gone, P
<1>15. Sockets'
  <2>1. Has("newConnection")' <=> Has("newConnection")
    BY <1>9 DEF P
  <2> QED BY <2>1, SocketsKept DEF IInv
<1> QED BY <1>7, <1>8, <1>10, <1>11, <1>12, <1>13, <1>14, <1>15, Together DEF Content

\* The timer of ~TcpClient expires.
LEMMA LastOwnerExpires ==
  ASSUME IInv, Now("getExpired"), object = "destroyed", channel = "null",
         Continue(<<Do("removeConnector")>>),
         UNCHANGED <<connect, state, channel, sock, open, delay, timerId, timers, queue, reachable>>,
         UNCHANGED clientVars
  PROVE  IInv'
<1> USE DEF clientVars, connVars, userVars
<1> DEFINE P == Items(Work)
           x == Do("removeConnector")
<1>1. /\ Head(todo).op = "getExpired" /\ Items(Work) = Left \cup {Head(todo)}
      /\ \A y \in Left : Attempt(y) => y.op = "startInLoop"
  BY Handled
<1>2. x \in OpRecords /\ x.op = "removeConnector"
  BY DoFacts DEF Ops
<1>3. /\ timers = {} /\ connection = 0 /\ setup.caller = "loop" /\ user = "idle"
      /\ \A y \in P : y.op # "startInLoop"
  BY DEF IInv, Users, Gone, Has
<1>4. \A y \in Left : ~Attempt(y)
  BY <1>1, <1>3
<1> HIDE DEF x
<1>5. Fine(todo, queue)' /\ Items(Work)' = Left \cup {x}
  <2>1. Attempt(x) /\ x.op # "startInLoop" /\ Continue(<<x>>)
    BY <1>2 DEF Attempt, x
  <2> QED BY <1>2, <1>4, <2>1, AfterNext
<1>6. TypeOK'
  <2>1. UNCHANGED <<connect, state, channel, sock, open, delay, timerId, timers, reachable, setup,
                    clientConnect, connection, conn, closeCallback, nextConnId, object, user,
                    called, stopped>>
    BY DEF connVars
  <2> QED BY <1>5, <2>1 DEF IInv, TypeOK, Fine, OpRecords
<1>7. /\ \A y \in P' : y \in Left \/ y.op = "removeConnector"
      /\ Left \subseteq P' /\ Left \subseteq P
      /\ \A y \in P : y \in Left \/ y.op = "getExpired"
  BY <1>1, <1>2, <1>5
<1> HIDE DEF P
<1> USE DEF Attempting, Has
<1>8. Tokens' /\ States'
  BY <1>3, <1>4, <1>7 DEF IInv, Tokens, States, Attempt, P
<1>9. ChannelReset'
  BY <1>7 DEF IInv, ChannelReset, P
<1>10. Connections'
  BY <1>7 DEF IInv, Connections, Live, P
<1>11. Users'
  BY <1>3, <1>4, <1>7 DEF IInv, Users, Attempt, P
<1>12. Gone'
  BY <1>3, <1>4, <1>7 DEF IInv, Gone, Live, P
<1>13. Sockets'
  <2>1. Has("newConnection")' <=> Has("newConnection")
    BY <1>7 DEF P
  <2> QED BY <2>1, SocketsKept DEF IInv
<1> QED BY <1>5, <1>6, <1>8, <1>9, <1>10, <1>11, <1>12, <1>13, Together DEF Content

LEMMA ExpireStep == ASSUME CarefulUsers, IInv, Expire PROVE IInv'
<1> USE DEF attemptVars
<1> DEFINE T(d) == {Op("timer", i) : i \in d}
<1>1. PICK due \in SUBSET timers, also \in SUBSET LastOwner :
        \E batch \in SetToSeqs(T(due) \cup also) :
          Continue(batch) /\ timers' = timers \ due
  BY DEF Expire, GetExpired
<1>2. PICK batch \in SetToSeqs(T(due) \cup also) : Continue(batch) /\ timers' = timers \ due
  BY <1>1
<1>3. /\ Now("getExpired") /\ UNCHANGED clientVars
      /\ UNCHANGED <<connect, state, channel, sock, open, delay, timerId, queue, reachable>>
  BY DEF Expire, GetExpired
<1>4. /\ timers \subseteq {timerId} /\ (timers # {} => object = "alive")
      /\ LastOwner # {} => object = "destroyed" /\ channel = "null"
      /\ LastOwner \subseteq {Do("removeConnector")}
  <2>1. setup.careful
    BY DEF CarefulUsers, IInv, TypeOK
  <2> QED BY <2>1 DEF LastOwner, IInv, Tokens, Gone
<1>5. CASE due # {}
  <2>1. timers # {} /\ due = {timerId} /\ timers' = {} /\ also = {}
    BY <1>2, <1>4, <1>5
  <2>2. T(due) \cup also = {Op("timer", timerId)}
    BY <2>1
  <2>3. batch = <<Op("timer", timerId)>>
    BY <1>2, <2>2, BatchOfOne
  <2> QED BY <1>2, <1>3, <2>1, <2>3, RetryTimerExpires
<1>6. CASE due = {} /\ also # {}
  <2>1. /\ also = {Do("removeConnector")} /\ object = "destroyed" /\ channel = "null"
        /\ timers' = timers
    BY <1>2, <1>4, <1>6
  <2>2. T(due) \cup also = {Do("removeConnector")}
    BY <1>6, <2>1
  <2>3. batch = <<Do("removeConnector")>>
    BY <1>2, <2>2, BatchOfOne
  <2> QED BY <1>2, <1>3, <2>1, <2>3, LastOwnerExpires
<1>7. CASE due = {} /\ also = {}
  <2>1. T(due) \cup also = {}
    BY <1>7
  <2>2. Continue(<<>>) /\ timers' = timers
    BY <1>2, <1>7, <2>1, BatchOfNone
  <2>3. Fine(todo, queue)' /\ Items(Work)' = Left
    BY <1>3, <2>2, AfterDone
  <2>4. Items(Work) = Left \cup {Head(todo)} /\ Head(todo).op = "getExpired"
    BY <1>3, Handled
  <2> USE DEF clientVars, connVars, userVars
  <2>5. TypeOK'
    BY <1>3, <2>2, <2>3 DEF IInv, TypeOK, Fine, OpRecords
  <2> QED BY <1>3, <2>2, <2>3, <2>4, <2>5, LessWork
<1> QED BY <1>5, <1>6, <1>7

-----------------------------------------------------------------------------
(* The peer and the user.                                                  *)

LEMMA PeerClosesStep == ASSUME IInv, NEW c \in Conns, PeerCloses(c) PROVE IInv'
<1> USE DEF connectorVars, attemptVars, timerVars, userVars
<1>1. /\ conn[c] \in {"up", "shut"} /\ c < MaxConns
      /\ conn' = [conn EXCEPT ![c] = "peerClosed"]
      /\ UNCHANGED <<connect, state, channel, sock, open, delay, timerId, timers, queue, todo,
                     reachable, setup, clientConnect, connection, closeCallback, nextConnId, object,
                     user, called, stopped>>
  BY DEF PeerCloses
<1>2. \A d \in Conns : conn'[d] = IF d = c THEN "peerClosed" ELSE conn[d]
  BY <1>1 DEF IInv, TypeOK
<1>3. Fine(todo, queue)' /\ Items(Work)' = Items(Work)
  BY <1>1, IInvFine DEF Work
<1>4. TypeOK'
  BY <1>1 DEF IInv, TypeOK
<1> DEFINE P == Items(Work)
<1>5. P' = P
  BY <1>3
<1> HIDE DEF P
<1> USE DEF Attempting, Has
<1>6. Tokens' /\ States'
  BY <1>1, <1>5 DEF IInv, Tokens, States, P
<1>7. ChannelReset'
  BY <1>1, <1>5 DEF IInv, ChannelReset, P
<1>8. Connections'
  <2>1. MaxConns \in Conns /\ MaxConns # c
    BY <1>1, SetupsAssumption DEF Conns
  <2>2. \A d \in Conns : Live(d)' <=> Live(d)
    BY <1>1, <1>2 DEF Live
  <2> QED BY <1>1, <1>2, <1>5, <2>1, <2>2 DEF IInv, Connections, P
<1>9. Users'
  BY <1>1, <1>5 DEF IInv, Users, P
<1>10. Gone'
  BY <1>1, <1>2, <1>5 DEF IInv, Gone, Live, P
<1>11. Sockets'
  <2>1. Has("newConnection")' <=> Has("newConnection")
    BY <1>5 DEF P
  <2>2. Owned' = Owned
    BY <1>1, <1>2 DEF Owned
  <2> QED BY <1>1, <2>1, <2>2 DEF IInv, Sockets
<1> QED BY <1>3, <1>4, <1>6, <1>7, <1>8, <1>9, <1>10, <1>11, Together DEF Content

\* Callbacks on the loop thread call the client only outside its member functions.
LEMMA NotInAttempt ==
  ASSUME IInv, setup.caller = "loop", InUserCode
  PROVE  \A x \in Items(Work) : Attempt(x) => x.op \in {"timer", "removeConnector"}
<1>1. \A x \in Items(todo \o queue) : x.op # "startInLoop"
  BY DEF IInv, Users, Has, Work
<1>2. \A o \in {"retry", "runAfter", "newConnection", "restart", "startNow"} :
        ~(todo # <<>> /\ Head(todo).op = o)
  BY DEF InUserCode, Now
<1>3. \A x \in Items(todo \o queue) : Attempt(x) => x.op \in {"timer", "removeConnector"}
  BY <1>1, <1>2, IInvFine, UserCode
<1> QED BY <1>3 DEF Work

LEMMA Callers == ASSUME IInv PROVE setup.caller = "loop" \/ setup.caller = "other"
BY SetupsAssumption DEF IInv, TypeOK

\* A call that starts nothing: what the connector does is left alone.
LEMMA UserStep ==
  ASSUME IInv, TypeOK', Fine(todo, queue)', Users', Gone', Connections', Owned' = Owned,
         UNCHANGED <<state, channel, open, timerId, connection>>,
         timers' \subseteq timers, user' # "start", object # "alive" => object' # "alive",
         Items(Work) \subseteq Items(Work)',
         \A x \in Items(Work)' : x \in Items(Work) \/ x.op \in {"cancel", "shutdownInLoop"}
  PROVE  IInv'
<1> DEFINE P == Items(Work)
<1>1. P \subseteq P' /\ \A x \in P' : x \in P \/ x.op \in {"cancel", "shutdownInLoop"}
  OBVIOUS
<1> HIDE DEF P
<1> USE DEF Attempting, Has
<1>2. Tokens' /\ States'
  BY <1>1 DEF IInv, Tokens, States, Attempt, P
<1>3. ChannelReset'
  BY <1>1 DEF IInv, ChannelReset, P
<1>4. Sockets'
  <2>1. Has("newConnection")' <=> Has("newConnection")
    BY <1>1 DEF P
  <2> QED BY <2>1 DEF IInv, Sockets
<1> QED BY <1>2, <1>3, <1>4, Together DEF Content

LEMMA ClientConnectStep ==
  ASSUME CarefulUsers, IInv, ClientConnect PROVE IInv'
<1> USE DEF attemptVars, timerVars, connVars
<1> DEFINE P == Items(Work)
<1>1. /\ clientConnect' = TRUE /\ connect' = TRUE /\ called' = TRUE /\ stopped' = FALSE
      /\ UNCHANGED <<state, channel, sock, open, delay, timerId, timers, queue, reachable, setup,
                     connection, conn, closeCallback, nextConnId, object>>
      /\ IF setup.caller = "loop" THEN todo' = <<Do("startNow")>> \o todo /\ user' = user
                                  ELSE user' = "start" /\ todo' = todo
  BY DEF ClientConnect
<1>2. /\ ~Attempting /\ timers = {} /\ channel = "null" /\ connection = 0
      /\ state = "kDisconnected" /\ object = "alive" /\ user = "idle"
  <2>1. CASE ~called
    <3>1. object = "alive" /\ user = "idle"
      BY <2>1 DEF ClientConnect, MayConnect, MayCall
    <3>2. ~Attempting
      BY <2>1, <3>1 DEF IInv, Users, Gone, Attempting, Has
    <3> QED BY <2>1, <3>1, <3>2 DEF IInv, Users
  <2>2. CASE called
    <3>1. /\ MayCall("connect") /\ stopped /\ state = "kDisconnected" /\ channel = "null"
          /\ setup.careful => ~Pending("timer")
      BY <2>2 DEF ClientConnect, MayConnect
    <3>2. setup \in Setups /\ {"connect", "stop"} \subseteq setup.calls
      BY <3>1 DEF IInv, TypeOK, Users, MayCall
    <3>3. setup.caller = "loop"
      BY <3>2, Callers DEF CarefulUsers
    <3>4. ~Attempting
      <4>1. \A x \in Items(Work) : Attempt(x) => x.op \in {"timer", "removeConnector"}
        BY <3>1, <3>3, NotInAttempt DEF MayCall
      <4>2. \A x \in Items(Work) : x.op # "timer"
        BY <3>1, <3>2 DEF CarefulUsers, Pending, Items
      <4>3. \A x \in Items(Work) : x.op # "removeConnector"
        BY <3>1 DEF IInv, Gone, Has, MayCall
      <4> QED BY <4>1, <4>2, <4>3 DEF Attempting
    <3> QED BY <3>1, <3>3, <3>4 DEF IInv, Users, States, MayCall
  <2> QED BY <2>1, <2>2
<1>3. Do("startNow") \in OpRecords /\ Do("startNow").op = "startNow"
  BY DoFacts DEF Ops
<1>4. /\ Fine(todo, queue)'
      /\ IF setup.caller = "loop" THEN Items(Work)' = Items(Work) \cup {Do("startNow")}
                                  ELSE Items(Work)' = Items(Work)
  <2>1. CASE setup.caller = "loop"
    <3>1. /\ Fine(<<Do("startNow")>> \o todo, queue)
          /\ Items((<<Do("startNow")>> \o todo) \o queue) = Items(todo \o queue) \cup {Do("startNow")}
      <4>1. \A y \in Items(todo \o queue) : ~Attempt(y)
        BY <1>2 DEF Attempting, Work
      <4>2. Attempt(Do("startNow")) /\ Do("startNow").op # "startInLoop"
        BY <1>3 DEF Attempt
      <4> QED BY <1>3, <4>1, <4>2, IInvFine, FirstPut
    <3> QED BY <1>1, <2>1, <3>1 DEF Work
  <2>2. CASE setup.caller # "loop"
    BY <1>1, <2>2, IInvFine DEF Work
  <2> QED BY <2>1, <2>2
<1>5. TypeOK'
  <2>1. user' \in {"idle", "start"}
    BY <1>1, <1>2
  <2> QED BY <1>1, <1>4, <2>1 DEF IInv, TypeOK, Fine, OpRecords
<1>6. /\ P \subseteq P' /\ \A x \in P' : x \in P \/ (x.op = "startNow" /\ setup.caller = "loop")
      /\ user' = IF setup.caller = "loop" THEN "idle" ELSE "start"
  BY <1>1, <1>2, <1>3, <1>4
<1> HIDE DEF P
<1> USE DEF Attempting, Has
<1>7. Tokens'
  BY <1>1, <1>2, <1>6 DEF IInv, Tokens, Attempt, P
<1>8. States'
  BY <1>1, <1>2, <1>6 DEF States, Attempt, P
<1>9. ChannelReset'
  BY <1>1, <1>2, <1>6 DEF IInv, ChannelReset, P
<1>10. Connections'
  BY <1>1, <1>6 DEF IInv, Connections, Live, P
<1>11. Users'
  BY <1>1, <1>2, <1>6 DEF IInv, Users, Attempt, P
<1>12. Gone'
  BY <1>1, <1>2, <1>6 DEF IInv, Gone, P
<1>13. Sockets'
  <2>1. Has("newConnection")' <=> Has("newConnection")
    BY <1>6 DEF P
  <2> QED BY <1>1, <2>1, SocketsKept DEF IInv
<1> QED BY <1>4, <1>5, <1>7, <1>8, <1>9, <1>10, <1>11, <1>12, <1>13, Together DEF Content

LEMMA StartQueueStep == ASSUME IInv, StartQueue PROVE IInv'
<1> USE DEF attemptVars, timerVars, connVars
<1> DEFINE P == Items(Work)
<1>1. /\ user = "start" /\ queue' = Append(queue, Do("startInLoop")) /\ user' = "idle"
      /\ UNCHANGED <<connect, state, channel, sock, open, delay, timerId, timers, todo, reachable,
                     setup, clientConnect, connection, conn, closeCallback, nextConnId, object,
                     called, stopped>>
  BY DEF StartQueue
<1>2. /\ ~Attempting /\ timers = {} /\ channel = "null" /\ connection = 0
      /\ state = "kDisconnected" /\ object = "alive" /\ called /\ setup.caller # "loop"
  BY <1>1 DEF IInv, Tokens, States, ChannelReset, Users, Gone
<1>3. Do("startInLoop") \in OpRecords /\ Do("startInLoop").op = "startInLoop"
  BY DoFacts DEF Ops
<1>4. /\ Fine(todo, Append(queue, Do("startInLoop")))
      /\ Items(todo \o Append(queue, Do("startInLoop"))) = Items(todo \o queue) \cup {Do("startInLoop")}
  <2>1. \A y \in Items(todo \o queue) : ~Attempt(y)
    BY <1>2 DEF Attempting, Work
  <2>2. Attempt(Do("startInLoop")) /\ Functor(Do("startInLoop"))
    BY <1>3 DEF Attempt, Functor
  <2>3. Do("startInLoop") \notin Items(todo \o queue)
    BY <2>1, <2>2
  <2> QED BY <1>3, <2>1, <2>2, <2>3, IInvFine, LastPut
<1>5. Fine(todo, queue)' /\ Items(Work)' = Items(Work) \cup {Do("startInLoop")}
  BY <1>1, <1>4 DEF Work
<1>6. TypeOK'
  <2>1. UNCHANGED <<connect, state, channel, sock, open, delay, timerId, timers, reachable,
                    setup, clientConnect, connection, conn, closeCallback, nextConnId, object,
                    called, stopped>>
    BY <1>1
  <2>2. user' = "idle"
    BY <1>1
  <2> QED BY <1>5, <2>1, <2>2 DEF IInv, TypeOK, Fine, OpRecords
<1>7. P \subseteq P' /\ \A x \in P' : x \in P \/ x.op = "startInLoop"
  BY <1>3, <1>5
<1> HIDE DEF P
<1> USE DEF Attempting, Has
<1>8. Tokens'
  BY <1>1, <1>2, <1>7 DEF IInv, Tokens, P
<1>9. States'
  BY <1>1, <1>2, <1>7 DEF States, Attempt, P
<1>10. ChannelReset'
  BY <1>1, <1>2, <1>7 DEF IInv, ChannelReset, P
<1>11. Connections'
  BY <1>1, <1>7 DEF IInv, Connections, Live, P
<1>12. Users'
  BY <1>1, <1>2, <1>7 DEF IInv, Users, P
<1>13. Gone'
  BY <1>1, <1>2, <1>7 DEF IInv, Gone, P
<1>14. Sockets'
  <2>1. Has("newConnection")' <=> Has("newConnection")
    BY <1>7 DEF P
  <2> QED BY <1>1, <2>1, SocketsKept DEF IInv
<1> QED BY <1>5, <1>6, <1>8, <1>9, <1>10, <1>11, <1>12, <1>13, <1>14, Together DEF Content

\* stop() and disconnect(), up to the functors they queue.
LEMMA StopSteps == ASSUME IInv, StopOnLoop \/ Stop \/ StopConnector \/ Disconnect PROVE IInv'
<1> USE DEF connectorVars, attemptVars, timerVars, connVars
<1> DEFINE P == Items(Work)
<1>1. /\ UNCHANGED <<state, channel, sock, open, delay, timerId, queue, todo, reachable, setup,
                     connection, conn, closeCallback, nextConnId, object, called>>
      /\ timers' \subseteq timers
      /\ clientConnect' \in {clientConnect, FALSE} /\ connect' \in {connect, FALSE}
      /\ stopped' \in {stopped, TRUE} /\ user' \in {"idle", "stop", "cancel", "disconnect"}
  BY DEF StopOnLoop, Stop, StopConnector, Disconnect, MayCall
<1>2. Fine(todo, queue)' /\ Items(Work)' = Items(Work)
  BY <1>1, IInvFine DEF Work
<1>3. TypeOK'
  <2>1. clientConnect' \in BOOLEAN /\ connect' \in BOOLEAN /\ stopped' \in BOOLEAN
    BY <1>1, Zenon DEF IInv, TypeOK
  <2>2. /\ UNCHANGED <<state, channel, sock, open, delay, timerId, reachable, setup, connection,
                       conn, closeCallback, nextConnId, object, called>>
        /\ timers' \subseteq timers /\ user' \in {"idle", "stop", "cancel", "disconnect"}
    BY <1>1
  <2> QED BY <1>2, <2>1, <2>2 DEF IInv, TypeOK, Fine, OpRecords
<1>4. P' = P
  BY <1>2
<1>5. object = "alive"
  BY DEF StopOnLoop, Stop, StopConnector, Disconnect, MayCall, IInv, Gone, Users
<1>6. StopOnLoop => \A x \in P : Attempt(x) => x.op \in {"timer", "removeConnector"}
  BY NotInAttempt DEF StopOnLoop, MayCall
<1> HIDE DEF P
<1> USE DEF Attempting, Has
<1>7. Users'
  <2>1. CASE StopOnLoop
    <3>1. /\ "stop" \in setup.calls /\ setup.caller = "loop" /\ timers' = {} /\ ~clientConnect'
          /\ ~connect' /\ user' = "idle" /\ user = "idle"
      BY <2>1 DEF StopOnLoop, MayCall, IInv, Tokens
    <3> QED BY <1>1, <1>4, <1>6, <2>1, <3>1 DEF IInv, Users, Attempt, P
  <2>2. CASE Stop
    BY <1>1, <1>4, <2>2 DEF Stop, MayCall, IInv, Users, P
  <2>3. CASE StopConnector
    BY <1>1, <1>4, <2>3 DEF StopConnector, IInv, Users, P
  <2>4. CASE Disconnect
    BY <1>1, <1>4, <2>4 DEF Disconnect, MayCall, IInv, Users, P
  <2> QED BY <2>1, <2>2, <2>3, <2>4
<1>8. Gone'
  BY <1>1, <1>4, <1>5 DEF IInv, Gone, P
<1>9. Connections'
  BY <1>1, <1>4 DEF IInv, Connections, Live, P
<1>10. Owned' = Owned
  BY <1>1 DEF Owned
<1> QED BY <1>1, <1>2, <1>3, <1>7, <1>8, <1>9, <1>10, UserStep

LEMMA StopCancelStep == ASSUME IInv, StopCancel PROVE IInv'
<1> USE DEF attemptVars, timerVars, connVars
<1> DEFINE P == Items(Work)
           x == Op("cancel", timerId)
<1>1. /\ user = "cancel" /\ queue' = Append(queue, x) /\ user' = "idle" /\ stopped' = TRUE
      /\ UNCHANGED <<connect, state, channel, sock, open, delay, timerId, timers, todo, reachable,
                     setup, clientConnect, connection, conn, closeCallback, nextConnId, object,
                     called>>
  BY DEF StopCancel
<1>2. x \in OpRecords /\ x.op = "cancel"
  BY DoFacts DEF IInv, TypeOK, Ops
<1> HIDE DEF x
<1>3. Fine(todo, Append(queue, x)) /\ Items(todo \o Append(queue, x)) = Items(todo \o queue) \cup {x}
  BY <1>2, IInvFine, LastPut DEF Functor, Once, Attempt
<1>4. Fine(todo, queue)' /\ Items(Work)' = Items(Work) \cup {x}
  BY <1>1, <1>3 DEF Work
<1>5. TypeOK'
  <2>1. UNCHANGED <<connect, state, channel, sock, open, delay, timerId, timers, reachable,
                    setup, clientConnect, connection, conn, closeCallback, nextConnId, object,
                    called>> /\ user' = "idle" /\ stopped' = TRUE
    BY <1>1
  <2> QED BY <1>4, <2>1 DEF IInv, TypeOK, Fine, OpRecords
<1>6. P \subseteq P' /\ \A y \in P' : y \in P \/ y.op = "cancel"
  BY <1>2, <1>4
<1>7. object = "alive" /\ setup.caller # "loop"
  BY <1>1 DEF IInv, Gone, Users
<1> HIDE DEF P
<1> USE DEF Attempting, Has
<1>8. Users'
  BY <1>1, <1>6, <1>7 DEF IInv, Users, Attempt, P
<1>9. Gone'
  BY <1>1, <1>6, <1>7 DEF IInv, Gone, P
<1>10. Connections'
  BY <1>1, <1>6 DEF IInv, Connections, Live, P
<1>11. Owned' = Owned
  BY <1>1 DEF Owned
<1>12. /\ Items(Work) \subseteq Items(Work)'
       /\ \A y \in Items(Work)' : y \in Items(Work) \/ y.op \in {"cancel", "shutdownInLoop"}
  BY <1>6 DEF P
<1> QED BY <1>1, <1>4, <1>5, <1>8, <1>9, <1>10, <1>11, <1>12, UserStep

LEMMA DisconnectShutdownStep == ASSUME IInv, DisconnectShutdown PROVE IInv'
<1> USE DEF attemptVars, timerVars, connVars
<1> DEFINE P == Items(Work)
           x == Op("shutdownInLoop", connection)
           up == connection # 0 /\ conn[connection] = "up"
<1>1. /\ clientConnect' = FALSE /\ user' = "idle"
      /\ UNCHANGED <<connect, state, channel, sock, open, delay, timerId, timers, todo, reachable,
                     setup, connection, closeCallback, nextConnId, object, called, stopped>>
      /\ IF up THEN conn' = [conn EXCEPT ![connection] = "shut"] ELSE conn' = conn
      /\ queue' = queue \/ (queue' = Append(queue, x) /\ up)
      /\ user = "disconnect" \/ (object = "alive" /\ user = "idle")
  BY DEF DisconnectShutdown, MayCall
<1>2. connection \in Nat /\ (connection # 0 => connection \in Conns)
  BY SetupsAssumption DEF IInv, TypeOK, Conns
<1>3. x \in OpRecords /\ x.op = "shutdownInLoop"
  BY <1>2, DoFacts DEF Ops
<1> HIDE DEF x, up
<1>4. Fine(todo, queue)' /\ (Items(Work)' = Items(Work) \/ Items(Work)' = Items(Work) \cup {x})
  <2>1. CASE queue' = queue
    BY <1>1, <2>1, IInvFine DEF Work
  <2>2. CASE queue' = Append(queue, x)
    <3>1. /\ Fine(todo, Append(queue, x))
          /\ Items(todo \o Append(queue, x)) = Items(todo \o queue) \cup {x}
      BY <1>3, IInvFine, LastPut DEF Functor, Once, Attempt
    <3> QED BY <1>1, <2>2, <3>1 DEF Work
  <2> QED BY <1>1, <2>1, <2>2
<1>5. \A d \in Conns : conn'[d] = IF up /\ d = connection THEN "shut" ELSE conn[d]
  BY <1>1 DEF IInv, TypeOK
<1>6. TypeOK'
  <2>1. UNCHANGED <<connect, state, channel, sock, open, delay, timerId, timers, reachable,
                    setup, connection, closeCallback, nextConnId, object, called, stopped>>
        /\ user' = "idle" /\ clientConnect' \in BOOLEAN
    BY <1>1
  <2>2. conn' \in [Conns -> {"none", "up", "shut", "peerClosed", "closed", "destroyed"}]
    BY <1>1 DEF IInv, TypeOK
  <2> QED BY <1>4, <2>1, <2>2 DEF IInv, TypeOK, Fine, OpRecords
<1>7. P \subseteq P' /\ \A y \in P' : y \in P \/ y.op = "shutdownInLoop"
  BY <1>3, <1>4
<1>8. object = "alive"
  BY <1>1 DEF IInv, Gone, Users
<1> HIDE DEF P
<1> USE DEF Attempting, Has
<1>9. Users'
  BY <1>1, <1>7 DEF IInv, Users, Attempt, P
<1>10. Gone'
  BY <1>1, <1>7, <1>8 DEF IInv, Gone, P
<1>11. Connections'
  <2>1. MaxConns \in Conns
    BY SetupsAssumption DEF Conns
  <2>2. \A d \in Conns : Live(d)' <=> Live(d)
    BY <1>5 DEF Live, up
  <2>3. \A d \in Conns : \A v \in {"none", "peerClosed", "closed"} : conn'[d] = v <=> conn[d] = v
    BY <1>5 DEF up
  <2>4. conn[MaxConns] \in {"up", "shut"} => conn'[MaxConns] \in {"up", "shut"}
    BY <1>5, <2>1
  <2> QED BY <1>1, <1>7, <2>2, <2>3, <2>4 DEF IInv, Connections, P
<1>12. Owned' = Owned
  BY <1>5 DEF Owned, up
<1>13. /\ Items(Work) \subseteq Items(Work)'
       /\ \A y \in Items(Work)' : y \in Items(Work) \/ y.op \in {"cancel", "shutdownInLoop"}
  BY <1>7 DEF P
<1> QED BY <1>1, <1>4, <1>6, <1>9, <1>10, <1>11, <1>12, <1>13, UserStep

LEMMA DestroyStep == ASSUME CarefulUsers, IInv, Destroy PROVE IInv'
<1> USE DEF attemptVars, timerVars, userVars
<1> DEFINE P == Items(Work)
<1>1. /\ UNCHANGED <<state, channel, sock, delay, timerId, queue, todo, reachable, setup,
                     clientConnect, connection, nextConnId, user, called, stopped>>
      /\ timers' = timers \ {timerId} /\ connect' \in {connect, FALSE}
      /\ setup.caller = "loop" /\ user = "idle" /\ object = "alive" /\ InUserCode
      /\ UNCHANGED <<conn, open>>
      /\ \/ /\ connection # 0 /\ channel = "null" /\ object' = "released"
            /\ closeCallback' = [closeCallback EXCEPT ![connection] = "detail"]
         \/ /\ connection = 0 /\ object' = "destroyed" /\ ~connect'
            /\ UNCHANGED closeCallback
  <2>1. setup.careful
    BY DEF CarefulUsers, IInv, TypeOK
  <2> QED BY <2>1 DEF Destroy, DestroyConnected, DestroyUnconnected, MayCall
<1>2. Fine(todo, queue)' /\ Items(Work)' = Items(Work)
  BY <1>1, IInvFine DEF Work
<1>3. TypeOK'
  <2>1. closeCallback' \in [Conns -> {"client", "detail"}]
    BY <1>1 DEF IInv, TypeOK
  <2>2. UNCHANGED <<state, channel, sock, open, delay, timerId, reachable, setup,
                    clientConnect, connection, conn, nextConnId, user, called, stopped>>
        /\ timers' \subseteq timers
        /\ object' \in {"released", "destroyed"}
    BY <1>1
  <2>3. connect' \in BOOLEAN
    BY <1>1, Zenon DEF IInv, TypeOK
  <2> QED BY <1>2, <2>1, <2>2, <2>3 DEF IInv, TypeOK, Fine, OpRecords
<1>4. P' = P
  BY <1>2
<1>5. /\ timers' = {} /\ (connection # 0 => ~Attempting)
      /\ \A x \in P : Attempt(x) => x.op = "timer"
  <2>1. timers' = {} /\ (connection # 0 => ~Attempting)
    BY <1>1 DEF IInv, Tokens
  <2>2. \A x \in P : Attempt(x) => x.op \in {"timer", "removeConnector"}
    BY <1>1, NotInAttempt
  <2>3. \A x \in P : x.op # "removeConnector"
    BY <1>1 DEF IInv, Gone, Has
  <2> QED BY <2>1, <2>2, <2>3
<1>6. \A d \in Conns : Live(d) => closeCallback'[d] = "detail"
  <2> SUFFICES ASSUME NEW d \in Conns, Live(d) PROVE closeCallback'[d] = "detail"
    OBVIOUS
  <2>1. connection = d /\ d # 0
    BY SetupsAssumption DEF IInv, Connections, Conns
  <2> QED BY <1>1, <2>1 DEF IInv, TypeOK
<1> HIDE DEF P
<1> USE DEF Attempting, Has
<1>7. Users'
  <2>1. /\ Has("startInLoop")' <=> Has("startInLoop")
        /\ Has("restart")' <=> Has("restart")
        /\ Has("startNow")' <=> Has("startNow")
        /\ Has("runAfter")' <=> Has("runAfter")
    BY <1>4 DEF P
  <2>2. ~called => \A x \in Items(Work)' : Attempt(x) => x.op = "removeConnector"
    BY <1>4 DEF IInv, Users, P
  <2>3. connect' => connect
    BY <1>1, Zenon
  <2> HIDE DEF Has
  <2> QED BY <1>1, <1>5, <2>1, <2>2, <2>3 DEF IInv, Users
<1>8. Gone'
  <2>1. \A x \in P' : x.op # "removeConnector"
    BY <1>4, <1>5 DEF Attempt
  <2> QED BY <1>1, <1>4, <1>5, <1>6, <2>1 DEF Gone, Live, P
<1>9. Connections'
  BY <1>1, <1>4 DEF IInv, Connections, Live, P
<1>10. Owned' = Owned
  BY <1>1 DEF Owned
<1> QED BY <1>1, <1>2, <1>3, <1>7, <1>8, <1>9, <1>10, UserStep

-----------------------------------------------------------------------------
(* The specification.                                                      *)

LEMMA InitIInv == Init => IInv
<1> SUFFICES ASSUME Init PROVE IInv
  OBVIOUS
<1> USE DEF Init, ConnectorInit
<1>1. MaxConns \in Nat \ {0}
  BY SetupsAssumption
<1>2. Work = <<>> /\ Len(todo) = 0 /\ Items(Work) = {}
  <2>1. <<>> \in Seq(OpRecords)
    OBVIOUS
  <2>2. <<>> \o <<>> = <<>>
    BY <2>1, ConcatEmptySeq
  <2>3. Work = <<>>
    BY <2>2 DEF Work
  <2> QED BY <2>3 DEF Items
<1>3. Ordered(Work, Len(todo))
  BY <1>2 DEF Ordered, Attempts, Repeats, Rests, Swaps, Events, Functors, Resets, ErrorsFirst, Plain
<1>4. TypeOK
  <2>1. nextConnId \in 1..MaxConns + 1
    BY <1>1
  <2>2. queue \in Seq([op : Ops, arg : Nat]) /\ todo \in Seq([op : Ops, arg : Nat])
    OBVIOUS
  <2>3. timers \subseteq Nat /\ timerId \in Nat /\ open \in Nat /\ delay \in Delays
    BY DEF NoTimer, Delays, kInitRetryDelayMs
  <2>4. connect \in BOOLEAN /\ reachable \in BOOLEAN /\ clientConnect \in BOOLEAN
        /\ called \in BOOLEAN /\ stopped \in BOOLEAN
    OBVIOUS
  <2>5. /\ conn \in [Conns -> {"none", "up", "shut", "peerClosed", "closed", "destroyed"}]
        /\ closeCallback \in [Conns -> {"client", "detail"}]
    OBVIOUS
  <2> QED BY <2>1, <2>2, <2>3, <2>4, <2>5 DEF TypeOK
<1> USE DEF Attempting, Has
<1>5. Tokens /\ States /\ ChannelReset
  BY <1>2 DEF Tokens, States, ChannelReset
<1>6. \A c \in Conns : conn[c] = "none" /\ c >= nextConnId
  BY <1>1 DEF Conns
<1>7. Connections
  BY <1>1, <1>2, <1>6 DEF Connections, Live
<1>8. Users /\ Gone
  BY <1>2 DEF Users, Gone
<1>9. Sockets
  <2>1. Owned = {}
    BY <1>6 DEF Owned
  <2> QED BY <1>2, <2>1, FS_EmptySet DEF Sockets
<1> QED BY <1>3, <1>4, <1>5, <1>7, <1>8, <1>9 DEF IInv

LEMMA ConnectorKeeps == ASSUME IInv, ConnectorStep PROVE IInv'
<1> USE DEF ConnectorStep
<1>1. CASE StartInLoop
  BY <1>1, StartStep
<1>2. CASE Retry
  BY <1>2, RetryStep
<1>3. CASE RunAfter
  BY <1>3, RunAfterStep
<1>4. CASE HandleWrite
  <2>1. CASE state = "kConnecting"
    BY <1>4, <2>1, HandleWriteStep
  <2>2. CASE state # "kConnecting"
    BY <1>4, <2>2, PlainSteps
  <2> QED BY <2>1, <2>2
<1>5. CASE HandleError
  BY <1>5, HandleErrorStep
<1>6. CASE ResetChannel
  BY <1>6, ResetChannelStep
<1>7. CASE Restart
  BY <1>7, RestartStep
<1>8. CASE CancelInLoop
  BY <1>8, PlainSteps
<1>9. CASE Swap
  BY <1>9, SwapStep
<1> QED BY <1>1, <1>2, <1>3, <1>4, <1>5, <1>6, <1>7, <1>8, <1>9

LEMMA StutterKeeps == ASSUME IInv, UNCHANGED vars PROVE IInv'
<1>1. /\ UNCHANGED <<connect, state, channel, sock, open, delay, timerId, timers, queue, todo,
                     reachable, setup, clientConnect, connection, conn, closeCallback, nextConnId,
                     object, user, called, stopped>>
  BY DEF vars, connectorVars, attemptVars, timerVars, clientVars, connVars, userVars
<1>2. Fine(todo, queue)' /\ Items(Work)' = Items(Work)
  BY <1>1, IInvFine DEF Work
<1>3. TypeOK'
  BY <1>1 DEF IInv, TypeOK
<1> QED BY <1>1, <1>2, <1>3, LessWork

LEMMA NextKeeps == ASSUME CarefulUsers, IInv, [Next]_vars PROVE IInv'
<1>1. CASE LoopThread
  <2>1. CASE Poll
    BY <2>1, PollStep
  <2>2. CASE ConnectorStep
    BY <2>2, ConnectorKeeps
  <2>3. CASE NewConnection
    BY <2>3, NewConnectionStep
  <2>4. CASE HandleClose
    BY <2>4, HandleCloseStep
  <2>5. CASE ConnectDestroyed
    BY <2>5, ConnectDestroyedStep
  <2>6. CASE ShutdownInLoop
    BY <2>6, PlainSteps
  <2>7. CASE RemoveConnector
    BY <2>7, PlainSteps
  <2>8. CASE Expire
    BY <2>8, ExpireStep
  <2> QED BY <1>1, <2>1, <2>2, <2>3, <2>4, <2>5, <2>6, <2>7, <2>8 DEF LoopThread
<1>2. CASE User
  <2>1. CASE ClientConnect
    BY <2>1, ClientConnectStep
  <2>2. CASE StartQueue
    BY <2>2, StartQueueStep
  <2>3. CASE StopOnLoop \/ Stop \/ StopConnector \/ Disconnect
    BY <2>3, StopSteps
  <2>4. CASE StopCancel
    BY <2>4, StopCancelStep
  <2>5. CASE DisconnectShutdown
    BY <2>5, DisconnectShutdownStep
  <2>6. CASE Destroy
    BY <2>6, DestroyStep
  <2> QED BY <1>2, <2>1, <2>2, <2>3, <2>4, <2>5, <2>6 DEF User
<1>3. ASSUME NEW c \in Conns, PeerCloses(c) PROVE IInv'
  BY <1>3, PeerClosesStep
<1>4. CASE ServerComesUp /\ UNCHANGED clientVars
  BY <1>4, ServerStep
<1>5. CASE UNCHANGED vars
  BY <1>5, StutterKeeps
<1> QED BY <1>1, <1>2, <1>3, <1>4, <1>5 DEF Next

\* The inductive invariant holds in every reachable state.
THEOREM Inductive == ASSUME CarefulUsers PROVE Spec => []IInv
<1>1. Init => IInv
  BY InitIInv
<1>2. IInv /\ [Next]_vars => IInv'
  BY NextKeeps
<1> QED BY <1>1, <1>2, PTL DEF Spec

LEMMA PendingHas == \A o : Pending(o) <=> Has(o)
BY DEF Pending, Has, Items

\* startInLoop finds kDisconnected and no channel_, handleWrite and handleError the state
\* they expect, ~Connector no channel_ and removeConnection its connection: no assert of
\* Connector.cpp and TcpClient.cpp fails, however calls, events and functors interleave.
THEOREM ClientAssertsHold == ASSUME CarefulUsers PROVE Spec => []NoAssertFails
<1>1. IInv => NoAssertFails
  <2> SUFFICES ASSUME IInv PROVE NoAssertFails
    OBVIOUS
  <2>1. ASSUME NEW o, Now(o), o # "swap" PROVE Head(todo) \in Items(Work) /\ Head(todo).op = o
    BY <2>1, Handled
  <2>2. StartsIdle
    BY StartFinds DEF StartsIdle
  <2>3. object = "released" => channel = "null"
    BY DEF IInv, Gone
  <2>4. Now("handleWrite") => state \in {"kConnecting", "kDisconnected"}
    BY <2>1 DEF IInv, ChannelReset, States, Has
  <2>5. Now("handleError") => state = "kConnecting"
    BY <2>1 DEF IInv, ChannelReset, States, Has
  <2>6. Now("handleClose") => connection = Head(todo).arg
    BY <2>1 DEF IInv, Connections, Live
  <2> QED BY <2>2, <2>3, <2>4, <2>5, <2>6 DEF NoAssertFails, IInv
<1> QED BY <1>1, Inductive, PTL

\* Every descriptor that connect() created and nobody closed belongs to the channel of an
\* attempt, to a connection, or is on its way from one to the other, and start, restart and
\* retry never set off two attempts at once.
THEOREM ClientSocketsOwned == ASSUME CarefulUsers PROVE Spec => []SocketsOwned
<1>1. IInv => SocketsOwned
  <2> SUFFICES ASSUME IInv PROVE SocketsOwned
    OBVIOUS
  <2> DEFINE starts == {i \in DOMAIN Work : Work[i].op \in {"startInLoop", "startNow", "timer",
                                                            "retry", "runAfter", "restart"}}
  <2>1. \A i \in starts : Attempt(Work[i]) /\ Work[i].op # "newConnection"
    BY DEF Attempt
  <2>2. starts # {} => /\ Attempting /\ ~Pending("newConnection")
                       /\ \E i : starts = {i}
    <3> SUFFICES ASSUME NEW i \in starts
                 PROVE  Attempting /\ ~Pending("newConnection") /\ starts = {i}
      OBVIOUS
    <3>1. Attempting
      BY <2>1 DEF Attempting, Items
    <3>2. ~Pending("newConnection")
      BY <2>1 DEF Pending, IInv, Ordered, Attempts, Attempt
    <3>3. \A j \in starts : j = i
      BY <2>1 DEF IInv, Ordered, Attempts
    <3> QED BY <3>1, <3>2, <3>3
  <2>3. Pending("newConnection") => Attempting
    BY DEF Pending, Attempting, Items, Attempt
  <2>4. timers # {} => timers = {timerId}
    BY DEF IInv, Tokens
  <2> HIDE DEF starts
  <2>5. /\ starts = {} => Cardinality(starts) = 0
        /\ starts # {} => Cardinality(starts) = 1
        /\ timers = {} => Cardinality(timers) = 0
        /\ timers # {} => Cardinality(timers) = 1
    BY <2>2, <2>4, FS_EmptySet, FS_Singleton
  <2>6. /\ Attempting => timers = {} /\ channel # "added" /\ connection = 0
        /\ timers # {} => channel # "added" /\ connection = 0
        /\ channel = "added" => connection = 0
    BY DEF IInv, Tokens
  <2>7. OneAttempt
    BY <2>2, <2>3, <2>5, <2>6 DEF OneAttempt, starts
  <2> QED BY <2>7, PendingHas DEF IInv, Sockets, Owned, SocketsOwned
<1> QED BY <1>1, Inductive, PTL

\* Nothing calls into the client or its connector through a raw this once they are gone.
THEOREM ClientNoStaleThis == ASSUME CarefulUsers PROVE Spec => []NoStaleThis
<1>1. IInv => NoStaleThis
  <2> SUFFICES ASSUME IInv PROVE NoStaleThis
    OBVIOUS
  <2>1. \A o \in {"startInLoop", "startNow", "timer", "retry", "runAfter"} :
          Pending(o) => Attempting
    BY DEF Pending, Attempting, Items, Attempt
  <2>2. \A o \in {"newConnection", "restart"} : object # "alive" => ~Pending(o)
    BY DEF Pending, IInv, Gone, Items, Attempt
  <2>3. \A o \in {"resetChannel", "handleWrite", "handleError"} : channel = "null" => ~Pending(o)
    BY PendingHas DEF IInv, ChannelReset
  <2> QED BY <2>1, <2>2, <2>3 DEF IInv, Gone, Live, NoStaleThis
<1> QED BY <1>1, Inductive, PTL

\* After stop() only connect() sets connect_ of the connector again, when stop() is called
\* on the loop thread or no connection is retried: no restart() undoes it.
THEOREM StopIsFinal ==
  ASSUME CarefulUsers, \A s \in Setups : s.caller = "loop" \/ ~s.retry
  PROVE  Spec => [](stopped => ~connect)
<1>1. IInv => (stopped => ~connect)
  BY DEF IInv, TypeOK, Users
<1> QED BY <1>1, Inductive, PTL
=============================================================================
