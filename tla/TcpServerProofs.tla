-------------------------- MODULE TcpServerProofs --------------------------
(* The way of the connections of a TcpServer, for any number of loops,     *)
(* connections and messages and for every setup, and of the same server    *)
(* with its EventLoopThreadPool.                                           *)
EXTENDS PooledServer, TLAPS

Names == SharedOps \cup RawOps

\* Is operation o on c among the operations s?  Is it there at most once?
Has(s, o, c) == \E i \in DOMAIN s : s[i].op = o /\ s[i].conn = c

Single(s, o, c) ==
    \A i, j \in DOMAIN s :
        s[i].op = o /\ s[i].conn = c /\ s[j].op = o /\ s[j].conn = c => i = j

\* Loop l has operation o on c to do or in its queue, and only once.
Waits(l, o, c) == Has(todo[l], o, c) \/ Has(queue[l], o, c)

Once(l, o, c) ==
    /\ Single(todo[l], o, c) /\ Single(queue[l], o, c)
    /\ ~(Has(todo[l], o, c) /\ Has(queue[l], o, c))

-----------------------------------------------------------------------------
(* What holds for every setup.                                             *)

\* Operations are done by the loop they belong to, and channels are active there.
InPlace ==
    /\ \A l \in Loops, c \in Conns, o \in Names :
         Waits(l, o, c) => l = IF o = "removeConnectionInLoop" THEN Base ELSE loop[c]
    /\ \A l \in Loops : \A e \in active[l] : e.conn # NoConn => loop[e.conn] = l

\* Nobody knows a connection that was not accepted yet.
Unborn ==
    \A c \in Conns : state[c] = "none" =>
        /\ c \notin connections /\ index[c] = kNew
        /\ \A l \in Loops, o \in Names : ~Waits(l, o, c)
        /\ \A l \in Loops : \A e \in active[l] : e.conn # c
        /\ \A t \in UserThreads : user[t].conn # c

\* connectEstablished has been called, once, when state_ says so.
UpOnce ==
    /\ \A c \in Conns : ups[c] = IF state[c] \in {"none", "kConnecting"} THEN 0 ELSE 1
    /\ \A t \in UserThreads : user[t].conn # NoConn => ups[user[t].conn] = 1

\* A connection is in the map, or connectDestroyed waits, once, or was called.
DownOnce ==
    \A c \in Conns :
        /\ downs[c] \in {0, 1} /\ downs[c] <= ups[c]
        /\ c \in connections => downs[c] = 0
        /\ \A l \in Loops :
             /\ Once(l, "connectDestroyed", c)
             /\ Waits(l, "connectDestroyed", c) => c \notin connections /\ downs[c] = 0
        /\ state[c] # "none" /\ c \notin connections /\ downs[c] = 0
             => \E l \in Loops : Waits(l, "connectDestroyed", c)

GeneralInv == TypeOK /\ InPlace /\ Unborn /\ UpOnce /\ DownOnce

-----------------------------------------------------------------------------
(* What holds when the user only acts in callbacks.                        *)

Open(c) == state[c] \in {"kConnected", "kDisconnecting"}

\* No callback acts on a connection that was closed: callbacks use only their own
\* connection, and there is no write-complete callback to come late.
Strict == setup.own /\ ~setup.writeComplete

USE DEF Strict

\* handleClose was called and connectDestroyed was not.
Closing(c) == Open(c) /\ "IN" \notin interest[c]

\* Which operations a loop meets in which phase of its loop().
PhaseInv ==
    \A l \in Loops :
        /\ phase[l] = "poll" => todo[l] = <<>>
        /\ phase[l] # "events" => active[l] = {}
        /\ phase[l] = "events" =>
             \A c \in Conns, o \in {"connectDestroyed", "remove", "writeComplete"} :
                ~Has(todo[l], o, c)
        /\ phase[l] = "functors" =>
             \A c \in Conns, o \in {"handleRead", "handleWrite", "handleError", "handleClose"} :
                ~Has(todo[l], o, c)

\* Functors are the four that own their connection; without I/O loops
\* removeConnectionInLoop is called directly and connectDestroyed waits for the
\* functors of the same iteration.
QueueInv ==
    /\ \A l \in Loops, c \in Conns :
        /\ \A o \in RawOps \cup {"callback", "remove"} : ~Has(queue[l], o, c)
        /\ Waits(l, "writeComplete", c) => setup.writeComplete
    /\ setup.pool = {} => \A c \in Conns :
        /\ loop[c] = Base
        /\ ~Has(queue[Base], "removeConnectionInLoop", c)
        /\ Has(todo[Base], "removeConnectionInLoop", c) => phase[Base] = "events"
        /\ Has(queue[Base], "connectDestroyed", c) => phase[Base] = "events"

\* The steps of a connection's life are there once, and so is what may close it:
\* its channel among the active ones, handleRead, or handleClose.
UniqueOps == {"connectEstablished", "removeConnectionInLoop", "remove", "handleRead",
              "handleClose"}

UniqueInv ==
    \A l \in Loops :
        /\ \A c \in Conns, o \in UniqueOps : Once(l, o, c)
        /\ \A c \in Conns : ~(Has(todo[l], "handleRead", c) /\ Has(todo[l], "handleClose", c))
        /\ \A e, f \in active[l] : e.conn = f.conn => e = f
        /\ \A e \in active[l] : ~Has(todo[l], "handleRead", e.conn)
                                /\ ~Has(todo[l], "handleClose", e.conn)

\* Events are handled on a connection that is up; what may close it is only there
\* before it is closed, and end of file is reported with every hang-up.
EventInv ==
    \A l \in Loops :
        /\ \A c \in Conns, o \in RawOps : Has(todo[l], o, c) => Open(c)
        /\ \A c \in Conns : Has(todo[l], "handleRead", c) \/ Has(todo[l], "handleClose", c)
                              => "IN" \in interest[c]
        /\ \A e \in active[l] : e.conn # NoConn =>
              /\ Open(e.conn) /\ "IN" \in interest[e.conn]
              /\ "HUP" \in e.revents => "IN" \in e.revents

\* The life of a connection: what waits for it, the map and its registration.
LifeInv ==
    \A c \in Conns :
        /\ state[c] \in {"none", "kConnecting"} => index[c] = kNew /\ interest[c] = {}
        /\ state[c] = "kConnecting" => c \in connections
        /\ Open(c) => index[c] # kNew
        /\ Open(c) /\ "IN" \in interest[c] => c \in connections /\ index[c] = kAdded
        /\ state[c] # "kDisconnected" => downs[c] = 0
        /\ state[c] = "kDisconnected" =>
             /\ interest[c] = {} /\ c \notin connections
             /\ index[c] # kNew => Has(todo[loop[c]], "remove", c)
        /\ \A l \in Loops :
             /\ Waits(l, "connectEstablished", c) => state[c] = "kConnecting"
             /\ Waits(l, "removeConnectionInLoop", c) => c \in connections /\ Closing(c)
             /\ Waits(l, "connectDestroyed", c) => Closing(c)
             /\ Has(todo[l], "remove", c) => state[c] = "kDisconnected" /\ index[c] # kNew

\* A connection that was closed is not polled again before connectDestroyed: its
\* channel is disabled, or (without I/O loops) there is no poll in between.
ClosingInv ==
    \A c \in Conns : Closing(c) =>
        /\ c \in connections => Waits(Base, "removeConnectionInLoop", c)
        /\ Strict => index[c] = kDeleted /\ interest[c] = {}
        /\ setup.pool = {} =>
             /\ phase[Base] # "poll"
             /\ phase[Base] = "functors" => Has(todo[Base], "connectDestroyed", c)

\* send and shutdown are called by the callback that the loop is in, which is
\* called by what the loop does next.
CallOps == {"callback", "sendInLoop", "shutdownInLoop"}

NoCalls(s) == \A i \in DOMAIN s : s[i].op \notin CallOps

Flat(s) == s # <<>> => NoCalls(Tail(s))

Stacked(s) ==
    \/ Flat(s)
    \/ s # <<>> /\ Head(s).op \in {"sendInLoop", "shutdownInLoop"} /\ Flat(Tail(s))

CallInv ==
    /\ \A l \in Loops : Stacked(todo[l])
    /\ Strict =>
         \A l \in Loops, c \in Conns :
            Has(todo[l], "callback", c) \/ Has(todo[l], "sendInLoop", c) => ~Closing(c)

CallbackInv ==
    /\ \A t \in UserThreads : user[t] = Idle
    /\ PhaseInv /\ QueueInv /\ UniqueInv /\ EventInv /\ LifeInv /\ ClosingInv /\ CallInv

IInv == GeneralInv /\ (CallbacksOnly => CallbackInv)

-----------------------------------------------------------------------------
(* Sequences of operations.                                                *)

LEMMA NothingThere ==
  ASSUME NEW s, s = <<>>, NEW o, NEW c
  PROVE  ~Has(s, o, c) /\ Single(s, o, c)
<1>1. \A i \in DOMAIN s : FALSE
  OBVIOUS
<1>2. ~Has(s, o, c)
  BY <1>1 DEF Has
<1>3. Single(s, o, c)
  BY <1>1 DEF Single
<1> QED BY <1>2, <1>3

LEMMA OneOp ==
  ASSUME NEW x \in Ops, NEW o, NEW c
  PROVE  /\ <<x>> \in Seq(Ops)
         /\ Has(<<x>>, o, c) <=> x.op = o /\ x.conn = c
         /\ Single(<<x>>, o, c)
<1>1. DOMAIN <<x>> = {1} /\ <<x>>[1] = x
  OBVIOUS
<1> QED BY <1>1 DEF Has, Single

LEMMA HeadTail ==
  ASSUME NEW s \in Seq(Ops), s # <<>>, NEW o, NEW c
  PROVE  /\ Head(s) \in Ops /\ Tail(s) \in Seq(Ops)
         /\ Has(s, o, c) <=> (Head(s).op = o /\ Head(s).conn = c) \/ Has(Tail(s), o, c)
         /\ Single(s, o, c) => /\ Single(Tail(s), o, c)
                               /\ Head(s).op = o /\ Head(s).conn = c => ~Has(Tail(s), o, c)
<1>1. /\ Len(s) \in Nat /\ Len(s) >= 1 /\ Head(s) = s[1] /\ DOMAIN s = 1..Len(s)
      /\ Tail(s) \in Seq(Ops) /\ Len(Tail(s)) = Len(s) - 1 /\ DOMAIN Tail(s) = 1..(Len(s) - 1)
      /\ \A i \in 1..(Len(s) - 1) : Tail(s)[i] = s[i + 1]
      /\ s[1] \in Ops
  OBVIOUS
<1>2. \A i \in 2..Len(s) : i - 1 \in 1..(Len(s) - 1) /\ Tail(s)[i - 1] = s[i]
  BY <1>1
<1>3. Has(s, o, c) <=> (Head(s).op = o /\ Head(s).conn = c) \/ Has(Tail(s), o, c)
  <2>1. ASSUME Has(s, o, c) PROVE (Head(s).op = o /\ Head(s).conn = c) \/ Has(Tail(s), o, c)
    <3>1. PICK i \in 1..Len(s) : s[i].op = o /\ s[i].conn = c
      BY <1>1, <2>1 DEF Has
    <3>2. CASE i = 1
      BY <1>1, <3>1, <3>2
    <3>3. CASE i # 1
      <4>1. i \in 2..Len(s)
        BY <1>1, <3>3
      <4> QED BY <1>1, <1>2, <3>1, <4>1 DEF Has
    <3> QED BY <3>2, <3>3
  <2>2. ASSUME Has(Tail(s), o, c) PROVE Has(s, o, c)
    <3>1. PICK i \in 1..(Len(s) - 1) : Tail(s)[i].op = o /\ Tail(s)[i].conn = c
      BY <1>1, <2>2 DEF Has
    <3>2. i + 1 \in 1..Len(s) /\ Tail(s)[i] = s[i + 1]
      BY <1>1
    <3> QED BY <1>1, <3>1, <3>2 DEF Has
  <2>3. ASSUME Head(s).op = o, Head(s).conn = c PROVE Has(s, o, c)
    BY <1>1, <2>3 DEF Has
  <2> QED BY <2>1, <2>2, <2>3
<1>4. ASSUME Single(s, o, c) PROVE Single(Tail(s), o, c)
  <2>1. SUFFICES ASSUME NEW i \in 1..(Len(s) - 1), NEW j \in 1..(Len(s) - 1),
                        Tail(s)[i].op = o, Tail(s)[i].conn = c,
                        Tail(s)[j].op = o, Tail(s)[j].conn = c
                 PROVE  i = j
    BY <1>1 DEF Single
  <2>2. i + 1 \in 1..Len(s) /\ j + 1 \in 1..Len(s) /\ Tail(s)[i] = s[i + 1] /\ Tail(s)[j] = s[j + 1]
    BY <1>1
  <2>3. i + 1 = j + 1
    BY <1>1, <1>4, <2>1, <2>2 DEF Single
  <2> QED BY <2>3
<1>5. ASSUME Single(s, o, c), Head(s).op = o, Head(s).conn = c PROVE ~Has(Tail(s), o, c)
  <2>1. SUFFICES ASSUME NEW i \in 1..(Len(s) - 1), Tail(s)[i].op = o, Tail(s)[i].conn = c
                 PROVE  FALSE
    BY <1>1 DEF Has
  <2>2. i + 1 \in 1..Len(s) /\ Tail(s)[i] = s[i + 1] /\ 1 \in 1..Len(s)
    BY <1>1
  <2>3. i + 1 = 1
    BY <1>1, <1>5, <2>1, <2>2 DEF Single
  <2> QED BY <2>3
<1> QED BY <1>1, <1>3, <1>4, <1>5

LEMMA Joined ==
  ASSUME NEW s \in Seq(Ops), NEW t \in Seq(Ops), NEW o, NEW c
  PROVE  /\ s \o t \in Seq(Ops)
         /\ Has(s \o t, o, c) <=> Has(s, o, c) \/ Has(t, o, c)
         /\ Single(s, o, c) /\ Single(t, o, c) /\ ~(Has(s, o, c) /\ Has(t, o, c))
              => Single(s \o t, o, c)
<1>1. /\ s \o t \in Seq(Ops) /\ Len(s) \in Nat /\ Len(t) \in Nat
      /\ DOMAIN s = 1..Len(s) /\ DOMAIN t = 1..Len(t) /\ DOMAIN (s \o t) = 1..(Len(s) + Len(t))
  OBVIOUS
<1>2. \A i \in 1..Len(s) : i \in 1..(Len(s) + Len(t)) /\ (s \o t)[i] = s[i]
  BY <1>1
<1>3. \A i \in 1..Len(t) : Len(s) + i \in 1..(Len(s) + Len(t)) /\ (s \o t)[Len(s) + i] = t[i]
  BY <1>1
<1>4. \A i \in 1..(Len(s) + Len(t)) : i \in 1..Len(s) \/ (i - Len(s) \in 1..Len(t) /\ (s \o t)[i] = t[i - Len(s)])
  BY <1>1
<1>5. Has(s \o t, o, c) <=> Has(s, o, c) \/ Has(t, o, c)
  <2>1. ASSUME Has(s \o t, o, c) PROVE Has(s, o, c) \/ Has(t, o, c)
    <3>1. PICK i \in 1..(Len(s) + Len(t)) : (s \o t)[i].op = o /\ (s \o t)[i].conn = c
      BY <1>1, <2>1 DEF Has
    <3>2. CASE i \in 1..Len(s)
      BY <1>1, <1>2, <3>1, <3>2 DEF Has
    <3>3. CASE i - Len(s) \in 1..Len(t) /\ (s \o t)[i] = t[i - Len(s)]
      BY <1>1, <3>1, <3>3 DEF Has
    <3> QED BY <1>4, <3>2, <3>3
  <2>2. ASSUME Has(s, o, c) PROVE Has(s \o t, o, c)
    BY <1>1, <1>2, <2>2 DEF Has
  <2>3. ASSUME Has(t, o, c) PROVE Has(s \o t, o, c)
    BY <1>1, <1>3, <2>3 DEF Has
  <2> QED BY <2>1, <2>2, <2>3
<1>6. ASSUME Single(s, o, c), Single(t, o, c), ~(Has(s, o, c) /\ Has(t, o, c))
      PROVE  Single(s \o t, o, c)
  <2>1. SUFFICES ASSUME NEW i \in 1..(Len(s) + Len(t)), NEW j \in 1..(Len(s) + Len(t)),
                        (s \o t)[i].op = o, (s \o t)[i].conn = c,
                        (s \o t)[j].op = o, (s \o t)[j].conn = c
                 PROVE  i = j
    BY <1>1 DEF Single
  <2>2. CASE i \in 1..Len(s) /\ j \in 1..Len(s)
    BY <1>1, <1>2, <1>6, <2>1, <2>2 DEF Single
  <2>3. CASE i \notin 1..Len(s) /\ j \notin 1..Len(s)
    <3>1. i - Len(s) = j - Len(s)
      BY <1>1, <1>4, <1>6, <2>1, <2>3 DEF Single
    <3> QED BY <1>1, <3>1
  <2>4. CASE (i \in 1..Len(s) /\ j \notin 1..Len(s)) \/ (i \notin 1..Len(s) /\ j \in 1..Len(s))
    BY <1>1, <1>2, <1>4, <1>6, <2>1, <2>4 DEF Has
  <2> QED BY <2>2, <2>3, <2>4
<1> QED BY <1>1, <1>5, <1>6

LEMMA Appended ==
  ASSUME NEW s \in Seq(Ops), NEW x \in Ops, NEW o, NEW c
  PROVE  /\ Append(s, x) \in Seq(Ops)
         /\ Has(Append(s, x), o, c) <=> Has(s, o, c) \/ (x.op = o /\ x.conn = c)
         /\ Single(s, o, c) /\ (x.op = o /\ x.conn = c => ~Has(s, o, c))
              => Single(Append(s, x), o, c)
<1>1. Append(s, x) = s \o <<x>> /\ <<x>> \in Seq(Ops)
  OBVIOUS
<1>2. /\ Has(s \o <<x>>, o, c) <=> Has(s, o, c) \/ Has(<<x>>, o, c)
      /\ Single(s, o, c) /\ Single(<<x>>, o, c) /\ ~(Has(s, o, c) /\ Has(<<x>>, o, c))
           => Single(s \o <<x>>, o, c)
  BY <1>1, Joined
<1>3. (Has(<<x>>, o, c) <=> x.op = o /\ x.conn = c) /\ Single(<<x>>, o, c)
  BY OneOp
<1> QED BY <1>1, <1>2, <1>3

-----------------------------------------------------------------------------
(* One step of a loop.                                                     *)

LEMMA OpIsOp ==
  /\ \A o \in Names, c \in Conns : Op(o, c) \in Ops /\ Op(o, c).op = o /\ Op(o, c).conn = c
  /\ Op("accept", NoConn) \in Ops
  /\ \A x \in Ops : x.op \in Names \cup {"accept"} /\ (x.conn \in Conns \/ x.conn = NoConn)
BY DEF Ops, Op, Names

\* What loop l finds at the head of todo[l], and what is below it.
LEMMA AtHead ==
  ASSUME TypeOK, NEW l \in Loops, NEW o, NEW c, At(l, o, c)
  PROVE  /\ todo[l] \in Seq(Ops) /\ todo[l] # <<>> /\ Rest(l) \in Seq(Ops)
         /\ Op(o, c) \in Ops
         /\ \A p, d : Has(todo[l], p, d) <=> (p = o /\ d = c) \/ Has(Rest(l), p, d)
         /\ \A p, d : Single(todo[l], p, d) => Single(Rest(l), p, d)
         /\ Single(todo[l], o, c) => ~Has(Rest(l), o, c)
<1>1. todo[l] \in Seq(Ops) /\ todo[l] # <<>> /\ Head(todo[l]) = Op(o, c)
  BY DEF TypeOK, At
<1>2. Head(todo[l]).op = o /\ Head(todo[l]).conn = c
  BY <1>1 DEF Op
<1>3. Op(o, c) \in Ops /\ Tail(todo[l]) \in Seq(Ops)
  BY <1>1, HeadTail
<1>4. ASSUME NEW p, NEW d
      PROVE  /\ Has(todo[l], p, d) <=> (p = o /\ d = c) \/ Has(Tail(todo[l]), p, d)
             /\ Single(todo[l], p, d) => Single(Tail(todo[l]), p, d)
  <2>1. /\ Has(todo[l], p, d) <=> (Head(todo[l]).op = p /\ Head(todo[l]).conn = d) \/ Has(Tail(todo[l]), p, d)
        /\ Single(todo[l], p, d) => Single(Tail(todo[l]), p, d)
    BY <1>1, HeadTail
  <2> QED BY <1>2, <2>1
<1>5. Single(todo[l], o, c) => ~Has(Tail(todo[l]), o, c)
  BY <1>1, <1>2, HeadTail
<1> QED BY <1>1, <1>3, <1>4, <1>5 DEF Rest

\* The loop is done with the operation at the head and goes on with ops.
LEMMA Continued ==
  ASSUME TypeOK, NEW l \in Loops, NEW o, NEW c, At(l, o, c), NEW ops \in Seq(Ops), Continue(l, ops)
  PROVE  /\ todo' \in [Loops -> Seq(Ops)]
         /\ \A k \in Loops : k # l => todo'[k] = todo[k]
         /\ todo'[l] = ops \o Rest(l)
         /\ \A p, d : Has(todo'[l], p, d) <=> Has(ops, p, d) \/ Has(Rest(l), p, d)
         /\ \A p, d : Single(ops, p, d) /\ Single(Rest(l), p, d)
                        /\ ~(Has(ops, p, d) /\ Has(Rest(l), p, d)) => Single(todo'[l], p, d)
<1>1. Rest(l) \in Seq(Ops)
  BY AtHead
<1>2. ops \o Rest(l) \in Seq(Ops)
  BY <1>1
<1>3. todo' = [todo EXCEPT ![l] = ops \o Rest(l)] /\ todo \in [Loops -> Seq(Ops)]
  BY DEF Continue, TypeOK
<1>4. todo'[l] = ops \o Rest(l) /\ todo' \in [Loops -> Seq(Ops)] /\ \A k \in Loops : k # l => todo'[k] = todo[k]
  BY <1>2, <1>3
<1> QED BY <1>1, <1>4, Joined

LEMMA Done ==
  ASSUME TypeOK, NEW l \in Loops, NEW o, NEW c, At(l, o, c), Continue(l, <<>>)
  PROVE  /\ todo' \in [Loops -> Seq(Ops)]
         /\ \A k \in Loops : k # l => todo'[k] = todo[k]
         /\ todo'[l] = Rest(l)
<1>1. Rest(l) \in Seq(Ops)
  BY AtHead
<1>2. <<>> \o Rest(l) = Rest(l)
  BY <1>1
<1>3. todo' = [todo EXCEPT ![l] = Rest(l)] /\ todo \in [Loops -> Seq(Ops)]
  BY <1>2 DEF Continue, TypeOK
<1> QED BY <1>1, <1>3

LEMMA Replaced ==
  ASSUME TypeOK, NEW l \in Loops, NEW o, NEW c, At(l, o, c), NEW q \in Names, NEW e \in Conns,
         Continue(l, <<Op(q, e)>>)
  PROVE  /\ todo' \in [Loops -> Seq(Ops)]
         /\ \A k \in Loops : k # l => todo'[k] = todo[k]
         /\ todo'[l] = <<Op(q, e)>> \o Rest(l)
         /\ \A p, d : Has(todo'[l], p, d) <=> (p = q /\ d = e) \/ Has(Rest(l), p, d)
         /\ \A p, d : Single(Rest(l), p, d) /\ ~(p = q /\ d = e /\ Has(Rest(l), p, d))
                        => Single(todo'[l], p, d)
<1>1. Op(q, e) \in Ops /\ Op(q, e).op = q /\ Op(q, e).conn = e
  BY OpIsOp
<1>2. \A p, d : (Has(<<Op(q, e)>>, p, d) <=> p = q /\ d = e) /\ Single(<<Op(q, e)>>, p, d)
  BY <1>1, OneOp
<1>3. <<Op(q, e)>> \in Seq(Ops)
  BY <1>1
<1> QED BY <1>2, <1>3, Continued

LEMMA ReplacedByTwo ==
  ASSUME TypeOK, NEW l \in Loops, NEW o, NEW c, At(l, o, c), NEW q \in Names, NEW r \in Names,
         q # r, NEW e \in Conns, Continue(l, <<Op(q, e), Op(r, e)>>)
  PROVE  /\ \A k \in Loops : k # l => todo'[k] = todo[k]
         /\ todo'[l] = <<Op(q, e), Op(r, e)>> \o Rest(l)
         /\ \A p, d : Has(todo'[l], p, d) <=> (p \in {q, r} /\ d = e) \/ Has(Rest(l), p, d)
         /\ \A p, d : Single(Rest(l), p, d) /\ ~(p \in {q, r} /\ d = e /\ Has(Rest(l), p, d))
                        => Single(todo'[l], p, d)
<1>1. /\ Op(q, e) \in Ops /\ Op(q, e).op = q /\ Op(q, e).conn = e
      /\ Op(r, e) \in Ops /\ Op(r, e).op = r /\ Op(r, e).conn = e
  BY OpIsOp
<1> DEFINE ops == <<Op(q, e), Op(r, e)>>
<1>2. ops \in Seq(Ops) /\ ops = Append(<<Op(q, e)>>, Op(r, e)) /\ <<Op(q, e)>> \in Seq(Ops)
  BY <1>1
<1> HIDE DEF ops
<1>3. \A p, d : /\ Has(ops, p, d) <=> p \in {q, r} /\ d = e
               /\ Single(ops, p, d)
  <2> SUFFICES ASSUME NEW p, NEW d PROVE (Has(ops, p, d) <=> p \in {q, r} /\ d = e) /\ Single(ops, p, d)
    OBVIOUS
  <2> DEFINE one == <<Op(q, e)>>
  <2>1. one \in Seq(Ops) /\ (Has(one, p, d) <=> p = q /\ d = e) /\ Single(one, p, d)
    BY <1>1, <1>2, OneOp
  <2>2. ops = Append(one, Op(r, e))
    BY <1>2
  <2> HIDE DEF one
  <2>3. /\ Has(ops, p, d) <=> Has(one, p, d) \/ (r = p /\ e = d)
        /\ Single(one, p, d) /\ (r = p /\ e = d => ~Has(one, p, d)) => Single(ops, p, d)
    BY <1>1, <2>1, <2>2, Appended
  <2> QED BY <2>1, <2>3
<1>4. Continue(l, ops)
  BY DEF ops
<1>5. /\ \A k \in Loops : k # l => todo'[k] = todo[k]
      /\ todo'[l] = ops \o Rest(l)
      /\ \A p, d : Has(todo'[l], p, d) <=> Has(ops, p, d) \/ Has(Rest(l), p, d)
      /\ \A p, d : Single(ops, p, d) /\ Single(Rest(l), p, d)
                     /\ ~(Has(ops, p, d) /\ Has(Rest(l), p, d)) => Single(todo'[l], p, d)
  BY <1>2, <1>4, Continued
<1> QED BY <1>3, <1>5 DEF ops

\* The callback that the loop is in calls something.
LEMMA Pushed ==
  ASSUME TypeOK, NEW l \in Loops, NEW q \in Names, NEW e \in Conns,
         todo' = [todo EXCEPT ![l] = <<Op(q, e)>> \o @]
  PROVE  /\ \A k \in Loops : k # l => todo'[k] = todo[k]
         /\ todo'[l] = <<Op(q, e)>> \o todo[l]
         /\ \A p, d : Has(todo'[l], p, d) <=> (p = q /\ d = e) \/ Has(todo[l], p, d)
         /\ \A p, d : Single(todo[l], p, d) /\ ~(p = q /\ d = e /\ Has(todo[l], p, d))
                        => Single(todo'[l], p, d)
<1>1. Op(q, e) \in Ops /\ Op(q, e).op = q /\ Op(q, e).conn = e
  BY OpIsOp
<1>2. \A p, d : (Has(<<Op(q, e)>>, p, d) <=> p = q /\ d = e) /\ Single(<<Op(q, e)>>, p, d)
  BY <1>1, OneOp
<1>3. <<Op(q, e)>> \in Seq(Ops) /\ todo[l] \in Seq(Ops)
  BY <1>1 DEF TypeOK
<1>4. todo'[l] = <<Op(q, e)>> \o todo[l] /\ \A k \in Loops : k # l => todo'[k] = todo[k]
  BY DEF TypeOK
<1>5. ASSUME NEW p, NEW d
      PROVE  /\ Has(todo'[l], p, d) <=> (p = q /\ d = e) \/ Has(todo[l], p, d)
             /\ Single(todo[l], p, d) /\ ~(p = q /\ d = e /\ Has(todo[l], p, d))
                  => Single(todo'[l], p, d)
  <2> DEFINE one == <<Op(q, e)>>
  <2>1. one \in Seq(Ops) /\ (Has(one, p, d) <=> p = q /\ d = e) /\ Single(one, p, d)
    BY <1>2, <1>3
  <2>2. todo'[l] = one \o todo[l]
    BY <1>4
  <2> HIDE DEF one
  <2>3. /\ Has(one \o todo[l], p, d) <=> Has(one, p, d) \/ Has(todo[l], p, d)
        /\ Single(one, p, d) /\ Single(todo[l], p, d) /\ ~(Has(one, p, d) /\ Has(todo[l], p, d))
              => Single(one \o todo[l], p, d)
    BY <1>3, <2>1, Joined
  <2> QED BY <2>1, <2>2, <2>3
<1> QED BY <1>4, <1>5

\* queueInLoop appends a functor.
LEMMA Queued ==
  ASSUME TypeOK, NEW l \in Loops, NEW q \in Names, NEW e \in Conns, QueueInLoop(l, Op(q, e))
  PROVE  /\ queue' \in [Loops -> Seq(Ops)]
         /\ \A k \in Loops : k # l => queue'[k] = queue[k]
         /\ \A p, d : Has(queue'[l], p, d) <=> Has(queue[l], p, d) \/ (p = q /\ d = e)
         /\ \A p, d : Single(queue[l], p, d) /\ ~(p = q /\ d = e /\ Has(queue[l], p, d))
                        => Single(queue'[l], p, d)
<1>1. Op(q, e) \in Ops /\ Op(q, e).op = q /\ Op(q, e).conn = e
  BY OpIsOp
<1>2. queue[l] \in Seq(Ops) /\ Append(queue[l], Op(q, e)) \in Seq(Ops)
  BY <1>1 DEF TypeOK
<1>3. /\ queue' \in [Loops -> Seq(Ops)] /\ queue'[l] = Append(queue[l], Op(q, e))
      /\ \A k \in Loops : k # l => queue'[k] = queue[k]
  BY <1>2 DEF QueueInLoop, TypeOK
<1> QED BY <1>1, <1>2, <1>3, Appended

-----------------------------------------------------------------------------
(* Types.                                                                  *)

LEMMA SetInterestType ==
  ASSUME TypeOK, NEW c \in Conns, NEW events \in SUBSET {"IN", "OUT"}, SetInterest(c, events)
  PROVE  /\ interest' \in [Conns -> SUBSET {"IN", "OUT"}]
         /\ index' \in [Conns -> {kNew, kAdded, kDeleted}]
<1>1. UpdatedIndex(c, events) \in {kNew, kAdded, kDeleted}
  BY DEF UpdatedIndex
<1> QED BY <1>1 DEF SetInterest, TypeOK

LEMMA NotifyType ==
  ASSUME TypeOK, NEW l \in Loops, NEW c \in Conns, NotifyWriteComplete(l, c)
  PROVE  queue' \in [Loops -> Seq(Ops)]
<1>1. "writeComplete" \in Names
  BY DEF Names, SharedOps
<1> QED BY <1>1, Queued DEF NotifyWriteComplete, TypeOK

LEMMA RunInLoopType ==
  ASSUME TypeOK, NEW l \in Loops, NEW o, NEW c, At(l, o, c), NEW k \in Loops, NEW q \in Names,
         NEW e \in Conns, RunInLoop(l, k, Op(q, e))
  PROVE  todo' \in [Loops -> Seq(Ops)] /\ queue' \in [Loops -> Seq(Ops)]
<1>1. CASE l = k
  <2>1. Continue(l, <<Op(q, e)>>) /\ queue' = queue
    BY <1>1 DEF RunInLoop
  <2> QED BY <2>1, Replaced DEF TypeOK
<1>2. CASE l # k
  <2>1. Continue(l, <<>>) /\ QueueInLoop(k, Op(q, e))
    BY <1>2 DEF RunInLoop
  <2> QED BY <2>1, Done, Queued
<1> QED BY <1>1, <1>2

LEMMA NamesFacts ==
  /\ \A o \in {"connectEstablished", "removeConnectionInLoop", "connectDestroyed",
               "writeComplete", "remove", "callback", "sendInLoop", "shutdownInLoop",
               "handleClose", "handleError", "handleRead", "handleWrite"} : o \in Names
  /\ Base \in Loops
BY DEF Names, SharedOps, RawOps, Loops

\* The callbacks that Channel::handleEvent calls.
LEMMA HandleEventOps ==
  ASSUME NEW c \in Conns, NEW revents
  PROVE  HandleEvent(c, revents) \in Seq(Ops)
<1>1. /\ Op("handleClose", c) \in Ops /\ Op("handleError", c) \in Ops
      /\ Op("handleRead", c) \in Ops /\ Op("handleWrite", c) \in Ops
  BY NamesFacts, OpIsOp
<1> DEFINE a == IF "HUP" \in revents /\ "IN" \notin revents THEN <<Op("handleClose", c)>> ELSE <<>>
           b == IF "ERR" \in revents THEN <<Op("handleError", c)>> ELSE <<>>
           r == IF revents \cap {"IN", "HUP"} # {} THEN <<Op("handleRead", c)>> ELSE <<>>
           w == IF "OUT" \in revents THEN <<Op("handleWrite", c)>> ELSE <<>>
<1>2. a \in Seq(Ops) /\ b \in Seq(Ops) /\ r \in Seq(Ops) /\ w \in Seq(Ops)
  BY <1>1
<1>3. HandleEvent(c, revents) = a \o b \o r \o w
  BY DEF HandleEvent
<1> HIDE DEF a, b, r, w
<1> QED BY <1>2, <1>3

LEMMA LoopTypeStep ==
  ASSUME TypeOK, NEW l \in Loops, Poll(l) \/ Dispatch(l) \/ Swap(l) \/ EndBatch(l)
  PROVE  TypeOK'
<1>1. CASE Poll(l)
  <2>1. \A c \in Conns : \A w : Event(c, Revents(c, w)) \in Events
    <3>1. SUFFICES ASSUME NEW c \in Conns, NEW w
                   PROVE  Revents(c, w) \in SUBSET {"IN", "OUT", "HUP", "ERR"}
      BY DEF Event, Events
    <3> QED BY DEF Revents, TypeOK
  <2>2. Event(NoConn, {"IN"}) \in Events
    BY DEF Event, Events
  <2>3. active' \in [Loops -> SUBSET Events]
    BY <1>1, <2>1, <2>2 DEF Poll, TypeOK
  <2>4. phase' \in [Loops -> Phases]
    BY <1>1 DEF Poll, TypeOK, Phases
  <2> QED BY <1>1, <2>3, <2>4 DEF Poll, TypeOK, connVars
<1>2. CASE Dispatch(l)
  <2>1. PICK e \in active[l] :
          /\ active' = [active EXCEPT ![l] = @ \ {e}]
          /\ todo' = [todo EXCEPT ![l] = IF e.conn = NoConn THEN <<Op("accept", NoConn)>>
                                         ELSE HandleEvent(e.conn, e.revents)]
    BY <1>2 DEF Dispatch
  <2>2. e.conn # NoConn => e.conn \in Conns
    BY DEF TypeOK, Events
  <2>3. <<Op("accept", NoConn)>> \in Seq(Ops)
    BY OpIsOp
  <2>4. todo' \in [Loops -> Seq(Ops)]
    BY <2>1, <2>2, <2>3, HandleEventOps DEF TypeOK
  <2>5. active' \in [Loops -> SUBSET Events]
    BY <2>1 DEF TypeOK
  <2> QED BY <1>2, <2>4, <2>5 DEF Dispatch, TypeOK, connVars
<1>3. CASE Swap(l)
  <2>1. Owned(queue[l]) \subseteq Conns
    <3>1. ASSUME NEW i \in DOMAIN queue[l], queue[l][i].op \in SharedOps PROVE queue[l][i].conn \in Conns
      <4>1. queue[l][i] \in Ops
        BY DEF TypeOK
      <4> QED BY <3>1, <4>1 DEF Ops, SharedOps
    <3> QED BY <3>1 DEF Owned
  <2>2. held' \in [Loops -> SUBSET Conns]
    BY <1>3, <2>1 DEF Swap, TypeOK
  <2>3. todo' \in [Loops -> Seq(Ops)] /\ queue' \in [Loops -> Seq(Ops)]
    BY <1>3 DEF Swap, TypeOK
  <2>4. phase' \in [Loops -> Phases]
    BY <1>3 DEF Swap, TypeOK, Phases
  <2> QED BY <1>3, <2>2, <2>3, <2>4 DEF Swap, TypeOK, connVars
<1>4. CASE EndBatch(l)
  BY <1>4 DEF EndBatch, TypeOK, connVars, Phases
<1> QED BY <1>1, <1>2, <1>3, <1>4

LEMMA ServerTypeStep ==
  ASSUME TypeOK, ServerStep
  PROVE  TypeOK'
<1>1. ASSUME NEW c \in Conns, NewConnection(c) PROVE TypeOK'
  <2>1. PICK l \in Pool : loop' = [loop EXCEPT ![c] = l] /\ RunInLoop(Base, l, Op("connectEstablished", c))
    BY <1>1 DEF NewConnection
  <2>2. l \in Loops
    BY SetupsAssumption DEF Pool, TypeOK, Loops
  <2>3. todo' \in [Loops -> Seq(Ops)] /\ queue' \in [Loops -> Seq(Ops)]
    BY <1>1, <2>1, <2>2, RunInLoopType, NamesFacts DEF NewConnection
  <2>4. loop' \in [Conns -> Loops]
    BY <2>1, <2>2 DEF TypeOK
  <2>5. state' \in [Conns -> States]
    BY <1>1 DEF NewConnection, TypeOK, States
  <2> QED BY <1>1, <2>3, <2>4, <2>5 DEF NewConnection, TypeOK, loopVars
<1>2. ASSUME NEW c \in Conns, RemoveConnectionInLoop(c) PROVE TypeOK'
  <2>1. todo' \in [Loops -> Seq(Ops)]
    BY <1>2, Done, NamesFacts DEF RemoveConnectionInLoop
  <2>2. queue' \in [Loops -> Seq(Ops)]
    <3>1. loop[c] \in Loops
      BY DEF TypeOK
    <3> QED BY <1>2, <3>1, Queued, NamesFacts DEF RemoveConnectionInLoop
  <2> QED BY <1>2, <2>1, <2>2 DEF RemoveConnectionInLoop, TypeOK, loopVars, connVars
<1>3. CASE AcceptFails
  <2>1. todo' \in [Loops -> Seq(Ops)]
    BY <1>3, Done, NamesFacts DEF AcceptFails
  <2> QED BY <1>3, <2>1 DEF AcceptFails, TypeOK, loopVars, connVars
<1> QED BY <1>1, <1>2, <1>3 DEF ServerStep

LEMMA SocketType ==
  ASSUME TypeOK, NEW c \in Conns
  PROVE  /\ [socket EXCEPT ![c].data = FALSE] \in [Conns -> Sockets]
         /\ [socket EXCEPT ![c].data = TRUE] \in [Conns -> Sockets]
         /\ [socket EXCEPT ![c].err = FALSE] \in [Conns -> Sockets]
         /\ [socket EXCEPT ![c].wrShut = TRUE] \in [Conns -> Sockets]
         /\ [socket EXCEPT ![c].fin = TRUE] \in [Conns -> Sockets]
         /\ [socket EXCEPT ![c].rst = TRUE, ![c].err = TRUE] \in [Conns -> Sockets]
<1>1. socket \in [Conns -> Sockets]
  BY DEF TypeOK
<1>2. ASSUME NEW x \in Sockets
      PROVE  /\ [x EXCEPT !.data = FALSE] \in Sockets /\ [x EXCEPT !.data = TRUE] \in Sockets
             /\ [x EXCEPT !.err = FALSE] \in Sockets /\ [x EXCEPT !.wrShut = TRUE] \in Sockets
             /\ [x EXCEPT !.fin = TRUE] \in Sockets
             /\ [x EXCEPT !.rst = TRUE, !.err = TRUE] \in Sockets
  BY DEF Sockets
<1> QED BY <1>1, <1>2

LEMMA ConnTypeStep ==
  ASSUME TypeOK, NEW l \in Loops, NEW c \in Conns, ConnStep(l, c)
  PROVE  TypeOK'
<1> USE NamesFacts
<1>1. interest[c] \in SUBSET {"IN", "OUT"}
  BY DEF TypeOK
<1>2. CASE ConnectEstablished(l, c)
  <2>1. todo' \in [Loops -> Seq(Ops)]
    BY <1>2, Replaced DEF ConnectEstablished
  <2>2. interest' \in [Conns -> SUBSET {"IN", "OUT"}] /\ index' \in [Conns -> {kNew, kAdded, kDeleted}]
    BY <1>1, <1>2, SetInterestType DEF ConnectEstablished
  <2>3. state' \in [Conns -> States] /\ ups' \in [Conns -> Nat]
    BY <1>2 DEF ConnectEstablished, TypeOK, States
  <2> QED BY <1>2, <2>1, <2>2, <2>3 DEF ConnectEstablished, TypeOK, loopVars
<1>3. CASE HandleRead(l, c)
  <2>1. todo' \in [Loops -> Seq(Ops)]
    BY <1>3, Done, Replaced DEF HandleRead
  <2>2. socket' \in [Conns -> Sockets]
    BY <1>3, SocketType DEF HandleRead
  <2> QED BY <1>3, <2>1, <2>2 DEF HandleRead, TypeOK, loopVars, connVars
<1>4. CASE HandleError(l, c)
  <2>1. todo' \in [Loops -> Seq(Ops)]
    BY <1>4, Done DEF HandleError
  <2>2. socket' \in [Conns -> Sockets]
    BY <1>4, SocketType DEF HandleError
  <2> QED BY <1>4, <2>1, <2>2 DEF HandleError, TypeOK, loopVars, connVars
<1>5. CASE HandleWrite(l, c)
  <2>1. todo' \in [Loops -> Seq(Ops)]
    BY <1>5, Done, Replaced DEF HandleWrite
  <2>2. interest' \in [Conns -> SUBSET {"IN", "OUT"}] /\ index' \in [Conns -> {kNew, kAdded, kDeleted}]
    BY <1>1, <1>5, SetInterestType DEF HandleWrite, TypeOK
  <2>3. queue' \in [Loops -> Seq(Ops)]
    BY <1>5, NotifyType DEF HandleWrite, TypeOK
  <2>4. output' \in [Conns -> BOOLEAN]
    BY <1>5 DEF HandleWrite, TypeOK
  <2> QED BY <1>5, <2>1, <2>2, <2>3, <2>4 DEF HandleWrite, TypeOK, loopVars
<1>6. CASE HandleClose(l, c)
  <2>1. todo' \in [Loops -> Seq(Ops)] /\ queue' \in [Loops -> Seq(Ops)]
    BY <1>6, RunInLoopType DEF HandleClose
  <2>2. interest' \in [Conns -> SUBSET {"IN", "OUT"}] /\ index' \in [Conns -> {kNew, kAdded, kDeleted}]
    BY <1>6, SetInterestType DEF HandleClose
  <2> QED BY <1>6, <2>1, <2>2 DEF HandleClose, TypeOK, loopVars
<1>7. CASE ConnectDestroyed(l, c)
  <2>1. todo' \in [Loops -> Seq(Ops)]
    <3>1. <<Op("callback", c), Op("remove", c)>> \in Seq(Ops)
      BY OpIsOp
    <3> QED BY <1>7, <3>1, Continued DEF ConnectDestroyed
  <2>2. interest' \in [Conns -> SUBSET {"IN", "OUT"}] /\ index' \in [Conns -> {kNew, kAdded, kDeleted}]
    BY <1>7, SetInterestType DEF ConnectDestroyed
  <2>3. state' \in [Conns -> States] /\ downs' \in [Conns -> Nat]
    BY <1>7 DEF ConnectDestroyed, TypeOK, States
  <2> QED BY <1>7, <2>1, <2>2, <2>3 DEF ConnectDestroyed, TypeOK, loopVars
<1>8. CASE RemoveChannel(l, c)
  <2>1. todo' \in [Loops -> Seq(Ops)]
    BY <1>8, Done DEF RemoveChannel
  <2> QED BY <1>8, <2>1 DEF RemoveChannel, TypeOK, loopVars
<1>9. CASE SendInLoop(l, c)
  <2>1. todo' \in [Loops -> Seq(Ops)]
    BY <1>9, Done DEF SendInLoop
  <2>2. interest' \in [Conns -> SUBSET {"IN", "OUT"}] /\ index' \in [Conns -> {kNew, kAdded, kDeleted}]
    BY <1>1, <1>9, SetInterestType DEF SendInLoop, TypeOK
  <2>3. queue' \in [Loops -> Seq(Ops)]
    BY <1>9, NotifyType DEF SendInLoop, TypeOK
  <2>4. output' \in [Conns -> BOOLEAN]
    BY <1>9 DEF SendInLoop, TypeOK
  <2> QED BY <1>9, <2>1, <2>2, <2>3, <2>4 DEF SendInLoop, TypeOK, loopVars
<1>10. CASE ShutdownInLoop(l, c)
  <2>1. todo' \in [Loops -> Seq(Ops)]
    BY <1>10, Done DEF ShutdownInLoop
  <2>2. socket' \in [Conns -> Sockets]
    BY <1>10, SocketType DEF ShutdownInLoop, TypeOK
  <2> QED BY <1>10, <2>1, <2>2 DEF ShutdownInLoop, TypeOK, loopVars, connVars
<1>11. CASE CallbackSend(l, c)
  <2>1. todo' \in [Loops -> Seq(Ops)]
    BY <1>11, OpIsOp DEF CallbackSend, TypeOK
  <2>2. sends' \in 0..setup.sends
    BY <1>11, SetupsAssumption DEF CallbackSend, TypeOK
  <2> QED BY <1>11, <2>1, <2>2 DEF CallbackSend, TypeOK, loopVars, connVars
<1>12. CASE CallbackShutdown(l, c)
  <2>1. todo' \in [Loops -> Seq(Ops)]
    BY <1>12, OpIsOp DEF CallbackShutdown, TypeOK
  <2>2. state' \in [Conns -> States]
    BY <1>12 DEF CallbackShutdown, TypeOK, States
  <2> QED BY <1>12, <2>1, <2>2 DEF CallbackShutdown, TypeOK, loopVars
<1>13. CASE CallbackReturn(l, c)
  <2>1. todo' \in [Loops -> Seq(Ops)]
    BY <1>13, Done DEF CallbackReturn, InCallback
  <2> QED BY <1>13, <2>1 DEF CallbackReturn, TypeOK, loopVars, connVars
<1> QED
  BY <1>2, <1>3, <1>4, <1>5, <1>6, <1>7, <1>8, <1>9, <1>10, <1>11, <1>12, <1>13 DEF ConnStep

LEMMA OtherTypeStep ==
  ASSUME TypeOK, UserStep \/ PeerStep
  PROVE  TypeOK'
<1>1. ASSUME NEW t \in UserThreads, NEW c \in Conns, UserCheck(t, c) PROVE TypeOK'
  <2>1. user' \in [UserThreads -> UserCalls]
    <3>1. [op |-> "send", conn |-> c] \in UserCalls /\ [op |-> "setState", conn |-> c] \in UserCalls
      BY DEF UserCalls
    <3> QED BY <1>1, <3>1 DEF UserCheck, TypeOK
  <2>2. sends' \in 0..setup.sends
    BY <1>1, SetupsAssumption DEF UserCheck, TypeOK
  <2> QED BY <1>1, <2>1, <2>2 DEF UserCheck, TypeOK, loopVars, connVars
<1>2. ASSUME NEW t \in UserThreads, UserSetState(t) PROVE TypeOK'
  <2>1. user[t].conn \in Conns /\ user[t] \in [op : {"send", "setState", "shutdown"}, conn : Conns]
    BY <1>2 DEF UserSetState, TypeOK, UserCalls
  <2>2. [user[t] EXCEPT !.op = "shutdown"] \in UserCalls
    BY <2>1 DEF UserCalls
  <2>3. user' \in [UserThreads -> UserCalls]
    BY <1>2, <2>2 DEF UserSetState, TypeOK
  <2>4. state' \in [Conns -> States]
    BY <1>2, <2>1 DEF UserSetState, TypeOK, States
  <2> QED BY <1>2, <2>3, <2>4 DEF UserSetState, TypeOK, loopVars
<1>3. ASSUME NEW t \in UserThreads, UserQueue(t) PROVE TypeOK'
  <2>1. user[t].conn \in Conns
    BY <1>3 DEF UserQueue, TypeOK, UserCalls
  <2>2. queue' \in [Loops -> Seq(Ops)]
    <3>1. loop[user[t].conn] \in Loops
      BY <2>1 DEF TypeOK
    <3>2. CASE user[t].op = "send"
      BY <1>3, <2>1, <3>1, <3>2, Queued, NamesFacts DEF UserQueue
    <3>3. CASE user[t].op # "send"
      BY <1>3, <2>1, <3>1, <3>3, Queued, NamesFacts DEF UserQueue
    <3> QED BY <3>2, <3>3
  <2>3. user' \in [UserThreads -> UserCalls]
    BY <1>3 DEF UserQueue, TypeOK, UserCalls, Idle
  <2> QED BY <1>3, <2>2, <2>3 DEF UserQueue, TypeOK, loopVars, connVars
<1>4. ASSUME NEW c \in Conns, PeerSends(c) PROVE TypeOK'
  <2>1. socket' \in [Conns -> Sockets]
    BY <1>4, SocketType DEF PeerSends
  <2>2. messages' \in 0..setup.messages
    BY <1>4, SetupsAssumption DEF PeerSends, TypeOK
  <2> QED BY <1>4, <2>1, <2>2 DEF PeerSends, TypeOK, loopVars, connVars
<1>5. ASSUME NEW c \in Conns, PeerCloses(c) PROVE TypeOK'
  <2>1. socket' \in [Conns -> Sockets]
    BY <1>5, SocketType DEF PeerCloses
  <2> QED BY <1>5, <2>1 DEF PeerCloses, TypeOK, loopVars, connVars
<1> QED BY <1>1, <1>2, <1>3, <1>4, <1>5 DEF UserStep, PeerStep

-----------------------------------------------------------------------------
(* The steps and what holds for every setup.                               *)

Home(o, c) == IF o = "removeConnectionInLoop" THEN Base ELSE loop[c]

\* A step that does not add to connections_, does not call connectEstablished or
\* connectDestroyed, and adds only operations on accepted connections, in place.
LEMMA GeneralKept ==
  ASSUME GeneralInv, TypeOK', UNCHANGED <<connections, loop, ups, downs>>,
         \A d \in Conns : \/ state'[d] = state[d]
                          \/ /\ state[d] \notin {"none", "kConnecting"}
                             /\ state'[d] \notin {"none", "kConnecting"},
         \A d \in Conns : index'[d] = index[d] \/ state[d] # "none",
         \A k \in Loops : \A e \in active'[k] :
            e \in active[k] \/ (e.conn # NoConn => loop[e.conn] = k /\ state[e.conn] # "none"),
         \A t \in UserThreads : \/ user'[t].conn \in {NoConn, user[t].conn}
                                \/ state[user'[t].conn] \notin {"none", "kConnecting"},
         \A k \in Loops, p \in Names, d \in Conns :
            Waits(k, p, d)' => Waits(k, p, d) \/ (state[d] # "none" /\ k = Home(p, d)),
         \A k \in Loops, d \in Conns : /\ Waits(k, "connectDestroyed", d)' <=> Waits(k, "connectDestroyed", d)
                                       /\ Once(k, "connectDestroyed", d)'
  PROVE  GeneralInv'
<1> USE DEF GeneralInv
<1>1. InPlace'
  <2>1. ASSUME NEW k \in Loops, NEW d \in Conns, NEW p \in Names, Waits(k, p, d)'
        PROVE  k = IF p = "removeConnectionInLoop" THEN Base ELSE loop'[d]
    BY <2>1 DEF InPlace, Home
  <2>2. ASSUME NEW k \in Loops, NEW e \in active'[k], e.conn # NoConn PROVE loop'[e.conn] = k
    BY <2>2 DEF InPlace
  <2> QED BY <2>1, <2>2 DEF InPlace
<1>2. Unborn'
  <2> SUFFICES ASSUME NEW d \in Conns, state'[d] = "none"
               PROVE  /\ d \notin connections' /\ index'[d] = kNew
                      /\ \A k \in Loops, p \in Names : ~Waits(k, p, d)'
                      /\ \A k \in Loops : \A e \in active'[k] : e.conn # d
                      /\ \A t \in UserThreads : user'[t].conn # d
    BY DEF Unborn
  <2>1. state[d] = "none"
    OBVIOUS
  <2>2. d \notin connections' /\ index'[d] = kNew
    BY <2>1 DEF Unborn
  <2>3. \A k \in Loops, p \in Names : ~Waits(k, p, d)'
    BY <2>1 DEF Unborn
  <2>4. \A k \in Loops : \A e \in active'[k] : e.conn # d
    BY <2>1, ConnsAssumption DEF Unborn
  <2>5. \A t \in UserThreads : user'[t].conn # d
    BY <2>1, ConnsAssumption DEF Unborn
  <2> QED BY <2>2, <2>3, <2>4, <2>5
<1>3. UpOnce'
  <2>1. ASSUME NEW d \in Conns PROVE ups'[d] = IF state'[d] \in {"none", "kConnecting"} THEN 0 ELSE 1
    BY DEF UpOnce
  <2>2. ASSUME NEW t \in UserThreads, user'[t].conn # NoConn PROVE ups'[user'[t].conn] = 1
    <3>1. user'[t].conn \in Conns
      BY <2>2 DEF TypeOK, UserCalls
    <3> QED BY <2>2, <3>1 DEF UpOnce
  <2> QED BY <2>1, <2>2 DEF UpOnce
<1>4. DownOnce'
  BY DEF DownOnce
<1> QED BY <1>1, <1>2, <1>3, <1>4

\* An operation that a loop executes belongs there, and its connection was accepted.
LEMMA Known ==
  ASSUME GeneralInv, NEW l \in Loops, NEW o \in Names, NEW c \in Conns, At(l, o, c)
  PROVE  Waits(l, o, c) /\ l = Home(o, c) /\ state[c] # "none"
<1>1. Waits(l, o, c)
  BY AtHead DEF Waits, GeneralInv
<1> QED BY <1>1 DEF GeneralInv, InPlace, Unborn, Home

\* What loop k has to do becomes t instead of s: no connectDestroyed comes or goes.
Kept(s, t, k, p, d) ==
    /\ Has(t, p, d) => Has(s, p, d) \/ (state[d] # "none" /\ k = Home(p, d))
    /\ p = "connectDestroyed" => (Has(t, p, d) <=> Has(s, p, d))
    /\ p = "connectDestroyed" /\ Single(s, p, d) => Single(t, p, d)

LEMMA ReplacedKept ==
  ASSUME TypeOK, NEW l \in Loops, NEW o, NEW c, At(l, o, c), o # "connectDestroyed",
         NEW q \in Names, NEW e \in Conns, Continue(l, <<Op(q, e)>>),
         q # "connectDestroyed", state[e] # "none", l = Home(q, e),
         NEW k \in Loops, NEW p \in Names, NEW d \in Conns
  PROVE  Kept(todo[k], todo'[k], k, p, d)
<1>1. /\ k # l => todo'[k] = todo[k]
      /\ Has(todo'[l], p, d) <=> (p = q /\ d = e) \/ Has(Rest(l), p, d)
      /\ Single(Rest(l), p, d) /\ ~(p = q /\ d = e /\ Has(Rest(l), p, d))
            => Single(todo'[l], p, d)
  BY Replaced
<1>2. /\ Has(todo[l], p, d) <=> (p = o /\ d = c) \/ Has(Rest(l), p, d)
      /\ Single(todo[l], p, d) => Single(Rest(l), p, d)
  BY AtHead
<1> QED BY <1>1, <1>2 DEF Kept

LEMMA PushedKept ==
  ASSUME TypeOK, NEW l \in Loops, NEW q \in Names, NEW e \in Conns,
         todo' = [todo EXCEPT ![l] = <<Op(q, e)>> \o @],
         q # "connectDestroyed", state[e] # "none", l = Home(q, e),
         NEW k \in Loops, NEW p \in Names, NEW d \in Conns
  PROVE  Kept(todo[k], todo'[k], k, p, d)
<1>1. /\ k # l => todo'[k] = todo[k]
      /\ Has(todo'[l], p, d) <=> (p = q /\ d = e) \/ Has(todo[l], p, d)
      /\ Single(todo[l], p, d) /\ ~(p = q /\ d = e /\ Has(todo[l], p, d)) => Single(todo'[l], p, d)
  BY Pushed
<1> QED BY <1>1 DEF Kept

LEMMA DoneKept ==
  ASSUME TypeOK, NEW l \in Loops, NEW o, NEW c, At(l, o, c), o # "connectDestroyed",
         Continue(l, <<>>), NEW k \in Loops, NEW p \in Names, NEW d \in Conns
  PROVE  Kept(todo[k], todo'[k], k, p, d)
BY Done, AtHead DEF Kept

LEMMA QueuedKept ==
  ASSUME TypeOK, NEW m \in Loops, NEW q \in Names, NEW e \in Conns, QueueInLoop(m, Op(q, e)),
         q # "connectDestroyed", state[e] # "none", m = Home(q, e),
         NEW k \in Loops, NEW p \in Names, NEW d \in Conns
  PROVE  Kept(queue[k], queue'[k], k, p, d)
<1>1. /\ k # m => queue'[k] = queue[k]
      /\ Has(queue'[m], p, d) <=> Has(queue[m], p, d) \/ (p = q /\ d = e)
      /\ Single(queue[m], p, d) /\ ~(p = q /\ d = e /\ Has(queue[m], p, d))
            => Single(queue'[m], p, d)
  BY Queued
<1> QED BY <1>1 DEF Kept

\* A step that goes on with nothing or one operation in place of the one at the head,
\* and perhaps queues one.
LEMMA MovesKept ==
  ASSUME GeneralInv, TypeOK', NEW l \in Loops, NEW o, NEW c, At(l, o, c), o # "connectDestroyed",
         UNCHANGED <<connections, loop, active, user, ups, downs>>,
         \A d \in Conns : \/ state'[d] = state[d]
                          \/ /\ state[d] \notin {"none", "kConnecting"}
                             /\ state'[d] \notin {"none", "kConnecting"},
         \A d \in Conns : index'[d] = index[d] \/ state[d] # "none",
         \/ Continue(l, <<>>)
         \/ \E q \in Names, d \in Conns :
              /\ \/ Continue(l, <<Op(q, d)>>)
                 \/ todo' = [todo EXCEPT ![l] = <<Op(q, d)>> \o @]
              /\ q # "connectDestroyed" /\ state[d] # "none" /\ l = Home(q, d),
         \/ queue' = queue
         \/ \E k \in Loops, q \in Names, d \in Conns :
              /\ QueueInLoop(k, Op(q, d))
              /\ q # "connectDestroyed" /\ state[d] # "none" /\ k = Home(q, d)
  PROVE  GeneralInv'
<1> USE DEF GeneralInv
<1>1. ASSUME NEW k \in Loops, NEW p \in Names, NEW d \in Conns
      PROVE  Kept(todo[k], todo'[k], k, p, d)
  BY DoneKept, ReplacedKept, PushedKept
<1>2. ASSUME NEW k \in Loops, NEW p \in Names, NEW d \in Conns
      PROVE  Kept(queue[k], queue'[k], k, p, d)
  <2>1. CASE queue' = queue
    BY <2>1 DEF Kept
  <2> QED BY <2>1, QueuedKept
<1>3. \A k \in Loops, p \in Names, d \in Conns :
            Waits(k, p, d)' => Waits(k, p, d) \/ (state[d] # "none" /\ k = Home(p, d))
  BY <1>1, <1>2 DEF Waits, Kept
<1>4. \A k \in Loops, d \in Conns : /\ Waits(k, "connectDestroyed", d)' <=> Waits(k, "connectDestroyed", d)
                                    /\ Once(k, "connectDestroyed", d)'
  BY <1>1, <1>2, NamesFacts DEF Waits, Once, DownOnce, Kept
<1> QED BY <1>3, <1>4, GeneralKept

LEMMA GeneralConnStep ==
  ASSUME GeneralInv, AssertionsHold, NEW l \in Loops, NEW c \in Conns, ConnStep(l, c)
  PROVE  GeneralInv'
<1> USE NamesFacts DEF GeneralInv
<1>1. TypeOK'
  BY ConnTypeStep
<1>2. \A o \in Names : At(l, o, c) => Waits(l, o, c) /\ l = Home(o, c) /\ state[c] # "none"
  BY Known
<1>3. ASSUME NEW o \in Names, At(l, o, c), o \notin {"removeConnectionInLoop", "connectDestroyed"}
      PROVE  l = loop[c] /\ state[c] # "none"
  BY <1>2, <1>3 DEF Home
<1>4. \A q \in Names \ {"removeConnectionInLoop"} : Home(q, c) = loop[c]
  BY DEF Home
<1>5. CASE ConnectEstablished(l, c)
  <2>1. At(l, "connectEstablished", c) /\ state[c] = "kConnecting"
    BY <1>5 DEF ConnectEstablished, AssertionsHold
  <2>2. l = loop[c]
    BY <1>3, <2>1
  <2>3. Continue(l, <<Op("callback", c)>>) /\ queue' = queue
    BY <1>5 DEF ConnectEstablished
  <2>4. ASSUME NEW k \in Loops, NEW p \in Names, NEW d \in Conns
        PROVE  Kept(todo[k], todo'[k], k, p, d)
    BY <1>4, <2>1, <2>2, <2>3, ReplacedKept
  <2>5. \A k \in Loops, p \in Names, d \in Conns :
          Waits(k, p, d)' => Waits(k, p, d) \/ (state[d] # "none" /\ k = Home(p, d))
    BY <2>3, <2>4 DEF Waits, Kept
  <2>6. \A k \in Loops, d \in Conns : /\ Waits(k, "connectDestroyed", d)' <=> Waits(k, "connectDestroyed", d)
                                      /\ Once(k, "connectDestroyed", d)'
    BY <2>3, <2>4 DEF Waits, Once, DownOnce, Kept
  <2>7. /\ UNCHANGED <<connections, loop, active, user, downs>>
        /\ state' = [state EXCEPT ![c] = "kConnected"] /\ ups' = [ups EXCEPT ![c] = @ + 1]
        /\ \A d \in Conns : d # c => index'[d] = index[d]
    BY <1>5 DEF ConnectEstablished, loopVars, SetInterest, TypeOK
  <2>8. state'[c] = "kConnected" /\ ups'[c] = 1 /\ \A d \in Conns : d # c => state'[d] = state[d] /\ ups'[d] = ups[d]
    BY <2>1, <2>7 DEF TypeOK, UpOnce
  <2>9. InPlace'
    BY <2>5, <2>7 DEF InPlace, Home
  <2>10. Unborn'
    BY <2>5, <2>7, <2>8 DEF Unborn
  <2>11. UpOnce'
    <3>1. \A d \in Conns : ups'[d] = IF state'[d] \in {"none", "kConnecting"} THEN 0 ELSE 1
      BY <2>8 DEF UpOnce
    <3>2. ASSUME NEW t \in UserThreads, user'[t].conn # NoConn PROVE ups'[user'[t].conn] = 1
      <4>1. user[t].conn \in Conns
        BY <2>7, <3>2 DEF TypeOK, UserCalls
      <4> QED BY <2>7, <2>8, <3>2, <4>1 DEF UpOnce
    <3> QED BY <3>1, <3>2 DEF UpOnce
  <2>12. DownOnce'
    <3>1. \A d \in Conns : ups[d] <= ups'[d] /\ ups[d] \in {0, 1} /\ ups'[d] \in {0, 1}
      BY <2>8 DEF UpOnce
    <3>2. ASSUME NEW d \in Conns PROVE downs'[d] \in {0, 1} /\ downs'[d] <= ups'[d]
      BY <2>7, <3>1 DEF DownOnce
    <3>3. \A d \in Conns : state'[d] # "none" => state[d] # "none"
      BY <2>1, <2>8
    <3> QED BY <2>6, <2>7, <3>2, <3>3 DEF DownOnce
  <2> QED BY <1>1, <2>9, <2>10, <2>11, <2>12
<1>6. CASE HandleRead(l, c)
  <2>1. At(l, "handleRead", c)
    BY <1>6 DEF HandleRead
  <2>2. l = loop[c] /\ state[c] # "none"
    BY <1>3, <2>1
  <2>3. /\ UNCHANGED <<connections, loop, active, user, ups, downs, state, index, queue>>
        /\ \/ Continue(l, <<>>)
           \/ \E q \in Names \ {"connectDestroyed", "removeConnectionInLoop"} : Continue(l, <<Op(q, c)>>)
    BY <1>6 DEF HandleRead, connVars, loopVars
  <2> QED BY <1>1, <1>4, <2>1, <2>2, <2>3, MovesKept
<1>7. CASE HandleError(l, c)
  BY <1>1, <1>7, MovesKept DEF HandleError, connVars, loopVars
<1>8. CASE HandleWrite(l, c)
  <2>1. At(l, "handleWrite", c)
    BY <1>8 DEF HandleWrite
  <2>2. l = loop[c] /\ state[c] # "none"
    BY <1>3, <2>1
  <2>3. /\ UNCHANGED <<connections, loop, active, user, ups, downs, state>>
        /\ Continue(l, <<>>) \/ Continue(l, <<Op("shutdownInLoop", c)>>)
        /\ queue' = queue \/ QueueInLoop(l, Op("writeComplete", c))
        /\ \A d \in Conns : d # c => index'[d] = index[d]
    BY <1>8 DEF HandleWrite, connVars, loopVars, NotifyWriteComplete, SetInterest, TypeOK
  <2> QED BY <1>1, <1>4, <2>1, <2>2, <2>3, MovesKept
<1>9. CASE HandleClose(l, c)
  <2>1. At(l, "handleClose", c)
    BY <1>9 DEF HandleClose
  <2>2. l = loop[c] /\ state[c] # "none"
    BY <1>3, <2>1
  <2>3. /\ UNCHANGED <<connections, loop, active, user, ups, downs, state>>
        /\ \/ l = Base /\ Continue(l, <<Op("removeConnectionInLoop", c)>>) /\ queue' = queue
           \/ Continue(l, <<>>) /\ QueueInLoop(Base, Op("removeConnectionInLoop", c))
        /\ \A d \in Conns : d # c => index'[d] = index[d]
    BY <1>9 DEF HandleClose, loopVars, RunInLoop, SetInterest, TypeOK
  <2>4. Home("removeConnectionInLoop", c) = Base
    BY DEF Home
  <2> QED BY <1>1, <2>1, <2>2, <2>3, <2>4, MovesKept
<1>10. CASE RemoveChannel(l, c)
  <2>1. At(l, "remove", c)
    BY <1>10 DEF RemoveChannel
  <2>2. state[c] # "none"
    BY <1>3, <2>1
  <2>3. /\ UNCHANGED <<connections, loop, active, user, ups, downs, state, queue>>
        /\ Continue(l, <<>>)
        /\ \A d \in Conns : d # c => index'[d] = index[d]
    BY <1>10 DEF RemoveChannel, loopVars, TypeOK
  <2> QED BY <1>1, <2>1, <2>2, <2>3, MovesKept
<1>11. CASE SendInLoop(l, c)
  <2>1. At(l, "sendInLoop", c)
    BY <1>11 DEF SendInLoop
  <2>2. l = loop[c] /\ state[c] # "none"
    BY <1>3, <2>1
  <2>3. /\ UNCHANGED <<connections, loop, active, user, ups, downs, state>>
        /\ Continue(l, <<>>)
        /\ queue' = queue \/ QueueInLoop(l, Op("writeComplete", c))
        /\ \A d \in Conns : d # c => index'[d] = index[d]
    BY <1>11 DEF SendInLoop, connVars, loopVars, NotifyWriteComplete, SetInterest, TypeOK
  <2> QED BY <1>1, <1>4, <2>1, <2>2, <2>3, MovesKept
<1>12. CASE ShutdownInLoop(l, c)
  BY <1>1, <1>12, MovesKept DEF ShutdownInLoop, connVars, loopVars
<1>13. CASE CallbackReturn(l, c)
  BY <1>1, <1>13, MovesKept DEF CallbackReturn, connVars, loopVars, InCallback
<1>14. CASE CallbackSend(l, c)
  <2>1. PICK o \in {"callback", "writeComplete"}, b \in Conns : At(l, o, b)
    BY <1>14 DEF CallbackSend, MayUse, InCallback
  <2>2. l = loop[c] /\ state[c] # "none"
    BY <1>14 DEF CallbackSend, MayUse
  <2>3. /\ UNCHANGED <<connections, loop, active, user, ups, downs, state, index, queue>>
        /\ todo' = [todo EXCEPT ![l] = <<Op("sendInLoop", c)>> \o @]
    BY <1>14 DEF CallbackSend, connVars, loopVars
  <2> QED BY <1>1, <1>4, <2>1, <2>2, <2>3, MovesKept
<1>15. CASE CallbackShutdown(l, c)
  <2>1. PICK o \in {"callback", "writeComplete"}, b \in Conns : At(l, o, b)
    BY <1>15 DEF CallbackShutdown, MayUse, InCallback
  <2>2. l = loop[c] /\ state[c] # "none"
    BY <1>15 DEF CallbackShutdown, MayUse
  <2>3. /\ UNCHANGED <<connections, loop, active, user, ups, downs, index, queue>>
        /\ todo' = [todo EXCEPT ![l] = <<Op("shutdownInLoop", c)>> \o @]
        /\ state[c] = "kConnected" /\ state'[c] = "kDisconnecting"
        /\ \A d \in Conns : d # c => state'[d] = state[d]
    BY <1>15 DEF CallbackShutdown, loopVars, TypeOK
  <2> QED BY <1>1, <1>4, <2>1, <2>2, <2>3, MovesKept
<1>16. CASE ConnectDestroyed(l, c)
  <2>1. At(l, "connectDestroyed", c) /\ state[c] \in {"kConnected", "kDisconnecting"}
    BY <1>16 DEF ConnectDestroyed, AssertionsHold
  <2>2. l = loop[c] /\ Waits(l, "connectDestroyed", c)
    BY <1>2, <2>1 DEF Home
  <2>3. Continue(l, <<Op("callback", c), Op("remove", c)>>) /\ queue' = queue
    BY <1>16 DEF ConnectDestroyed
  <2>4. /\ \A k \in Loops : k # l => todo'[k] = todo[k]
        /\ \A p, d : Has(todo'[l], p, d) <=> (p \in {"callback", "remove"} /\ d = c) \/ Has(Rest(l), p, d)
        /\ \A p, d : Single(Rest(l), p, d) /\ ~(p \in {"callback", "remove"} /\ d = c /\ Has(Rest(l), p, d))
                        => Single(todo'[l], p, d)
    BY <2>1, <2>3, ReplacedByTwo
  <2>5. /\ \A p, d : Has(todo[l], p, d) <=> (p = "connectDestroyed" /\ d = c) \/ Has(Rest(l), p, d)
        /\ \A p, d : Single(todo[l], p, d) => Single(Rest(l), p, d)
        /\ Single(todo[l], "connectDestroyed", c) => ~Has(Rest(l), "connectDestroyed", c)
    BY <2>1, AtHead
  <2>6. \A k \in Loops, p \in Names, d \in Conns :
          Waits(k, p, d)' => Waits(k, p, d) \/ (state[d] # "none" /\ k = Home(p, d))
    BY <1>4, <2>1, <2>2, <2>3, <2>4, <2>5 DEF Waits
  <2>7. /\ UNCHANGED <<connections, loop, active, user, ups>>
        /\ state' = [state EXCEPT ![c] = "kDisconnected"] /\ downs' = [downs EXCEPT ![c] = @ + 1]
        /\ \A d \in Conns : d # c => index'[d] = index[d]
    BY <1>16 DEF ConnectDestroyed, loopVars, SetInterest, TypeOK
  <2>8. state'[c] = "kDisconnected" /\ downs'[c] = 1 /\ \A d \in Conns : d # c => state'[d] = state[d] /\ downs'[d] = downs[d]
    BY <2>2, <2>7 DEF TypeOK, DownOnce
  <2>9. InPlace'
    BY <2>6, <2>7 DEF InPlace, Home
  <2>10. Unborn'
    BY <2>6, <2>7, <2>8 DEF Unborn
  <2>11. UpOnce'
    <3>1. \A d \in Conns : ups'[d] = IF state'[d] \in {"none", "kConnecting"} THEN 0 ELSE 1
      BY <2>1, <2>7, <2>8 DEF UpOnce
    <3> QED BY <2>7, <3>1 DEF UpOnce
  <2>12. DownOnce'
    <3>1. /\ c \notin connections /\ ups[c] = 1 /\ \A k \in Loops : Once(k, "connectDestroyed", c)
          /\ \A k \in Loops : Waits(k, "connectDestroyed", c) => k = l
      BY <2>1, <2>2 DEF DownOnce, UpOnce, InPlace
    <3>2. \A k \in Loops : ~Waits(k, "connectDestroyed", c)'
      BY <2>1, <2>3, <2>4, <2>5, <3>1 DEF Waits, Once
    <3>3. \A k \in Loops, d \in Conns : /\ Once(k, "connectDestroyed", d)'
                                        /\ d # c => (Waits(k, "connectDestroyed", d)' <=> Waits(k, "connectDestroyed", d))
      BY <2>3, <2>4, <2>5 DEF Waits, Once, DownOnce
    <3> SUFFICES ASSUME NEW d \in Conns
                 PROVE  /\ downs'[d] \in {0, 1} /\ downs'[d] <= ups'[d]
                        /\ d \in connections' => downs'[d] = 0
                        /\ \A k \in Loops :
                             /\ Once(k, "connectDestroyed", d)'
                             /\ Waits(k, "connectDestroyed", d)' => d \notin connections' /\ downs'[d] = 0
                        /\ state'[d] # "none" /\ d \notin connections' /\ downs'[d] = 0
                             => \E k \in Loops : Waits(k, "connectDestroyed", d)'
      BY DEF DownOnce
    <3>4. CASE d = c
      <4>1. d \notin connections' /\ downs'[d] = 1 /\ ups'[d] = 1
        BY <2>7, <2>8, <3>1, <3>4
      <4>2. ASSUME NEW k \in Loops
            PROVE  Once(k, "connectDestroyed", d)' /\ ~Waits(k, "connectDestroyed", d)'
        <5>1. Once(k, "connectDestroyed", d)'
          BY <3>3
        <5>2. ~Waits(k, "connectDestroyed", c)'
          BY <3>2
        <5> QED BY <3>4, <5>1, <5>2
      <4>3. downs'[d] \in {0, 1} /\ downs'[d] <= ups'[d]
        BY <4>1
      <4> QED BY <4>1, <4>2, <4>3
    <3>5. CASE d # c
      <4>1. connections' = connections /\ downs'[d] = downs[d] /\ ups'[d] = ups[d] /\ state'[d] = state[d]
        BY <2>7, <2>8, <3>5
      <4>2. /\ downs[d] \in {0, 1} /\ downs[d] <= ups[d]
            /\ d \in connections => downs[d] = 0
            /\ \A k \in Loops : Waits(k, "connectDestroyed", d) => d \notin connections /\ downs[d] = 0
            /\ state[d] # "none" /\ d \notin connections /\ downs[d] = 0
                             => \E k \in Loops : Waits(k, "connectDestroyed", d)
        BY DEF DownOnce
      <4>3. ASSUME NEW k \in Loops
            PROVE  /\ Once(k, "connectDestroyed", d)'
                   /\ Waits(k, "connectDestroyed", d)' <=> Waits(k, "connectDestroyed", d)
        BY <3>3, <3>5
      <4>4. downs'[d] \in {0, 1} /\ downs'[d] <= ups'[d]
        BY <4>1, <4>2
      <4> QED BY <4>1, <4>2, <4>3, <4>4
    <3> QED BY <3>4, <3>5
  <2> QED BY <1>1, <2>9, <2>10, <2>11, <2>12
<1> QED
  BY <1>5, <1>6, <1>7, <1>8, <1>9, <1>10, <1>11, <1>12, <1>13, <1>14, <1>15, <1>16 DEF ConnStep

\* What Channel::handleEvent calls, and that it calls each callback once.
LEMMA HandleEventHas ==
  ASSUME NEW c \in Conns, NEW revents, NEW p, NEW d
  PROVE  /\ Has(HandleEvent(c, revents), p, d) <=>
              /\ d = c
              /\ \/ p = "handleClose" /\ "HUP" \in revents /\ "IN" \notin revents
                 \/ p = "handleError" /\ "ERR" \in revents
                 \/ p = "handleRead" /\ revents \cap {"IN", "HUP"} # {}
                 \/ p = "handleWrite" /\ "OUT" \in revents
         /\ Single(HandleEvent(c, revents), p, d)
<1>1. ASSUME NEW o \in Names, NEW b \in BOOLEAN
      PROVE  /\ (IF b THEN <<Op(o, c)>> ELSE <<>>) \in Seq(Ops)
             /\ Has(IF b THEN <<Op(o, c)>> ELSE <<>>, p, d) <=> b /\ p = o /\ d = c
             /\ Single(IF b THEN <<Op(o, c)>> ELSE <<>>, p, d)
  <2>1. Op(o, c) \in Ops /\ Op(o, c).op = o /\ Op(o, c).conn = c
    BY OpIsOp
  <2>2. CASE b
    <3>1. /\ <<Op(o, c)>> \in Seq(Ops)
          /\ Has(<<Op(o, c)>>, p, d) <=> p = o /\ d = c
          /\ Single(<<Op(o, c)>>, p, d)
      BY <2>1, OneOp
    <3> QED BY <2>2, <3>1
  <2>3. CASE ~b
    <3>1. ~Has(<<>>, p, d) /\ Single(<<>>, p, d) /\ <<>> \in Seq(Ops)
      BY NothingThere
    <3> QED BY <2>3, <3>1
  <2> QED BY <2>2, <2>3
<1> DEFINE ba == "HUP" \in revents /\ "IN" \notin revents
           bb == "ERR" \in revents
           br == revents \cap {"IN", "HUP"} # {}
           bw == "OUT" \in revents
           a == IF ba THEN <<Op("handleClose", c)>> ELSE <<>>
           b == IF bb THEN <<Op("handleError", c)>> ELSE <<>>
           r == IF br THEN <<Op("handleRead", c)>> ELSE <<>>
           w == IF bw THEN <<Op("handleWrite", c)>> ELSE <<>>
<1>2. HandleEvent(c, revents) = a \o b \o r \o w
  BY DEF HandleEvent
<1>3. ba \in BOOLEAN /\ bb \in BOOLEAN /\ br \in BOOLEAN /\ bw \in BOOLEAN
  OBVIOUS
<1> HIDE DEF ba, bb, br, bw
<1>4. a \in Seq(Ops) /\ (Has(a, p, d) <=> ba /\ p = "handleClose" /\ d = c) /\ Single(a, p, d)
  BY <1>1, <1>3, NamesFacts
<1>5. b \in Seq(Ops) /\ (Has(b, p, d) <=> bb /\ p = "handleError" /\ d = c) /\ Single(b, p, d)
  BY <1>1, <1>3, NamesFacts
<1>6. r \in Seq(Ops) /\ (Has(r, p, d) <=> br /\ p = "handleRead" /\ d = c) /\ Single(r, p, d)
  BY <1>1, <1>3, NamesFacts
<1>7. w \in Seq(Ops) /\ (Has(w, p, d) <=> bw /\ p = "handleWrite" /\ d = c) /\ Single(w, p, d)
  BY <1>1, <1>3, NamesFacts
<1> HIDE DEF a, b, r, w
<1> DEFINE ab == a \o b
           abr == ab \o r
<1>8. /\ ab \in Seq(Ops) /\ (Has(ab, p, d) <=> Has(a, p, d) \/ Has(b, p, d))
      /\ Single(ab, p, d)
  <2>1. ~(Has(a, p, d) /\ Has(b, p, d))
    BY <1>4, <1>5
  <2> QED BY <1>4, <1>5, <2>1, Joined
<1> HIDE DEF ab
<1>9. /\ abr \in Seq(Ops) /\ (Has(abr, p, d) <=> Has(ab, p, d) \/ Has(r, p, d))
      /\ Single(abr, p, d)
  <2>1. ~(Has(ab, p, d) /\ Has(r, p, d))
    BY <1>4, <1>5, <1>6, <1>8
  <2> QED BY <1>6, <1>8, <2>1, Joined
<1> HIDE DEF abr
<1>10. /\ Has(abr \o w, p, d) <=> Has(abr, p, d) \/ Has(w, p, d)
       /\ Single(abr \o w, p, d)
  <2>1. ~(Has(abr, p, d) /\ Has(w, p, d))
    BY <1>4, <1>5, <1>6, <1>7, <1>8, <1>9
  <2> QED BY <1>7, <1>9, <2>1, Joined
<1>11. HandleEvent(c, revents) = abr \o w
  BY <1>2 DEF ab, abr
<1>12. Has(HandleEvent(c, revents), p, d) <=>
          \/ ba /\ p = "handleClose" /\ d = c
          \/ bb /\ p = "handleError" /\ d = c
          \/ br /\ p = "handleRead" /\ d = c
          \/ bw /\ p = "handleWrite" /\ d = c
  BY <1>4, <1>5, <1>6, <1>7, <1>8, <1>9, <1>10, <1>11
<1> QED BY <1>10, <1>11, <1>12 DEF ba, bb, br, bw

LEMMA GeneralLoopStep ==
  ASSUME GeneralInv, NEW l \in Loops, Poll(l) \/ Dispatch(l) \/ Swap(l) \/ EndBatch(l)
  PROVE  GeneralInv'
<1> USE NamesFacts DEF GeneralInv
<1>1. TypeOK'
  BY LoopTypeStep
<1>2. CASE Poll(l)
  <2>1. UNCHANGED <<connections, loop, ups, downs, state, index, user, todo, queue>>
    BY <1>2 DEF Poll, connVars
  <2>2. ASSUME NEW k \in Loops, NEW e \in active'[k], e.conn # NoConn, e \notin active[k]
        PROVE  loop[e.conn] = k /\ state[e.conn] # "none"
    <3>1. PICK c \in Conns : /\ \E w : e = Event(c, Revents(c, w)) /\ Revents(c, w) # {}
                             /\ loop[c] = l /\ k = l
      <4>1. k = l
        BY <1>2, <2>2 DEF Poll, TypeOK
      <4> QED BY <1>2, <2>2, <4>1 DEF Poll, TypeOK, Event
    <3>2. index[c] = kAdded
      BY <3>1 DEF Revents
    <3>3. state[c] # "none"
      BY <3>2 DEF Unborn, kNew, kAdded
    <3> QED BY <3>1, <3>3 DEF Event
  <2>3. \A k \in Loops, p \in Names, d \in Conns : (Waits(k, p, d)' <=> Waits(k, p, d)) /\ (Once(k, p, d)' <=> Once(k, p, d))
    BY <2>1 DEF Waits, Once
  <2> QED BY <1>1, <2>1, <2>2, <2>3, GeneralKept DEF DownOnce
<1>3. CASE Dispatch(l)
  <2>1. UNCHANGED <<connections, loop, ups, downs, state, index, user, queue>> /\ todo[l] = <<>>
    BY <1>3 DEF Dispatch, connVars
  <2>2. PICK e \in active[l] :
          /\ active' = [active EXCEPT ![l] = @ \ {e}]
          /\ todo' = [todo EXCEPT ![l] = IF e.conn = NoConn THEN <<Op("accept", NoConn)>>
                                         ELSE HandleEvent(e.conn, e.revents)]
    BY <1>3 DEF Dispatch
  <2>3. \A k \in Loops : active'[k] \subseteq active[k]
    BY <2>2 DEF TypeOK
  <2>4. e.conn # NoConn => e.conn \in Conns /\ loop[e.conn] = l /\ state[e.conn] # "none"
    BY DEF TypeOK, Events, InPlace, Unborn
  <2>5. ASSUME NEW p \in Names, NEW d \in Conns
        PROVE  /\ Has(todo'[l], p, d) => e.conn = d /\ d # NoConn /\ p \in {"handleClose", "handleError", "handleRead", "handleWrite"}
               /\ Single(todo'[l], p, d)
    <3>1. CASE e.conn = NoConn
      <4>1. todo'[l] = <<Op("accept", NoConn)>>
        BY <2>2, <3>1 DEF TypeOK
      <4>2. (Has(todo'[l], p, d) <=> Op("accept", NoConn).op = p /\ Op("accept", NoConn).conn = d) /\ Single(todo'[l], p, d)
        BY <4>1, OneOp, OpIsOp
      <4>3. Op("accept", NoConn).op = "accept" /\ "accept" \notin Names
        BY DEF Op, Names, SharedOps, RawOps
      <4> QED BY <4>2, <4>3
    <3>2. CASE e.conn # NoConn
      <4>1. todo'[l] = HandleEvent(e.conn, e.revents)
        BY <2>2, <3>2 DEF TypeOK
      <4> QED BY <2>4, <3>2, <4>1, HandleEventHas
    <3> QED BY <3>1, <3>2
  <2>6. \A k \in Loops : k # l => todo'[k] = todo[k]
    BY <2>2 DEF TypeOK
  <2>7. ASSUME NEW k \in Loops, NEW p \in Names, NEW d \in Conns, Waits(k, p, d)', ~Waits(k, p, d)
        PROVE  state[d] # "none" /\ k = Home(p, d)
    <3>1. k = l /\ Has(todo'[l], p, d)
      BY <2>1, <2>6, <2>7 DEF Waits
    <3> QED BY <2>4, <2>5, <3>1 DEF Home
  <2>8. ASSUME NEW k \in Loops, NEW d \in Conns
        PROVE  /\ Waits(k, "connectDestroyed", d)' <=> Waits(k, "connectDestroyed", d)
               /\ Once(k, "connectDestroyed", d)'
    <3>1. CASE k = l
      <4>1. ~Has(todo'[l], "connectDestroyed", d) /\ Single(todo'[l], "connectDestroyed", d) /\ ~Has(todo[l], "connectDestroyed", d)
        BY <2>1, <2>5, NothingThere
      <4> QED BY <2>1, <3>1, <4>1 DEF Waits, Once, DownOnce
    <3>2. CASE k # l
      BY <2>1, <2>6, <3>2 DEF Waits, Once, DownOnce
    <3> QED BY <3>1, <3>2
  <2> QED BY <1>1, <2>1, <2>3, <2>7, <2>8, GeneralKept
<1>4. CASE Swap(l)
  <2>1. /\ UNCHANGED <<connections, loop, ups, downs, state, index, user, active>>
        /\ todo[l] = <<>> /\ todo'[l] = queue[l] /\ queue'[l] = <<>>
        /\ \A k \in Loops : k # l => todo'[k] = todo[k] /\ queue'[k] = queue[k]
    BY <1>4 DEF Swap, connVars, TypeOK
  <2>2. \A p \in Names, d \in Conns : /\ ~Has(todo[l], p, d) /\ Single(todo[l], p, d)
                                      /\ ~Has(queue'[l], p, d) /\ Single(queue'[l], p, d)
    BY <2>1, NothingThere
  <2>3. \A k \in Loops, p \in Names, d \in Conns :
            (Waits(k, p, d)' <=> Waits(k, p, d)) /\ (Once(k, p, d) => Once(k, p, d)')
    BY <2>1, <2>2 DEF Waits, Once
  <2> QED BY <1>1, <2>1, <2>3, GeneralKept DEF DownOnce
<1>5. CASE EndBatch(l)
  <2>1. UNCHANGED <<connections, loop, ups, downs, state, index, user, todo, queue, active>>
    BY <1>5 DEF EndBatch, connVars
  <2>2. \A k \in Loops, p \in Names, d \in Conns : (Waits(k, p, d)' <=> Waits(k, p, d)) /\ (Once(k, p, d)' <=> Once(k, p, d))
    BY <2>1 DEF Waits, Once
  <2> QED BY <1>1, <2>1, <2>2, GeneralKept DEF DownOnce
<1> QED BY <1>2, <1>3, <1>4, <1>5

LEMMA GeneralOtherStep ==
  ASSUME GeneralInv, UserStep \/ PeerStep
  PROVE  GeneralInv'
<1> USE NamesFacts DEF GeneralInv
<1>1. TypeOK'
  BY OtherTypeStep
<1>2. ASSUME NEW t \in UserThreads, NEW c \in Conns, UserCheck(t, c) PROVE GeneralInv'
  <2>1. /\ UNCHANGED <<connections, loop, ups, downs, state, index, active, todo, queue>>
        /\ user'[t].conn = c /\ state[c] = "kConnected"
        /\ \A u \in UserThreads : u # t => user'[u] = user[u]
    BY <1>2 DEF UserCheck, connVars, loopVars, TypeOK
  <2>2. \A k \in Loops, p \in Names, d \in Conns : (Waits(k, p, d)' <=> Waits(k, p, d)) /\ (Once(k, p, d)' <=> Once(k, p, d))
    BY <2>1 DEF Waits, Once
  <2> QED BY <1>1, <2>1, <2>2, GeneralKept DEF DownOnce
<1>3. ASSUME NEW t \in UserThreads, UserSetState(t) PROVE GeneralInv'
  <2>1. user[t].conn \in Conns
    BY <1>3 DEF UserSetState, TypeOK, UserCalls
  <2>2. /\ UNCHANGED <<connections, loop, ups, downs, index, active, todo, queue>>
        /\ state' = [state EXCEPT ![user[t].conn] = "kDisconnecting"]
        /\ \A u \in UserThreads : user'[u].conn = user[u].conn
    BY <1>3, <2>1 DEF UserSetState, loopVars, TypeOK, UserCalls
  <2>3. ups[user[t].conn] = 1
    BY <2>1, ConnsAssumption DEF UpOnce
  <2>4. state[user[t].conn] \notin {"none", "kConnecting"}
    BY <2>1, <2>3 DEF UpOnce
  <2>5. \A k \in Loops, p \in Names, d \in Conns : (Waits(k, p, d)' <=> Waits(k, p, d)) /\ (Once(k, p, d)' <=> Once(k, p, d))
    BY <2>2 DEF Waits, Once
  <2>6. \A d \in Conns : \/ state'[d] = state[d]
                         \/ /\ state[d] \notin {"none", "kConnecting"}
                            /\ state'[d] \notin {"none", "kConnecting"}
    BY <2>2, <2>4 DEF TypeOK
  <2> QED BY <1>1, <2>2, <2>5, <2>6, GeneralKept DEF DownOnce
<1>4. ASSUME NEW t \in UserThreads, UserQueue(t) PROVE GeneralInv'
  <2>1. user[t].conn \in Conns
    BY <1>4 DEF UserQueue, TypeOK, UserCalls
  <2> DEFINE c == user[t].conn
  <2>2. PICK q \in {"sendInLoop", "shutdownInLoop"} : QueueInLoop(loop[c], Op(q, c))
    BY <1>4 DEF UserQueue
  <2>3. /\ UNCHANGED <<connections, loop, ups, downs, state, index, active, todo>>
        /\ \A u \in UserThreads : user'[u] \in {user[u], Idle}
    BY <1>4 DEF UserQueue, connVars, loopVars, TypeOK
  <2>4. state[c] # "none" /\ loop[c] \in Loops /\ loop[c] = Home(q, c)
    BY <2>1 DEF Unborn, TypeOK, Home
  <2>5. ASSUME NEW k \in Loops, NEW p \in Names, NEW d \in Conns
        PROVE  Kept(queue[k], queue'[k], k, p, d)
    BY <2>1, <2>2, <2>4, QueuedKept
  <2>6. \A k \in Loops, p \in Names, d \in Conns :
          Waits(k, p, d)' => Waits(k, p, d) \/ (state[d] # "none" /\ k = Home(p, d))
    BY <2>3, <2>5 DEF Waits, Kept
  <2>7. \A k \in Loops, d \in Conns : /\ Waits(k, "connectDestroyed", d)' <=> Waits(k, "connectDestroyed", d)
                                      /\ Once(k, "connectDestroyed", d)'
    BY <2>3, <2>5 DEF Waits, Once, DownOnce, Kept
  <2>8. \A u \in UserThreads : user'[u].conn \in {NoConn, user[u].conn}
    BY <2>3 DEF Idle
  <2> QED BY <1>1, <2>3, <2>6, <2>7, <2>8, GeneralKept
<1>5. ASSUME PeerStep PROVE GeneralInv'
  <2>1. UNCHANGED <<connections, loop, ups, downs, state, index, active, todo, queue, user>>
    BY <1>5 DEF PeerStep, PeerSends, PeerCloses, connVars, loopVars
  <2>2. \A k \in Loops, p \in Names, d \in Conns : (Waits(k, p, d)' <=> Waits(k, p, d)) /\ (Once(k, p, d)' <=> Once(k, p, d))
    BY <2>1 DEF Waits, Once
  <2> QED BY <1>1, <2>1, <2>2, GeneralKept DEF DownOnce
<1> QED BY <1>2, <1>3, <1>4, <1>5 DEF UserStep

LEMMA GeneralServerStep ==
  ASSUME GeneralInv, AssertionsHold, ServerStep
  PROVE  GeneralInv'
<1> USE NamesFacts DEF GeneralInv
<1>1. TypeOK'
  BY ServerTypeStep
<1>2. "accept" \notin Names
  BY DEF Names, SharedOps, RawOps
<1>3. ASSUME NEW c \in Conns, NewConnection(c) PROVE GeneralInv'
  <2>1. At(Base, "accept", NoConn) /\ state[c] = "none"
    BY <1>3 DEF NewConnection
  <2>2. PICK l \in Pool : loop' = [loop EXCEPT ![c] = l] /\ RunInLoop(Base, l, Op("connectEstablished", c))
    BY <1>3 DEF NewConnection
  <2>3. l \in Loops
    BY SetupsAssumption DEF Pool, TypeOK, Loops
  <2>4. /\ loop'[c] = l /\ state'[c] = "kConnecting" /\ connections' = connections \cup {c}
        /\ \A d \in Conns : d # c => loop'[d] = loop[d] /\ state'[d] = state[d]
        /\ UNCHANGED <<active, index, user, ups, downs>>
    BY <1>3, <2>2, <2>3 DEF NewConnection, loopVars, TypeOK
  <2>5. ASSUME NEW k \in Loops, NEW p \in Names, NEW d \in Conns
        PROVE  /\ Waits(k, p, d)' <=> Waits(k, p, d) \/ (p = "connectEstablished" /\ d = c /\ k = l)
               /\ Once(k, p, d) /\ p # "connectEstablished" => Once(k, p, d)'
    <3>1. /\ Has(todo[Base], p, d) <=> Has(Rest(Base), p, d)
          /\ Single(todo[Base], p, d) => Single(Rest(Base), p, d)
      BY <1>2, <2>1, AtHead
    <3>2. CASE l = Base
      <4>1. Continue(Base, <<Op("connectEstablished", c)>>) /\ queue' = queue
        BY <2>2, <3>2 DEF RunInLoop
      <4>2. /\ k # Base => todo'[k] = todo[k]
            /\ Has(todo'[Base], p, d) <=> (p = "connectEstablished" /\ d = c) \/ Has(Rest(Base), p, d)
            /\ Single(Rest(Base), p, d) /\ ~(p = "connectEstablished" /\ d = c /\ Has(Rest(Base), p, d))
                        => Single(todo'[Base], p, d)
        BY <2>1, <4>1, Replaced
      <4> QED BY <3>1, <3>2, <4>1, <4>2 DEF Waits, Once
    <3>3. CASE l # Base
      <4>1. Continue(Base, <<>>) /\ QueueInLoop(l, Op("connectEstablished", c))
        BY <2>2, <3>3 DEF RunInLoop
      <4>2. (k # Base => todo'[k] = todo[k]) /\ todo'[Base] = Rest(Base)
        BY <2>1, <4>1, Done
      <4>3. /\ k # l => queue'[k] = queue[k]
            /\ Has(queue'[l], p, d) <=> Has(queue[l], p, d) \/ (p = "connectEstablished" /\ d = c)
            /\ Single(queue[l], p, d) /\ ~(p = "connectEstablished" /\ d = c /\ Has(queue[l], p, d))
                        => Single(queue'[l], p, d)
        BY <2>3, <4>1, Queued
      <4> QED BY <3>1, <3>3, <4>2, <4>3 DEF Waits, Once
    <3> QED BY <3>2, <3>3
  <2>6. InPlace'
    <3>1. ASSUME NEW k \in Loops, NEW d \in Conns, NEW p \in Names, Waits(k, p, d)'
          PROVE  k = IF p = "removeConnectionInLoop" THEN Base ELSE loop'[d]
      <4>1. CASE d = c
        BY <2>1, <2>4, <2>5, <3>1, <4>1 DEF Unborn
      <4>2. CASE d # c
        BY <2>4, <2>5, <3>1, <4>2 DEF InPlace
      <4> QED BY <4>1, <4>2
    <3>2. ASSUME NEW k \in Loops, NEW e \in active'[k], e.conn # NoConn PROVE loop'[e.conn] = k
      <4>1. e \in active[k] /\ e.conn \in Conns /\ e.conn # c
        BY <2>1, <2>4, <3>2 DEF Unborn, TypeOK, Events
      <4> QED BY <2>4, <3>2, <4>1 DEF InPlace
    <3> QED BY <3>1, <3>2 DEF InPlace
  <2>7. Unborn'
    <3> SUFFICES ASSUME NEW d \in Conns, state'[d] = "none"
                 PROVE  /\ d \notin connections' /\ index'[d] = kNew
                        /\ \A k \in Loops, p \in Names : ~Waits(k, p, d)'
                        /\ \A k \in Loops : \A e \in active'[k] : e.conn # d
                        /\ \A t \in UserThreads : user'[t].conn # d
      BY DEF Unborn
    <3>1. d # c /\ state[d] = "none"
      BY <2>4
    <3>2. \A k \in Loops, p \in Names : ~Waits(k, p, d)'
      BY <2>5, <3>1 DEF Unborn
    <3> QED BY <2>4, <3>1, <3>2 DEF Unborn
  <2>8. UpOnce'
    BY <2>1, <2>4 DEF UpOnce
  <2>9. DownOnce'
    <3>1. ups[c] = 0 /\ downs[c] = 0
      BY <2>1 DEF UpOnce, DownOnce
    <3>2. \A k \in Loops : ~Waits(k, "connectDestroyed", c)'
      BY <2>1, <2>5 DEF Unborn
    <3>3. \A k \in Loops, d \in Conns : /\ Once(k, "connectDestroyed", d)'
                                        /\ d # c => (Waits(k, "connectDestroyed", d)' <=> Waits(k, "connectDestroyed", d))
      BY <2>5 DEF DownOnce
    <3> QED BY <2>4, <3>1, <3>2, <3>3 DEF DownOnce
  <2> QED BY <1>1, <2>6, <2>7, <2>8, <2>9
<1>4. ASSUME NEW c \in Conns, RemoveConnectionInLoop(c) PROVE GeneralInv'
  <2>1. At(Base, "removeConnectionInLoop", c) /\ c \in connections
    BY <1>4 DEF RemoveConnectionInLoop, AssertionsHold
  <2>2. /\ connections' = connections \ {c} /\ QueueInLoop(loop[c], Op("connectDestroyed", c))
        /\ Continue(Base, <<>>) /\ UNCHANGED <<state, index, active, loop, user, ups, downs>>
    BY <1>4 DEF RemoveConnectionInLoop, loopVars, connVars
  <2>3. state[c] # "none" /\ downs[c] = 0 /\ loop[c] \in Loops /\ \A k \in Loops : ~Waits(k, "connectDestroyed", c)
    BY <2>1 DEF Unborn, DownOnce, TypeOK
  <2>4. ASSUME NEW k \in Loops, NEW p \in Names, NEW d \in Conns
        PROVE  /\ Waits(k, p, d)' => Waits(k, p, d) \/ (p = "connectDestroyed" /\ d = c /\ k = loop[c])
               /\ p = "connectDestroyed" /\ (Waits(k, p, d) \/ (d = c /\ k = loop[c])) => Waits(k, p, d)'
               /\ p = "connectDestroyed" /\ Once(k, p, d) => Once(k, p, d)'
    <3>1. /\ Has(todo[Base], p, d) <=> (p = "removeConnectionInLoop" /\ d = c) \/ Has(Rest(Base), p, d)
          /\ Single(todo[Base], p, d) => Single(Rest(Base), p, d)
      BY <2>1, AtHead
    <3>2. (k # Base => todo'[k] = todo[k]) /\ todo'[Base] = Rest(Base)
      BY <2>1, <2>2, Done
    <3>3. PICK m \in Loops, q \in Names : q = "connectDestroyed" /\ m = loop[c] /\ QueueInLoop(m, Op(q, c))
      BY <2>2, <2>3
    <3>4. TypeOK /\ QueueInLoop(m, Op(q, c))
      BY <3>3
    <3>5. /\ k # m => queue'[k] = queue[k]
          /\ Has(queue'[m], p, d) <=> Has(queue[m], p, d) \/ (p = q /\ d = c)
          /\ Single(queue[m], p, d) /\ ~(p = q /\ d = c /\ Has(queue[m], p, d))
                      => Single(queue'[m], p, d)
      BY <3>4, Queued
    <3> QED BY <2>3, <3>1, <3>2, <3>3, <3>5 DEF Waits, Once
  <2>5. InPlace'
    BY <2>2, <2>4 DEF InPlace
  <2>6. Unborn'
    BY <2>2, <2>3, <2>4 DEF Unborn
  <2>7. UpOnce'
    BY <2>2 DEF UpOnce
  <2>8. DownOnce'
    <3>1. \A k \in Loops, d \in Conns :
              /\ Once(k, "connectDestroyed", d)'
              /\ Waits(k, "connectDestroyed", d)' <=> Waits(k, "connectDestroyed", d) \/ (d = c /\ k = loop[c])
      BY <2>4 DEF DownOnce
    <3> QED BY <2>2, <2>3, <3>1 DEF DownOnce
  <2> QED BY <1>1, <2>5, <2>6, <2>7, <2>8
<1>5. CASE AcceptFails
  BY <1>1, <1>5, MovesKept DEF AcceptFails, connVars, loopVars
<1> QED BY <1>3, <1>4, <1>5 DEF ServerStep

LEMMA GeneralStep ==
  ASSUME GeneralInv, [Next]_vars
  PROVE  GeneralInv'
<1>1. CASE Next
  <2>1. AssertionsHold
    BY <1>1 DEF Next
  <2>2. ASSUME NEW l \in Loops, LoopStep(l) PROVE GeneralInv'
    BY <2>1, <2>2, GeneralLoopStep, GeneralConnStep DEF LoopStep
  <2> QED BY <1>1, <2>1, <2>2, GeneralServerStep, GeneralOtherStep DEF Next
<1>2. CASE UNCHANGED vars
  <2>1. UNCHANGED <<setup, connections, state, interest, index, output, loop, queue, phase, active, todo,
                    held, user, socket, sends, messages, ups, downs>>
    BY <1>2 DEF vars, connVars, loopVars
  <2>2. TypeOK'
    BY <2>1 DEF GeneralInv, TypeOK
  <2>3. \A k \in Loops, p \in Names, d \in Conns : (Waits(k, p, d)' <=> Waits(k, p, d)) /\ (Once(k, p, d)' <=> Once(k, p, d))
    BY <2>1 DEF Waits, Once
  <2> QED BY <2>1, <2>2, <2>3, NamesFacts, GeneralKept DEF GeneralInv, DownOnce
<1> QED BY <1>1, <1>2

LEMMA GeneralInit ==
  ASSUME Init
  PROVE  GeneralInv
<1>1. TypeOK
  BY SetupsAssumption DEF Init, TypeOK, Loops, States, Phases, UserCalls, Idle, Sockets
<1>2. \A l \in Loops, o \in Names, c \in Conns : ~Waits(l, o, c) /\ Once(l, o, c)
  BY NothingThere DEF Waits, Once, Init
<1>3. InPlace
  BY <1>2 DEF InPlace, Init
<1>4. Unborn
  BY <1>2, ConnsAssumption DEF Unborn, Init, Idle
<1>5. UpOnce
  BY DEF UpOnce, Init, Idle
<1>6. DownOnce
  BY <1>2, NamesFacts DEF DownOnce, Init
<1> QED BY <1>1, <1>3, <1>4, <1>5, <1>6 DEF GeneralInv

\* What a loop has to do or in its queue and owns a connection keeps it alive.
LEMMA WaitingOwns ==
  ASSUME NEW l \in Loops, NEW o \in SharedOps, NEW c \in Conns, Waits(l, o, c)
  PROVE  Alive(c)
<1>1. c \in Owned(todo[l]) \cup Owned(queue[l])
  BY DEF Waits, Has, Owned
<1> QED BY <1>1 DEF Alive

\* TypeOK, and the bookkeeping of ups and downs, for every setup.
THEOREM ServerGeneralInv == Spec => []GeneralInv
BY GeneralInit, GeneralStep, PTL DEF Spec

\* Whatever the setup, the user is told once that a connection is up and then at most
\* once that it is down, and a connection nobody owns any more was reported down:
\* connectDestroyed follows every erase from connections_ exactly once.
THEOREM ServerUpThenDown == Spec => []UpThenDown
<1>1. GeneralInv => UpThenDown
  <2> SUFFICES ASSUME GeneralInv PROVE UpThenDown
    OBVIOUS
  <2>1. ASSUME NEW c \in Conns PROVE downs[c] <= ups[c] /\ ups[c] <= 1
    <3>1. ups[c] \in {0, 1} /\ downs[c] <= ups[c]
      BY DEF GeneralInv, UpOnce, DownOnce
    <3> QED BY <3>1
  <2>2. ASSUME NEW c \in Conns, state[c] # "none", ~Alive(c) PROVE downs[c] = 1
    <3>1. c \notin connections /\ \A l \in Loops : ~Waits(l, "connectDestroyed", c)
      BY <2>2, WaitingOwns DEF Alive, SharedOps
    <3> QED BY <2>2, <3>1 DEF GeneralInv, DownOnce
  <2> QED BY <2>1, <2>2 DEF UpThenDown, GeneralInv
<1> QED BY <1>1, ServerGeneralInv, PTL

-----------------------------------------------------------------------------
(* Calls inside one another.                                               *)

LEMMA NoCallsThere ==
  ASSUME NEW s \in Seq(Ops)
  PROVE  NoCalls(s) <=> \A o \in CallOps : \A c : ~Has(s, o, c)
BY DEF NoCalls, Has

LEMMA NoCallsBelow ==
  ASSUME NEW s \in Seq(Ops), s # <<>>, NoCalls(s)
  PROVE  NoCalls(Tail(s))
<1>1. \A o \in CallOps : \A c : ~Has(Tail(s), o, c)
  BY NoCallsThere, HeadTail
<1> QED BY <1>1, NoCallsThere, HeadTail

LEMMA NoCallsOnTop ==
  ASSUME NEW s \in Seq(Ops), NEW x \in Ops, x.op \notin CallOps, NoCalls(s)
  PROVE  NoCalls(<<x>> \o s)
<1> DEFINE one == <<x>>
<1>1. one \in Seq(Ops) /\ \A o \in CallOps : \A c : ~Has(one, o, c)
  BY OneOp
<1> HIDE DEF one
<1>2. one \o s \in Seq(Ops) /\ \A o \in CallOps : \A c : ~Has(one \o s, o, c)
  BY <1>1, NoCallsThere, Joined
<1>3. NoCalls(one \o s)
  BY <1>2, NoCallsThere
<1> QED BY <1>3 DEF one

LEMMA Pushing ==
  ASSUME NEW s \in Seq(Ops), NEW x \in Ops
  PROVE  /\ <<x>> \o s \in Seq(Ops) /\ <<x>> \o s # <<>>
         /\ Head(<<x>> \o s) = x /\ Tail(<<x>> \o s) = s
<1>1. <<x>> \in Seq(Ops) /\ Len(<<x>>) = 1 /\ <<x>>[1] = x
  OBVIOUS
<1>2. /\ <<x>> \o s \in Seq(Ops) /\ Len(<<x>> \o s) = 1 + Len(s) /\ Len(s) \in Nat
      /\ (<<x>> \o s)[1] = x
      /\ \A i \in 1..Len(s) : (<<x>> \o s)[i + 1] = s[i]
  BY <1>1
<1> DEFINE t == <<x>> \o s
<1> HIDE DEF t
<1>3. t \in Seq(Ops) /\ Len(t) = 1 + Len(s) /\ Len(s) \in Nat /\ t[1] = x
      /\ \A i \in 1..Len(s) : t[i + 1] = s[i]
  BY <1>2 DEF t
<1>4. t # <<>> /\ Head(t) = x
  BY <1>3
<1>5. Tail(t) = s
  BY <1>3, <1>4
<1> QED BY <1>3, <1>4, <1>5 DEF t

LEMMA StackedFacts ==
  ASSUME NEW s \in Seq(Ops)
  PROVE  /\ NoCalls(s) => Stacked(s)
         /\ s # <<>> /\ Stacked(s) => Stacked(Tail(s))
         /\ s # <<>> /\ Stacked(s) /\ Head(s).op \notin {"sendInLoop", "shutdownInLoop"}
              => NoCalls(Tail(s))
         /\ \A x \in Ops : NoCalls(s) => Stacked(<<x>> \o s)
         /\ \A x \in Ops : s # <<>> /\ NoCalls(Tail(s)) /\ x.op \in {"sendInLoop", "shutdownInLoop"}
              => Stacked(<<x>> \o s)
<1>1. NoCalls(s) => Flat(s)
  BY NoCallsBelow DEF Flat
<1>2. ASSUME s # <<>>, Stacked(s) PROVE Stacked(Tail(s))
  <2>1. Tail(s) \in Seq(Ops)
    BY <1>2, HeadTail
  <2>2. NoCalls(Tail(s)) => Flat(Tail(s))
    BY <2>1, NoCallsBelow DEF Flat
  <2> QED BY <1>2, <2>2 DEF Stacked, Flat
<1>3. s # <<>> /\ Stacked(s) /\ Head(s).op \notin {"sendInLoop", "shutdownInLoop"} => NoCalls(Tail(s))
  BY DEF Stacked, Flat
<1>4. ASSUME NEW x \in Ops, NoCalls(s) PROVE Stacked(<<x>> \o s)
  BY <1>4, Pushing DEF Stacked, Flat
<1>5. ASSUME NEW x \in Ops, s # <<>>, NoCalls(Tail(s)), x.op \in {"sendInLoop", "shutdownInLoop"}
      PROVE  Stacked(<<x>> \o s)
  BY <1>5, Pushing DEF Stacked, Flat
<1> QED BY <1>1, <1>2, <1>3, <1>4, <1>5 DEF Stacked

-----------------------------------------------------------------------------
(* The steps when the user only acts in callbacks.                         *)

\* The operations that are there once in the life of a connection.
LifeOps == {"connectEstablished", "removeConnectionInLoop", "connectDestroyed", "remove"}

\* A step that neither opens nor closes a connection: loops go on with what they do.
QuietConns ==
    \A d \in Conns :
        /\ state'[d] = state[d] \/ (Open(d) /\ state'[d] \in {"kConnected", "kDisconnecting"})
        /\ "IN" \in interest'[d] <=> "IN" \in interest[d]
        /\ \/ interest'[d] = interest[d] /\ index'[d] = index[d]
           \/ /\ Open(d) /\ index'[d] # kNew
              /\ "IN" \in interest[d] => index'[d] = kAdded
              /\ Closing(d) => ~Strict

QuietQueue ==
    \A k \in Loops, d \in Conns :
        /\ \A p \in Names \ {"writeComplete"} :
             /\ Has(queue'[k], p, d) <=> Has(queue[k], p, d)
             /\ Single(queue[k], p, d) => Single(queue'[k], p, d)
        /\ Has(queue'[k], "writeComplete", d) => Has(queue[k], "writeComplete", d) \/ setup.writeComplete

QuietOps(k, d) ==
    /\ \A p \in LifeOps :
         /\ Has(todo'[k], p, d) <=> Has(todo[k], p, d)
         /\ Single(todo[k], p, d) => Single(todo'[k], p, d)
    /\ \A p \in {"handleRead", "handleWrite", "writeComplete"} :
         Has(todo'[k], p, d) => Has(todo[k], p, d)
    /\ \A p \in {"handleClose", "handleError"} :
         Has(todo'[k], p, d) => Has(todo[k], p, d) \/ Has(todo[k], "handleRead", d)
    /\ \A p \in {"handleClose", "handleRead"} : Single(todo'[k], p, d)
    /\ ~(Has(todo'[k], "handleRead", d) /\ Has(todo'[k], "handleClose", d))
    /\ \A p \in {"sendInLoop", "shutdownInLoop"} :
         Has(todo'[k], p, d) => Has(todo[k], p, d) \/ Open(d)
    /\ Strict => \A p \in {"callback", "sendInLoop"} :
         Has(todo'[k], p, d) => Has(todo[k], "callback", d) \/ Has(todo[k], "sendInLoop", d) \/ ~Closing(d)

QuietTodo ==
    /\ \A k \in Loops, d \in Conns : QuietOps(k, d)
    /\ \A k \in Loops : (todo[k] = <<>> => todo'[k] = <<>>) /\ Stacked(todo'[k])

Quiet == UNCHANGED <<setup, connections, loop, phase, active, user, downs>> /\ QuietConns /\ QuietQueue /\ QuietTodo

LEMMA NotOfAcceptor ==
  ASSUME NEW s \in Seq(Ops), NEW o \in Names
  PROVE  ~Has(s, o, NoConn)
<1>1. SUFFICES ASSUME NEW i \in DOMAIN s, s[i].op = o, s[i].conn = NoConn PROVE FALSE
  BY DEF Has
<1>2. s[i] \in Ops
  OBVIOUS
<1> QED BY <1>1, <1>2, ConnsAssumption DEF Ops, Names, SharedOps, RawOps

LEMMA QuietKept ==
  ASSUME GeneralInv, GeneralInv', CallbackInv, Quiet
  PROVE  CallbackInv'
<1> USE NamesFacts DEF CallbackInv, QuietConns, QuietQueue, QuietTodo, QuietOps
<1>1. UNCHANGED <<setup, connections, loop, phase, active, user, downs>>
  BY DEF Quiet
<1>2. \A d \in Conns : /\ Open(d)' <=> Open(d)
                       /\ Closing(d)' <=> Closing(d)
                       /\ ~Open(d) => state'[d] = state[d] /\ interest'[d] = interest[d] /\ index'[d] = index[d]
                       /\ "IN" \in interest'[d] <=> "IN" \in interest[d]
                       /\ state[d] = "kDisconnected" <=> state'[d] = "kDisconnected"
                       /\ state[d] = "kConnecting" <=> state'[d] = "kConnecting"
                       /\ state[d] = "none" <=> state'[d] = "none"
  BY DEF Quiet, Open, Closing
<1>3. PhaseInv'
  BY <1>1 DEF Quiet, PhaseInv, LifeOps
<1>4. QueueInv'
  <2>1. ASSUME NEW k \in Loops, NEW d \in Conns
        PROVE  /\ \A o \in RawOps \cup {"callback", "remove"} : ~Has(queue'[k], o, d)
               /\ Waits(k, "writeComplete", d)' => setup'.writeComplete
    <3>1. \A o \in RawOps \cup {"callback", "remove"} : o \in Names \ {"writeComplete"}
      BY DEF RawOps, Names, SharedOps
    <3>2. \A o \in RawOps \cup {"callback", "remove"} : ~Has(queue'[k], o, d)
      BY <3>1 DEF Quiet, QueueInv
    <3> QED BY <1>1, <3>2 DEF Quiet, QueueInv, Waits
  <2>2. ASSUME setup'.pool = {}, NEW d \in Conns
        PROVE  /\ loop'[d] = Base
               /\ ~Has(queue'[Base], "removeConnectionInLoop", d)
               /\ Has(todo'[Base], "removeConnectionInLoop", d) => phase'[Base] = "events"
               /\ Has(queue'[Base], "connectDestroyed", d) => phase'[Base] = "events"
    BY <1>1, <2>2 DEF Quiet, QueueInv, LifeOps
  <2> QED BY <2>1, <2>2 DEF QueueInv
<1>5. UniqueInv'
  <2>1. ASSUME NEW k \in Loops, NEW d \in Conns, NEW o \in UniqueOps PROVE Once(k, o, d)'
    <3>1. o \in Names \ {"writeComplete"} /\ (o \in LifeOps \/ o \in {"handleClose", "handleRead"})
      BY DEF UniqueOps, LifeOps
    <3>2. Single(todo'[k], o, d) /\ Single(queue'[k], o, d)
      BY <3>1 DEF Quiet, UniqueInv, Once
    <3>3. CASE o \in LifeOps
      BY <3>1, <3>2, <3>3 DEF Quiet, UniqueInv, Once
    <3>4. CASE o \in {"handleClose", "handleRead"}
      BY <3>1, <3>2, <3>4 DEF Quiet, QueueInv, Once, RawOps
    <3> QED BY <3>1, <3>3, <3>4
  <2>2. ASSUME NEW k \in Loops, NEW e \in active'[k]
        PROVE  ~Has(todo'[k], "handleRead", e.conn) /\ ~Has(todo'[k], "handleClose", e.conn)
    <3>1. e \in active[k] /\ (e.conn \in Conns \/ e.conn = NoConn)
      BY <1>1 DEF GeneralInv, TypeOK, Events
    <3>2. CASE e.conn \in Conns
      BY <3>1, <3>2 DEF Quiet, UniqueInv
    <3>3. CASE e.conn = NoConn
      <4>1. todo'[k] \in Seq(Ops)
        BY DEF GeneralInv, TypeOK
      <4> QED BY <3>3, <4>1, NotOfAcceptor
    <3> QED BY <3>1, <3>2, <3>3
  <2>3. \A k \in Loops : \A d \in Conns : ~(Has(todo'[k], "handleRead", d) /\ Has(todo'[k], "handleClose", d))
    BY DEF Quiet
  <2>4. \A k \in Loops : \A e, f \in active'[k] : e.conn = f.conn => e = f
    BY <1>1 DEF UniqueInv
  <2> QED BY <2>1, <2>2, <2>3, <2>4 DEF UniqueInv
<1>6. EventInv'
  <2>1. ASSUME NEW k \in Loops, NEW d \in Conns, NEW o \in RawOps, Has(todo'[k], o, d) PROVE Open(d)'
    <3>1. Has(todo[k], o, d) \/ Has(todo[k], "handleRead", d) \/ Open(d)
      BY <2>1 DEF Quiet, RawOps
    <3> QED BY <1>2, <3>1 DEF EventInv, RawOps
  <2>2. ASSUME NEW k \in Loops, NEW d \in Conns, Has(todo'[k], "handleRead", d) \/ Has(todo'[k], "handleClose", d)
        PROVE  "IN" \in interest'[d]
    <3>1. Has(todo[k], "handleRead", d) \/ Has(todo[k], "handleClose", d)
      BY <2>2 DEF Quiet
    <3> QED BY <1>2, <3>1 DEF EventInv
  <2>3. ASSUME NEW k \in Loops, NEW e \in active'[k], e.conn # NoConn
        PROVE  /\ Open(e.conn)' /\ "IN" \in interest'[e.conn]
               /\ "HUP" \in e.revents => "IN" \in e.revents
    <3>1. e \in active[k] /\ e.conn \in Conns
      BY <1>1, <2>3 DEF GeneralInv, TypeOK, Events
    <3> QED BY <1>2, <2>3, <3>1 DEF EventInv
  <2> QED BY <2>1, <2>2, <2>3 DEF EventInv
<1>7. LifeInv'
  <2> SUFFICES ASSUME NEW d \in Conns
               PROVE  /\ state'[d] \in {"none", "kConnecting"} => index'[d] = kNew /\ interest'[d] = {}
                      /\ state'[d] = "kConnecting" => d \in connections'
                      /\ Open(d)' => index'[d] # kNew
                      /\ Open(d)' /\ "IN" \in interest'[d] => d \in connections' /\ index'[d] = kAdded
                      /\ state'[d] # "kDisconnected" => downs'[d] = 0
                      /\ state'[d] = "kDisconnected" =>
                           /\ interest'[d] = {} /\ d \notin connections'
                           /\ index'[d] # kNew => Has(todo'[loop'[d]], "remove", d)
                      /\ \A l \in Loops :
                           /\ Waits(l, "connectEstablished", d)' => state'[d] = "kConnecting"
                           /\ Waits(l, "removeConnectionInLoop", d)' => d \in connections' /\ Closing(d)'
                           /\ Waits(l, "connectDestroyed", d)' => Closing(d)'
                           /\ Has(todo'[l], "remove", d) => state'[d] = "kDisconnected" /\ index'[d] # kNew
    BY DEF LifeInv
  <2>1. state'[d] \in {"none", "kConnecting", "kDisconnected"} => ~Open(d)
    BY <1>2 DEF Open
  <2>2. loop[d] \in Loops
    BY DEF GeneralInv, TypeOK
  <2>3. /\ state'[d] \in {"none", "kConnecting"} => index'[d] = kNew /\ interest'[d] = {}
        /\ state'[d] = "kConnecting" => d \in connections'
        /\ state'[d] # "kDisconnected" => downs'[d] = 0
    BY <1>1, <1>2, <2>1 DEF LifeInv
  <2>4. /\ Open(d)' => index'[d] # kNew
        /\ Open(d)' /\ "IN" \in interest'[d] => d \in connections' /\ index'[d] = kAdded
    BY <1>1, <1>2 DEF LifeInv, Quiet
  <2>5. state'[d] = "kDisconnected" =>
                           /\ interest'[d] = {} /\ d \notin connections'
                           /\ index'[d] # kNew => Has(todo'[loop'[d]], "remove", d)
    BY <1>1, <1>2, <2>1, <2>2 DEF LifeInv, Quiet, LifeOps
  <2>6. ASSUME NEW l \in Loops
        PROVE  /\ Waits(l, "connectEstablished", d)' => Waits(l, "connectEstablished", d)
               /\ Waits(l, "removeConnectionInLoop", d)' => Waits(l, "removeConnectionInLoop", d)
               /\ Waits(l, "connectDestroyed", d)' => Waits(l, "connectDestroyed", d)
               /\ Has(todo'[l], "remove", d) => Has(todo[l], "remove", d)
    BY DEF Quiet, Waits, LifeOps
  <2>7. state[d] = "kDisconnected" => ~Open(d)
    BY DEF Open
  <2>8. ASSUME NEW l \in Loops
        PROVE  /\ Waits(l, "connectEstablished", d)' => state'[d] = "kConnecting"
               /\ Waits(l, "removeConnectionInLoop", d)' => d \in connections' /\ Closing(d)'
               /\ Waits(l, "connectDestroyed", d)' => Closing(d)'
               /\ Has(todo'[l], "remove", d) => state'[d] = "kDisconnected" /\ index'[d] # kNew
    BY <1>1, <1>2, <2>6, <2>7 DEF LifeInv
  <2> QED BY <2>3, <2>4, <2>5, <2>8
<1>8. ClosingInv'
  <2> SUFFICES ASSUME NEW d \in Conns, Closing(d)
               PROVE  /\ d \in connections' => Waits(Base, "removeConnectionInLoop", d)'
                      /\ Strict' => index'[d] = kDeleted /\ interest'[d] = {}
                      /\ setup'.pool = {} =>
                           /\ phase'[Base] # "poll"
                           /\ phase'[Base] = "functors" => Has(todo'[Base], "connectDestroyed", d)
    BY <1>2 DEF ClosingInv
  <2>1. d \in connections' => Waits(Base, "removeConnectionInLoop", d)'
    BY <1>1 DEF ClosingInv, Quiet, Waits, LifeOps
  <2>2. Strict' => index'[d] = kDeleted /\ interest'[d] = {}
    BY <1>1 DEF ClosingInv, Quiet
  <2>3. setup'.pool = {} =>
              /\ phase'[Base] # "poll"
              /\ phase'[Base] = "functors" => Has(todo'[Base], "connectDestroyed", d)
    BY <1>1 DEF ClosingInv, Quiet, LifeOps
  <2> QED BY <2>1, <2>2, <2>3
<1>9. CallInv'
  <2>1. \A k \in Loops : Stacked(todo'[k])
    BY DEF Quiet
  <2>2. ASSUME Strict', NEW k \in Loops, NEW d \in Conns,
               Has(todo'[k], "callback", d) \/ Has(todo'[k], "sendInLoop", d)
        PROVE  ~Closing(d)'
    BY <1>1, <1>2, <2>2 DEF Quiet, CallInv
  <2> QED BY <2>1, <2>2 DEF CallInv
<1>10. \A t \in UserThreads : user'[t] = Idle
  BY <1>1
<1> QED BY <1>3, <1>4, <1>5, <1>6, <1>7, <1>8, <1>9, <1>10

LEMMA QuietElsewhere ==
  ASSUME GeneralInv, CallbackInv, NEW k \in Loops, todo'[k] = todo[k], NEW d \in Conns
  PROVE  QuietOps(k, d)
<1>1. \A p \in {"handleClose", "handleRead"} : Single(todo[k], p, d)
  BY DEF CallbackInv, UniqueInv, UniqueOps, Once
<1> QED BY <1>1 DEF CallbackInv, UniqueInv, EventInv, QuietOps, RawOps

LEMMA QuietDone ==
  ASSUME GeneralInv, CallbackInv, NEW l \in Loops, NEW o, NEW c, At(l, o, c), o \notin LifeOps,
         Continue(l, <<>>)
  PROVE  QuietTodo
<1>1. /\ todo[l] \in Seq(Ops) /\ todo[l] # <<>> /\ Rest(l) \in Seq(Ops)
      /\ \A p, d : Has(todo[l], p, d) <=> (p = o /\ d = c) \/ Has(Rest(l), p, d)
      /\ \A p, d : Single(todo[l], p, d) => Single(Rest(l), p, d)
  BY AtHead DEF GeneralInv
<1>2. (\A k \in Loops : k # l => todo'[k] = todo[k]) /\ todo'[l] = Rest(l)
  BY Done DEF GeneralInv
<1>3. ASSUME NEW d \in Conns PROVE QuietOps(l, d)
  <2>1. \A p \in {"handleClose", "handleRead"} : Single(todo[l], p, d)
    BY DEF CallbackInv, UniqueInv, UniqueOps, Once
  <2>2. ~(Has(todo[l], "handleRead", d) /\ Has(todo[l], "handleClose", d))
    BY DEF CallbackInv, UniqueInv
  <2> QED BY <1>1, <1>2, <2>1, <2>2 DEF QuietOps, LifeOps
<1>4. Stacked(todo'[l])
  BY <1>1, <1>2, StackedFacts DEF CallbackInv, CallInv, Rest
<1> QED BY <1>1, <1>2, <1>3, <1>4, QuietElsewhere DEF QuietTodo, CallbackInv, CallInv

LEMMA QuietReplaced ==
  ASSUME GeneralInv, CallbackInv, NEW l \in Loops, NEW c \in Conns, At(l, "handleRead", c),
         NEW q \in {"callback", "handleError", "handleClose"}, Continue(l, <<Op(q, c)>>)
  PROVE  QuietTodo
<1>1. /\ todo[l] \in Seq(Ops) /\ todo[l] # <<>> /\ Rest(l) \in Seq(Ops)
      /\ \A p, d : Has(todo[l], p, d) <=> (p = "handleRead" /\ d = c) \/ Has(Rest(l), p, d)
      /\ \A p, d : Single(todo[l], p, d) => Single(Rest(l), p, d)
      /\ Single(todo[l], "handleRead", c) => ~Has(Rest(l), "handleRead", c)
  BY AtHead DEF GeneralInv
<1>2. q \in Names /\ Op(q, c) \in Ops
  BY NamesFacts, OpIsOp
<1>3. /\ \A k \in Loops : k # l => todo'[k] = todo[k]
      /\ todo'[l] = <<Op(q, c)>> \o Rest(l)
      /\ \A p, d : Has(todo'[l], p, d) <=> (p = q /\ d = c) \/ Has(Rest(l), p, d)
      /\ \A p, d : Single(Rest(l), p, d) /\ ~(p = q /\ d = c /\ Has(Rest(l), p, d))
                        => Single(todo'[l], p, d)
  BY <1>2, Replaced DEF GeneralInv
<1>4. ~Closing(c)
  BY <1>1 DEF CallbackInv, EventInv, Closing
<1>5. ASSUME NEW d \in Conns PROVE QuietOps(l, d)
  <2>1. \A p \in {"handleClose", "handleRead"} : Single(todo[l], p, d)
    BY DEF CallbackInv, UniqueInv, UniqueOps, Once
  <2>2. ~(Has(todo[l], "handleRead", d) /\ Has(todo[l], "handleClose", d))
    BY DEF CallbackInv, UniqueInv
  <2>3. \A p \in {"handleClose", "handleRead"} : Single(todo'[l], p, d)
    BY <1>1, <1>3, <2>1, <2>2
  <2>4. ~(Has(todo'[l], "handleRead", d) /\ Has(todo'[l], "handleClose", d))
    BY <1>1, <1>3, <2>1, <2>2
  <2> QED BY <1>1, <1>3, <1>4, <2>3, <2>4 DEF QuietOps, LifeOps
<1>6. Stacked(todo'[l])
  <2>1. Head(todo[l]).op = "handleRead"
    BY DEF At, Op
  <2>2. NoCalls(Rest(l))
    BY <1>1, <2>1, StackedFacts DEF CallbackInv, CallInv, Rest
  <2> QED BY <1>1, <1>2, <1>3, <2>2, StackedFacts
<1> QED BY <1>1, <1>3, <1>5, <1>6, QuietElsewhere DEF QuietTodo, CallbackInv, CallInv

LEMMA QuietPushed ==
  ASSUME GeneralInv, CallbackInv, NEW l \in Loops, NEW c \in Conns, MayUse(l, c),
         state[c] = "kConnected", NEW q \in {"sendInLoop", "shutdownInLoop"},
         todo' = [todo EXCEPT ![l] = <<Op(q, c)>> \o @]
  PROVE  QuietTodo
<1>1. PICK o \in {"callback", "writeComplete"}, b \in Conns : At(l, o, b) /\ (setup.own => b = c)
  BY DEF MayUse, InCallback
<1>2. /\ todo[l] \in Seq(Ops) /\ todo[l] # <<>> /\ Rest(l) \in Seq(Ops) /\ Has(todo[l], o, b)
  BY <1>1, AtHead DEF GeneralInv
<1>3. q \in Names /\ Op(q, c) \in Ops /\ Op(q, c).op = q
  BY NamesFacts, OpIsOp
<1>4. /\ \A k \in Loops : k # l => todo'[k] = todo[k]
      /\ todo'[l] = <<Op(q, c)>> \o todo[l]
      /\ \A p, d : Has(todo'[l], p, d) <=> (p = q /\ d = c) \/ Has(todo[l], p, d)
      /\ \A p, d : Single(todo[l], p, d) /\ ~(p = q /\ d = c /\ Has(todo[l], p, d))
                        => Single(todo'[l], p, d)
  BY <1>3, Pushed DEF GeneralInv
<1>5. Open(c) /\ (Strict => Has(todo[l], "callback", c))
  BY <1>1, <1>2 DEF Open, CallbackInv, QueueInv, Waits
<1>6. ASSUME NEW d \in Conns PROVE QuietOps(l, d)
  <2>1. \A p \in {"handleClose", "handleRead"} : Single(todo[l], p, d)
    BY DEF CallbackInv, UniqueInv, UniqueOps, Once
  <2>2. ~(Has(todo[l], "handleRead", d) /\ Has(todo[l], "handleClose", d))
    BY DEF CallbackInv, UniqueInv
  <2>3. Strict => \A p \in {"callback", "sendInLoop"} :
         Has(todo'[l], p, d) => Has(todo[l], "callback", d) \/ Has(todo[l], "sendInLoop", d) \/ ~Closing(d)
    BY <1>4, <1>5
  <2> QED BY <1>4, <1>5, <2>1, <2>2, <2>3 DEF QuietOps, LifeOps
<1>7. Stacked(todo'[l])
  <2>1. Head(todo[l]).op = o
    BY <1>1 DEF At, Op
  <2>2. NoCalls(Tail(todo[l]))
    BY <1>2, <2>1, StackedFacts DEF CallbackInv, CallInv
  <2> QED BY <1>2, <1>3, <1>4, <2>2, StackedFacts
<1> QED BY <1>2, <1>4, <1>6, <1>7, QuietElsewhere DEF QuietTodo, CallbackInv, CallInv

LEMMA QuietSteps ==
  ASSUME GeneralInv, CallbackInv, NEW l \in Loops, NEW c \in Conns,
         \/ HandleRead(l, c) \/ HandleError(l, c) \/ HandleWrite(l, c) \/ SendInLoop(l, c)
         \/ ShutdownInLoop(l, c) \/ CallbackSend(l, c) \/ CallbackShutdown(l, c)
         \/ CallbackReturn(l, c)
  PROVE  Quiet
<1> USE NamesFacts
<1>1. queue' = queue => QuietQueue
  BY DEF QuietQueue
<1>2. UNCHANGED <<state, interest, index>> => QuietConns
  BY DEF QuietConns
<1>3. \A o \in RawOps : At(l, o, c) => Has(todo[l], o, c) /\ Open(c)
  BY AtHead DEF GeneralInv, CallbackInv, EventInv
<1>4. NotifyWriteComplete(l, c) => QuietQueue
  <2>1. CASE setup.writeComplete /\ NotifyWriteComplete(l, c)
    <3>1. QueueInLoop(l, Op("writeComplete", c))
      BY <2>1 DEF NotifyWriteComplete
    <3>2. /\ \A k \in Loops : k # l => queue'[k] = queue[k]
          /\ \A p, d : Has(queue'[l], p, d) <=> Has(queue[l], p, d) \/ (p = "writeComplete" /\ d = c)
          /\ \A p, d : Single(queue[l], p, d) /\ ~(p = "writeComplete" /\ d = c /\ Has(queue[l], p, d))
                        => Single(queue'[l], p, d)
      BY <3>1, Queued DEF GeneralInv
    <3> QED BY <2>1, <3>2 DEF QuietQueue
  <2> QED BY <1>1, <2>1 DEF NotifyWriteComplete
<1>5. ASSUME Open(c), NEW events \in SUBSET {"IN", "OUT"}, "IN" \in events <=> "IN" \in interest[c],
             Closing(c) => ~Strict, SetInterest(c, events), state' = state
      PROVE  QuietConns
  <2>1. index[c] # kNew /\ ("IN" \in interest[c] => index[c] = kAdded)
    BY <1>5 DEF CallbackInv, LifeInv
  <2>2. /\ interest'[c] = events /\ index'[c] = UpdatedIndex(c, events)
        /\ \A d \in Conns : d # c => interest'[d] = interest[d] /\ index'[d] = index[d]
    BY <1>5 DEF SetInterest, GeneralInv, TypeOK
  <2>3. index'[c] # kNew /\ ("IN" \in interest[c] => index'[c] = kAdded)
    BY <1>5, <2>1, <2>2 DEF UpdatedIndex, kNew, kAdded, kDeleted
  <2> QED BY <1>5, <2>2, <2>3 DEF QuietConns
<1>6. interest[c] \in SUBSET {"IN", "OUT"}
  BY DEF GeneralInv, TypeOK
<1>7. CASE HandleRead(l, c)
  <2>1. QuietTodo
    BY <1>7, QuietDone, QuietReplaced DEF HandleRead, LifeOps
  <2> QED BY <1>1, <1>2, <1>7, <2>1 DEF HandleRead, Quiet, connVars, loopVars
<1>8. CASE HandleError(l, c)
  <2>1. QuietTodo
    BY <1>8, QuietDone DEF HandleError, LifeOps
  <2> QED BY <1>1, <1>2, <1>8, <2>1 DEF HandleError, Quiet, connVars, loopVars
<1>9. CASE HandleWrite(l, c)
  <2>1. At(l, "handleWrite", c) /\ Open(c)
    BY <1>3, <1>9 DEF HandleWrite, RawOps
  <2>2. Continue(l, <<>>)
    BY <1>9, <2>1 DEF HandleWrite, Open
  <2>3. QuietTodo
    BY <2>1, <2>2, QuietDone DEF LifeOps
  <2>4. UNCHANGED <<setup, connections, loop, phase, active, user, downs, state>>
    BY <1>9 DEF HandleWrite, loopVars
  <2>5. CASE isWriting(c) /\ SetInterest(c, interest[c] \ {"OUT"}) /\ NotifyWriteComplete(l, c)
    <3>1. Closing(c) => ~Strict
      BY <2>5 DEF CallbackInv, ClosingInv, isWriting
    <3>2. QuietConns
      BY <1>5, <1>6, <2>1, <2>4, <2>5, <3>1
    <3> QED BY <1>4, <2>3, <2>4, <2>5, <3>2 DEF Quiet
  <2>6. CASE UNCHANGED <<output, interest, index, queue>>
    BY <1>1, <1>2, <2>3, <2>4, <2>6 DEF Quiet
  <2> QED BY <1>9, <2>5, <2>6 DEF HandleWrite
<1>10. CASE SendInLoop(l, c)
  <2>1. At(l, "sendInLoop", c) /\ Open(c) /\ Has(todo[l], "sendInLoop", c) /\ Continue(l, <<>>)
    BY <1>3, <1>10 DEF SendInLoop, RawOps
  <2>2. QuietTodo
    BY <2>1, QuietDone DEF LifeOps
  <2>3. UNCHANGED <<setup, connections, loop, phase, active, user, downs, state>>
    BY <1>10 DEF SendInLoop, loopVars
  <2>4. CASE NotifyWriteComplete(l, c) /\ UNCHANGED <<output, interest, index>>
    BY <1>2, <1>4, <2>2, <2>3, <2>4 DEF Quiet
  <2>5. CASE SetInterest(c, interest[c] \cup {"OUT"}) /\ UNCHANGED queue
    <3>1. Closing(c) => ~Strict
      BY <2>1 DEF CallbackInv, CallInv
    <3>2. QuietConns
      BY <1>5, <1>6, <2>1, <2>3, <2>5, <3>1
    <3> QED BY <1>1, <2>2, <2>3, <2>5, <3>2 DEF Quiet
  <2>6. CASE UNCHANGED <<interest, index, queue>>
    BY <1>1, <1>2, <2>2, <2>3, <2>6 DEF Quiet
  <2> QED BY <1>10, <2>4, <2>5, <2>6 DEF SendInLoop
<1>11. CASE ShutdownInLoop(l, c)
  <2>1. QuietTodo
    BY <1>11, QuietDone DEF ShutdownInLoop, LifeOps
  <2> QED BY <1>1, <1>2, <1>11, <2>1 DEF ShutdownInLoop, Quiet, connVars, loopVars
<1>12. CASE CallbackSend(l, c)
  <2>1. QuietTodo
    BY <1>12, QuietPushed DEF CallbackSend
  <2> QED BY <1>1, <1>2, <1>12, <2>1 DEF CallbackSend, Quiet, connVars, loopVars
<1>13. CASE CallbackShutdown(l, c)
  <2>1. QuietTodo
    BY <1>13, QuietPushed DEF CallbackShutdown
  <2>2. UNCHANGED <<interest, index>> /\ state[c] = "kConnected" /\ state' = [state EXCEPT ![c] = "kDisconnecting"]
    BY <1>13 DEF CallbackShutdown
  <2>3. QuietConns
    BY <2>2 DEF QuietConns, Open, GeneralInv, TypeOK
  <2> QED BY <1>1, <1>13, <2>1, <2>3 DEF CallbackShutdown, Quiet, loopVars
<1>14. CASE CallbackReturn(l, c)
  <2>1. QuietTodo
    BY <1>14, QuietDone DEF CallbackReturn, InCallback, LifeOps
  <2> QED BY <1>1, <1>2, <1>14, <2>1 DEF CallbackReturn, Quiet, connVars, loopVars
<1> QED BY <1>7, <1>8, <1>9, <1>10, <1>11, <1>12, <1>13, <1>14

LEMMA QuietOtherSteps ==
  ASSUME GeneralInv, CallbackInv, AcceptFails \/ PeerStep \/ UNCHANGED vars
  PROVE  Quiet
<1>1. QuietQueue /\ QuietConns
  BY DEF QuietQueue, QuietConns, AcceptFails, PeerStep, PeerSends, PeerCloses, vars, connVars
<1>2. UNCHANGED <<setup, connections, loop, phase, active, user, downs>>
  BY DEF AcceptFails, PeerStep, PeerSends, PeerCloses, vars, loopVars
<1>3. CASE AcceptFails
  BY <1>1, <1>2, <1>3, QuietDone, NamesFacts DEF AcceptFails, LifeOps, Quiet
<1>4. CASE PeerStep \/ UNCHANGED vars
  <2>1. todo' = todo
    BY <1>4 DEF PeerStep, PeerSends, PeerCloses, vars
  <2>2. QuietTodo
    BY <2>1, QuietElsewhere DEF QuietTodo, CallbackInv, CallInv
  <2> QED BY <1>1, <1>2, <2>2 DEF Quiet
<1> QED BY <1>3, <1>4

\* No other thread of the user is inside a call.
LEMMA NoUserSteps ==
  ASSUME GeneralInv, CallbacksOnly, CallbackInv, UserStep
  PROVE  FALSE
BY DEF UserStep, UserCheck, UserSetState, UserQueue, CallbacksOnly, CallbackInv, Idle

-----------------------------------------------------------------------------
(* CallbackInv, connection by connection.                                  *)

LoopInv ==
    /\ \A t \in UserThreads : user[t] = Idle
    /\ \A l \in Loops :
        /\ phase[l] = "poll" => todo[l] = <<>>
        /\ phase[l] # "events" => active[l] = {}
        /\ \A e, f \in active[l] : e.conn = f.conn => e = f
        /\ Stacked(todo[l])

ConnLoopInv(l, c) ==
    /\ phase[l] = "events" =>
         \A o \in {"connectDestroyed", "remove", "writeComplete"} : ~Has(todo[l], o, c)
    /\ phase[l] = "functors" =>
         \A o \in {"handleRead", "handleWrite", "handleError", "handleClose"} : ~Has(todo[l], o, c)
    /\ \A o \in RawOps \cup {"callback", "remove"} : ~Has(queue[l], o, c)
    /\ Waits(l, "writeComplete", c) => setup.writeComplete
    /\ \A o \in UniqueOps : Once(l, o, c)
    /\ ~(Has(todo[l], "handleRead", c) /\ Has(todo[l], "handleClose", c))
    /\ \A o \in RawOps : Has(todo[l], o, c) => Open(c)
    /\ Has(todo[l], "handleRead", c) \/ Has(todo[l], "handleClose", c) => "IN" \in interest[c]
    /\ \A e \in active[l] : e.conn = c =>
         /\ ~Has(todo[l], "handleRead", c) /\ ~Has(todo[l], "handleClose", c)
         /\ Open(c) /\ "IN" \in interest[c] /\ ("HUP" \in e.revents => "IN" \in e.revents)
    /\ Waits(l, "connectEstablished", c) => state[c] = "kConnecting"
    /\ Waits(l, "removeConnectionInLoop", c) => c \in connections /\ Closing(c)
    /\ Waits(l, "connectDestroyed", c) => Closing(c)
    /\ Has(todo[l], "remove", c) => state[c] = "kDisconnected" /\ index[c] # kNew
    /\ Strict /\ (Has(todo[l], "callback", c) \/ Has(todo[l], "sendInLoop", c))
         => ~Closing(c)

BaseInv(c) ==
    setup.pool = {} =>
        /\ loop[c] = Base
        /\ ~Has(queue[Base], "removeConnectionInLoop", c)
        /\ Has(todo[Base], "removeConnectionInLoop", c) => phase[Base] = "events"
        /\ Has(queue[Base], "connectDestroyed", c) => phase[Base] = "events"
        /\ Closing(c) =>
             /\ phase[Base] # "poll"
             /\ phase[Base] = "functors" => Has(todo[Base], "connectDestroyed", c)

OneInv(c) ==
    /\ state[c] \in {"none", "kConnecting"} => index[c] = kNew /\ interest[c] = {}
    /\ state[c] = "kConnecting" => c \in connections
    /\ Open(c) => index[c] # kNew
    /\ Open(c) /\ "IN" \in interest[c] => c \in connections /\ index[c] = kAdded
    /\ state[c] # "kDisconnected" => downs[c] = 0
    /\ state[c] = "kDisconnected" =>
         /\ interest[c] = {} /\ c \notin connections
         /\ index[c] # kNew => Has(todo[loop[c]], "remove", c)
    /\ Closing(c) =>
         /\ c \in connections => Waits(Base, "removeConnectionInLoop", c)
         /\ Strict => index[c] = kDeleted /\ interest[c] = {}

ConnInv(c) == (\A l \in Loops : ConnLoopInv(l, c)) /\ BaseInv(c) /\ OneInv(c)

LEMMA ByConnection ==
  ASSUME TypeOK
  PROVE  CallbackInv <=> LoopInv /\ \A c \in Conns : ConnInv(c)
<1>1. ASSUME CallbackInv PROVE LoopInv /\ \A c \in Conns : ConnInv(c)
  <2>1. LoopInv
    BY <1>1 DEF CallbackInv, PhaseInv, UniqueInv, CallInv, LoopInv
  <2>2. ASSUME NEW c \in Conns PROVE ConnInv(c)
    <3>1. ASSUME NEW l \in Loops PROVE ConnLoopInv(l, c)
      BY <1>1, ConnsAssumption DEF CallbackInv, PhaseInv, QueueInv, UniqueInv, EventInv, LifeInv, CallInv,
                   ConnLoopInv
    <3>2. BaseInv(c)
      BY <1>1 DEF CallbackInv, QueueInv, ClosingInv, BaseInv
    <3>3. OneInv(c)
      BY <1>1 DEF CallbackInv, LifeInv, ClosingInv, OneInv
    <3> QED BY <3>1, <3>2, <3>3 DEF ConnInv
  <2> QED BY <2>1, <2>2
<1>2. ASSUME LoopInv, \A c \in Conns : ConnInv(c) PROVE CallbackInv
  <2>1. /\ \A l \in Loops, c \in Conns : ConnLoopInv(l, c)
        /\ \A c \in Conns : BaseInv(c) /\ OneInv(c)
    BY <1>2 DEF ConnInv
  <2>2. PhaseInv
    BY <1>2, <2>1 DEF PhaseInv, LoopInv, ConnLoopInv
  <2>3. QueueInv
    BY <2>1 DEF QueueInv, ConnLoopInv, BaseInv
  <2>4. \A l \in Loops : \A e \in active[l] : e.conn \in Conns \/ e.conn = NoConn
    BY DEF TypeOK, Events
  <2>5. UniqueInv
    <3>1. ASSUME NEW l \in Loops, NEW e \in active[l]
          PROVE  ~Has(todo[l], "handleRead", e.conn) /\ ~Has(todo[l], "handleClose", e.conn)
      <4>1. CASE e.conn \in Conns
        BY <2>1, <4>1 DEF ConnLoopInv
      <4>2. CASE e.conn = NoConn
        <5>1. todo[l] \in Seq(Ops)
          BY DEF TypeOK
        <5> QED BY <4>2, <5>1, NotOfAcceptor, NamesFacts
      <4> QED BY <2>4, <4>1, <4>2
    <3>2. \A l \in Loops, c \in Conns, o \in UniqueOps : Once(l, o, c)
      BY <2>1 DEF ConnLoopInv
    <3> QED BY <1>2, <2>1, <3>1, <3>2 DEF UniqueInv, ConnLoopInv, LoopInv
  <2>6. EventInv
    <3>1. ASSUME NEW l \in Loops, NEW c \in Conns
          PROVE  /\ \A o \in RawOps : Has(todo[l], o, c) => Open(c)
                 /\ Has(todo[l], "handleRead", c) \/ Has(todo[l], "handleClose", c) => "IN" \in interest[c]
                 /\ \A e \in active[l] : e.conn = c =>
                       Open(c) /\ "IN" \in interest[c] /\ ("HUP" \in e.revents => "IN" \in e.revents)
      BY <2>1 DEF ConnLoopInv
    <3> QED BY <2>4, <3>1 DEF EventInv
  <2>7. LifeInv
    BY <2>1 DEF LifeInv, ConnLoopInv, OneInv
  <2>8. ClosingInv
    BY <2>1 DEF ClosingInv, OneInv, BaseInv
  <2>9. CallInv
    BY <1>2, <2>1 DEF CallInv, ConnLoopInv, LoopInv
  <2> QED BY <1>2, <2>2, <2>3, <2>5, <2>6, <2>7, <2>8, <2>9 DEF CallbackInv, LoopInv
<1> QED BY <1>1, <1>2

AllConnsInv == \A c \in Conns : ConnInv(c)

LEMMA Together == TypeOK' /\ LoopInv' /\ AllConnsInv' => CallbackInv'
<1>1. TypeOK /\ LoopInv /\ AllConnsInv => CallbackInv
  BY ByConnection DEF AllConnsInv
<1> QED BY <1>1, PTL

\* The operations on d and d itself stay as they are.
SameOps(d) ==
    \A k \in Loops, p \in Names :
        /\ Has(todo'[k], p, d) <=> Has(todo[k], p, d)
        /\ Has(queue'[k], p, d) <=> Has(queue[k], p, d)
        /\ Single(todo[k], p, d) => Single(todo'[k], p, d)
        /\ Single(queue[k], p, d) => Single(queue'[k], p, d)

SameConn(d) ==
    /\ state'[d] = state[d] /\ interest'[d] = interest[d] /\ index'[d] = index[d]
    /\ loop'[d] = loop[d] /\ downs'[d] = downs[d]
    /\ d \in connections' <=> d \in connections
    /\ \A k \in Loops : \A e \in active'[k] : e.conn = d => e \in active[k]

LEMMA SameKept ==
  ASSUME TypeOK, UNCHANGED <<setup, phase>>, NEW d \in Conns, ConnInv(d), SameOps(d), SameConn(d)
  PROVE  ConnInv(d)'
<1> USE NamesFacts
<1>1. (Open(d)' <=> Open(d)) /\ (Closing(d)' <=> Closing(d))
  BY DEF SameConn, Open, Closing
<1>2. ASSUME NEW l \in Loops PROVE ConnLoopInv(l, d)'
  <2>1. ConnLoopInv(l, d)
    BY DEF ConnInv
  <2>2. \A o \in RawOps \cup {"callback", "remove"} : o \in Names
    BY DEF RawOps, Names, SharedOps
  <2>3. \A o \in UniqueOps : o \in Names
    BY DEF UniqueOps
  <2>4. \A o \in RawOps \cup {"callback", "remove"} : ~Has(queue'[l], o, d)
    BY <2>1, <2>2 DEF ConnLoopInv, SameOps
  <2>5. \A o \in UniqueOps : Once(l, o, d)'
    BY <2>1, <2>3 DEF ConnLoopInv, SameOps, Once
  <2>6. \A o \in RawOps : Has(todo'[l], o, d) => Open(d)'
    BY <1>1, <2>1, <2>2 DEF ConnLoopInv, SameOps
  <2>7. \A e \in active'[l] : e.conn = d =>
         /\ ~Has(todo'[l], "handleRead", d) /\ ~Has(todo'[l], "handleClose", d)
         /\ Open(d)' /\ "IN" \in interest'[d] /\ ("HUP" \in e.revents => "IN" \in e.revents)
    BY <1>1, <2>1 DEF ConnLoopInv, SameOps, SameConn
  <2>8. \A o \in Names : Waits(l, o, d)' <=> Waits(l, o, d)
    BY DEF Waits, SameOps
  <2>9. /\ Waits(l, "writeComplete", d)' => setup'.writeComplete
        /\ Waits(l, "connectEstablished", d)' => state'[d] = "kConnecting"
        /\ Waits(l, "removeConnectionInLoop", d)' => d \in connections' /\ Closing(d)'
        /\ Waits(l, "connectDestroyed", d)' => Closing(d)'
    BY <1>1, <2>1, <2>8 DEF ConnLoopInv, SameConn
  <2>10. /\ phase'[l] = "events" =>
              \A o \in {"connectDestroyed", "remove", "writeComplete"} : ~Has(todo'[l], o, d)
         /\ phase'[l] = "functors" =>
              \A o \in {"handleRead", "handleWrite", "handleError", "handleClose"} : ~Has(todo'[l], o, d)
         /\ ~(Has(todo'[l], "handleRead", d) /\ Has(todo'[l], "handleClose", d))
         /\ Has(todo'[l], "handleRead", d) \/ Has(todo'[l], "handleClose", d) => "IN" \in interest'[d]
         /\ Has(todo'[l], "remove", d) => state'[d] = "kDisconnected" /\ index'[d] # kNew
         /\ Strict' /\ (Has(todo'[l], "callback", d) \/ Has(todo'[l], "sendInLoop", d))
              => ~Closing(d)'
    BY <1>1, <2>1 DEF ConnLoopInv, SameOps, SameConn
  <2> QED BY <2>4, <2>5, <2>6, <2>7, <2>9, <2>10 DEF ConnLoopInv
<1>3. BaseInv(d)'
  BY <1>1 DEF ConnInv, BaseInv, SameOps, SameConn
<1>4. OneInv(d)'
  <2>1. loop[d] \in Loops
    BY DEF TypeOK
  <2> QED BY <1>1, <2>1 DEF ConnInv, OneInv, SameOps, SameConn, Waits
<1> QED BY <1>2, <1>3, <1>4 DEF ConnInv

\* Loop l, which is in a step on c, has no call of a user's callback below it.
LEMMA NoCallsUnder ==
  ASSUME TypeOK, LoopInv, NEW l \in Loops, NEW o \in Names, o \notin {"sendInLoop", "shutdownInLoop"},
         NEW c, At(l, o, c)
  PROVE  /\ NoCalls(Rest(l)) /\ \A p \in CallOps : \A d : ~Has(Rest(l), p, d)
         /\ phase[l] # "poll"
<1>1. todo[l] \in Seq(Ops) /\ todo[l] # <<>> /\ Rest(l) \in Seq(Ops)
  BY AtHead
<1>2. Head(todo[l]).op = o
  BY DEF At, Op
<1>3. NoCalls(Rest(l))
  BY <1>1, <1>2, StackedFacts DEF LoopInv, Rest
<1> QED BY <1>1, <1>3, NoCallsThere DEF LoopInv

LEMMA EstablishedStep ==
  ASSUME GeneralInv, GeneralInv', CallbackInv, NEW l \in Loops, NEW c \in Conns, ConnectEstablished(l, c)
  PROVE  CallbackInv'
<1> USE NamesFacts
<1>1. TypeOK /\ LoopInv /\ \A d \in Conns : ConnInv(d)
  BY ByConnection DEF GeneralInv
<1>2. At(l, "connectEstablished", c) /\ Continue(l, <<Op("callback", c)>>) /\ SetInterest(c, interest[c] \cup {"IN"})
  BY DEF ConnectEstablished
<1>3. /\ Rest(l) \in Seq(Ops)
      /\ \A p, d : Has(todo[l], p, d) <=> (p = "connectEstablished" /\ d = c) \/ Has(Rest(l), p, d)
      /\ \A p, d : Single(todo[l], p, d) => Single(Rest(l), p, d)
      /\ Single(todo[l], "connectEstablished", c) => ~Has(Rest(l), "connectEstablished", c)
  BY <1>1, <1>2, AtHead
<1>4. /\ \A k \in Loops : k # l => todo'[k] = todo[k]
      /\ todo'[l] = <<Op("callback", c)>> \o Rest(l)
      /\ \A p, d : Has(todo'[l], p, d) <=> (p = "callback" /\ d = c) \/ Has(Rest(l), p, d)
      /\ \A p, d : Single(Rest(l), p, d) /\ ~(p = "callback" /\ d = c /\ Has(Rest(l), p, d))
                     => Single(todo'[l], p, d)
  BY <1>1, <1>2, Replaced
<1>5. NoCalls(Rest(l)) /\ (\A p \in CallOps : \A d : ~Has(Rest(l), p, d)) /\ phase[l] # "poll"
  BY <1>1, <1>2, NoCallsUnder
<1>6. /\ UNCHANGED <<setup, connections, loop, queue, phase, active, user, downs>>
      /\ state'[c] = "kConnected" /\ interest'[c] = interest[c] \cup {"IN"}
      /\ index'[c] = UpdatedIndex(c, interest[c] \cup {"IN"})
      /\ \A d \in Conns : d # c => state'[d] = state[d] /\ interest'[d] = interest[d] /\ index'[d] = index[d]
  BY <1>1, <1>2 DEF ConnectEstablished, loopVars, SetInterest, TypeOK
<1>7. LoopInv'
  <2>1. Op("callback", c) \in Ops
    BY OpIsOp
  <2>2. Stacked(todo'[l])
    BY <1>3, <1>4, <1>5, <2>1, StackedFacts
  <2> QED BY <1>1, <1>4, <1>5, <1>6, <2>2 DEF LoopInv
<1>8. ASSUME NEW d \in Conns, d # c PROVE ConnInv(d)'
  <2>1. SameOps(d)
    BY <1>3, <1>4, <1>6, <1>8 DEF SameOps
  <2>2. SameConn(d)
    BY <1>6, <1>8 DEF SameConn
  <2> QED BY <1>1, <1>6, <2>1, <2>2, SameKept
<1>9. ConnInv(c)'
  <2>1. (\A k \in Loops : ConnLoopInv(k, c)) /\ BaseInv(c) /\ OneInv(c)
    BY <1>1 DEF ConnInv
  <2>2. /\ state[c] = "kConnecting" /\ ~Open(c) /\ ~Closing(c) /\ l = loop[c]
        /\ index[c] = kNew /\ interest[c] = {} /\ c \in connections /\ downs[c] = 0
    <3>1. Waits(l, "connectEstablished", c)
      BY <1>3 DEF Waits
    <3> QED BY <2>1, <3>1 DEF ConnLoopInv, OneInv, Open, Closing, GeneralInv, InPlace
  <2>3. Open(c)' /\ ~Closing(c)' /\ interest'[c] = {"IN"} /\ index'[c] = kAdded
    BY <1>6, <2>2 DEF Open, Closing, UpdatedIndex
  <2>4. \A k \in Loops : /\ \A o \in RawOps : ~Has(todo[k], o, c)
                         /\ \A o \in LifeOps \ {"connectEstablished"} : ~Has(todo[k], o, c)
                         /\ \A o \in {"removeConnectionInLoop", "connectDestroyed"} : ~Has(queue[k], o, c)
                         /\ \A e \in active[k] : e.conn # c
    BY <2>1, <2>2 DEF ConnLoopInv, Waits, LifeOps
  <2>5. \A k \in Loops : Once(k, "connectEstablished", c) /\ (Waits(k, "connectEstablished", c) => k = l)
    BY <2>1, <2>2 DEF ConnLoopInv, UniqueOps, GeneralInv, InPlace
  <2>6. \A k \in Loops : ~Has(todo'[k], "connectEstablished", c) /\ ~Has(queue'[k], "connectEstablished", c)
    BY <1>3, <1>4, <1>6, <2>5 DEF Once, Waits
  <2>7. ASSUME NEW k \in Loops PROVE ConnLoopInv(k, c)'
    <3>1. /\ \A p \in Names : Has(todo'[k], p, c) => p = "callback" \/ Has(todo[k], p, c)
          /\ \A p \in Names \ {"callback"} : Single(todo[k], p, c) => Single(todo'[k], p, c)
      BY <1>3, <1>4
    <3>2. \A o \in RawOps : ~Has(todo'[k], o, c) /\ ~Has(queue'[k], o, c)
      BY <1>6, <2>1, <2>4, <3>1 DEF RawOps, ConnLoopInv
    <3>3. \A o \in LifeOps : ~Has(todo'[k], o, c) /\ ~Has(queue'[k], o, c)
      BY <1>6, <2>1, <2>4, <2>6, <3>1 DEF LifeOps, ConnLoopInv
    <3>4. ~Has(queue'[k], "callback", c)
      BY <1>6, <2>1 DEF ConnLoopInv
    <3>5. /\ Waits(k, "writeComplete", c)' => setup'.writeComplete
          /\ phase'[k] = "events" => ~Has(todo'[k], "writeComplete", c)
      BY <1>6, <2>1, <3>1 DEF ConnLoopInv, Waits
    <3>6. \A o \in UniqueOps : Once(k, o, c)'
      BY <1>6, <2>1, <3>1, <3>2, <3>3 DEF UniqueOps, LifeOps, RawOps, Once, ConnLoopInv
    <3>7. /\ ~Waits(k, "connectEstablished", c)' /\ ~Waits(k, "removeConnectionInLoop", c)'
          /\ ~Waits(k, "connectDestroyed", c)' /\ ~Has(todo'[k], "remove", c) /\ ~Has(queue'[k], "remove", c)
          /\ ~Has(todo'[k], "connectDestroyed", c)
      BY <3>3 DEF LifeOps, Waits
    <3>8. \A o \in {"handleRead", "handleWrite", "handleError", "handleClose"} : ~Has(todo'[k], o, c)
      BY <3>2 DEF RawOps
    <3>9. \A e \in active'[k] : e.conn # c
      BY <1>6, <2>4
    <3> QED BY <2>3, <3>2, <3>4, <3>5, <3>6, <3>7, <3>8, <3>9 DEF ConnLoopInv
  <2>8. BaseInv(c)'
    <3>1. \A p \in {"removeConnectionInLoop", "connectDestroyed"} : Has(todo'[Base], p, c) => Has(todo[Base], p, c)
      BY <1>3, <1>4
    <3> QED BY <1>6, <2>1, <2>3, <3>1 DEF BaseInv
  <2>9. OneInv(c)'
    BY <1>6, <2>2, <2>3 DEF OneInv, Open, kNew, kAdded
  <2> QED BY <2>7, <2>8, <2>9 DEF ConnInv
<1>10. ASSUME NEW d \in Conns PROVE ConnInv(d)'
  BY <1>8, <1>9
<1> QED BY <1>7, <1>10, Together DEF GeneralInv, AllConnsInv

LEMMA CloseStep ==
  ASSUME GeneralInv, GeneralInv', CallbackInv, NEW l \in Loops, NEW c \in Conns, HandleClose(l, c)
  PROVE  CallbackInv'
<1> USE NamesFacts
<1>1. TypeOK /\ LoopInv /\ \A d \in Conns : ConnInv(d)
  BY ByConnection DEF GeneralInv
<1>2. At(l, "handleClose", c) /\ RunInLoop(l, Base, Op("removeConnectionInLoop", c)) /\ SetInterest(c, {})
  BY DEF HandleClose
<1>3. /\ Rest(l) \in Seq(Ops)
      /\ \A p, d : Has(todo[l], p, d) <=> (p = "handleClose" /\ d = c) \/ Has(Rest(l), p, d)
      /\ \A p, d : Single(todo[l], p, d) => Single(Rest(l), p, d)
      /\ Single(todo[l], "handleClose", c) => ~Has(Rest(l), "handleClose", c)
  BY <1>1, <1>2, AtHead
<1>4. /\ \A k \in Loops : k # l => todo'[k] = todo[k]
      /\ Stacked(todo'[l])
      /\ \A p, d : Has(todo'[l], p, d) <=>
           (l = Base /\ p = "removeConnectionInLoop" /\ d = c) \/ Has(Rest(l), p, d)
      /\ \A p, d : Single(Rest(l), p, d)
                     /\ ~(l = Base /\ p = "removeConnectionInLoop" /\ d = c /\ Has(Rest(l), p, d))
                     => Single(todo'[l], p, d)
      /\ \A k \in Loops : \A p, d : Has(queue'[k], p, d) <=>
           Has(queue[k], p, d) \/ (l # Base /\ k = Base /\ p = "removeConnectionInLoop" /\ d = c)
      /\ \A k \in Loops : \A p, d : Single(queue[k], p, d)
                     /\ ~(p = "removeConnectionInLoop" /\ d = c /\ Has(queue[k], p, d))
                     => Single(queue'[k], p, d)
  <2>1. NoCalls(Rest(l))
    BY <1>1, <1>2, NoCallsUnder
  <2>2. Op("removeConnectionInLoop", c) \in Ops
    BY OpIsOp
  <2>3. Stacked(Rest(l)) /\ Stacked(<<Op("removeConnectionInLoop", c)>> \o Rest(l))
    BY <1>3, <2>1, <2>2, StackedFacts
  <2>4. CASE l = Base
    <3>1. Continue(l, <<Op("removeConnectionInLoop", c)>>) /\ queue' = queue
      BY <1>2, <2>4 DEF RunInLoop
    <3>2. /\ \A k \in Loops : k # l => todo'[k] = todo[k]
          /\ todo'[l] = <<Op("removeConnectionInLoop", c)>> \o Rest(l)
          /\ \A p, d : Has(todo'[l], p, d) <=> (p = "removeConnectionInLoop" /\ d = c) \/ Has(Rest(l), p, d)
          /\ \A p, d : Single(Rest(l), p, d) /\ ~(p = "removeConnectionInLoop" /\ d = c /\ Has(Rest(l), p, d))
                         => Single(todo'[l], p, d)
      BY <1>1, <1>2, <3>1, Replaced
    <3> QED BY <2>3, <2>4, <3>1, <3>2
  <2>5. CASE l # Base
    <3>1. Continue(l, <<>>) /\ QueueInLoop(Base, Op("removeConnectionInLoop", c))
      BY <1>2, <2>5 DEF RunInLoop
    <3>2. /\ \A k \in Loops : k # l => todo'[k] = todo[k]
          /\ todo'[l] = Rest(l)
      BY <1>1, <1>2, <3>1, Done
    <3>3. /\ \A k \in Loops : k # Base => queue'[k] = queue[k]
          /\ \A p, d : Has(queue'[Base], p, d) <=> Has(queue[Base], p, d) \/ (p = "removeConnectionInLoop" /\ d = c)
          /\ \A p, d : Single(queue[Base], p, d) /\ ~(p = "removeConnectionInLoop" /\ d = c /\ Has(queue[Base], p, d))
                         => Single(queue'[Base], p, d)
      BY <1>1, <3>1, Queued
    <3> QED BY <2>3, <2>5, <3>2, <3>3
  <2> QED BY <2>4, <2>5
<1>5. (\A p \in CallOps : \A d : ~Has(Rest(l), p, d)) /\ phase[l] # "poll"
  BY <1>1, <1>2, NoCallsUnder
<1>6. /\ UNCHANGED <<setup, connections, loop, phase, active, user, downs, state>>
      /\ interest'[c] = {} /\ index'[c] = UpdatedIndex(c, {})
      /\ \A d \in Conns : d # c => interest'[d] = interest[d] /\ index'[d] = index[d]
  BY <1>1, <1>2 DEF HandleClose, loopVars, SetInterest, TypeOK
<1>7. LoopInv'
  BY <1>1, <1>4, <1>5, <1>6 DEF LoopInv
<1>8. ASSUME NEW d \in Conns, d # c PROVE ConnInv(d)'
  <2>1. SameOps(d)
    BY <1>3, <1>4, <1>6, <1>8 DEF SameOps
  <2>2. SameConn(d)
    BY <1>6, <1>8 DEF SameConn
  <2> QED BY <1>1, <1>6, <2>1, <2>2, SameKept
<1>9. ConnInv(c)'
  <2>1. (\A k \in Loops : ConnLoopInv(k, c)) /\ BaseInv(c) /\ OneInv(c)
    BY <1>1 DEF ConnInv
  <2>2. /\ Open(c) /\ "IN" \in interest[c] /\ ~Closing(c) /\ l = loop[c]
        /\ c \in connections /\ index[c] = kAdded /\ phase[l] = "events"
        /\ state[c] \notin {"none", "kConnecting", "kDisconnected"} /\ downs[c] = 0
    <3>1. Has(todo[l], "handleClose", c) /\ Waits(l, "handleClose", c)
      BY <1>3 DEF Waits
    <3>2. Open(c) /\ "IN" \in interest[c] /\ phase[l] # "functors"
      BY <2>1, <3>1 DEF ConnLoopInv, RawOps
    <3>3. phase[l] = "events"
      BY <1>1, <1>5, <3>2 DEF TypeOK, Phases
    <3>4. l = loop[c]
      BY <3>1 DEF GeneralInv, InPlace
    <3> QED BY <2>1, <3>2, <3>3, <3>4 DEF OneInv, Open, Closing
  <2>3. Open(c)' /\ Closing(c)' /\ index'[c] = kDeleted
    BY <1>6, <2>2 DEF Open, Closing, UpdatedIndex, kNew, kAdded, kDeleted
  <2>4. \A k \in Loops : /\ \A o \in LifeOps : ~Has(todo[k], o, c) /\ ~Has(queue[k], o, c)
                         /\ \A e \in active[k] : e.conn # c
                         /\ \A p \in Names \ {"removeConnectionInLoop"} : Has(todo[k], p, c) => k = l
    <3>1. ASSUME NEW k \in Loops PROVE \A o \in LifeOps : ~Has(todo[k], o, c) /\ ~Has(queue[k], o, c)
      BY <2>1, <2>2 DEF ConnLoopInv, Waits, LifeOps
    <3>2. ASSUME NEW k \in Loops, NEW e \in active[k], e.conn = c PROVE FALSE
      <4>1. k = l
        BY <2>2, <3>2, ConnsAssumption DEF GeneralInv, InPlace
      <4> QED BY <1>3, <2>1, <3>2, <4>1 DEF ConnLoopInv
    <3>3. ASSUME NEW k \in Loops, NEW p \in Names \ {"removeConnectionInLoop"}, Has(todo[k], p, c) PROVE k = l
      BY <2>2, <3>3 DEF GeneralInv, InPlace, Waits
    <3> QED BY <3>1, <3>2, <3>3
  <2>5. ASSUME NEW k \in Loops PROVE ConnLoopInv(k, c)'
    <3>1. ConnLoopInv(k, c)
      BY <2>1
    <3>2. /\ \A p \in Names \ {"removeConnectionInLoop"} :
               /\ Has(todo'[k], p, c) => Has(todo[k], p, c)
               /\ Single(todo[k], p, c) => Single(todo'[k], p, c)
               /\ Has(queue'[k], p, c) <=> Has(queue[k], p, c)
               /\ Single(queue[k], p, c) => Single(queue'[k], p, c)
      BY <1>3, <1>4
    <3>3. ~Has(todo'[k], "handleRead", c) /\ ~Has(todo'[k], "handleClose", c)
      <4>1. CASE k = l
        <5>1. ~Has(todo[l], "handleRead", c) /\ Single(todo[l], "handleClose", c)
          BY <1>3, <3>1, <4>1 DEF ConnLoopInv, UniqueOps, Once
        <5> QED BY <1>3, <1>4, <4>1, <5>1
      <4>2. CASE k # l
        BY <1>4, <2>4, <4>2
      <4> QED BY <4>1, <4>2
    <3>4. ~Has(todo'[k], "callback", c) /\ ~Has(todo'[k], "sendInLoop", c)
      BY <1>3, <1>4, <1>5, <2>4 DEF CallOps
    <3>5. Once(k, "removeConnectionInLoop", c)'
      <4>1. /\ ~Has(todo[k], "removeConnectionInLoop", c) /\ ~Has(queue[k], "removeConnectionInLoop", c)
            /\ Single(todo[k], "removeConnectionInLoop", c) /\ Single(queue[k], "removeConnectionInLoop", c)
        BY <2>4, <3>1 DEF LifeOps, ConnLoopInv, UniqueOps, Once
      <4>2. k = l => /\ Single(Rest(l), "removeConnectionInLoop", c) /\ ~Has(Rest(l), "removeConnectionInLoop", c)
        BY <1>3, <4>1
      <4>3. Single(todo'[k], "removeConnectionInLoop", c) /\ Single(queue'[k], "removeConnectionInLoop", c)
        BY <1>4, <4>1, <4>2
      <4>4. ~(Has(todo'[k], "removeConnectionInLoop", c) /\ Has(queue'[k], "removeConnectionInLoop", c))
        BY <1>4, <4>1, <4>2
      <4> QED BY <4>3, <4>4 DEF Once
    <3>6. \A o \in UniqueOps \ {"removeConnectionInLoop"} : Once(k, o, c)'
      BY <3>1, <3>2 DEF ConnLoopInv, UniqueOps, Once
    <3>7. \A o \in {"connectEstablished", "connectDestroyed", "remove"} : ~Has(todo'[k], o, c) /\ ~Has(queue'[k], o, c)
      BY <2>4, <3>2 DEF LifeOps
    <3>8. \A o \in RawOps \cup {"callback", "remove"} : ~Has(queue'[k], o, c)
      BY <3>1, <3>2 DEF ConnLoopInv, RawOps
    <3>9. /\ Waits(k, "writeComplete", c)' => setup'.writeComplete
          /\ phase'[k] = "events" => ~Has(todo'[k], "writeComplete", c)
          /\ phase'[k] = "functors" => \A o \in {"handleWrite", "handleError"} : ~Has(todo'[k], o, c)
      BY <1>6, <3>1, <3>2 DEF ConnLoopInv, Waits
    <3>10. \A e \in active'[k] : e.conn # c
      BY <1>6, <2>4
    <3>11. c \in connections'
      BY <1>6, <2>2
    <3> QED BY <2>3, <3>3, <3>4, <3>5, <3>6, <3>7, <3>8, <3>9, <3>10, <3>11 DEF ConnLoopInv, Waits
  <2>6. BaseInv(c)'
    <3>1. SUFFICES ASSUME setup.pool = {}
                   PROVE  /\ loop'[c] = Base
                          /\ ~Has(queue'[Base], "removeConnectionInLoop", c)
                          /\ phase'[Base] = "events"
      BY <1>6 DEF BaseInv
    <3>2. loop[c] = Base /\ l = Base /\ ~Has(queue[Base], "removeConnectionInLoop", c)
      BY <2>1, <2>2, <3>1 DEF BaseInv
    <3> QED BY <1>4, <1>6, <2>2, <3>2
  <2>7. OneInv(c)'
    <3>1. Waits(Base, "removeConnectionInLoop", c)'
      BY <1>4 DEF Waits
    <3> QED BY <1>6, <2>2, <2>3, <3>1 DEF OneInv, kNew, kDeleted
  <2> QED BY <2>5, <2>6, <2>7 DEF ConnInv
<1>10. ASSUME NEW d \in Conns PROVE ConnInv(d)'
  BY <1>8, <1>9
<1> QED BY <1>7, <1>10, Together DEF GeneralInv, AllConnsInv

LEMMA DestroyedStep ==
  ASSUME GeneralInv, GeneralInv', CallbackInv, NEW l \in Loops, NEW c \in Conns, ConnectDestroyed(l, c)
  PROVE  CallbackInv'
<1> USE NamesFacts
<1>1. TypeOK /\ LoopInv /\ \A d \in Conns : ConnInv(d)
  BY ByConnection DEF GeneralInv
<1>2. At(l, "connectDestroyed", c) /\ Continue(l, <<Op("callback", c), Op("remove", c)>>) /\ SetInterest(c, {})
  BY DEF ConnectDestroyed
<1>3. /\ Rest(l) \in Seq(Ops)
      /\ \A p, d : Has(todo[l], p, d) <=> (p = "connectDestroyed" /\ d = c) \/ Has(Rest(l), p, d)
      /\ \A p, d : Single(todo[l], p, d) => Single(Rest(l), p, d)
      /\ Single(todo[l], "connectDestroyed", c) => ~Has(Rest(l), "connectDestroyed", c)
  BY <1>1, <1>2, AtHead
<1>4. /\ \A k \in Loops : k # l => todo'[k] = todo[k]
      /\ todo'[l] = <<Op("callback", c), Op("remove", c)>> \o Rest(l)
      /\ \A p, d : Has(todo'[l], p, d) <=> (p \in {"callback", "remove"} /\ d = c) \/ Has(Rest(l), p, d)
      /\ \A p, d : Single(Rest(l), p, d) /\ ~(p \in {"callback", "remove"} /\ d = c /\ Has(Rest(l), p, d))
                     => Single(todo'[l], p, d)
  BY <1>1, <1>2, ReplacedByTwo
<1>5. NoCalls(Rest(l)) /\ (\A p \in CallOps : \A d : ~Has(Rest(l), p, d)) /\ phase[l] # "poll"
  BY <1>1, <1>2, NoCallsUnder
<1>6. /\ UNCHANGED <<setup, connections, loop, queue, phase, active, user>>
      /\ state'[c] = "kDisconnected" /\ interest'[c] = {} /\ index'[c] = UpdatedIndex(c, {})
      /\ \A d \in Conns : d # c => /\ state'[d] = state[d] /\ interest'[d] = interest[d]
                                   /\ index'[d] = index[d] /\ downs'[d] = downs[d]
  BY <1>1, <1>2 DEF ConnectDestroyed, loopVars, SetInterest, TypeOK
<1>7. LoopInv'
  <2>1. Op("callback", c) \in Ops /\ Op("remove", c) \in Ops /\ Op("remove", c).op = "remove"
    BY OpIsOp
  <2>2. NoCalls(<<Op("remove", c)>> \o Rest(l)) /\ <<Op("remove", c)>> \o Rest(l) \in Seq(Ops)
    BY <1>3, <1>5, <2>1, NoCallsOnTop, Pushing DEF CallOps
  <2>3. <<Op("callback", c), Op("remove", c)>> \o Rest(l) = <<Op("callback", c)>> \o (<<Op("remove", c)>> \o Rest(l))
    BY <1>3, <2>1
  <2>4. Stacked(todo'[l])
    <3> DEFINE s == <<Op("remove", c)>> \o Rest(l)
    <3>1. s \in Seq(Ops) /\ NoCalls(s) /\ todo'[l] = <<Op("callback", c)>> \o s
      BY <1>4, <2>2, <2>3
    <3> HIDE DEF s
    <3> QED BY <2>1, <3>1, StackedFacts
  <2> QED BY <1>1, <1>4, <1>5, <1>6, <2>4 DEF LoopInv
<1>8. ASSUME NEW d \in Conns, d # c PROVE ConnInv(d)'
  <2>1. SameOps(d)
    BY <1>3, <1>4, <1>6, <1>8 DEF SameOps
  <2>2. SameConn(d)
    BY <1>6, <1>8 DEF SameConn
  <2> QED BY <1>1, <1>6, <2>1, <2>2, SameKept
<1>9. ConnInv(c)'
  <2>1. (\A k \in Loops : ConnLoopInv(k, c)) /\ BaseInv(c) /\ OneInv(c)
    BY <1>1 DEF ConnInv
  <2>2. /\ Open(c) /\ Closing(c) /\ l = loop[c] /\ c \notin connections
        /\ index[c] # kNew /\ phase[l] = "functors"
    <3>1. Has(todo[l], "connectDestroyed", c) /\ Waits(l, "connectDestroyed", c)
      BY <1>3 DEF Waits
    <3>2. Closing(c) /\ phase[l] # "events"
      BY <2>1, <3>1 DEF ConnLoopInv
    <3>3. phase[l] = "functors"
      BY <1>1, <1>5, <3>2 DEF TypeOK, Phases
    <3>4. l = loop[c] /\ c \notin connections
      BY <3>1 DEF GeneralInv, InPlace, DownOnce
    <3> QED BY <2>1, <3>2, <3>3, <3>4 DEF OneInv, Closing
  <2>3. ~Open(c)' /\ ~Closing(c)' /\ index'[c] # kNew
    BY <1>6, <2>2 DEF Open, Closing, UpdatedIndex, kNew, kAdded, kDeleted
  <2>4. /\ \A k \in Loops, p \in Names \ {"removeConnectionInLoop"} : Waits(k, p, c) => k = l
        /\ \A k \in Loops : \A e \in active[k] : e.conn = c => k = l
    BY <2>2, ConnsAssumption DEF GeneralInv, InPlace
  <2>5. ASSUME NEW k \in Loops PROVE ConnLoopInv(k, c)'
    <3>1. ConnLoopInv(k, c)
      BY <2>1
    <3>2. /\ \A p \in Names \ {"callback", "remove"} :
               /\ Has(todo'[k], p, c) => Has(todo[k], p, c)
               /\ Single(todo[k], p, c) => Single(todo'[k], p, c)
      BY <1>3, <1>4
    <3>3. \A o \in {"handleRead", "handleWrite", "handleError", "handleClose"} : ~Has(todo'[k], o, c)
      <4>1. ~Has(todo[k], "handleRead", c) /\ ~Has(todo[k], "handleWrite", c)
            /\ ~Has(todo[k], "handleError", c) /\ ~Has(todo[k], "handleClose", c)
        BY <2>2, <2>4, <3>1 DEF ConnLoopInv, Waits
      <4> QED BY <3>2, <4>1
    <3>4. \A o \in {"sendInLoop", "shutdownInLoop"} : ~Has(todo'[k], o, c)
      BY <1>3, <1>4, <1>5, <2>4 DEF CallOps, Waits
    <3>5. \A o \in RawOps : ~Has(todo'[k], o, c)
      BY <3>3, <3>4 DEF RawOps
    <3>6. \A e \in active'[k] : e.conn # c
      BY <1>1, <1>6, <2>2, <2>4 DEF LoopInv
    <3>7. ~Waits(k, "connectDestroyed", c)'
      <4>1. Once(k, "connectDestroyed", c)
        BY DEF GeneralInv, DownOnce
      <4>2. CASE k = l
        <5>1. Has(todo[l], "connectDestroyed", c) /\ Single(todo[l], "connectDestroyed", c)
              /\ ~Has(queue[l], "connectDestroyed", c)
          BY <1>3, <4>1, <4>2 DEF Once
        <5>2. ~Has(todo'[l], "connectDestroyed", c)
          BY <1>3, <1>4, <5>1
        <5> QED BY <1>6, <4>2, <5>1, <5>2 DEF Waits
      <4>3. CASE k # l
        BY <1>4, <1>6, <2>4, <4>3 DEF Waits
      <4> QED BY <4>2, <4>3
    <3>8. ~Waits(k, "removeConnectionInLoop", c)' /\ ~Waits(k, "connectEstablished", c)'
      <4>1. ~Waits(k, "removeConnectionInLoop", c) /\ ~Waits(k, "connectEstablished", c)
        BY <2>2, <3>1 DEF ConnLoopInv, Open
      <4> QED BY <1>6, <3>2, <4>1 DEF Waits
    <3>9. ~Has(todo[k], "remove", c) /\ ~Has(queue'[k], "remove", c)
      BY <1>6, <2>2, <3>1 DEF ConnLoopInv, Open
    <3>10. Once(k, "remove", c)'
      <4>1. Single(todo[k], "remove", c) /\ Single(queue[k], "remove", c)
        BY <3>1 DEF ConnLoopInv, UniqueOps, Once
      <4>2. Single(todo'[k], "remove", c)
        BY <1>3, <1>4, <3>9, <4>1
      <4> QED BY <1>6, <3>9, <4>1, <4>2 DEF Once
    <3>11. \A o \in UniqueOps \ {"remove"} : Once(k, o, c)'
      BY <1>6, <3>1, <3>2 DEF ConnLoopInv, UniqueOps, Once
    <3>12. \A o \in RawOps \cup {"callback", "remove"} : ~Has(queue'[k], o, c)
      BY <1>6, <3>1 DEF ConnLoopInv
    <3>13. Waits(k, "writeComplete", c)' => setup'.writeComplete
      BY <1>6, <3>1, <3>2 DEF ConnLoopInv, Waits
    <3>14. phase'[k] = "events" =>
              \A o \in {"connectDestroyed", "remove", "writeComplete"} : ~Has(todo'[k], o, c)
      <4>1. phase'[k] = "events" => k # l /\ todo'[k] = todo[k]
        BY <1>4, <1>6, <2>2
      <4> QED BY <1>6, <3>1, <4>1 DEF ConnLoopInv
    <3> QED BY <1>6, <2>3, <3>3, <3>5, <3>6, <3>7, <3>8, <3>10, <3>11, <3>12, <3>13, <3>14 DEF ConnLoopInv
  <2>6. BaseInv(c)'
    <3>1. Has(todo'[Base], "removeConnectionInLoop", c) => Has(todo[Base], "removeConnectionInLoop", c)
      BY <1>3, <1>4
    <3> QED BY <1>6, <2>1, <2>3, <3>1 DEF BaseInv
  <2>7. OneInv(c)'
    BY <1>4, <1>6, <2>2, <2>3 DEF OneInv
  <2> QED BY <2>5, <2>6, <2>7 DEF ConnInv
<1>10. ASSUME NEW d \in Conns PROVE ConnInv(d)'
  BY <1>8, <1>9
<1> QED BY <1>7, <1>10, Together DEF GeneralInv, AllConnsInv

LEMMA RemoveStep ==
  ASSUME GeneralInv, GeneralInv', CallbackInv, NEW l \in Loops, NEW c \in Conns, RemoveChannel(l, c)
  PROVE  CallbackInv'
<1> USE NamesFacts
<1>1. TypeOK /\ LoopInv /\ \A d \in Conns : ConnInv(d)
  BY ByConnection DEF GeneralInv
<1>2. At(l, "remove", c) /\ Continue(l, <<>>)
  BY DEF RemoveChannel
<1>3. /\ Rest(l) \in Seq(Ops)
      /\ \A p, d : Has(todo[l], p, d) <=> (p = "remove" /\ d = c) \/ Has(Rest(l), p, d)
      /\ \A p, d : Single(todo[l], p, d) => Single(Rest(l), p, d)
      /\ Single(todo[l], "remove", c) => ~Has(Rest(l), "remove", c)
  BY <1>1, <1>2, AtHead
<1>4. (\A k \in Loops : k # l => todo'[k] = todo[k]) /\ todo'[l] = Rest(l)
  BY <1>1, <1>2, Done
<1>5. NoCalls(Rest(l)) /\ phase[l] # "poll"
  BY <1>1, <1>2, NoCallsUnder
<1>6. /\ UNCHANGED <<setup, connections, loop, queue, phase, active, user, state, interest, downs>>
      /\ index'[c] = kNew
      /\ \A d \in Conns : d # c => index'[d] = index[d]
  BY <1>1 DEF RemoveChannel, loopVars, TypeOK
<1>7. LoopInv'
  <2>1. Stacked(todo'[l])
    BY <1>3, <1>4, <1>5, StackedFacts
  <2> QED BY <1>1, <1>4, <1>5, <1>6, <2>1 DEF LoopInv
<1>8. ASSUME NEW d \in Conns, d # c PROVE ConnInv(d)'
  <2>1. SameOps(d)
    BY <1>3, <1>4, <1>6, <1>8 DEF SameOps
  <2>2. SameConn(d)
    BY <1>6, <1>8 DEF SameConn
  <2> QED BY <1>1, <1>6, <2>1, <2>2, SameKept
<1>9. ConnInv(c)'
  <2>1. (\A k \in Loops : ConnLoopInv(k, c)) /\ BaseInv(c) /\ OneInv(c)
    BY <1>1 DEF ConnInv
  <2>2. state[c] = "kDisconnected" /\ l = loop[c] /\ ~Open(c) /\ ~Closing(c)
    <3>1. Has(todo[l], "remove", c) /\ Waits(l, "remove", c)
      BY <1>3 DEF Waits
    <3> QED BY <2>1, <3>1 DEF ConnLoopInv, GeneralInv, InPlace, Open, Closing
  <2>3. ~Open(c)' /\ ~Closing(c)'
    BY <1>6, <2>2 DEF Open, Closing
  <2>4. ASSUME NEW k \in Loops PROVE ConnLoopInv(k, c)'
    <3>1. ConnLoopInv(k, c)
      BY <2>1
    <3>2. \A p \in Names : /\ Has(todo'[k], p, c) => Has(todo[k], p, c)
                           /\ Single(todo[k], p, c) => Single(todo'[k], p, c)
                           /\ Waits(k, p, c)' => Waits(k, p, c)
      BY <1>3, <1>4, <1>6 DEF Waits
    <3>3. ~Has(todo'[k], "remove", c)
      <4>1. Single(todo[k], "remove", c) /\ (Has(todo[k], "remove", c) => k = l)
        BY <2>2, <3>1 DEF ConnLoopInv, UniqueOps, Once, GeneralInv, InPlace, Waits
      <4> QED BY <1>3, <1>4, <4>1
    <3>4. \A o \in RawOps : ~Has(todo'[k], o, c)
      BY <2>2, <3>1, <3>2 DEF ConnLoopInv, RawOps
    <3>5. \A o \in UniqueOps : Once(k, o, c)'
      BY <1>6, <3>1, <3>2 DEF ConnLoopInv, UniqueOps, Once
    <3>6. \A e \in active'[k] : e.conn # c
      BY <1>6, <2>2, <3>1 DEF ConnLoopInv
    <3>7. /\ Waits(k, "writeComplete", c)' => setup'.writeComplete
          /\ Waits(k, "connectEstablished", c)' => state'[c] = "kConnecting"
          /\ ~Waits(k, "removeConnectionInLoop", c)' /\ ~Waits(k, "connectDestroyed", c)'
          /\ phase'[k] = "events" =>
              \A o \in {"connectDestroyed", "remove", "writeComplete"} : ~Has(todo'[k], o, c)
      BY <1>6, <2>2, <3>1, <3>2 DEF ConnLoopInv
    <3>8. \A o \in RawOps \cup {"callback", "remove"} : ~Has(queue'[k], o, c)
      BY <1>6, <3>1 DEF ConnLoopInv
    <3>9. \A o \in {"handleRead", "handleWrite", "handleError", "handleClose"} : ~Has(todo'[k], o, c)
      BY <3>4 DEF RawOps
    <3> QED BY <2>3, <3>3, <3>4, <3>5, <3>6, <3>7, <3>8, <3>9 DEF ConnLoopInv
  <2>5. BaseInv(c)'
    <3>1. Has(todo'[Base], "removeConnectionInLoop", c) => Has(todo[Base], "removeConnectionInLoop", c)
      BY <1>3, <1>4
    <3> QED BY <1>6, <2>1, <2>3, <3>1 DEF BaseInv
  <2>6. OneInv(c)'
    BY <1>6, <2>1, <2>2, <2>3 DEF OneInv
  <2> QED BY <2>4, <2>5, <2>6 DEF ConnInv
<1>10. ASSUME NEW d \in Conns PROVE ConnInv(d)'
  BY <1>8, <1>9
<1> QED BY <1>7, <1>10, Together DEF GeneralInv, AllConnsInv

LEMMA NewStep ==
  ASSUME GeneralInv, GeneralInv', CallbackInv, NEW c \in Conns, NewConnection(c)
  PROVE  CallbackInv'
<1> USE NamesFacts
<1>1. TypeOK /\ LoopInv /\ \A d \in Conns : ConnInv(d)
  BY ByConnection DEF GeneralInv
<1>2. At(Base, "accept", NoConn) /\ state[c] = "none"
  BY DEF NewConnection
<1>3. PICK l \in Pool : loop' = [loop EXCEPT ![c] = l] /\ RunInLoop(Base, l, Op("connectEstablished", c))
  BY DEF NewConnection
<1>4. l \in Loops /\ (setup.pool = {} => l = Base)
  BY <1>1, SetupsAssumption DEF Pool, TypeOK, Loops
<1>5. /\ loop'[c] = l /\ state'[c] = "kConnecting" /\ connections' = connections \cup {c}
      /\ \A d \in Conns : d # c => loop'[d] = loop[d] /\ state'[d] = state[d]
      /\ UNCHANGED <<setup, phase, active, interest, index, user, downs>>
  BY <1>1, <1>3, <1>4 DEF NewConnection, loopVars, TypeOK
<1>6. /\ todo[Base] \in Seq(Ops) /\ todo[Base] # <<>> /\ Rest(Base) \in Seq(Ops)
      /\ \A p \in Names : \A d : Has(todo[Base], p, d) <=> Has(Rest(Base), p, d)
      /\ \A p, d : Single(todo[Base], p, d) => Single(Rest(Base), p, d)
  <2>1. "accept" \notin Names
    BY DEF Names, SharedOps, RawOps
  <2> QED BY <1>1, <1>2, <2>1, AtHead
<1>7. /\ \A k \in Loops : k # Base => todo'[k] = todo[k]
      /\ Stacked(todo'[Base])
      /\ \A p \in Names : \A d : Has(todo'[Base], p, d) <=>
           (l = Base /\ p = "connectEstablished" /\ d = c) \/ Has(todo[Base], p, d)
      /\ \A p \in Names : \A d : Single(todo[Base], p, d)
                     /\ ~(p = "connectEstablished" /\ d = c /\ Has(todo[Base], p, d))
                     => Single(todo'[Base], p, d)
      /\ \A k \in Loops : \A p, d : Has(queue'[k], p, d) <=>
           Has(queue[k], p, d) \/ (l # Base /\ k = l /\ p = "connectEstablished" /\ d = c)
      /\ \A k \in Loops : \A p, d : Single(queue[k], p, d)
                     /\ ~(p = "connectEstablished" /\ d = c /\ Has(queue[k], p, d))
                     => Single(queue'[k], p, d)
  <2>1. Head(todo[Base]).op = "accept"
    BY <1>2 DEF At, Op
  <2>2. NoCalls(Rest(Base))
    BY <1>1, <1>6, <2>1, StackedFacts DEF LoopInv, Rest
  <2>3. Op("connectEstablished", c) \in Ops
    BY OpIsOp
  <2>4. Stacked(Rest(Base)) /\ Stacked(<<Op("connectEstablished", c)>> \o Rest(Base))
    BY <1>6, <2>2, <2>3, StackedFacts
  <2>5. CASE l = Base
    <3>1. Continue(Base, <<Op("connectEstablished", c)>>) /\ queue' = queue
      BY <1>3, <2>5 DEF RunInLoop
    <3>2. /\ \A k \in Loops : k # Base => todo'[k] = todo[k]
          /\ todo'[Base] = <<Op("connectEstablished", c)>> \o Rest(Base)
          /\ \A p, d : Has(todo'[Base], p, d) <=> (p = "connectEstablished" /\ d = c) \/ Has(Rest(Base), p, d)
          /\ \A p, d : Single(Rest(Base), p, d) /\ ~(p = "connectEstablished" /\ d = c /\ Has(Rest(Base), p, d))
                         => Single(todo'[Base], p, d)
      BY <1>1, <1>2, <3>1, Replaced
    <3> QED BY <1>6, <2>4, <2>5, <3>1, <3>2
  <2>6. CASE l # Base
    <3>1. Continue(Base, <<>>) /\ QueueInLoop(l, Op("connectEstablished", c))
      BY <1>3, <2>6 DEF RunInLoop
    <3>2. /\ \A k \in Loops : k # Base => todo'[k] = todo[k]
          /\ todo'[Base] = Rest(Base)
      BY <1>1, <1>2, <3>1, Done
    <3>3. /\ \A k \in Loops : k # l => queue'[k] = queue[k]
          /\ \A p, d : Has(queue'[l], p, d) <=> Has(queue[l], p, d) \/ (p = "connectEstablished" /\ d = c)
          /\ \A p, d : Single(queue[l], p, d) /\ ~(p = "connectEstablished" /\ d = c /\ Has(queue[l], p, d))
                         => Single(queue'[l], p, d)
      BY <1>1, <1>4, <3>1, Queued
    <3> QED BY <1>6, <2>4, <2>6, <3>2, <3>3
  <2> QED BY <2>5, <2>6
<1>8. LoopInv'
  BY <1>1, <1>5, <1>6, <1>7 DEF LoopInv
<1>9. ASSUME NEW d \in Conns, d # c PROVE ConnInv(d)'
  <2>1. SameOps(d)
    BY <1>7, <1>9 DEF SameOps
  <2>2. SameConn(d)
    BY <1>5, <1>9 DEF SameConn
  <2> QED BY <1>1, <1>5, <2>1, <2>2, SameKept
<1>10. ConnInv(c)'
  <2>1. (\A k \in Loops : ConnLoopInv(k, c)) /\ OneInv(c)
    BY <1>1 DEF ConnInv
  <2>2. index[c] = kNew /\ interest[c] = {} /\ downs[c] = 0
    BY <1>2, <2>1 DEF OneInv
  <2>3. \A k \in Loops : /\ \A p \in Names : ~Has(todo[k], p, c) /\ ~Has(queue[k], p, c)
                         /\ \A e \in active[k] : e.conn # c
    BY <1>2 DEF GeneralInv, Unborn, Waits
  <2>4. \A k \in Loops : \A p \in Names \ {"connectEstablished"} : ~Has(todo'[k], p, c) /\ ~Has(queue'[k], p, c)
    BY <1>7, <2>3
  <2>5. ~Open(c)' /\ ~Closing(c)'
    BY <1>5 DEF Open, Closing
  <2>6. ASSUME NEW k \in Loops PROVE ConnLoopInv(k, c)'
    <3>1. ASSUME NEW o \in UniqueOps PROVE Once(k, o, c)'
      <4>1. Single(todo[k], o, c) /\ Single(queue[k], o, c) /\ o \in Names
        BY <2>1 DEF ConnLoopInv, Once, UniqueOps
      <4>2. Single(todo'[k], o, c) /\ Single(queue'[k], o, c)
        BY <1>7, <2>3, <4>1
      <4>3. ~(Has(todo'[k], o, c) /\ Has(queue'[k], o, c))
        BY <1>7, <2>3, <2>4, <4>1
      <4> QED BY <4>2, <4>3 DEF Once
    <3>2. \A o \in RawOps \cup {"callback", "remove"} : ~Has(todo'[k], o, c) /\ ~Has(queue'[k], o, c)
      BY <2>4 DEF RawOps
    <3>3. \A e \in active'[k] : e.conn # c
      BY <1>5, <2>3
    <3>4. /\ ~Waits(k, "writeComplete", c)' /\ ~Waits(k, "removeConnectionInLoop", c)'
          /\ ~Waits(k, "connectDestroyed", c)'
      BY <2>4 DEF Waits
    <3>5. \A o \in {"connectDestroyed", "remove", "writeComplete", "handleRead", "handleWrite", "handleError",
                    "handleClose", "callback", "sendInLoop"} : ~Has(todo'[k], o, c)
      BY <2>4
    <3> QED BY <1>5, <3>1, <3>2, <3>3, <3>4, <3>5 DEF ConnLoopInv
  <2>7. BaseInv(c)'
    <3>1. setup'.pool = {} => loop'[c] = Base
      BY <1>4, <1>5
    <3> QED BY <2>4, <2>5, <3>1 DEF BaseInv
  <2>8. OneInv(c)'
    BY <1>5, <2>2, <2>5 DEF OneInv
  <2> QED BY <2>6, <2>7, <2>8 DEF ConnInv
<1>11. ASSUME NEW d \in Conns PROVE ConnInv(d)'
  BY <1>9, <1>10
<1> QED BY <1>8, <1>11, Together DEF GeneralInv, AllConnsInv

LEMMA EraseStep ==
  ASSUME GeneralInv, GeneralInv', CallbackInv, NEW c \in Conns, RemoveConnectionInLoop(c)
  PROVE  CallbackInv'
<1> USE NamesFacts
<1>1. TypeOK /\ LoopInv /\ \A d \in Conns : ConnInv(d)
  BY ByConnection DEF GeneralInv
<1>2. At(Base, "removeConnectionInLoop", c) /\ Continue(Base, <<>>)
  BY DEF RemoveConnectionInLoop
<1>3. PICK l \in Loops : l = loop[c]
  BY <1>1 DEF TypeOK
<1>4. QueueInLoop(l, Op("connectDestroyed", c))
  BY <1>3 DEF RemoveConnectionInLoop
<1>5. /\ connections' = connections \ {c}
      /\ UNCHANGED <<setup, phase, active, state, loop, interest, index, user, downs>>
  BY DEF RemoveConnectionInLoop, loopVars, connVars
<1>6. /\ Rest(Base) \in Seq(Ops)
      /\ \A p, d : Has(todo[Base], p, d) <=> (p = "removeConnectionInLoop" /\ d = c) \/ Has(Rest(Base), p, d)
      /\ \A p, d : Single(todo[Base], p, d) => Single(Rest(Base), p, d)
      /\ Single(todo[Base], "removeConnectionInLoop", c) => ~Has(Rest(Base), "removeConnectionInLoop", c)
  BY <1>1, <1>2, AtHead
<1>7. (\A k \in Loops : k # Base => todo'[k] = todo[k]) /\ todo'[Base] = Rest(Base)
  BY <1>1, <1>2, Done
<1>8. /\ \A k \in Loops : k # l => queue'[k] = queue[k]
      /\ \A p, d : Has(queue'[l], p, d) <=> Has(queue[l], p, d) \/ (p = "connectDestroyed" /\ d = c)
      /\ \A p, d : Single(queue[l], p, d) /\ ~(p = "connectDestroyed" /\ d = c /\ Has(queue[l], p, d))
                     => Single(queue'[l], p, d)
  BY <1>1, <1>4, Queued
<1>9. NoCalls(Rest(Base)) /\ phase[Base] # "poll"
  BY <1>1, <1>2, NoCallsUnder
<1>10. LoopInv'
  <2>1. Stacked(todo'[Base])
    BY <1>6, <1>7, <1>9, StackedFacts
  <2> QED BY <1>1, <1>5, <1>7, <1>9, <2>1 DEF LoopInv
<1>11. ASSUME NEW d \in Conns, d # c PROVE ConnInv(d)'
  <2>1. SameOps(d)
    BY <1>6, <1>7, <1>8, <1>11 DEF SameOps
  <2>2. SameConn(d)
    BY <1>5, <1>11 DEF SameConn
  <2> QED BY <1>1, <1>5, <2>1, <2>2, SameKept
<1>12. ConnInv(c)'
  <2>1. (\A k \in Loops : ConnLoopInv(k, c)) /\ BaseInv(c) /\ OneInv(c)
    BY <1>1 DEF ConnInv
  <2>2. c \in connections /\ Closing(c) /\ Has(todo[Base], "removeConnectionInLoop", c)
    BY <1>6, <2>1 DEF ConnLoopInv, Waits
  <2>3. /\ state[c] \in {"kConnected", "kDisconnecting"} /\ Closing(c)' /\ (Open(c)' <=> Open(c))
        /\ "IN" \notin interest[c]
    BY <1>5, <2>2 DEF Open, Closing
  <2>4. \A k \in Loops : ~Waits(k, "connectDestroyed", c)
    BY <2>2 DEF GeneralInv, DownOnce
  <2>5. ASSUME NEW k \in Loops PROVE ConnLoopInv(k, c)'
    <3>1. ConnLoopInv(k, c)
      BY <2>1
    <3>2. \A p \in Names : /\ Has(todo'[k], p, c) => Has(todo[k], p, c)
                           /\ Single(todo[k], p, c) => Single(todo'[k], p, c)
      BY <1>6, <1>7
    <3>3. \A p \in Names \ {"connectDestroyed"} :
             /\ Has(queue'[k], p, c) <=> Has(queue[k], p, c)
             /\ Single(queue[k], p, c) => Single(queue'[k], p, c)
      BY <1>8
    <3>4. ~Waits(k, "removeConnectionInLoop", c)'
      <4>1. Once(k, "removeConnectionInLoop", c) /\ (Waits(k, "removeConnectionInLoop", c) => k = Base)
        BY <3>1 DEF ConnLoopInv, UniqueOps, GeneralInv, InPlace
      <4>2. CASE k = Base
        <5>1. Single(todo[Base], "removeConnectionInLoop", c) /\ ~Has(queue[Base], "removeConnectionInLoop", c)
          BY <2>2, <4>1, <4>2 DEF Once
        <5> QED BY <1>6, <1>7, <3>3, <4>2, <5>1 DEF Waits
      <4>3. CASE k # Base
        BY <1>7, <3>3, <4>1, <4>3 DEF Waits
      <4> QED BY <4>2, <4>3
    <3>5. \A o \in UniqueOps : Once(k, o, c)'
      BY <3>1, <3>2, <3>3 DEF ConnLoopInv, UniqueOps, Once
    <3>6. \A o \in RawOps \cup {"callback", "remove"} : ~Has(queue'[k], o, c)
      BY <3>1, <3>3 DEF ConnLoopInv, RawOps
    <3>7. \A o \in RawOps : Has(todo'[k], o, c) => Open(c)'
      BY <2>3, <3>1, <3>2 DEF ConnLoopInv, RawOps
    <3>8. /\ Waits(k, "writeComplete", c)' => setup'.writeComplete
          /\ Waits(k, "connectEstablished", c)' => state'[c] = "kConnecting"
      BY <1>5, <3>1, <3>2, <3>3 DEF ConnLoopInv, Waits
    <3>9. /\ \A e \in active'[k] : e.conn # c
          /\ ~Has(todo'[k], "handleRead", c) /\ ~Has(todo'[k], "handleClose", c)
      BY <1>5, <2>3, <3>1, <3>2 DEF ConnLoopInv
    <3>10. /\ phase'[k] = "events" =>
                \A o \in {"connectDestroyed", "remove", "writeComplete"} : ~Has(todo'[k], o, c)
           /\ phase'[k] = "functors" =>
                \A o \in {"handleRead", "handleWrite", "handleError", "handleClose"} : ~Has(todo'[k], o, c)
      BY <1>5, <3>1, <3>2 DEF ConnLoopInv
    <3>11. /\ Has(todo'[k], "remove", c) => state'[c] = "kDisconnected" /\ index'[c] # kNew
           /\ Strict' => ~Has(todo'[k], "callback", c) /\ ~Has(todo'[k], "sendInLoop", c)
      BY <1>5, <2>2, <3>1, <3>2 DEF ConnLoopInv
    <3> QED BY <2>3, <3>4, <3>5, <3>6, <3>7, <3>8, <3>9, <3>10, <3>11 DEF ConnLoopInv
  <2>6. BaseInv(c)'
    <3>1. SUFFICES ASSUME setup.pool = {}
                   PROVE  /\ loop'[c] = Base
                          /\ ~Has(queue'[Base], "removeConnectionInLoop", c)
                          /\ phase'[Base] = "events"
      BY <1>5 DEF BaseInv
    <3>2. loop[c] = Base /\ ~Has(queue[Base], "removeConnectionInLoop", c) /\ phase[Base] = "events"
      BY <2>1, <2>2, <3>1 DEF BaseInv
    <3> QED BY <1>5, <1>8, <3>2
  <2>7. OneInv(c)'
    BY <1>5, <2>1, <2>2, <2>3 DEF OneInv
  <2> QED BY <2>5, <2>6, <2>7 DEF ConnInv
<1>13. ASSUME NEW d \in Conns PROVE ConnInv(d)'
  BY <1>11, <1>12
<1> QED BY <1>10, <1>13, Together DEF GeneralInv, AllConnsInv

\* What poll reports is a connection that is up and was not closed: the channel of one
\* that was closed is not in the epoll set, or this loop does not poll.
LEMMA ReportedIsUp ==
  ASSUME GeneralInv, CallbacksOnly, CallbackInv, NEW l \in Loops, phase[l] = "poll",
         NEW c \in Conns, loop[c] = l, NEW w, Revents(c, w) # {}
  PROVE  /\ Open(c) /\ "IN" \in interest[c]
         /\ "HUP" \in Revents(c, w) => "IN" \in Revents(c, w)
<1>1. TypeOK /\ LoopInv /\ ConnInv(c)
  BY ByConnection DEF GeneralInv
<1>2. ConnLoopInv(l, c) /\ BaseInv(c) /\ OneInv(c) /\ todo[l] = <<>>
  BY <1>1 DEF ConnInv, LoopInv
<1>3. index[c] = kAdded
  BY DEF Revents
<1>4. ~Has(todo[l], "remove", c)
  BY <1>2, NothingThere
<1>5. state[c] \in States
  BY <1>1 DEF TypeOK
<1>6. Open(c)
  BY <1>2, <1>3, <1>4, <1>5 DEF OneInv, Open, States, kNew, kAdded
<1>7. "IN" \in interest[c]
  <2>1. SUFFICES ASSUME Closing(c) PROVE FALSE
    BY <1>6 DEF Closing
  <2>2. ~Strict
    BY <1>2, <1>3, <2>1 DEF OneInv, kAdded, kDeleted
  <2>3. setup.pool = {}
    BY <2>2 DEF CallbacksOnly
  <2>4. l = Base /\ phase[Base] # "poll"
    BY <1>2, <2>1, <2>3 DEF BaseInv
  <2> QED BY <2>4
<1>8. "HUP" \in Revents(c, w) => "IN" \in Revents(c, w)
  <2>1. interest[c] \in SUBSET {"IN", "OUT"}
    BY <1>1 DEF TypeOK
  <2>2. SUFFICES ASSUME "HUP" \in Revents(c, w) PROVE "IN" \in Revents(c, w)
    OBVIOUS
  <2>3. socket[c].rst \/ socket[c].fin
    BY <2>1, <2>2 DEF Revents
  <2> QED BY <1>7, <2>2, <2>3 DEF Revents
<1> QED BY <1>6, <1>7, <1>8

LEMMA PollStep ==
  ASSUME GeneralInv, GeneralInv', CallbacksOnly, CallbackInv, NEW l \in Loops, Poll(l)
  PROVE  CallbackInv'
<1> USE NamesFacts
<1>1. TypeOK /\ LoopInv /\ \A d \in Conns : ConnInv(d)
  BY ByConnection DEF GeneralInv
<1>2. /\ phase[l] = "poll" /\ todo[l] = <<>> /\ phase'[l] = "events"
      /\ \A k \in Loops : k # l => phase'[k] = phase[k]
      /\ UNCHANGED <<setup, connections, state, interest, index, loop, queue, todo, user, downs>>
  BY <1>1 DEF Poll, TypeOK, LoopInv, connVars
<1>3. PICK writable \in SUBSET {c \in Conns : loop[c] = l /\ isWriting(c)},
           accept \in {{}} \cup {{Event(NoConn, {"IN"})} : c \in Incoming(l)} :
        active' = [active EXCEPT ![l] = accept \cup
                     {Event(c, Revents(c, c \in writable)) :
                        c \in {c \in Conns : loop[c] = l /\ Revents(c, c \in writable) # {}}}]
  BY DEF Poll
<1>4. /\ \A k \in Loops : k # l => active'[k] = active[k]
      /\ \A e \in active'[l] : \/ e = Event(NoConn, {"IN"})
                               \/ \E c \in Conns : /\ loop[c] = l /\ Revents(c, c \in writable) # {}
                                                   /\ e = Event(c, Revents(c, c \in writable))
  BY <1>1, <1>3 DEF TypeOK
<1>5. ASSUME NEW e \in active'[l], NEW f \in active'[l], e.conn = f.conn PROVE e = f
  BY <1>4, <1>5, ConnsAssumption DEF Event
<1>6. LoopInv'
  <2>1. \A k \in Loops : Stacked(todo'[k])
    BY <1>1, <1>2 DEF LoopInv
  <2>2. \A k \in Loops : \A e, f \in active'[k] : e.conn = f.conn => e = f
    BY <1>1, <1>4, <1>5 DEF LoopInv
  <2> QED BY <1>1, <1>2, <1>4, <2>1, <2>2 DEF LoopInv
<1>7. ASSUME NEW d \in Conns PROVE ConnInv(d)'
  <2>1. (\A k \in Loops : ConnLoopInv(k, d)) /\ BaseInv(d) /\ OneInv(d)
    BY <1>1 DEF ConnInv
  <2>2. (Open(d)' <=> Open(d)) /\ (Closing(d)' <=> Closing(d))
    BY <1>2 DEF Open, Closing
  <2>3. \A k \in Loops, p \in Names : (Waits(k, p, d)' <=> Waits(k, p, d)) /\ (Once(k, p, d)' <=> Once(k, p, d))
    BY <1>2 DEF Waits, Once
  <2>4. ASSUME NEW e \in active'[l], e.conn = d
        PROVE  Open(d)' /\ "IN" \in interest'[d] /\ ("HUP" \in e.revents => "IN" \in e.revents)
    <3>1. loop[d] = l /\ Revents(d, d \in writable) # {} /\ e.revents = Revents(d, d \in writable)
      BY <1>4, <2>4, ConnsAssumption DEF Event
    <3>2. PICK w : w = (d \in writable)
      OBVIOUS
    <3>3. Revents(d, w) # {} /\ e.revents = Revents(d, w)
      BY <3>1, <3>2
    <3>4. Open(d) /\ "IN" \in interest[d] /\ ("HUP" \in Revents(d, w) => "IN" \in Revents(d, w))
      BY <1>2, <3>1, <3>3, ReportedIsUp
    <3> QED BY <1>2, <2>2, <3>3, <3>4
  <2>5. ASSUME NEW k \in Loops PROVE ConnLoopInv(k, d)'
    <3>1. ConnLoopInv(k, d)
      BY <2>1
    <3>2. \A o \in UniqueOps : Once(k, o, d)'
      BY <2>3, <3>1 DEF ConnLoopInv, UniqueOps
    <3>3. /\ \A o \in RawOps \cup {"callback", "remove"} : ~Has(queue'[k], o, d)
          /\ \A o \in RawOps : Has(todo'[k], o, d) => Open(d)'
      BY <1>2, <2>2, <3>1 DEF ConnLoopInv
    <3>4. k = l => \A p : ~Has(todo'[k], p, d)
      BY <1>2, NothingThere
    <3>5. /\ phase'[k] = "events" =>
               \A o \in {"connectDestroyed", "remove", "writeComplete"} : ~Has(todo'[k], o, d)
          /\ phase'[k] = "functors" =>
               \A o \in {"handleRead", "handleWrite", "handleError", "handleClose"} : ~Has(todo'[k], o, d)
      <4>1. CASE k = l
        BY <3>4, <4>1
      <4>2. CASE k # l
        BY <1>2, <3>1, <4>2 DEF ConnLoopInv
      <4> QED BY <4>1, <4>2
    <3>6. \A e \in active'[k] : e.conn = d =>
             /\ ~Has(todo'[k], "handleRead", d) /\ ~Has(todo'[k], "handleClose", d)
             /\ Open(d)' /\ "IN" \in interest'[d] /\ ("HUP" \in e.revents => "IN" \in e.revents)
      <4>1. CASE k = l
        BY <2>4, <3>4, <4>1
      <4>2. CASE k # l
        BY <1>2, <1>4, <2>2, <3>1, <4>2 DEF ConnLoopInv
      <4> QED BY <4>1, <4>2
    <3>7. /\ Waits(k, "writeComplete", d)' => setup'.writeComplete
          /\ Waits(k, "connectEstablished", d)' => state'[d] = "kConnecting"
          /\ Waits(k, "removeConnectionInLoop", d)' => d \in connections' /\ Closing(d)'
          /\ Waits(k, "connectDestroyed", d)' => Closing(d)'
      BY <1>2, <2>2, <2>3, <3>1 DEF ConnLoopInv
    <3>8. /\ ~(Has(todo'[k], "handleRead", d) /\ Has(todo'[k], "handleClose", d))
          /\ Has(todo'[k], "handleRead", d) \/ Has(todo'[k], "handleClose", d) => "IN" \in interest'[d]
          /\ Has(todo'[k], "remove", d) => state'[d] = "kDisconnected" /\ index'[d] # kNew
          /\ Strict' /\ (Has(todo'[k], "callback", d) \/ Has(todo'[k], "sendInLoop", d))
               => ~Closing(d)'
      BY <1>2, <2>2, <3>1 DEF ConnLoopInv
    <3> QED BY <3>2, <3>3, <3>5, <3>6, <3>7, <3>8 DEF ConnLoopInv
  <2>6. BaseInv(d)'
    <3>1. phase'[Base] = phase[Base] \/ (phase[Base] = "poll" /\ phase'[Base] = "events")
      BY <1>2
    <3> QED BY <1>2, <2>1, <2>2, <3>1 DEF BaseInv
  <2>7. OneInv(d)'
    BY <1>2, <2>1, <2>2, <2>3 DEF OneInv
  <2> QED BY <2>5, <2>6, <2>7 DEF ConnInv
<1> QED BY <1>6, <1>7, Together DEF GeneralInv, AllConnsInv

LEMMA DispatchStep ==
  ASSUME GeneralInv, GeneralInv', CallbackInv, NEW l \in Loops, Dispatch(l)
  PROVE  CallbackInv'
<1> USE NamesFacts
<1>1. TypeOK /\ LoopInv /\ \A d \in Conns : ConnInv(d)
  BY ByConnection DEF GeneralInv
<1>2. /\ phase[l] = "events" /\ todo[l] = <<>>
      /\ UNCHANGED <<setup, phase, connections, state, interest, index, loop, queue, user, downs>>
  BY DEF Dispatch, connVars
<1>3. PICK e \in active[l] :
        /\ active' = [active EXCEPT ![l] = @ \ {e}]
        /\ todo' = [todo EXCEPT ![l] = IF e.conn = NoConn THEN <<Op("accept", NoConn)>>
                                       ELSE HandleEvent(e.conn, e.revents)]
  BY DEF Dispatch
<1>4. /\ \A k \in Loops : k # l => todo'[k] = todo[k] /\ active'[k] = active[k]
      /\ active'[l] = active[l] \ {e} /\ e.conn \in Conns \cup {NoConn}
  BY <1>1, <1>3 DEF TypeOK, Events
<1>5. \A p, d : ~Has(todo[l], p, d)
  BY <1>2, NothingThere
<1>6. todo'[l] \in Seq(Ops)
  BY DEF GeneralInv, TypeOK
<1>7. /\ \A p \in Names, d \in Conns : Has(todo'[l], p, d) <=>
           /\ e.conn = d
           /\ \/ p = "handleClose" /\ "HUP" \in e.revents /\ "IN" \notin e.revents
              \/ p = "handleError" /\ "ERR" \in e.revents
              \/ p = "handleRead" /\ e.revents \cap {"IN", "HUP"} # {}
              \/ p = "handleWrite" /\ "OUT" \in e.revents
      /\ \A p \in Names : \A d : Single(todo'[l], p, d)
      /\ \A p \in CallOps : \A d : ~Has(todo'[l], p, d)
  <2>1. CASE e.conn = NoConn
    <3>1. todo'[l] = <<Op("accept", NoConn)>> /\ Op("accept", NoConn).op = "accept" /\ Op("accept", NoConn) \in Ops
      BY <1>1, <1>3, <2>1, OpIsOp DEF TypeOK, Op
    <3>2. \A p, d : (Has(todo'[l], p, d) => p = "accept") /\ Single(todo'[l], p, d)
      BY <3>1, OneOp
    <3>3. "accept" \notin Names /\ "accept" \notin CallOps
      BY DEF Names, SharedOps, RawOps, CallOps
    <3> QED BY <2>1, <3>2, <3>3, ConnsAssumption
  <2>2. CASE e.conn # NoConn
    <3>1. todo'[l] = HandleEvent(e.conn, e.revents) /\ e.conn \in Conns
      BY <1>1, <1>3, <1>4, <2>2 DEF TypeOK
    <3> QED BY <3>1, HandleEventHas DEF CallOps
  <2> QED BY <2>1, <2>2
<1>8. LoopInv'
  <2>1. Stacked(todo'[l])
    BY <1>6, <1>7, NoCallsThere, StackedFacts
  <2> QED BY <1>1, <1>2, <1>4, <2>1 DEF LoopInv
<1>9. ASSUME NEW d \in Conns, d # e.conn PROVE ConnInv(d)'
  <2>1. SameOps(d)
    BY <1>2, <1>4, <1>5, <1>7, <1>9 DEF SameOps
  <2>2. SameConn(d)
    BY <1>2, <1>4 DEF SameConn
  <2> QED BY <1>1, <1>2, <2>1, <2>2, SameKept
<1>10. ASSUME NEW c \in Conns, c = e.conn PROVE ConnInv(c)'
  <2>1. (\A k \in Loops : ConnLoopInv(k, c)) /\ BaseInv(c) /\ OneInv(c)
    BY <1>1 DEF ConnInv
  <2>2. (Open(c)' <=> Open(c)) /\ (Closing(c)' <=> Closing(c))
    BY <1>2 DEF Open, Closing
  <2>3. Open(c) /\ "IN" \in interest[c] /\ ("HUP" \in e.revents => "IN" \in e.revents) /\ loop[c] = l
    BY <1>10, <2>1, ConnsAssumption DEF ConnLoopInv, GeneralInv, InPlace
  <2>4. ASSUME NEW k \in Loops, NEW f \in active'[k] PROVE f.conn # c
    BY <1>1, <1>4, <1>10, <2>3, <2>4, ConnsAssumption DEF LoopInv, GeneralInv, InPlace
  <2>5. ASSUME NEW k \in Loops PROVE ConnLoopInv(k, c)'
    <3>1. ConnLoopInv(k, c)
      BY <2>1
    <3>2. CASE k = l
      <4>1. \A p \in Names : Has(todo'[l], p, c) => p \in {"handleError", "handleRead", "handleWrite"}
        BY <1>7, <1>10, <2>3
      <4>2. \A o \in UniqueOps : Once(k, o, c)'
        BY <1>2, <1>5, <1>7, <3>1, <3>2, <4>1 DEF ConnLoopInv, UniqueOps, Once, RawOps
      <4>3. \A o \in RawOps \cup {"callback", "remove"} : ~Has(queue'[k], o, c)
        BY <1>2, <3>1 DEF ConnLoopInv
      <4>4. \A p \in Names : Waits(k, p, c)' => Waits(k, p, c) \/ p \in {"handleError", "handleRead", "handleWrite"}
        BY <1>2, <3>2, <4>1 DEF Waits
      <4>5. /\ Waits(k, "writeComplete", c)' => setup'.writeComplete
            /\ Waits(k, "connectEstablished", c)' => state'[c] = "kConnecting"
            /\ Waits(k, "removeConnectionInLoop", c)' => c \in connections' /\ Closing(c)'
            /\ Waits(k, "connectDestroyed", c)' => Closing(c)'
        BY <1>2, <2>2, <3>1, <4>4 DEF ConnLoopInv
      <4>6. \A o \in {"connectDestroyed", "remove", "writeComplete", "handleClose", "callback", "sendInLoop"} :
                ~Has(todo'[k], o, c)
        BY <3>2, <4>1
      <4>7. phase'[k] = "events" /\ Open(c)' /\ "IN" \in interest'[c]
        BY <1>2, <2>2, <2>3, <3>2
      <4> QED BY <2>4, <4>2, <4>3, <4>5, <4>6, <4>7 DEF ConnLoopInv
    <3>3. CASE k # l
      <4>1. todo'[k] = todo[k] /\ queue'[k] = queue[k] /\ active'[k] = active[k]
        BY <1>2, <1>4, <3>3
      <4>2. \A o \in UniqueOps : Once(k, o, c)'
        BY <3>1, <4>1 DEF ConnLoopInv, UniqueOps, Once
      <4>3. /\ Waits(k, "writeComplete", c)' => setup'.writeComplete
            /\ Waits(k, "connectEstablished", c)' => state'[c] = "kConnecting"
            /\ Waits(k, "removeConnectionInLoop", c)' => c \in connections' /\ Closing(c)'
            /\ Waits(k, "connectDestroyed", c)' => Closing(c)'
        BY <1>2, <2>2, <3>1, <4>1 DEF ConnLoopInv, Waits
      <4> QED BY <1>2, <2>2, <3>1, <4>1, <4>2, <4>3 DEF ConnLoopInv
    <3> QED BY <3>2, <3>3
  <2>6. BaseInv(c)'
    <3>1. ~Closing(c)
      BY <2>3 DEF Closing
    <3>2. Has(todo'[Base], "removeConnectionInLoop", c) => Has(todo[Base], "removeConnectionInLoop", c)
      BY <1>4, <1>7
    <3> QED BY <1>2, <2>1, <2>2, <3>1, <3>2 DEF BaseInv
  <2>7. OneInv(c)'
    <3>1. ~Closing(c)' /\ state'[c] # "kDisconnected"
      BY <1>2, <2>2, <2>3 DEF Closing, Open
    <3> QED BY <1>2, <2>1, <2>2, <3>1 DEF OneInv
  <2> QED BY <2>5, <2>6, <2>7 DEF ConnInv
<1>11. ASSUME NEW d \in Conns PROVE ConnInv(d)'
  BY <1>9, <1>10
<1> QED BY <1>8, <1>11, Together DEF GeneralInv, AllConnsInv

LEMMA SwapStep ==
  ASSUME GeneralInv, GeneralInv', CallbackInv, NEW l \in Loops, Swap(l)
  PROVE  CallbackInv'
<1> USE NamesFacts
<1>1. TypeOK /\ LoopInv /\ \A d \in Conns : ConnInv(d)
  BY ByConnection DEF GeneralInv
<1>2. /\ phase[l] = "events" /\ todo[l] = <<>> /\ active[l] = {}
      /\ phase'[l] = "functors" /\ todo'[l] = queue[l] /\ queue'[l] = <<>> /\ queue[l] \in Seq(Ops)
      /\ \A k \in Loops : k # l => phase'[k] = phase[k] /\ todo'[k] = todo[k] /\ queue'[k] = queue[k]
      /\ UNCHANGED <<setup, connections, state, interest, index, loop, active, user, downs>>
  BY <1>1 DEF Swap, connVars, TypeOK
<1>3. \A p, d : /\ ~Has(todo[l], p, d) /\ Single(todo[l], p, d)
                /\ ~Has(queue'[l], p, d) /\ Single(queue'[l], p, d)
  BY <1>2, NothingThere
<1>4. LoopInv'
  <2>1. ASSUME NEW o \in CallOps, NEW c, Has(queue[l], o, c) PROVE FALSE
    <3>1. c \in Conns
      <4>1. PICK i \in DOMAIN queue[l] : queue[l][i].op = o /\ queue[l][i].conn = c
        BY <2>1 DEF Has
      <4>2. queue[l][i] \in Ops
        BY <1>2
      <4> QED BY <4>1, <4>2 DEF Ops, CallOps
    <3>2. ConnLoopInv(l, c)
      BY <1>1, <3>1 DEF ConnInv
    <3> QED BY <2>1, <3>2 DEF ConnLoopInv, CallOps, RawOps
  <2>2. NoCalls(queue[l])
    BY <1>2, <2>1, NoCallsThere
  <2>3. Stacked(todo'[l])
    BY <1>2, <2>2, StackedFacts
  <2> QED BY <1>1, <1>2, <2>3 DEF LoopInv
<1>5. ASSUME NEW d \in Conns PROVE ConnInv(d)'
  <2>1. (\A k \in Loops : ConnLoopInv(k, d)) /\ BaseInv(d) /\ OneInv(d)
    BY <1>1 DEF ConnInv
  <2>2. (Open(d)' <=> Open(d)) /\ (Closing(d)' <=> Closing(d))
    BY <1>2 DEF Open, Closing
  <2>3. \A k \in Loops, p \in Names : (Waits(k, p, d)' <=> Waits(k, p, d)) /\ (Once(k, p, d) => Once(k, p, d)')
    BY <1>2, <1>3 DEF Waits, Once
  <2>4. ASSUME NEW k \in Loops PROVE ConnLoopInv(k, d)'
    <3>1. ConnLoopInv(k, d)
      BY <2>1
    <3>2. \A o \in UniqueOps : Once(k, o, d)'
      BY <2>3, <3>1 DEF ConnLoopInv, UniqueOps
    <3>3. /\ Waits(k, "writeComplete", d)' => setup'.writeComplete
          /\ Waits(k, "connectEstablished", d)' => state'[d] = "kConnecting"
          /\ Waits(k, "removeConnectionInLoop", d)' => d \in connections' /\ Closing(d)'
          /\ Waits(k, "connectDestroyed", d)' => Closing(d)'
      BY <1>2, <2>2, <2>3, <3>1 DEF ConnLoopInv
    <3>4. CASE k = l
      <4>1. \A o \in RawOps \cup {"callback", "remove"} : ~Has(todo'[k], o, d) /\ ~Has(queue'[k], o, d)
        BY <1>2, <1>3, <3>1, <3>4 DEF ConnLoopInv
      <4>2. \A o \in {"handleRead", "handleWrite", "handleError", "handleClose", "remove", "callback",
                      "sendInLoop"} : ~Has(todo'[k], o, d)
        BY <4>1 DEF RawOps
      <4>3. phase'[k] = "functors" /\ active'[k] = {}
        BY <1>2, <3>4
      <4> QED BY <3>2, <3>3, <4>1, <4>2, <4>3 DEF ConnLoopInv
    <3>5. CASE k # l
      <4>1. todo'[k] = todo[k] /\ queue'[k] = queue[k] /\ active'[k] = active[k] /\ phase'[k] = phase[k]
        BY <1>2, <3>5
      <4> QED BY <1>2, <2>2, <3>1, <3>2, <3>3, <4>1 DEF ConnLoopInv
    <3> QED BY <3>4, <3>5
  <2>5. BaseInv(d)'
    <3>1. CASE l # Base
      BY <1>2, <2>1, <2>2, <3>1 DEF BaseInv
    <3>2. CASE l = Base
      <4> SUFFICES ASSUME setup.pool = {}
                   PROVE  /\ loop'[d] = Base
                          /\ ~Has(queue'[Base], "removeConnectionInLoop", d)
                          /\ ~Has(todo'[Base], "removeConnectionInLoop", d)
                          /\ ~Has(queue'[Base], "connectDestroyed", d)
                          /\ Closing(d)' => Has(todo'[Base], "connectDestroyed", d)
                          /\ phase'[Base] = "functors"
        BY <1>2 DEF BaseInv
      <4>1. loop[d] = Base /\ ~Has(queue[Base], "removeConnectionInLoop", d)
        BY <2>1 DEF BaseInv
      <4>2. ASSUME Closing(d) PROVE Has(queue[Base], "connectDestroyed", d)
        <5>1. d \notin connections
          BY <1>3, <2>1, <3>2, <4>1, <4>2 DEF OneInv, Waits
        <5>2. downs[d] = 0 /\ state[d] # "none"
          BY <2>1, <4>2 DEF OneInv, Closing, Open
        <5>3. PICK k \in Loops : Waits(k, "connectDestroyed", d)
          BY <5>1, <5>2 DEF GeneralInv, DownOnce
        <5>4. k = Base
          BY <4>1, <5>3 DEF GeneralInv, InPlace
        <5> QED BY <1>3, <3>2, <5>3, <5>4 DEF Waits
      <4> QED BY <1>2, <1>3, <2>2, <3>2, <4>1, <4>2
    <3> QED BY <3>1, <3>2
  <2>6. OneInv(d)'
    <3>1. ~Has(todo[l], "remove", d)
      BY <1>3
    <3>2. loop[d] \in Loops
      BY <1>1 DEF TypeOK
    <3>3. state[d] = "kDisconnected" /\ index[d] # kNew => loop[d] # l /\ Has(todo[loop[d]], "remove", d)
      BY <2>1, <3>1 DEF OneInv
    <3> QED BY <1>2, <2>1, <2>2, <2>3, <3>2, <3>3 DEF OneInv
  <2> QED BY <2>4, <2>5, <2>6 DEF ConnInv
<1> QED BY <1>4, <1>5, Together DEF GeneralInv, AllConnsInv

LEMMA EndBatchStep ==
  ASSUME GeneralInv, GeneralInv', CallbackInv, NEW l \in Loops, EndBatch(l)
  PROVE  CallbackInv'
<1> USE NamesFacts
<1>1. TypeOK /\ LoopInv /\ \A d \in Conns : ConnInv(d)
  BY ByConnection DEF GeneralInv
<1>2. /\ phase[l] = "functors" /\ todo[l] = <<>> /\ phase'[l] = "poll"
      /\ \A k \in Loops : k # l => phase'[k] = phase[k]
      /\ UNCHANGED <<setup, connections, state, interest, index, loop, queue, todo, active, user, downs>>
  BY <1>1 DEF EndBatch, connVars, TypeOK
<1>3. \A p, d : ~Has(todo[l], p, d)
  BY <1>2, NothingThere
<1>4. LoopInv'
  BY <1>1, <1>2 DEF LoopInv
<1>5. ASSUME NEW d \in Conns PROVE ConnInv(d)'
  <2>1. (\A k \in Loops : ConnLoopInv(k, d)) /\ BaseInv(d) /\ OneInv(d)
    BY <1>1 DEF ConnInv
  <2>2. (Open(d)' <=> Open(d)) /\ (Closing(d)' <=> Closing(d))
    BY <1>2 DEF Open, Closing
  <2>3. \A k \in Loops, p \in Names : (Waits(k, p, d)' <=> Waits(k, p, d)) /\ (Once(k, p, d)' <=> Once(k, p, d))
    BY <1>2 DEF Waits, Once
  <2>4. ASSUME NEW k \in Loops PROVE ConnLoopInv(k, d)'
    <3>1. ConnLoopInv(k, d)
      BY <2>1
    <3>2. \A o \in UniqueOps : Once(k, o, d)'
      BY <2>3, <3>1 DEF ConnLoopInv, UniqueOps
    <3>3. /\ Waits(k, "writeComplete", d)' => setup'.writeComplete
          /\ Waits(k, "connectEstablished", d)' => state'[d] = "kConnecting"
          /\ Waits(k, "removeConnectionInLoop", d)' => d \in connections' /\ Closing(d)'
          /\ Waits(k, "connectDestroyed", d)' => Closing(d)'
      BY <1>2, <2>2, <2>3, <3>1 DEF ConnLoopInv
    <3>4. phase'[k] \in {"events", "functors"} => phase'[k] = phase[k]
      BY <1>2
    <3> QED BY <1>2, <2>2, <3>1, <3>2, <3>3, <3>4 DEF ConnLoopInv
  <2>5. BaseInv(d)'
    <3>1. CASE l # Base
      BY <1>2, <2>1, <2>2, <3>1 DEF BaseInv
    <3>2. CASE l = Base
      BY <1>2, <1>3, <2>1, <2>2, <3>2 DEF BaseInv
    <3> QED BY <3>1, <3>2
  <2>6. OneInv(d)'
    BY <1>2, <2>1, <2>2, <2>3 DEF OneInv
  <2> QED BY <2>4, <2>5, <2>6 DEF ConnInv
<1> QED BY <1>4, <1>5, Together DEF GeneralInv, AllConnsInv

-----------------------------------------------------------------------------
(* The theorems.                                                           *)

LEMMA SetupFixed ==
  ASSUME [Next]_vars
  PROVE  setup' = setup
<1>1. ASSUME NEW l \in Loops, NEW c \in Conns, ConnStep(l, c) PROVE setup' = setup
  BY <1>1 DEF ConnStep, ConnectEstablished, HandleRead, HandleError, HandleWrite, HandleClose,
              ConnectDestroyed, RemoveChannel, SendInLoop, ShutdownInLoop, CallbackSend,
              CallbackShutdown, CallbackReturn
<1>2. ASSUME NEW l \in Loops, LoopStep(l) PROVE setup' = setup
  BY <1>1, <1>2 DEF LoopStep, Poll, Dispatch, Swap, EndBatch
<1>3. ASSUME ServerStep \/ UserStep \/ PeerStep PROVE setup' = setup
  BY <1>3 DEF ServerStep, NewConnection, RemoveConnectionInLoop, AcceptFails, UserStep, UserSetState,
              UserQueue, UserCheck, PeerStep, PeerSends, PeerCloses
<1> QED BY <1>2, <1>3 DEF Next, vars

LEMMA CallbackStep ==
  ASSUME GeneralInv, GeneralInv', CallbacksOnly, CallbackInv, [Next]_vars
  PROVE  CallbackInv'
<1>1. ASSUME NEW l \in Loops, NEW c \in Conns, ConnStep(l, c) PROVE CallbackInv'
  <2>1. CASE ConnectEstablished(l, c)
    BY <2>1, EstablishedStep
  <2>2. CASE HandleClose(l, c)
    BY <2>2, CloseStep
  <2>3. CASE ConnectDestroyed(l, c)
    BY <2>3, DestroyedStep
  <2>4. CASE RemoveChannel(l, c)
    BY <2>4, RemoveStep
  <2>5. CASE \/ HandleRead(l, c) \/ HandleError(l, c) \/ HandleWrite(l, c) \/ SendInLoop(l, c)
             \/ ShutdownInLoop(l, c) \/ CallbackSend(l, c) \/ CallbackShutdown(l, c)
             \/ CallbackReturn(l, c)
    BY <2>5, QuietSteps, QuietKept
  <2> QED BY <1>1, <2>1, <2>2, <2>3, <2>4, <2>5 DEF ConnStep
<1>2. ASSUME NEW l \in Loops, LoopStep(l) PROVE CallbackInv'
  BY <1>1, <1>2, PollStep, DispatchStep, SwapStep, EndBatchStep DEF LoopStep
<1>3. CASE ServerStep
  BY <1>3, NewStep, EraseStep, QuietOtherSteps, QuietKept DEF ServerStep
<1>4. CASE UserStep
  BY <1>4, NoUserSteps
<1>5. CASE PeerStep \/ UNCHANGED vars
  BY <1>5, QuietOtherSteps, QuietKept
<1> QED BY <1>2, <1>3, <1>4, <1>5 DEF Next

LEMMA CallbackInit ==
  ASSUME Init
  PROVE  CallbackInv
<1>1. TypeOK
  BY GeneralInit DEF GeneralInv
<1>2. \A l \in Loops : \A p, d : /\ ~Has(todo[l], p, d) /\ ~Has(queue[l], p, d)
                                 /\ ~Waits(l, p, d) /\ Once(l, p, d)
  BY NothingThere DEF Waits, Once, Init
<1>3. LoopInv
  <2>1. NoCalls(<<>>) /\ <<>> \in Seq(Ops)
    BY DEF NoCalls
  <2>2. Stacked(<<>>)
    BY <2>1, StackedFacts
  <2> QED BY <2>2 DEF LoopInv, Init
<1>4. ASSUME NEW c \in Conns PROVE ConnInv(c)
  <2>1. ~Open(c) /\ ~Closing(c)
    BY DEF Open, Closing, Init
  <2>2. \A l \in Loops : ConnLoopInv(l, c)
    BY <1>2 DEF ConnLoopInv, Init
  <2>3. BaseInv(c)
    BY <1>2, <2>1, NamesFacts DEF BaseInv, Init
  <2>4. OneInv(c)
    BY <2>1 DEF OneInv, Init
  <2> QED BY <2>2, <2>3, <2>4 DEF ConnInv
<1> QED BY <1>1, <1>3, <1>4, ByConnection

\* The inductive invariant: what holds for every setup, and for those in which the user
\* only acts in callbacks the bookkeeping of what a connection still waits for.
THEOREM ServerIInv == Spec => []IInv
<1>1. Init => IInv
  BY GeneralInit, CallbackInit DEF IInv
<1>2. IInv /\ [Next]_vars => IInv'
  <2> SUFFICES ASSUME IInv, [Next]_vars PROVE IInv'
    OBVIOUS
  <2>1. GeneralInv /\ GeneralInv'
    BY GeneralStep DEF IInv
  <2>2. CallbacksOnly' <=> CallbacksOnly
    BY SetupFixed DEF CallbacksOnly
  <2>3. CallbacksOnly => CallbackInv'
    BY <2>1, CallbackStep DEF IInv
  <2> QED BY <2>1, <2>2, <2>3 DEF IInv
<1> QED BY <1>1, <1>2, PTL DEF Spec

\* A connection that is up has an owner: the map, or connectDestroyed that waits.
LEMMA OpenIsAlive ==
  ASSUME GeneralInv, CallbackInv, NEW c \in Conns, Open(c)
  PROVE  Alive(c)
<1>1. state[c] # "none" /\ downs[c] = 0
  BY DEF CallbackInv, LifeInv, Open
<1>2. c \in connections \/ \E l \in Loops : Waits(l, "connectDestroyed", c)
  BY <1>1 DEF GeneralInv, DownOnce
<1> QED BY <1>2, WaitingOwns DEF Alive, SharedOps

\* When the user only acts in callbacks, no assert on the way of a connection fails,
\* for any number of loops and connections: connectEstablished, handleClose and
\* connectDestroyed find the state they expect, removeConnectionInLoop finds its entry,
\* and EPoller::removeChannel a registered channel without interest.
THEOREM ServerNoAssertFails == Spec => []NoAssertFails
<1>1. IInv => NoAssertFails
  <2> SUFFICES ASSUME GeneralInv, CallbackInv, NEW l \in Loops, NEW c \in Conns
               PROVE  /\ At(l, "connectEstablished", c) => state[c] = "kConnecting"
                      /\ At(l, "handleClose", c) => state[c] \in {"kConnected", "kDisconnecting"}
                      /\ At(l, "connectDestroyed", c) => state[c] \in {"kConnected", "kDisconnecting"}
                      /\ At(l, "removeConnectionInLoop", c) => c \in connections
                      /\ At(l, "remove", c) => index[c] # kNew /\ interest[c] = {}
    BY DEF IInv, NoAssertFails, AssertionsHold
  <2>1. \A o \in Names : At(l, o, c) => Has(todo[l], o, c) /\ Waits(l, o, c)
    BY AtHead DEF GeneralInv, Waits
  <2>2. At(l, "connectEstablished", c) => state[c] = "kConnecting"
    BY <2>1, NamesFacts DEF CallbackInv, LifeInv
  <2>3. At(l, "handleClose", c) => state[c] \in {"kConnected", "kDisconnecting"}
    BY <2>1, NamesFacts DEF CallbackInv, EventInv, Open, RawOps
  <2>4. At(l, "connectDestroyed", c) => state[c] \in {"kConnected", "kDisconnecting"}
    BY <2>1, NamesFacts DEF CallbackInv, LifeInv, Closing, Open
  <2>5. At(l, "removeConnectionInLoop", c) => c \in connections
    BY <2>1, NamesFacts DEF CallbackInv, LifeInv
  <2>6. At(l, "remove", c) => index[c] # kNew /\ interest[c] = {}
    BY <2>1, NamesFacts DEF CallbackInv, LifeInv
  <2> QED BY <2>2, <2>3, <2>4, <2>5, <2>6
<1> QED BY <1>1, ServerIInv, PTL

\* Every operation on a connection runs in the thread of its loop (removeConnectionInLoop
\* in the server's), for every setup; and when the user only acts in callbacks, nothing
\* bound to a raw TcpConnection* runs after the connection was destroyed.
THEOREM ServerNoStaleThis == Spec => []NoStaleThis
<1>1. IInv => NoStaleThis
  <2> SUFFICES ASSUME IInv PROVE NoStaleThis
    OBVIOUS
  <2>1. ASSUME NEW l \in Loops, NEW c \in Conns, NEW o \in SharedOps \cup RawOps, At(l, o, c)
        PROVE  l = IF o = "removeConnectionInLoop" THEN Base ELSE loop[c]
    BY <2>1, Known DEF IInv, Names, Home
  <2>2. ASSUME CallbacksOnly, NEW l \in Loops, NEW c \in Conns, NEW o \in RawOps, At(l, o, c)
        PROVE  Alive(c)
    <3>1. GeneralInv /\ CallbackInv /\ Has(todo[l], o, c)
      BY <2>2, AtHead DEF IInv, GeneralInv
    <3>2. Open(c)
      BY <3>1 DEF CallbackInv, EventInv
    <3> QED BY <3>1, <3>2, OpenIsAlive
  <2> QED BY <2>1, <2>2 DEF NoStaleThis, NoDanglingFunctor
<1> QED BY <1>1, ServerIInv, PTL

\* When the user only acts in callbacks, a channel that its EPoller still knows belongs
\* to a connection that is alive.
THEOREM ServerNoDanglingChannel == Spec => []NoDanglingChannel
<1>1. IInv => NoDanglingChannel
  <2> SUFFICES ASSUME GeneralInv, CallbackInv, NEW c \in Conns, index[c] # kNew PROVE Alive(c)
    BY DEF IInv, NoDanglingChannel
  <2>1. state[c] \in States /\ loop[c] \in Loops
    BY DEF GeneralInv, TypeOK
  <2>2. Open(c) \/ Has(todo[loop[c]], "remove", c)
    BY <2>1 DEF CallbackInv, LifeInv, Open, States
  <2>3. CASE Has(todo[loop[c]], "remove", c)
    BY <2>1, <2>3, WaitingOwns DEF Waits, SharedOps
  <2> QED BY <2>2, <2>3, OpenIsAlive
<1> QED BY <1>1, ServerIInv, PTL

-----------------------------------------------------------------------------
(* EventLoopThreadPool: the pool is fair, for any number of threads and    *)
(* connections.                                                            *)

\* One step of setThreadNum, start or getNextLoop keeps next_ a valid index
\* and the loops before it exactly one handout ahead.
LEMMA RoundRobinStep == RoundRobin /\ [PoolNext]_poolVars => RoundRobin'
<1> SUFFICES ASSUME RoundRobin, [PoolNext]_poolVars PROVE RoundRobin'
  OBVIOUS
<1> USE MaxThreadsAssumption, MaxHandoutsAssumption DEF RoundRobin, PoolTypeOK
<1>1. ASSUME NEW n \in 0..MaxThreads, SetThreadNum(n) PROVE RoundRobin'
  BY <1>1 DEF SetThreadNum
<1>2. CASE Start
  BY <1>2 DEF Start
<1>3. CASE GetNextLoop
  <2>1. CASE size = 0
    BY <1>3, <2>1 DEF GetNextLoop
  <2>2. CASE size # 0 /\ next + 1 < size
    \* The loop handed out joins those that are one ahead.
    <3>1. next \in 0..(size - 1) /\ next # size - 1
      BY <2>2
    <3>2. /\ handed' \in [0..(size - 1) -> Nat]
          /\ handed'[next] = handed[next] + 1
          /\ \A i \in 0..(size - 1) : i # next => handed'[i] = handed[i]
      BY <1>3, <2>2, <3>1 DEF GetNextLoop
    <3>3. handed[next] = handed[size - 1] /\ handed'[size - 1] = handed[size - 1]
      BY <2>2, <3>1, <3>2
    <3>4. size' = size /\ next' = next + 1
      BY <1>3, <2>2 DEF GetNextLoop
    <3>5. ASSUME NEW i \in 0..(size - 1)
          PROVE handed'[i] = IF i < next + 1 THEN handed[size - 1] + 1
                                             ELSE handed[size - 1]
      BY <3>1, <3>2, <3>3
    <3> QED BY <1>3, <2>2, <3>2, <3>3, <3>4, <3>5 DEF GetNextLoop
  <2>3. CASE size # 0 /\ next + 1 >= size
    \* The last loop catches up with the others: all are equal again.
    <3>1. next = size - 1
      BY <2>3
    <3>2. \A i \in 0..(size - 1) : handed'[i] = handed[size - 1] + 1
      BY <1>3, <2>3, <3>1 DEF GetNextLoop
    <3> QED BY <1>3, <2>3, <3>1, <3>2 DEF GetNextLoop
  <2> QED BY <2>1, <2>2, <2>3
<1>4. CASE UNCHANGED poolVars
  BY <1>4 DEF poolVars
<1> QED BY <1>1, <1>2, <1>3, <1>4 DEF PoolNext

\* getNextLoop only ever indexes loops_ inside its bounds, in turn.
THEOREM RoundRobinInvariant == PoolSpec => []RoundRobin
<1> USE MaxThreadsAssumption, MaxHandoutsAssumption
<1>1. ASSUME PoolInit PROVE RoundRobin
  <2>1. handed \in [0..(size - 1) -> Nat]
    BY <1>1 DEF PoolInit
  <2>2. PoolTypeOK
    <3>1. /\ numThreads \in 0..MaxThreads /\ size \in 0..MaxThreads
          /\ next \in Nat /\ handouts \in 0..MaxHandouts
      BY <1>1 DEF PoolInit
    <3>2. started \in BOOLEAN
      BY <1>1 DEF PoolInit
    <3> QED BY <2>1, <3>1, <3>2 DEF PoolTypeOK
  <2>3. size = 0 /\ next = 0 /\ 0..(size - 1) = {}
    BY <1>1 DEF PoolInit
  <2> QED BY <2>2, <2>3 DEF RoundRobin
<1> QED BY <1>1, RoundRobinStep, PTL DEF PoolSpec

-----------------------------------------------------------------------------
(* The server with its pool.                                               *)

\* TcpServer::newConnection takes the loop that getNextLoop returns, start() and
\* setThreadNum only touch the pool: the server with its pool behaves as the
\* server that takes any loop of the pool, and as the pool alone.
THEOREM PooledIsServer == PooledSpec => Spec /\ PoolSpec
<1>1. PooledInit => Init /\ PoolInit
  BY DEF PooledInit
<1>2. [PooledNext]_allVars => [Next]_vars
  BY DEF PooledNext, allVars, ServerSetThreadNum, ServerStart, Accept, OtherStep, Next, ServerStep
<1>3. [PooledNext]_allVars => [PoolNext]_poolVars
  BY DEF PooledNext, allVars, ServerSetThreadNum, ServerStart, Accept, PoolNext
<1> QED BY <1>1, <1>2, <1>3, PTL DEF PooledSpec, Spec, PoolSpec

\* What holds of a TcpServer started with any number of threads: its asserts, the
\* lifetimes of connections and channels, what the user is told, and the turns of
\* its loops.
THEOREM PooledServerSafe ==
  PooledSpec => []NoAssertFails /\ []NoStaleThis /\ []UpThenDown /\ []NoDanglingChannel
                /\ []RoundRobin
BY PooledIsServer, ServerNoAssertFails, ServerNoStaleThis, ServerUpThenDown,
   ServerNoDanglingChannel, RoundRobinInvariant, PTL
=============================================================================
