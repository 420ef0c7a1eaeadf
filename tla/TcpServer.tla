----------------------------- MODULE TcpServer -----------------------------
(***************************************************************************)
(* The life of the connections of a TcpServer: TcpServer (newConnection,   *)
(* removeConnection), TcpConnection (all of it), Channel::handleEvent and  *)
(* the registration kept by EPoller, on the base loop and the I/O loops,   *)
(* with the user's callbacks, other threads of the user, and the peer.     *)
(*                                                                         *)
(* Of EventLoop only what TaskQueue promises is used (EventLoopProofs      *)
(* proves it): functors run once, in the order queued, and between two     *)
(* polls a loop first handles the active channels and then the functors it *)
(* swapped out.  todo[l] is what loop l still does of the channel it       *)
(* handles, with the calls inside one another, or of the functors.         *)
(*                                                                         *)
(* Data: a message is a token, outputBuffer_ is empty or not, and what a   *)
(* write or read of the socket returns is chosen among what the kernel can *)
(* return in the socket's state.                                           *)
(***************************************************************************)
EXTENDS Naturals, Sequences, FiniteSets, SequencesExt

CONSTANTS Base,           \* loop_ of the server: accepts
          IoLoops,        \* loops that threadPool_ may have
          Conns,          \* connections
          UserThreads,    \* threads of the user besides the loops'
          Setups,         \* how servers are set up, see SetupsAssumption
          MaxQueue        \* bound: no loop polls when a queue is longer

Loops == {Base} \cup IoLoops

ASSUME LoopsAssumption == Base \notin IoLoops

NoConn == "none"

ASSUME ConnsAssumption == NoConn \notin Conns

\* A setup is what the user decided before start(): the loops of threadPool_
\* (none: Base does it all), whether writeCompleteCallback_ is set, whether
\* callbacks use only the connection they are called for, which threads call
\* send and shutdown; and the bounds of a behaviour: which connections come
\* in, how often the user sends, how often the peers do, which peers close.
ASSUME SetupsAssumption ==
    Setups \subseteq [pool : SUBSET IoLoops, writeComplete : BOOLEAN,
                     own : BOOLEAN, users : SUBSET UserThreads, conns : SUBSET Conns,
                     sends : Nat, messages : Nat, closes : SUBSET Conns]

ASSUME MaxQueueAssumption == MaxQueue \in Nat

VARIABLES
    setup,        \* the setup of this behaviour
    connections,  \* connections_: what the server's map holds
    state,        \* state_, "none" before the connection exists
    loop,         \* loop_ of the connection
    interest,     \* events_ of the channel
    index,        \* index_ of the channel: its registration with the poller
    output,       \* is outputBuffer_ non-empty?
    queue,        \* pendingFunctors_ of each loop
    phase,        \* where each loop is in its loop()
    active,       \* the rest of activeChannels_ of each loop, with their revents_
    todo,         \* what each loop thread does next, see above
    held,         \* connections kept alive by the functors swapped out
    user,         \* the call each user thread is in the middle of
    socket,       \* the kernel's side of each connection
    sends,        \* sends left (bound)
    messages,     \* peer messages left (bound)
    ups, downs    \* connectionCallback_ calls, connected and disconnected

connVars == <<state, interest, index, output>>

loopVars == <<phase, active>>

vars == <<setup, connections, connVars, loop, queue, loopVars, todo, held, user, socket,
          sends, messages, ups, downs>>

\* What threadPool_->getNextLoop() may return (see EventLoopThreadPool).
Pool == IF setup.pool = {} THEN {Base} ELSE setup.pool

kNew == "kNew"
kAdded == "kAdded"
kDeleted == "kDeleted"

States == {"none", "kConnecting", "kConnected", "kDisconnecting", "kDisconnected"}

\* Functors that own the connection (bound to a shared_ptr) and functors that
\* are bound to the raw this.  "remove" is the end of connectDestroyed and
\* "callback" a user callback called with shared_from_this().
SharedOps == {"connectEstablished", "removeConnectionInLoop", "connectDestroyed",
              "writeComplete", "remove", "callback"}

RawOps == {"sendInLoop", "shutdownInLoop", "handleClose", "handleError", "handleRead",
           "handleWrite"}

Ops == [op : SharedOps \cup RawOps, conn : Conns] \cup [op : {"accept"}, conn : {NoConn}]

Op(o, c) == [op |-> o, conn |-> c]

\* An active channel: that of a connection, or the one of the Acceptor.
Events == [conn : Conns \cup {NoConn}, revents : SUBSET {"IN", "OUT", "HUP", "ERR"}]

Event(c, revents) == [conn |-> c, revents |-> revents]

\* In epoll_wait, handling activeChannels_, in doPendingFunctors.
Phases == {"poll", "events", "functors"}

UserCalls == [op : {"idle"}, conn : {NoConn}]
             \cup [op : {"send", "setState", "shutdown"}, conn : Conns]

Idle == [op |-> "idle", conn |-> NoConn]

\* data: unread input; fin, rst: what the peer did; err: SO_ERROR, reported once;
\* wrShut: shutdown(SHUT_WR).
Sockets == [data : BOOLEAN, fin : BOOLEAN, rst : BOOLEAN, err : BOOLEAN,
            wrShut : BOOLEAN]

TypeOK ==
    /\ connections \subseteq Conns
    /\ state \in [Conns -> States]
    /\ loop \in [Conns -> Loops]
    /\ interest \in [Conns -> SUBSET {"IN", "OUT"}]
    /\ index \in [Conns -> {kNew, kAdded, kDeleted}]
    /\ output \in [Conns -> BOOLEAN]
    /\ queue \in [Loops -> Seq(Ops)]
    /\ phase \in [Loops -> Phases]
    /\ active \in [Loops -> SUBSET Events]
    /\ todo \in [Loops -> Seq(Ops)]
    /\ held \in [Loops -> SUBSET Conns]
    /\ user \in [UserThreads -> UserCalls]
    /\ socket \in [Conns -> Sockets]
    /\ setup \in Setups
    /\ sends \in 0..setup.sends
    /\ messages \in 0..setup.messages
    /\ ups \in [Conns -> Nat]
    /\ downs \in [Conns -> Nat]

Init ==
    /\ setup \in Setups
    /\ connections = {}
    /\ state = [c \in Conns |-> "none"]
    /\ loop = [c \in Conns |-> Base]
    /\ interest = [c \in Conns |-> {}]
    /\ index = [c \in Conns |-> kNew]
    /\ output = [c \in Conns |-> FALSE]
    /\ queue = [l \in Loops |-> <<>>]
    /\ phase = [l \in Loops |-> "poll"]
    /\ active = [l \in Loops |-> {}]
    /\ todo = [l \in Loops |-> <<>>]
    /\ held = [l \in Loops |-> {}]
    /\ user = [t \in UserThreads |-> Idle]
    /\ socket = [c \in Conns |->
                    [data |-> FALSE, fin |-> FALSE, rst |-> FALSE, err |-> FALSE,
                     wrShut |-> FALSE]]
    /\ sends = setup.sends
    /\ messages = setup.messages
    /\ ups = [c \in Conns |-> 0]
    /\ downs = [c \in Conns |-> 0]

-----------------------------------------------------------------------------
(* Ownership, functors, channels.                                          *)

Owned(s) == {s[i].conn : i \in {j \in DOMAIN s : s[j].op \in SharedOps}}

\* The shared_ptrs to c: the map, functors that wait, that are being executed
\* or were in this batch, and user threads inside a call.
Alive(c) ==
    \/ c \in connections
    \/ \E l \in Loops : c \in Owned(queue[l]) \cup Owned(todo[l]) \cup held[l]
    \/ \E t \in UserThreads : user[t].conn = c

Rest(l) == Tail(todo[l])

\* loop l is about to execute operation o on c.
At(l, o, c) == todo[l] # <<>> /\ Head(todo[l]) = Op(o, c)

\* todo[l] and queue after loop l goes on with ops, then calls
\* target->runInLoop(op) / target->queueInLoop(op).
Continue(l, ops) == todo' = [todo EXCEPT ![l] = ops \o Rest(l)]

QueueInLoop(target, op) == queue' = [queue EXCEPT ![target] = Append(@, op)]

RunInLoop(l, target, op) ==
    IF l = target
    THEN Continue(l, <<op>>) /\ UNCHANGED queue
    ELSE Continue(l, <<>>) /\ QueueInLoop(target, op)

\* EPoller::updateChannel: the registration after events_ became events.  A
\* channel that is not in the epoll set is added, even with no event.
UpdatedIndex(c, events) ==
    IF index[c] \in {kNew, kDeleted} THEN kAdded
    ELSE IF events = {} THEN kDeleted ELSE kAdded

\* Channel::enableReading, enableWriting, disableWriting, disableAll.
SetInterest(c, events) ==
    /\ interest' = [interest EXCEPT ![c] = events]
    /\ index' = [index EXCEPT ![c] = UpdatedIndex(c, events)]

isWriting(c) == "OUT" \in interest[c]

-----------------------------------------------------------------------------
(* The loop: poll, dispatch, swap.                                         *)

\* What epoll reports for c when the send buffer has room or not: HUP and ERR
\* whatever the interest, IN and OUT if asked for.  ~TcpConnection closes the socket.
Revents(c, writable) ==
    LET s == socket[c]
        asked == (IF s.data \/ s.fin \/ s.rst THEN {"IN"} ELSE {})
                 \cup (IF writable \/ s.rst \/ s.wrShut THEN {"OUT"} ELSE {})
        always == (IF s.rst \/ (s.fin /\ s.wrShut) THEN {"HUP"} ELSE {})
                  \cup (IF s.err THEN {"ERR"} ELSE {})
    IN  IF index[c] = kAdded /\ Alive(c) THEN (asked \cap interest[c]) \cup always
                                         ELSE {}

\* Channel::handleEvent: the callbacks for revents, in their order.
HandleEvent(c, revents) ==
    (IF "HUP" \in revents /\ "IN" \notin revents THEN <<Op("handleClose", c)>> ELSE <<>>)
    \o (IF "ERR" \in revents THEN <<Op("handleError", c)>> ELSE <<>>)
    \o (IF revents \cap {"IN", "HUP"} # {} THEN <<Op("handleRead", c)>> ELSE <<>>)
    \o (IF "OUT" \in revents THEN <<Op("handleWrite", c)>> ELSE <<>>)

\* Connections that wait for Acceptor::handleRead.
Incoming(l) == {c \in setup.conns : l = Base /\ state[c] = "none"}

\* poll returns for the channels that are active, the listening socket when a
\* connection waits for accept, or because a functor was queued.
Poll(l) ==
    /\ phase[l] = "poll"
    /\ \A k \in Loops : Len(queue[k]) <= MaxQueue
    /\ \E writable \in SUBSET {c \in Conns : loop[c] = l /\ isWriting(c)},
          accept \in {{}} \cup {{Event(NoConn, {"IN"})} : c \in Incoming(l)} :
        LET revents(c) == Revents(c, c \in writable)
            ready == {c \in Conns : loop[c] = l /\ revents(c) # {}}
        IN  active' = [active EXCEPT ![l] = accept \cup {Event(c, revents(c)) : c \in ready}]
    /\ active'[l] # {} \/ queue[l] # <<>>
    /\ phase' = [phase EXCEPT ![l] = "events"]
    /\ UNCHANGED <<setup, connections, connVars, loop, queue, todo, held, user, socket, sends,
                   messages, ups, downs>>

\* The next channel of activeChannels_, in the order that epoll_wait chose.
Dispatch(l) ==
    /\ phase[l] = "events" /\ todo[l] = <<>>
    /\ \E e \in active[l] :
        /\ active' = [active EXCEPT ![l] = @ \ {e}]
        /\ todo' = [todo EXCEPT ![l] = IF e.conn = NoConn THEN <<Op("accept", NoConn)>>
                                      ELSE HandleEvent(e.conn, e.revents)]
    /\ UNCHANGED <<setup, connections, connVars, loop, queue, phase, held, user, socket,
                   sends, messages, ups, downs>>

\* doPendingFunctors: the local vector owns what its functors are bound to
\* until it is destroyed.
Swap(l) ==
    /\ phase[l] = "events" /\ todo[l] = <<>> /\ active[l] = {}
    /\ phase' = [phase EXCEPT ![l] = "functors"]
    /\ todo' = [todo EXCEPT ![l] = queue[l]]
    /\ queue' = [queue EXCEPT ![l] = <<>>]
    /\ held' = [held EXCEPT ![l] = Owned(queue[l])]
    /\ UNCHANGED <<setup, connections, connVars, loop, active, user, socket, sends, messages,
                   ups, downs>>

EndBatch(l) ==
    /\ phase[l] = "functors" /\ todo[l] = <<>>
    /\ phase' = [phase EXCEPT ![l] = "poll"]
    /\ held' = [held EXCEPT ![l] = {}]
    /\ UNCHANGED <<setup, connections, connVars, loop, queue, active, todo, user, socket,
                   sends, messages, ups, downs>>

-----------------------------------------------------------------------------
(* TcpServer.                                                              *)

\* Acceptor::handleRead accepted a connection and calls newConnection; or
\* accept failed.
NewConnection(c) ==
    /\ At(Base, "accept", NoConn)
    /\ c \in setup.conns /\ state[c] = "none"
    /\ \E l \in Pool :
        /\ loop' = [loop EXCEPT ![c] = l]
        /\ RunInLoop(Base, l, Op("connectEstablished", c))
    /\ state' = [state EXCEPT ![c] = "kConnecting"]
    /\ connections' = connections \cup {c}
    /\ UNCHANGED <<setup, loopVars, interest, index, output, held, user, socket, sends, messages,
                   ups, downs>>

AcceptFails ==
    /\ At(Base, "accept", NoConn)
    /\ Continue(Base, <<>>)
    /\ UNCHANGED <<setup, loopVars, connections, connVars, loop, queue, held, user, socket, sends,
                   messages, ups, downs>>

\* Mutant of RemoveConnectionInLoop: connectDestroyed is forgotten.
RemoveConnectionInLoopEraseOnly(c) ==
    /\ At(Base, "removeConnectionInLoop", c)
    /\ connections' = connections \ {c}
    /\ Continue(Base, <<>>)
    /\ UNCHANGED <<setup, loopVars, connVars, loop, queue, held, user, socket, sends, messages, ups,
                   downs>>

\* Mutant of RemoveConnectionInLoop: connectDestroyed is called at once, from
\* the base loop's thread and from inside Channel::handleEvent.
RemoveConnectionInLoopInline(c) ==
    /\ At(Base, "removeConnectionInLoop", c)
    /\ connections' = connections \ {c}
    /\ Continue(Base, <<Op("connectDestroyed", c)>>)
    /\ UNCHANGED <<setup, loopVars, connVars, loop, queue, held, user, socket, sends, messages, ups,
                   downs>>

RemoveConnectionInLoop(c) ==
    /\ At(Base, "removeConnectionInLoop", c)
    /\ connections' = connections \ {c}
    /\ QueueInLoop(loop[c], Op("connectDestroyed", c))
    /\ Continue(Base, <<>>)
    /\ UNCHANGED <<setup, loopVars, connVars, loop, held, user, socket, sends, messages, ups, downs>>

-----------------------------------------------------------------------------
(* TcpConnection, on its loop.                                             *)

ConnectEstablished(l, c) ==
    /\ At(l, "connectEstablished", c)
    /\ state' = [state EXCEPT ![c] = "kConnected"]
    /\ SetInterest(c, interest[c] \cup {"IN"})
    /\ ups' = [ups EXCEPT ![c] = @ + 1]
    /\ Continue(l, <<Op("callback", c)>>)
    /\ UNCHANGED <<setup, loopVars, connections, output, loop, queue, held, user, socket, sends,
                   messages, downs>>

\* Mutant of HandleRead: end of file is taken for an error.
HandleReadIgnoreEof(l, c) ==
    /\ At(l, "handleRead", c)
    /\ Continue(l, IF socket[c].data THEN <<Op("callback", c)>> ELSE <<>>)
    /\ socket' = [socket EXCEPT ![c].data = FALSE]
    /\ UNCHANGED <<setup, loopVars, connections, connVars, loop, queue, held, user, sends, messages,
                   ups, downs>>

\* readFd returns data, an error (handleError), or end of file.
HandleRead(l, c) ==
    /\ At(l, "handleRead", c)
    /\ Continue(l, IF socket[c].data THEN <<Op("callback", c)>>
                   ELSE IF socket[c].err THEN <<Op("handleError", c)>>
                   ELSE IF socket[c].fin \/ socket[c].rst THEN <<Op("handleClose", c)>>
                   ELSE <<>>)
    /\ socket' = [socket EXCEPT ![c].data = FALSE]
    /\ UNCHANGED <<setup, loopVars, connections, connVars, loop, queue, held, user, sends, messages,
                   ups, downs>>

\* handleError fetches SO_ERROR, which clears it, and logs it.
HandleError(l, c) ==
    /\ At(l, "handleError", c)
    /\ Continue(l, <<>>)
    /\ socket' = [socket EXCEPT ![c].err = FALSE]
    /\ UNCHANGED <<setup, loopVars, connections, connVars, loop, queue, held, user, sends, messages,
                   ups, downs>>

\* What write(2) may do: an error when the peer reset the connection or the
\* write side is shut, else everything, a part, or EWOULDBLOCK.
WriteResults(c) ==
    IF socket[c].rst \/ socket[c].wrShut THEN {"error"} ELSE {"all", "some"}

NotifyWriteComplete(l, c) ==
    IF setup.writeComplete THEN QueueInLoop(l, Op("writeComplete", c)) ELSE UNCHANGED queue

HandleWrite(l, c) ==
    /\ At(l, "handleWrite", c)
    /\ \/ /\ isWriting(c) /\ "all" \in WriteResults(c)
          /\ output' = [output EXCEPT ![c] = FALSE]
          /\ SetInterest(c, interest[c] \ {"OUT"})
          /\ NotifyWriteComplete(l, c)
          /\ Continue(l, IF state[c] = "kDisconnected"
                         THEN <<Op("shutdownInLoop", c)>> ELSE <<>>)
       \/ /\ ~isWriting(c) \/ WriteResults(c) \cap {"some", "error"} # {}
          /\ Continue(l, <<>>)
          /\ UNCHANGED <<output, interest, index, queue>>
    /\ UNCHANGED <<setup, loopVars, connections, state, loop, held, user, socket, sends, messages,
                   ups, downs>>

\* Mutant of HandleClose: the channel stays enabled.
HandleCloseEnabled(l, c) ==
    /\ At(l, "handleClose", c)
    /\ RunInLoop(l, Base, Op("removeConnectionInLoop", c))
    /\ UNCHANGED <<setup, loopVars, connections, connVars, loop, held, user, socket, sends, messages,
                   ups, downs>>

\* disableAll, then closeCallback_: TcpServer::removeConnection.  state_ stays.
HandleClose(l, c) ==
    /\ At(l, "handleClose", c)
    /\ SetInterest(c, {})
    /\ RunInLoop(l, Base, Op("removeConnectionInLoop", c))
    /\ UNCHANGED <<setup, loopVars, connections, state, output, loop, held, user, socket, sends,
                   messages, ups, downs>>

ConnectDestroyed(l, c) ==
    /\ At(l, "connectDestroyed", c)
    /\ state' = [state EXCEPT ![c] = "kDisconnected"]
    /\ SetInterest(c, {})
    /\ downs' = [downs EXCEPT ![c] = @ + 1]
    /\ Continue(l, <<Op("callback", c), Op("remove", c)>>)
    /\ UNCHANGED <<setup, loopVars, connections, output, loop, queue, held, user, socket, sends,
                   messages, ups>>

\* Mutant of RemoveChannel: the channel stays in the poller's map.
RemoveChannelSkipped(l, c) ==
    /\ At(l, "remove", c)
    /\ Continue(l, <<>>)
    /\ UNCHANGED <<setup, loopVars, connections, connVars, loop, queue, held, user, socket, sends,
                   messages, ups, downs>>

\* EPoller::removeChannel, the last call of connectDestroyed.
RemoveChannel(l, c) ==
    /\ At(l, "remove", c)
    /\ index' = [index EXCEPT ![c] = kNew]
    /\ Continue(l, <<>>)
    /\ UNCHANGED <<setup, loopVars, connections, state, interest, output, loop, queue, held, user,
                   socket, sends, messages, ups, downs>>

\* A direct write when nothing waits, then the rest (all of it after an error)
\* is appended to outputBuffer_.  state_ is not looked at.
SendInLoop(l, c) ==
    /\ At(l, "sendInLoop", c)
    /\ \/ /\ ~isWriting(c) /\ ~output[c] /\ "all" \in WriteResults(c)
          /\ NotifyWriteComplete(l, c)
          /\ UNCHANGED <<output, interest, index>>
       \/ /\ isWriting(c) \/ output[c] \/ WriteResults(c) \cap {"some", "error"} # {}
          /\ output' = [output EXCEPT ![c] = TRUE]
          /\ IF isWriting(c) THEN UNCHANGED <<interest, index>>
                             ELSE SetInterest(c, interest[c] \cup {"OUT"})
          /\ UNCHANGED queue
    /\ Continue(l, <<>>)
    /\ UNCHANGED <<setup, loopVars, connections, state, loop, held, user, socket, sends, messages,
                   ups, downs>>

ShutdownInLoop(l, c) ==
    /\ At(l, "shutdownInLoop", c)
    /\ socket' = IF isWriting(c) THEN socket
                 ELSE [socket EXCEPT ![c].wrShut = TRUE]
    /\ Continue(l, <<>>)
    /\ UNCHANGED <<setup, loopVars, connections, connVars, loop, queue, held, user, sends, messages,
                   ups, downs>>

-----------------------------------------------------------------------------
(* The user: in callbacks on the connection's loop, and in other threads.  *)

InCallback(l, c) == At(l, "callback", c) \/ At(l, "writeComplete", c)

\* A callback on c's loop, of c or of another connection, has a shared_ptr to c.
\* (A callback on another loop is to c what a thread of the user is.)
MayUse(l, c) ==
    /\ loop[c] = l /\ Alive(c)
    /\ \E d \in Conns : InCallback(l, d) /\ (setup.own => d = c)

CallbackSend(l, c) ==
    /\ MayUse(l, c)
    /\ sends > 0 /\ state[c] = "kConnected"
    /\ sends' = sends - 1
    /\ todo' = [todo EXCEPT ![l] = <<Op("sendInLoop", c)>> \o @]
    /\ UNCHANGED <<setup, loopVars, connections, connVars, loop, queue, held, user, socket, messages,
                   ups, downs>>

CallbackShutdown(l, c) ==
    /\ MayUse(l, c)
    /\ state[c] = "kConnected"
    /\ state' = [state EXCEPT ![c] = "kDisconnecting"]
    /\ todo' = [todo EXCEPT ![l] = <<Op("shutdownInLoop", c)>> \o @]
    /\ UNCHANGED <<setup, loopVars, connections, interest, index, output, loop, queue, held, user,
                   socket, sends, messages, ups, downs>>

CallbackReturn(l, c) ==
    /\ InCallback(l, c)
    /\ Continue(l, <<>>)
    /\ UNCHANGED <<setup, loopVars, connections, connVars, loop, queue, held, user, socket, sends,
                   messages, ups, downs>>

\* send and shutdown of another thread, which has a shared_ptr for the length
\* of the call: the test of state_ ...
UserCheck(t, c) ==
    /\ t \in setup.users /\ user[t] = Idle
    /\ Alive(c) /\ state[c] = "kConnected"
    /\ \/ /\ sends > 0 /\ sends' = sends - 1
          /\ user' = [user EXCEPT ![t] = [op |-> "send", conn |-> c]]
       \/ /\ user' = [user EXCEPT ![t] = [op |-> "setState", conn |-> c]]
          /\ UNCHANGED sends
    /\ UNCHANGED <<setup, loopVars, connections, connVars, loop, queue, todo, held, socket, messages,
                   ups, downs>>

\* ... in shutdown, setState(kDisconnecting) ...
UserSetState(t) ==
    /\ user[t].op = "setState"
    /\ state' = [state EXCEPT ![user[t].conn] = "kDisconnecting"]
    /\ user' = [user EXCEPT ![t].op = "shutdown"]
    /\ UNCHANGED <<setup, loopVars, connections, interest, index, output, loop, queue, todo, held,
                   socket, sends, messages, ups, downs>>

\* ... and runInLoop with a functor bound to the raw this.
UserQueue(t) ==
    /\ user[t].op \in {"send", "shutdown"}
    /\ LET c == user[t].conn
       IN  QueueInLoop(loop[c], Op(IF user[t].op = "send" THEN "sendInLoop"
                                                          ELSE "shutdownInLoop", c))
    /\ user' = [user EXCEPT ![t] = Idle]
    /\ UNCHANGED <<setup, loopVars, connections, connVars, loop, todo, held, socket, sends, messages,
                   ups, downs>>

-----------------------------------------------------------------------------
(* The peer.                                                               *)

PeerConnected(c) == state[c] \notin {"none", "kDisconnected"} /\ ~socket[c].rst

PeerSends(c) ==
    /\ PeerConnected(c) /\ ~socket[c].fin
    /\ messages > 0 /\ messages' = messages - 1
    /\ socket' = [socket EXCEPT ![c].data = TRUE]
    /\ UNCHANGED <<setup, loopVars, connections, connVars, loop, queue, todo, held, user, sends, ups,
                   downs>>

PeerCloses(c) ==
    /\ PeerConnected(c) /\ c \in setup.closes
    /\ \/ ~socket[c].fin /\ socket' = [socket EXCEPT ![c].fin = TRUE]
       \/ socket' = [socket EXCEPT ![c].rst = TRUE, ![c].err = TRUE]
    /\ UNCHANGED <<setup, loopVars, connections, connVars, loop, queue, todo, held, user, sends,
                   messages, ups, downs>>

-----------------------------------------------------------------------------
ConnStep(l, c) ==
    \/ ConnectEstablished(l, c) \/ HandleRead(l, c) \/ HandleError(l, c)
    \/ HandleWrite(l, c) \/ HandleClose(l, c) \/ ConnectDestroyed(l, c) \/ RemoveChannel(l, c)
    \/ SendInLoop(l, c) \/ ShutdownInLoop(l, c)
    \/ CallbackSend(l, c) \/ CallbackShutdown(l, c) \/ CallbackReturn(l, c)

LoopStep(l) ==
    \/ Poll(l) \/ Dispatch(l) \/ Swap(l) \/ EndBatch(l)
    \/ \E c \in Conns : ConnStep(l, c)

ServerStep == (\E c \in Conns : NewConnection(c) \/ RemoveConnectionInLoop(c)) \/ AcceptFails

UserStep ==
    \E t \in UserThreads :
        UserSetState(t) \/ UserQueue(t) \/ \E c \in Conns : UserCheck(t, c)

PeerStep == \E c \in Conns : PeerSends(c) \/ PeerCloses(c)

\* Every assert on the way of a connection holds when it is reached:
\* connectEstablished, handleClose and connectDestroyed find the state they
\* expect, removeConnectionInLoop erases one entry of the map (n == 1), and
\* EPoller::removeChannel finds the channel registered and without interest.
AssertionsHold ==
    \A l \in Loops, c \in Conns :
        /\ At(l, "connectEstablished", c) => state[c] = "kConnecting"
        /\ At(l, "handleClose", c) => state[c] \in {"kConnected", "kDisconnecting"}
        /\ At(l, "connectDestroyed", c) => state[c] \in {"kConnected", "kDisconnecting"}
        /\ At(l, "removeConnectionInLoop", c) => c \in connections
        /\ At(l, "remove", c) => index[c] # kNew /\ interest[c] = {}

\* A functor bound to a raw TcpConnection* never runs after the connection was
\* destroyed (send and shutdown bind this; "Thread safe.", TcpConnection.h:59).
NoDanglingFunctor ==
    \A l \in Loops, c \in Conns, o \in RawOps : At(l, o, c) => Alive(c)

\* A failed assert aborts the process (the build is a Debug build), and after a
\* use of freed memory nothing is known: the model stops where one happens.
Next ==
    /\ AssertionsHold /\ NoDanglingFunctor
    /\ (\E l \in Loops : LoopStep(l)) \/ ServerStep \/ UserStep \/ PeerStep

Spec == Init /\ [][Next]_vars

\* A loop thread keeps running, and callbacks return (sends is bounded): a poll
\* with a ready channel or a queued functor returns.  Peers, user threads and
\* incoming connections owe nothing.
FairSpec ==
    /\ Spec
    /\ \A l \in Loops : WF_vars(LoopStep(l))
    /\ WF_vars(ServerStep)

-----------------------------------------------------------------------------
(* Properties.                                                             *)

\* The user calls send and shutdown only in callbacks on the connection's loop;
\* and with I/O threads only in the connection and message callbacks of the
\* connection itself, since a write-complete callback and callbacks of other
\* connections may come between handleClose and connectDestroyed.  The other
\* setups meet the code's races (NoDanglingFunctor, AssertionsHold): what is
\* left there is UpThenDown and the threads of NoStaleThis.
CallbacksOnly ==
    /\ setup.users = {}
    /\ setup.pool # {} => setup.own /\ ~setup.writeComplete

\* No assert on the way of a connection fails, however events, functors and the
\* hand-overs between the loops interleave.
NoAssertFails == CallbacksOnly => AssertionsHold

\* One loop per thread: whatever the order of calls, a member function that
\* asserts to be in its loop's thread is executed by that loop
\* (assertInLoopThread in TcpConnection, EPoller and TcpServer); and nothing bound
\* to the raw this runs on a destroyed connection: handleEvent's callbacks,
\* sendInLoop and shutdownInLoop.
NoStaleThis ==
    /\ \A l \in Loops, c \in Conns, o \in SharedOps \cup RawOps :
         At(l, o, c) => l = IF o = "removeConnectionInLoop" THEN Base ELSE loop[c]
    /\ CallbacksOnly => NoDanglingFunctor

\* The user is told once that a connection is up, and then at most once that
\* it is down; a connection nobody owns any more was reported down.
UpThenDown ==
    /\ TypeOK
    /\ \A c \in Conns :
        /\ downs[c] <= ups[c] /\ ups[c] <= 1
        /\ state[c] # "none" /\ ~Alive(c) => downs[c] = 1

\* A channel is unregistered from its EPoller before it is destroyed with its
\* connection, so fillActiveChannels never meets a dead channel.
NoDanglingChannel == CallbacksOnly => \A c \in Conns : index[c] # kNew => Alive(c)

ShutdownUnderWay(c) ==
    \/ \E l \in Loops : Contains(queue[l] \o todo[l], Op("shutdownInLoop", c))
    \/ \E t \in UserThreads : user[t] = [op |-> "shutdown", conn |-> c]

\* A connection that is being shut down and has nothing left to send has shut
\* its write side ("if the connection is closing, go on with it",
\* TcpConnection.cpp:153).
ShutdownIsCarriedOut ==
    \A c \in Conns :
        state[c] = "kDisconnecting" /\ ~output[c] /\ ~ShutdownUnderWay(c)
            => socket[c].wrShut

\* When the peer closes or resets a connection, the connection is reported
\* down, removed from the server's map and destroyed.
ClosedIsReleased ==
    \A c \in Conns :
        (CallbacksOnly /\ ups[c] = 1 /\ (socket[c].fin \/ socket[c].rst))
            ~> (downs[c] = 1 /\ ~Alive(c))

=============================================================================
