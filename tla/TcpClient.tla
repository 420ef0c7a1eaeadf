----------------------------- MODULE TcpClient -----------------------------
(***************************************************************************)
(* TcpClient: a Connector and at most one TcpConnection at a time, used by *)
(* a thread of the user or by callbacks on the loop thread.  Of            *)
(* TcpConnection (see TcpServer.tla) only its way from up to destroyed.    *)
(***************************************************************************)
EXTENDS Connector

CONSTANTS MaxConns,   \* bound: the last connection is not closed by its peer
          Setups      \* what a user of the client does, see SetupsAssumption

Conns == 1..MaxConns

\* retry: enableRetry() was called.  caller: who calls, code on the loop thread or
\* another thread.  calls: what it calls after the first connect().  careful: it knows
\* what the code takes for granted, see MayConnect, DestroyConnected and LastOwner.
ASSUME SetupsAssumption ==
    /\ MaxConns \in Nat \ {0}
    /\ Setups \subseteq [retry : BOOLEAN, caller : {"loop", "other"},
                         calls : SUBSET {"connect", "stop", "disconnect", "destroy"},
                         careful : BOOLEAN]

VARIABLES
    setup,          \* the setup of this behaviour
    clientConnect,  \* connect_ of TcpClient
    connection,     \* connection_, 0 when null
    conn,           \* the TcpConnections
    closeCallback,  \* whose removeConnection they call
    nextConnId,     \* nextConnId_
    object,         \* TcpClient: "alive", "destroyed", and "released" with its Connector
    user,           \* the call the user's thread is in
    called,         \* has the user called connect()?
    stopped         \* has stop() returned since?

connVars == <<connection, conn, closeCallback, nextConnId>>
userVars == <<user, called, stopped>>
clientVars == <<setup, clientConnect, connVars, object, userVars>>

vars == <<connectorVars, clientVars>>

Ops == {"startInLoop", "startNow", "getExpired", "timer", "retry", "runAfter",
        "handleWrite", "handleError", "newConnection", "resetChannel", "restart", "cancel",
        "swap", "handleClose", "connectDestroyed", "shutdownInLoop", "removeConnector"}

Delays == {500, 1000, 2000, 4000, 8000, 16000, 30000}

TypeOK ==
    /\ connect \in BOOLEAN /\ reachable \in BOOLEAN
    /\ state \in {"kDisconnected", "kConnecting", "kConnected"}
    /\ channel \in {"null", "added", "removed"}
    /\ sock \in {"none", "ok", "error", "self", "fatal"}
    /\ open \in Nat
    /\ delay \in Delays
    /\ timerId \in Nat
    /\ timers \subseteq Nat
    /\ queue \in Seq([op : Ops, arg : Nat])
    /\ todo \in Seq([op : Ops, arg : Nat])
    /\ setup \in Setups
    /\ clientConnect \in BOOLEAN /\ called \in BOOLEAN /\ stopped \in BOOLEAN
    /\ connection \in {0} \cup Conns
    /\ conn \in [Conns -> {"none", "up", "shut", "peerClosed", "closed", "destroyed"}]
    /\ closeCallback \in [Conns -> {"client", "detail"}]
    /\ nextConnId \in 1..MaxConns + 1
    /\ object \in {"alive", "destroyed", "released"}
    /\ user \in {"idle", "start", "stop", "cancel", "disconnect"}

Init ==
    /\ ConnectorInit
    /\ setup \in Setups
    /\ clientConnect = TRUE
    /\ connection = 0
    /\ conn = [c \in Conns |-> "none"]
    /\ closeCallback = [c \in Conns |-> "client"]
    /\ nextConnId = 1
    /\ object = "alive"
    /\ user = "idle"
    /\ called = FALSE
    /\ stopped = FALSE

-----------------------------------------------------------------------------
(* The loop thread.                                                        *)

\* TcpClient::newConnection, called by Connector::handleWrite.
NewConnection ==
    /\ Now("newConnection")
    /\ conn' = [conn EXCEPT ![nextConnId] = "up"]
    /\ connection' = nextConnId
    /\ nextConnId' = nextConnId + 1
    /\ Continue(<<>>)
    /\ UNCHANGED <<connect, attemptVars, timerVars, queue, reachable, setup,
                   clientConnect, closeCallback, object, userVars>>

\* Mutants: retry_ is forgotten; connect_ is forgotten.
HandleCloseWhen(restart) ==
    /\ Now("handleClose")
    /\ LET c == Head(todo).arg
       IN  /\ conn' = [conn EXCEPT ![c] = "closed"]
           /\ connection' = 0
           /\ queue' = Append(queue, Op("connectDestroyed", c))
           /\ Continue(IF restart THEN <<Do("restart")>> ELSE <<>>)
    /\ UNCHANGED <<connect, attemptVars, timerVars, reachable, setup, clientConnect,
                   closeCallback, nextConnId, object, userVars>>

HandleCloseNoRestart == HandleCloseWhen(FALSE)

HandleCloseAlwaysRestart == HandleCloseWhen(setup.retry)

\* TcpConnection::handleClose and removeConnection, of TcpClient or detail.
HandleClose ==
    /\ Now("handleClose")
    /\ LET c == Head(todo).arg
           mine == closeCallback[c] = "client"
       IN  /\ conn' = [conn EXCEPT ![c] = "closed"]
           /\ connection' = IF mine THEN 0 ELSE connection
           /\ queue' = Append(queue, Op("connectDestroyed", c))
           /\ Continue(IF mine /\ setup.retry /\ clientConnect THEN <<Do("restart")>>
                                                               ELSE <<>>)
    /\ UNCHANGED <<connect, attemptVars, timerVars, reachable, setup, clientConnect,
                   closeCallback, nextConnId, object, userVars>>

\* ... releases the last reference: ~TcpConnection closes the socket.
ConnectDestroyed ==
    /\ Now("connectDestroyed")
    /\ conn' = [conn EXCEPT ![Head(todo).arg] = "destroyed"]
    /\ open' = open - 1
    /\ Continue(<<>>)
    /\ UNCHANGED <<connect, state, channel, sock, timerVars, queue, reachable, setup,
                   clientConnect, connection, closeCallback, nextConnId, object,
                   userVars>>

ShutdownInLoop ==
    /\ Now("shutdownInLoop")
    /\ Continue(<<>>)
    /\ UNCHANGED <<connect, attemptVars, timerVars, queue, reachable, clientVars>>

\* detail::removeConnector: the timer was the last to own the Connector, and
\* ~Connector cancels timerId_.
RemoveConnector ==
    /\ Now("removeConnector")
    /\ object' = "released"
    /\ timers' = timers \ {timerId}
    /\ Continue(<<>>)
    /\ UNCHANGED <<connect, attemptVars, delay, timerId, queue, reachable, setup,
                   clientConnect, connVars, userVars>>

\* The timer of ~TcpClient, which owns the Connector for one more second.  Of a careful
\* user, an attempt under way at the destruction is over by then.
LastOwner ==
    IF object = "destroyed" /\ (setup.careful => channel = "null")
    THEN {Do("removeConnector")} ELSE {}

ClientEvents ==
    {Op("handleClose", c) : c \in {d \in Conns : conn[d] = "peerClosed"}}
    \cup (IF timers # {} \/ LastOwner # {} THEN {Do("getExpired")} ELSE {})

Poll == PollFor(ClientEvents) /\ UNCHANGED clientVars

Expire == GetExpired(LastOwner) /\ UNCHANGED clientVars

ConnectorStep ==
    /\ \/ StartInLoop \/ Retry \/ RunAfter \/ HandleWrite \/ HandleError
       \/ ResetChannel \/ Restart \/ CancelInLoop \/ Swap
    /\ UNCHANGED clientVars

LoopThread ==
    \/ Poll \/ Expire \/ ConnectorStep \/ NewConnection \/ HandleClose
    \/ ConnectDestroyed \/ ShutdownInLoop \/ RemoveConnector

\* The peer closes a connection, an answer to shutdown or not.
PeerCloses(c) ==
    /\ conn[c] \in {"up", "shut"}
    /\ c < MaxConns
    /\ conn' = [conn EXCEPT ![c] = "peerClosed"]
    /\ UNCHANGED <<connectorVars, setup, clientConnect, connection, closeCallback,
                   nextConnId, object, userVars>>

-----------------------------------------------------------------------------
(* The user.                                                               *)

\* What the loop thread will do, in that order.
Work == todo \o queue

Pending(o) == \E i \in DOMAIN Work : Work[i].op = o

\* The loop thread is where code of the user may run: not inside a member
\* function of the client or its connector.
InUserCode ==
    \A o \in {"retry", "runAfter", "newConnection", "restart", "startNow"} : ~Now(o)

\* A call that would repeat the one before is not made (bound).
MayCall(call) ==
    /\ object = "alive"
    /\ user = "idle"
    /\ call \in setup.calls
    /\ call = "stop" => ~stopped
    /\ call = "disconnect" => clientConnect
    /\ setup.caller = "loop" => InUserCode

\* The contract of connect(): it is called once, or again after stop() while the
\* connector rests in kDisconnected; startInLoop and connecting assert that.  Who is
\* careful does not call it from a timer that expired together with the retry timer.
MayConnect ==
    \/ ~called /\ object = "alive" /\ user = "idle"
    \/ /\ MayCall("connect") /\ stopped /\ state = "kDisconnected" /\ channel = "null"
       /\ setup.careful => ~Pending("timer")

\* TcpClient::connect and Connector::start up to the call of runInLoop.
ClientConnect ==
    /\ MayConnect
    /\ clientConnect' = TRUE
    /\ connect' = TRUE
    /\ called' = TRUE
    /\ stopped' = FALSE
    /\ IF setup.caller = "loop"
       THEN todo' = <<Do("startNow")>> \o todo /\ UNCHANGED user
       ELSE user' = "start" /\ UNCHANGED todo
    /\ UNCHANGED <<attemptVars, timerVars, queue, reachable, setup, connVars, object>>

\* runInLoop(startInLoop) of another thread.
StartQueue ==
    /\ user = "start"
    /\ queue' = Append(queue, Do("startInLoop"))
    /\ user' = "idle"
    /\ UNCHANGED <<connect, attemptVars, timerVars, todo, reachable, setup,
                   clientConnect, connVars, object, called, stopped>>

\* TcpClient::stop on the loop thread: all of it, cancel included.
StopOnLoop ==
    /\ MayCall("stop") /\ setup.caller = "loop"
    /\ clientConnect' = FALSE
    /\ connect' = FALSE
    /\ timers' = timers \ {timerId}
    /\ stopped' = TRUE
    /\ UNCHANGED <<attemptVars, delay, timerId, queue, todo, reachable, setup, connVars,
                   object, user, called>>

\* TcpClient::stop of another thread: connect_ of the client, connect_ of the
\* connector, then timerId_ is read and cancelled by a functor.
Stop ==
    /\ MayCall("stop") /\ setup.caller = "other"
    /\ clientConnect' = FALSE
    /\ user' = "stop"
    /\ UNCHANGED <<connectorVars, setup, connVars, object, called, stopped>>

StopConnector ==
    /\ user = "stop"
    /\ connect' = FALSE
    /\ user' = "cancel"
    /\ UNCHANGED <<attemptVars, timerVars, queue, todo, reachable, setup, clientConnect,
                   connVars, object, called, stopped>>

StopCancel ==
    /\ user = "cancel"
    /\ queue' = Append(queue, Op("cancel", timerId))
    /\ user' = "idle"
    /\ stopped' = TRUE
    /\ UNCHANGED <<connect, attemptVars, timerVars, todo, reachable, setup,
                   clientConnect, connVars, object, called>>

\* TcpClient::disconnect: connect_, then under mutex_ the shutdown of connection_.
Disconnect ==
    /\ MayCall("disconnect") /\ setup.caller = "other"
    /\ clientConnect' = FALSE
    /\ user' = "disconnect"
    /\ UNCHANGED <<connectorVars, setup, connVars, object, called, stopped>>

DisconnectShutdown ==
    /\ user = "disconnect" \/ (MayCall("disconnect") /\ setup.caller = "loop")
    /\ clientConnect' = FALSE
    /\ IF connection # 0 /\ conn[connection] = "up"
       THEN /\ conn' = [conn EXCEPT ![connection] = "shut"]
            /\ queue' = IF setup.caller = "loop" THEN queue
                        ELSE Append(queue, Op("shutdownInLoop", connection))
       ELSE UNCHANGED <<conn, queue>>
    /\ user' = "idle"
    /\ UNCHANGED <<connect, attemptVars, timerVars, todo, reachable, setup, connection,
                   closeCallback, nextConnId, object, called, stopped>>

\* Mutant: the connector is not stopped.
DestroyNoStop ==
    /\ MayCall("destroy") /\ setup.caller = "loop"
    /\ setup.careful /\ connection # 0 => channel = "null"
    /\ object' = IF connection # 0 THEN "released" ELSE "destroyed"
    /\ UNCHANGED <<connectorVars, setup, clientConnect, connVars, userVars>>

\* ~TcpClient of a client that is connected: the Connector goes at once, and with it a
\* TcpConnection that the user has not kept a pointer to.  Who is careful keeps one,
\* and does not destroy the client in the iteration that connected it.
DestroyConnected ==
    /\ connection # 0
    /\ setup.careful => channel = "null"
    /\ closeCallback' = [closeCallback EXCEPT ![connection] = "detail"]
    /\ object' = "released"
    /\ \/ UNCHANGED <<conn, open>>
       \/ /\ ~setup.careful
          /\ conn' = [conn EXCEPT ![connection] = "destroyed"]
          /\ open' = open - 1
    /\ UNCHANGED connect

\* ~TcpClient without a connection stops the Connector, and keeps it for a second.
DestroyUnconnected ==
    /\ connection = 0
    /\ connect' = FALSE
    /\ object' = "destroyed"
    /\ UNCHANGED <<closeCallback, conn, open>>

\* ~TcpClient on the loop thread; both ways cancel timerId_.
Destroy ==
    /\ MayCall("destroy") /\ setup.caller = "loop"
    /\ DestroyConnected \/ DestroyUnconnected
    /\ timers' = timers \ {timerId}
    /\ UNCHANGED <<state, channel, sock, delay, timerId, queue, todo, reachable, setup,
                   clientConnect, connection, nextConnId, userVars>>

User ==
    \/ ClientConnect \/ StartQueue \/ StopOnLoop \/ Stop \/ StopConnector \/ StopCancel
    \/ Disconnect \/ DisconnectShutdown \/ Destroy

Next ==
    \/ LoopThread
    \/ User
    \/ \E c \in Conns : PeerCloses(c)
    \/ ServerComesUp /\ UNCHANGED clientVars

Spec == Init /\ [][Next]_vars

\* The loop thread runs, timers that stay pending expire, a call that began ends, and the
\* server comes up one day.
FairSpec ==
    /\ Spec
    /\ WF_vars(LoopThread)
    /\ SF_vars(Expire /\ todo' # Tail(todo))
    /\ WF_vars(StartQueue \/ StopConnector \/ StopCancel)
    /\ WF_vars(user = "disconnect" /\ DisconnectShutdown)
    /\ WF_vars(ServerComesUp /\ UNCHANGED clientVars)

-----------------------------------------------------------------------------
(* Properties.                                                             *)

\* An attempt starts when no other is under way: whoever calls startInLoop, it finds
\* kDisconnected, and connecting finds no channel_ (asserts at Connector.cpp:41, 108).
StartsIdle ==
    Now("startInLoop") \/ Now("startNow") \/ Now("timer")
      => state = "kDisconnected" /\ (connect => channel = "null")

\* Every assert of Connector and TcpClient holds: those of startInLoop and
\* connecting, ~Connector finds no channel_ (Connector.cpp:29), handleWrite and
\* handleError the state they expect (164, 171), removeConnection its connection
\* (TcpClient.cpp:136).
NoAssertFails ==
    /\ TypeOK
    /\ StartsIdle
    /\ object = "released" => channel = "null"
    /\ Now("handleWrite") => state \in {"kConnecting", "kDisconnected"}
    /\ Now("handleError") => state = "kConnecting"
    /\ Now("handleClose") /\ closeCallback[Head(todo).arg] = "client"
       => connection = Head(todo).arg

\* There is one attempt at a time: a connection, a channel waiting for its
\* socket, a timer or a functor that will call startInLoop exclude each other,
\* although start, restart and retry each set off an attempt unseen by the others.
OneAttempt ==
    LET b(x) == IF x THEN 1 ELSE 0
        starts == {i \in DOMAIN Work : Work[i].op \in {"startInLoop", "startNow", "timer",
                                                     "retry", "runAfter", "restart"}}
    IN  Cardinality(starts) + Cardinality(timers) + b(channel = "added")
          + b(connection # 0) + b(Pending("newConnection")) <= 1

\* Every descriptor that connect() created and nobody closed belongs to the
\* channel of an attempt, to a connection, or is on its way from one to the
\* other (Connector.cpp:132-194): none leaks, none is closed twice, and there is
\* one attempt at a time.
SocketsOwned ==
    /\ OneAttempt
    /\ open = Cardinality({c \in Conns : conn[c] \in {"up", "shut", "peerClosed", "closed"}})
              + (IF channel = "added" THEN 1 ELSE 0)
              + (IF Pending("newConnection") THEN 1 ELSE 0)

\* No member function of TcpClient or Connector is called through the raw this
\* of callbacks, functors and timers after the object is gone.
NoStaleThis ==
    /\ object # "alive" => ~Pending("newConnection") /\ ~Pending("restart")
    /\ object # "alive" => \A c \in Conns : conn[c] \in {"up", "shut", "peerClosed"}
                                          => closeCallback[c] = "detail"
    /\ object = "released" =>
         /\ timers = {} /\ channel = "null"
         /\ \A o \in {"startInLoop", "startNow", "timer", "retry", "runAfter", "handleWrite",
                     "handleError", "resetChannel"} : ~Pending(o)

Quiet ==
    /\ channel = "null" /\ timers = {}
    /\ \A o \in {"startInLoop", "startNow", "timer", "retry", "runAfter", "restart"} :
         ~Pending(o)

\* After stop() nothing but connect() sets the connector going again: no
\* restart() that the loop thread decided on before stop() undoes it
\* (TcpClient.cpp:141-145); and whatever it was doing it comes to rest, although
\* stop() only clears connect_ and cancels the timer it knows of.
StopHolds ==
    /\ [](stopped => ~connect)
    /\ stopped ~> (Quiet \/ ~stopped)

\* An attempt goes on, by retries and timers, until there is a connection,
\* unless connect() fails in a way that is not retried, or the user gives up; and
\* a client with retry enabled whose connection is closed by the peer gets
\* another one (TcpClient::removeConnection calls restart).
Reconnects ==
    /\ ~Quiet ~> (connection # 0 \/ sock = "fatal" \/ ~connect)
    /\ (setup.retry /\ connection # 0 /\ conn[connection] = "peerClosed")
         ~> (connection # 0 /\ conn[connection] = "up") \/ sock = "fatal" \/ ~clientConnect
            \/ object # "alive"
=============================================================================
