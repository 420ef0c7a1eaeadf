----------------------------- MODULE Connector -----------------------------
(***************************************************************************)
(* Connector: one attempt after the other to connect a socket, with        *)
(* back-off, on the thread of its EventLoop.  TcpClient.tla puts it into   *)
(* its client, with the calls of the user.                                 *)
(*                                                                         *)
(* todo is what the loop thread still does in this iteration of its loop:  *)
(* handlers of active channels, the timerfd's ("getExpired") among them,   *)
(* then "swap", then the functors it swapped out.  A handler with more to  *)
(* do puts its rest in front: the timers that expired, or what follows an  *)
(* access to fields that another thread may change meanwhile.  Time is     *)
(* abstracted: any timer that was set before a poll may expire after it.   *)
(***************************************************************************)
EXTENDS Integers, Sequences, FiniteSets, SequencesExt

kInitRetryDelayMs == 500
kMaxRetryDelayMs == 30 * 1000

VARIABLES
    connect,    \* connect_
    state,      \* state_
    channel,    \* channel_: null, registered with the poller, or removed from it
    sock,       \* kernel: how the attempt of channel_ ends
    open,       \* number of descriptors of Connector and its connections not closed
    delay,      \* retryDelayMs_
    timerId,    \* timerId_
    timers,     \* timers of the loop that will call startInLoop
    queue,      \* pendingFunctors_ of the loop
    todo,       \* see above
    reachable   \* environment: from now on the server accepts connections

attemptVars == <<state, channel, sock, open>>
timerVars == <<delay, timerId, timers>>
connectorVars == <<connect, attemptVars, timerVars, queue, todo, reachable>>

Op(o, a) == [op |-> o, arg |-> a]

Do(o) == Op(o, 0)

NoTimer == 0

\* TimerIds are never used twice.  Numbers stand for them here; one that nothing
\* refers to any more can be taken again.
NewTimerId(referred) == CHOOSE i \in 1..Cardinality(referred) + 1 : i \notin referred

TimersIn(s) == {s[i].arg : i \in {j \in DOMAIN s : s[j].op \in {"cancel", "timer"}}}

ConnectorInit ==
    /\ connect = FALSE
    /\ state = "kDisconnected"
    /\ channel = "null"
    /\ sock = "none"
    /\ open = 0
    /\ delay = kInitRetryDelayMs
    /\ timerId = NoTimer
    /\ timers = {}
    /\ queue = <<>>
    /\ todo = <<>>
    /\ reachable = FALSE

Now(o) == todo # <<>> /\ Head(todo).op = o

\* The loop thread goes on with ops.
Continue(ops) == todo' = ops \o Tail(todo)

-----------------------------------------------------------------------------
(* connect(2): at once or in the end, an attempt succeeds, fails, or meets *)
(* itself; "again" are the errnos that retry, "fatal" those that give up.  *)
ConnectResults ==
    IF reachable THEN {"ok"} ELSE {"ok", "error", "self", "again", "fatal"}

\* Connector::connect and connecting.  The rest of retry is a step of its own.
Connect ==
    \E result \in ConnectResults :
        CASE result = "fatal" ->
                /\ Continue(<<>>)
                /\ sock' = "fatal"
                /\ UNCHANGED <<state, channel, open>>
          [] result = "again" ->
                /\ Continue(<<Do("retry")>>)
                /\ state' = "kDisconnected"
                /\ UNCHANGED <<channel, sock, open>>
          [] OTHER ->
                /\ Continue(<<>>)
                /\ state' = "kConnecting"
                /\ channel' = "added"
                /\ sock' = result
                /\ open' = open + 1

\* Connector::startInLoop: called by start or restart on the loop thread
\* ("startNow"), as a functor, or by a timer that expired, cancelled meanwhile or not.
StartInLoop ==
    /\ Now("startInLoop") \/ Now("startNow") \/ Now("timer")
    /\ IF connect THEN Connect
                  ELSE Continue(<<>>) /\ UNCHANGED attemptVars
    /\ UNCHANGED <<connect, timerVars, queue, reachable>>

\* Connector::retry after close and setState: connect_ is tested, then the
\* timer is set ("runAfter").
Retry ==
    /\ Now("retry")
    /\ Continue(IF connect THEN <<Do("runAfter")>> ELSE <<>>)
    /\ UNCHANGED <<connect, attemptVars, timerVars, queue, reachable>>

NextDelay(d) == IF 2 * d < kMaxRetryDelayMs THEN 2 * d ELSE kMaxRetryDelayMs

RunAfter ==
    /\ Now("runAfter")
    /\ timerId' = NewTimerId(timers \cup TimersIn(queue \o todo))
    /\ timers' = timers \cup {timerId'}
    /\ delay' = NextDelay(delay)
    /\ Continue(<<>>)
    /\ UNCHANGED <<connect, attemptVars, queue, reachable>>

\* Mutant: channel_ is not reset afterwards.
RemoveAndResetChannelNoReset ==
    /\ channel' = "removed"
    /\ sock' = "none"
    /\ UNCHANGED queue

\* Connector::removeAndResetChannel.
RemoveAndResetChannel ==
    /\ channel' = "removed"
    /\ sock' = "none"
    /\ queue' = Append(queue, Do("resetChannel"))

\* Mutant: a connection that nobody wants any more is not closed.
HandleWriteNoClose ==
    /\ Now("handleWrite") /\ state = "kConnecting"
    /\ RemoveAndResetChannel
    /\ state' = IF sock = "ok" THEN "kConnected" ELSE "kDisconnected"
    /\ Continue(IF sock # "ok" THEN <<Do("retry")>>
                ELSE IF connect THEN <<Do("newConnection")>> ELSE <<>>)
    /\ open' = IF sock = "ok" THEN open ELSE open - 1
    /\ UNCHANGED <<connect, timerVars, reachable>>

\* Connector::handleWrite.  A handleError before it on the same event has left
\* kDisconnected behind, and then it does nothing.
HandleWrite ==
    /\ Now("handleWrite")
    /\ IF state = "kConnecting"
       THEN /\ RemoveAndResetChannel
            /\ IF sock = "ok"
               THEN /\ state' = "kConnected"
                    /\ Continue(IF connect THEN <<Do("newConnection")>> ELSE <<>>)
                    /\ open' = IF connect THEN open ELSE open - 1
               ELSE /\ state' = "kDisconnected"
                    /\ Continue(<<Do("retry")>>)
                    /\ open' = open - 1
       ELSE Continue(<<>>) /\ UNCHANGED <<attemptVars, queue>>
    /\ UNCHANGED <<connect, timerVars, reachable>>

\* Connector::handleError, then retry.
HandleError ==
    /\ Now("handleError")
    /\ RemoveAndResetChannel
    /\ state' = "kDisconnected"
    /\ open' = open - 1
    /\ Continue(<<Do("retry")>>)
    /\ UNCHANGED <<connect, timerVars, reachable>>

ResetChannel ==
    /\ Now("resetChannel")
    /\ channel' = "null"
    /\ Continue(<<>>)
    /\ UNCHANGED <<connect, state, sock, open, timerVars, queue, reachable>>

\* The first half of Connector::restart: startInLoop follows at once.
Restart ==
    /\ Now("restart")
    /\ state' = "kDisconnected"
    /\ delay' = kInitRetryDelayMs
    /\ connect' = TRUE
    /\ Continue(<<Do("startNow")>>)
    /\ UNCHANGED <<channel, sock, open, timerId, timers, queue, reachable>>

-----------------------------------------------------------------------------
(* The loop.                                                               *)

\* TimerQueue::getExpired takes timers, of the connector and others, that are due out of
\* the queue; then they all run: cancel no longer finds them there.
GetExpired(others) ==
    /\ Now("getExpired")
    /\ \E due \in SUBSET timers, also \in SUBSET others :
       \E batch \in SetToSeqs({Op("timer", i) : i \in due} \cup also) :
         /\ Continue(batch)
         /\ timers' = timers \ due
    /\ UNCHANGED <<connect, attemptVars, delay, timerId, queue, reachable>>

\* The functor that another thread's cancel(timerId_) queues.
CancelInLoop ==
    /\ Now("cancel")
    /\ timers' = timers \ {Head(todo).arg}
    /\ Continue(<<>>)
    /\ UNCHANGED <<connect, attemptVars, delay, timerId, queue, reachable>>

\* What the connector's channel makes poll report.  An error is reported as
\* such, together with writable, or only by SO_ERROR.
ChannelEvents ==
    IF channel # "added" THEN {}
    ELSE {{Do("handleWrite")}}
         \cup (IF sock = "error" THEN {{Do("handleError"), Do("handleWrite")}} ELSE {})

\* poll returns with some of these events, in some order; of one channel
\* handleEvent calls the error callback first and then the write callback.
PollFor(others) ==
    /\ todo = <<>>
    /\ \E e \in ChannelEvents \cup {{}} :
       \E s \in SUBSET others :
        /\ s # {} \/ e # {} \/ queue # <<>>
        /\ \E order \in SetToSeqs(e \cup s) :
             /\ \A i, j \in DOMAIN order :
                  order[i].op = "handleError" /\ order[j].op = "handleWrite" => j = i + 1
             /\ todo' = order \o <<Do("swap")>>
    /\ UNCHANGED <<connect, attemptVars, timerVars, queue, reachable>>

Swap ==
    /\ Now("swap")
    /\ todo' = queue
    /\ queue' = <<>>
    /\ UNCHANGED <<connect, attemptVars, timerVars, reachable>>

ServerComesUp ==
    /\ ~reachable
    /\ reachable' = TRUE
    /\ UNCHANGED <<connect, attemptVars, timerVars, queue, todo>>
=============================================================================
