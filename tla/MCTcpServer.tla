---------------------------- MODULE MCTcpServer ----------------------------
(* TcpServer on small instances: the servers that the runs look at.        *)
EXTENDS PooledServer

CONSTANTS io, io2, c1, c2, u

\* Without I/O threads: two connections on the base loop, every callback set, and
\* callbacks that use either connection.
OneLoop == [pool |-> {}, writeComplete |-> TRUE, own |-> FALSE, users |-> {},
            conns |-> {c1, c2}, sends |-> 1, messages |-> 1, closes |-> {c1, c2}]

\* With one: the way of a connection goes from loop to loop.
TwoLoops == [pool |-> {io}, writeComplete |-> FALSE, own |-> TRUE, users |-> {},
             conns |-> {c1}, sends |-> 3, messages |-> 2, closes |-> {c1}]

\* Two I/O threads, which get one connection each.
ThreeLoops == [TwoLoops EXCEPT !.pool = {io, io2}, !.conns = {c1, c2}, !.sends = 0,
                               !.messages = 0, !.closes = {}]

\* ... and a thread of the user that calls send and shutdown.
WithUser == [pool |-> {io}, writeComplete |-> TRUE, own |-> TRUE, users |-> {u},
             conns |-> {c1}, sends |-> 2, messages |-> 0, closes |-> {c1}]

\* Two loops with the write-complete callback, which may send on a connection
\* between handleClose and connectDestroyed.
LateSend == [TwoLoops EXCEPT !.writeComplete = TRUE, !.messages = 1]

\* ... as may a callback of another connection on the same I/O thread.
OthersSend == [TwoLoops EXCEPT !.own = FALSE, !.conns = {c1, c2}, !.sends = 1,
                               !.messages = 0]

SoundSetups == {OneLoop, TwoLoops, ThreeLoops, WithUser, LateSend, OthersSend}

UserSetups == {WithUser}

LateSendSetups == {LateSend}

OthersSendSetups == {OthersSend}

OneLoopSetups == {[OneLoop EXCEPT !.conns = {c1}]}
=============================================================================
