---------------------------- MODULE PooledServer ----------------------------
(***************************************************************************)
(* A TcpServer with its EventLoopThreadPool: setThreadNum, start, and      *)
(* newConnection, which asks the pool for a loop (TcpServer.cpp).  Before  *)
(* start() the acceptor does not listen and nothing comes in.              *)
(***************************************************************************)
EXTENDS TcpServer, EventLoopThreadPool

ASSUME PoolAssumption ==
    \A s \in Setups : IsFiniteSet(s.pool) /\ Cardinality(s.pool) <= MaxThreads

allVars == <<vars, poolVars>>

\* loops_, in the order in which start() created them.
loops_ == SetToSeq(setup.pool)

PooledInit == Init /\ PoolInit

\* "Must be called before start" (TcpServer.h:25).
ServerSetThreadNum ==
    /\ ~started
    /\ \E n \in 0..MaxThreads : SetThreadNum(n)
    /\ UNCHANGED vars

\* TcpServer::start, on the base loop's thread, as the pool asserts: the threads of
\* the pool, then listen().  The next start() does neither.
ServerStart ==
    /\ numThreads = Cardinality(setup.pool)
    /\ Start
    /\ UNCHANGED vars

\* newConnection, with the loop that getNextLoop returns.
Accept(c) ==
    /\ started
    /\ NewConnection(c)
    /\ GetNextLoop
    /\ loop'[c] = IF size = 0 THEN Base ELSE loops_[next + 1]

OtherStep ==
    \/ \E l \in Loops : LoopStep(l)
    \/ (\E c \in Conns : RemoveConnectionInLoop(c)) \/ AcceptFails
    \/ UserStep \/ PeerStep

PooledNext ==
    \/ ServerSetThreadNum
    \/ ServerStart
    \/ /\ AssertionsHold /\ NoDanglingFunctor
       /\ \/ \E c \in Conns : Accept(c)
          \/ started /\ OtherStep /\ UNCHANGED poolVars

PooledSpec == PooledInit /\ [][PooledNext]_allVars

\* The fairness of TcpServer's FairSpec, once the server is started.
PooledFairSpec ==
    /\ PooledSpec
    /\ \A l \in Loops : WF_allVars(started /\ LoopStep(l) /\ UNCHANGED poolVars)
    /\ WF_allVars(\/ \E c \in Conns : Accept(c)
                  \/ (\E c \in Conns : RemoveConnectionInLoop(c)) /\ UNCHANGED poolVars
                  \/ AcceptFails /\ UNCHANGED poolVars)
=============================================================================
