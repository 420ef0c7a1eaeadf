---------------------------- MODULE AsyncLogging ---------------------------
(***************************************************************************)
(* The logs with a thread of their own that writes a LogFile:              *)
(* AsyncLoggingDoubleBuffering, which hands over buffers of lines, and     *)
(* AsyncLoggingT, which hands over lines in a BlockingQueue or             *)
(* BoundedBlockingQueue.  backend says which one a behaviour is about.     *)
(*                                                                         *)
(* append and the critical section of threadFunc hold mutex_ and are one   *)
(* step each; the wait in threadFunc ends by notify, after flushInterval_, *)
(* or without reason: always in the end.                                   *)
(***************************************************************************)
EXTENDS LogFile, BlockingQueue, FiniteSets

CONSTANTS Appenders,    \* threads that log
          Main,         \* the thread that starts and stops the log
          Logger,       \* the thread of the log
          LineSizes,    \* lengths of lines
          BufferSizes,  \* what stands for kLargeBuffer
          MaxBuffers,   \* 25 in the code
          DropMsgLen,   \* length of "Dropped log messages"
          Capacities,   \* queueSize; Unbounded for BlockingQueue
          MaxLines      \* bound: lines that are logged

ASSUME AsyncLoggingAssumption ==
    /\ LineSizes \subseteq Nat \ {0}
    /\ BufferSizes \subseteq Nat /\ DropMsgLen \in Nat \ {0} /\ MaxLines \in Nat
    /\ MaxBuffers \in Nat /\ MaxBuffers >= 2
    /\ Capacities \subseteq Nat

VARIABLES
    backend,     \* "doubleBuffering" or "queue"
    bufferSize,  \* kLargeBuffer, of doubleBuffering
    running,     \* running_
    main,        \* what Main is doing
    pc,          \* what Logger is doing
    calls,       \* Appenders inside put
    lines,       \* number of lines accepted so far
    tooLong,     \* lines no buffer has room for
    dropped,     \* lines that were dropped
    stopLine,    \* the last line in the queue when stop() put the empty message there
    current,     \* currentBuffer_
    nextBuffer,  \* is there a nextBuffer_?
    buffers,     \* buffers_
    newBuffers,  \* which of newBuffer1 and newBuffer2 there are
    toWrite,     \* buffersToWrite, the part not yet written
    spare        \* number of buffersToWrite that have been written

bufferVars == <<current, nextBuffer, buffers>>
threadVars == <<newBuffers, toWrite, spare>>
setupVars == <<backend, bufferSize>>
historyVars == <<tooLong, dropped, stopLine>>
otherVars == <<setupVars, running, main, calls, lines, historyVars>>
vars == <<now, logVars, queueVars, otherVars, pc, bufferVars, threadVars>>

Lines == [id : 1..MaxLines, len : LineSizes] \cup {[id |-> 0, len |-> DropMsgLen]}

DropMsg == [id |-> 0, len |-> DropMsgLen]

\* The lines of a sequence of buffers, of files or of messages.
Ids(ss) == UNION {{ss[i][j].id : j \in DOMAIN ss[i]} : i \in DOMAIN ss}

Init ==
    /\ LogInit
    /\ backend \in {"doubleBuffering", "queue"}
    /\ bufferSize \in IF backend = "queue" THEN {0} ELSE BufferSizes
    /\ capacity \in IF backend = "queue" THEN Capacities ELSE {Unbounded}
    /\ queue = <<>> /\ notEmpty = {} /\ notFull = {}
    /\ running = FALSE
    /\ main = "new"
    /\ pc = "none"
    /\ calls = {}
    /\ lines = 0
    /\ tooLong = {} /\ dropped = {} /\ stopLine = 0
    /\ current = <<>> /\ nextBuffer = TRUE /\ buffers = <<>>
    /\ newBuffers = {1, 2} /\ toWrite = <<>> /\ spare = 0

-----------------------------------------------------------------------------
(* Threads that log.                                                       *)

\* FixedBuffer::append takes a line if avail() > len.
Fits(buffer, line) == bufferSize - Bytes(buffer) > line.len

Appended(buffer, line) == IF Fits(buffer, line) THEN Append(buffer, line) ELSE buffer

\* Mutant: the line that did not fit is lost.
AppendDoubleBufferingLossy ==
    /\ backend = "doubleBuffering"
    /\ lines < MaxLines
    /\ lines' = lines + 1
    /\ \E len \in LineSizes :
         LET fresh == ~Fits(current, [id |-> lines + 1, len |-> len])
         IN  /\ current' = IF fresh THEN <<>> ELSE Append(current, [id |-> lines + 1, len |-> len])
             /\ buffers' = IF fresh THEN Append(buffers, current) ELSE buffers
             /\ nextBuffer' = (nextBuffer /\ ~fresh)
    /\ UNCHANGED <<now, logVars, queueVars, setupVars, running, main, calls, historyVars, pc,
                   threadVars>>

\* AsyncLoggingDoubleBuffering::append.
AppendDoubleBuffering ==
    /\ backend = "doubleBuffering"
    /\ lines < MaxLines
    /\ lines' = lines + 1
    /\ \E len \in LineSizes :
         LET line == [id |-> lines + 1, len |-> len]
             fresh == ~Fits(current, line)
         IN  /\ current' = Appended(IF fresh THEN <<>> ELSE current, line)
             /\ buffers' = IF fresh THEN Append(buffers, current) ELSE buffers
             /\ nextBuffer' = (nextBuffer /\ ~fresh)
             /\ tooLong' = IF fresh /\ ~Fits(<<>>, line) THEN tooLong \cup {line.id}
                           ELSE tooLong
    /\ UNCHANGED <<now, logVars, queueVars, setupVars, running, main, calls, dropped,
                   stopLine, pc, threadVars>>

\* AsyncLoggingT::append: the call of put, which may have to wait.
AppendQueue(t) ==
    /\ backend = "queue"
    /\ lines + Cardinality(calls) < MaxLines
    /\ t \notin calls
    /\ calls' = calls \cup {t}
    /\ UNCHANGED <<now, logVars, queueVars, setupVars, running, main, lines, historyVars,
                   pc, bufferVars, threadVars>>

AppendQueuePut(t) ==
    /\ t \in calls
    /\ \/ /\ PutWaits(t)
          /\ UNCHANGED <<calls, lines>>
       \/ /\ \E len \in LineSizes : Put(t, <<[id |-> lines + 1, len |-> len]>>)
          /\ lines' = lines + 1
          /\ calls' = calls \ {t}
    /\ UNCHANGED <<now, logVars, setupVars, running, main, historyVars, pc, bufferVars,
                   threadVars>>

-----------------------------------------------------------------------------
(* The thread that starts and stops the log.                               *)

Start ==
    /\ main = "new"
    /\ running' = TRUE
    /\ main' = "latch"
    /\ pc' = "start"
    /\ UNCHANGED <<now, logVars, queueVars, setupVars, calls, lines, historyVars,
                   bufferVars, threadVars>>

\* stop: running_ is cleared; to the queue goes the empty message.
Stop ==
    /\ main = "started"
    /\ running' = FALSE
    /\ main' = IF backend = "queue" THEN "put" ELSE "join"
    /\ UNCHANGED <<now, logVars, queueVars, setupVars, calls, lines, historyVars, pc,
                   bufferVars, threadVars>>

StopPut ==
    /\ main = "put"
    /\ \/ PutWaits(Main) /\ UNCHANGED <<main, stopLine>>
       \/ Put(Main, <<>>) /\ main' = "join" /\ stopLine' = lines
    /\ UNCHANGED <<now, logVars, setupVars, running, calls, lines, tooLong, dropped, pc,
                   bufferVars, threadVars>>

Join ==
    /\ main = "join" /\ pc = "end"
    /\ main' = "stopped"
    /\ UNCHANGED <<now, logVars, queueVars, setupVars, running, calls, lines, historyVars,
                   pc, bufferVars, threadVars>>

-----------------------------------------------------------------------------
(* threadFunc.                                                             *)

\* latch_.countDown(), which lets start return, and the LogFile.
ThreadStart ==
    /\ pc = "start"
    /\ OpenLog
    /\ main' = "started"
    /\ pc' = IF backend = "queue" THEN "take" ELSE "top"
    /\ UNCHANGED <<queueVars, setupVars, running, calls, lines, historyVars, bufferVars,
                   threadVars>>

\* Mutant: newBuffer2 is given away needlessly.
SwapBuffersBothNew ==
    /\ toWrite' = Append(buffers, current)
    /\ current' = <<>>
    /\ buffers' = <<>>
    /\ newBuffers' = {}
    /\ nextBuffer' = TRUE
    /\ pc' = IF Len(buffers) + 1 > MaxBuffers THEN "drop" ELSE "write"

\* The critical section after its wait: currentBuffer_ goes too, newBuffer1
\* and if need be newBuffer2 take the places.
SwapBuffers ==
    /\ toWrite' = Append(buffers, current)
    /\ current' = <<>>
    /\ buffers' = <<>>
    /\ newBuffers' = newBuffers \ (IF nextBuffer THEN {1} ELSE {1, 2})
    /\ nextBuffer' = TRUE
    /\ pc' = IF Len(buffers) + 1 > MaxBuffers THEN "drop" ELSE "write"

\* while (running_), and if buffers_ is empty the critical section: it does not wait.
\* At the end flush, and the end of the local LogFile; what is in buffers_ and
\* currentBuffer_ by then stays there.
Top ==
    /\ pc = "top"
    /\ \/ running /\ buffers = <<>> /\ SwapBuffers /\ UNCHANGED <<now, logVars, spare>>
       \/ running /\ buffers # <<>> /\ pc' = "wait"
          /\ UNCHANGED <<now, logVars, bufferVars, threadVars>>
       \/ ~running /\ pc' = "end" /\ CloseLog /\ UNCHANGED <<bufferVars, threadVars>>
    /\ UNCHANGED <<queueVars, otherVars>>

Wake ==
    /\ pc = "wait"
    /\ SwapBuffers
    /\ UNCHANGED <<now, logVars, queueVars, otherVars, spare>>

\* More than 25: the message, and all but the last two are erased.
Drop ==
    /\ pc = "drop"
    /\ LogAppend(<<DropMsg>>)
    /\ LET kept == Len(toWrite) - 2
       IN  /\ toWrite' = SubSeq(toWrite, kept + 1, kept + 2)
           /\ dropped' = dropped \cup Ids(SubSeq(toWrite, 1, kept))
    /\ pc' = "write"
    /\ UNCHANGED <<queueVars, setupVars, running, main, calls, lines, tooLong,
                   stopLine, bufferVars, newBuffers, spare>>

WriteBuffer ==
    /\ pc = "write" /\ toWrite # <<>>
    /\ LogAppend(Head(toWrite))
    /\ toWrite' = Tail(toWrite)
    /\ spare' = spare + 1
    /\ UNCHANGED <<queueVars, otherVars, pc, bufferVars, newBuffers>>

\* The rest of an iteration: at most two buffers are kept and take the places
\* of newBuffer1 and newBuffer2; then flush.
Recycle ==
    /\ pc = "write" /\ toWrite = <<>>
    /\ newBuffers' = {1, 2}
    /\ spare' = 0
    /\ LogFlush
    /\ pc' = "top"
    /\ UNCHANGED <<queueVars, otherVars, bufferVars, toWrite>>

\* threadFunc of AsyncLoggingT: take, until the empty message.
TakeWait ==
    /\ pc = "take"
    /\ TakeWaits(Logger)
    /\ UNCHANGED <<now, logVars, otherVars, pc, bufferVars, threadVars>>

\* Mutant: the loop ends when running_ is cleared, whatever the queue still holds.
TakeLineWhileRunning ==
    /\ pc = "take"
    /\ \/ ~running /\ Logger \notin notEmpty
          /\ CloseLog /\ pc' = "end" /\ UNCHANGED queueVars
       \/ running /\ Take(Logger) /\ LogAppend(Head(queue)) /\ UNCHANGED pc
    /\ UNCHANGED <<otherVars, bufferVars, threadVars>>

\* After the empty message flush, and with threadFunc its LogFile ends.
TakeLine ==
    /\ pc = "take"
    /\ Take(Logger)
    /\ IF Head(queue) = <<>>
       THEN CloseLog /\ pc' = "end"
       ELSE LogAppend(Head(queue)) /\ UNCHANGED pc
    /\ UNCHANGED <<otherVars, bufferVars, threadVars>>

LoggerThread ==
    \/ ThreadStart \/ Top \/ Wake \/ Drop \/ WriteBuffer \/ Recycle \/ TakeWait \/ TakeLine

Spurious ==
    /\ \E t \in notEmpty \cup notFull : SpuriousWakeup(t)
    /\ UNCHANGED <<now, logVars, otherVars, pc, bufferVars, threadVars>>

Clock == Tick /\ UNCHANGED <<queueVars, otherVars, pc, bufferVars, threadVars>>

Next ==
    \/ AppendDoubleBuffering
    \/ \E t \in Appenders : AppendQueue(t) \/ AppendQueuePut(t)
    \/ Start \/ Stop \/ StopPut \/ Join
    \/ LoggerThread
    \/ Spurious
    \/ Clock

Spec == Init /\ [][Next]_vars

\* Threads that can go on do: the scheduler, and the timeout of the wait.
FairSpec ==
    /\ Spec
    /\ WF_vars(LoggerThread)
    /\ WF_vars(StopPut) /\ WF_vars(Join)
    /\ \A t \in Appenders : WF_vars(AppendQueuePut(t))

-----------------------------------------------------------------------------
(* Properties.                                                             *)

\* The lines on their way, first those that went first: in the files, in the buffers
\* that are being written, in those being filled, in the queue.
Pipeline == FileLines \o toWrite \o Append(buffers, current) \o queue

\* Is place j of ss[i] before place l of ss[k]?
Before(i, j, k, l) == i < k \/ (i = k /\ j < l)

InOrder(ss) ==
    \A i, k \in DOMAIN ss : \A j \in DOMAIN ss[i], l \in DOMAIN ss[k] :
        Before(i, j, k, l) /\ ss[i][j].id # 0 /\ ss[k][l].id # 0
            => ss[i][j].id < ss[k][l].id

\* For every line that was dropped the message that says so is in the files, after
\* the lines logged before it and before those logged after it, unless fwrite
\* refused the message.
DropsAreMarked ==
    \A n \in dropped :
        \/ 0 \in failed
        \/ \E m \in DOMAIN FileLines : \E o \in DOMAIN FileLines[m] :
             /\ FileLines[m][o].id = 0
             /\ \A i \in DOMAIN FileLines : \A j \in DOMAIN FileLines[i] :
                  LET id == FileLines[i][j].id
                  IN  /\ id # 0 /\ id < n => Before(i, j, m, o)
                      /\ id > n => Before(m, o, i, j)

\* Every line that append accepted is exactly once, in the order accepted, in the
\* files, in the buffers between the threads, or among those that had no
\* room, were dropped with a message, or refused by fwrite; and where lines were
\* dropped the files say so.
EveryLineOnce ==
    /\ InOrder(Pipeline)
    /\ Ids(Pipeline) \ {0} = 1..lines \ (tooLong \cup dropped \cup failed)
    /\ DropsAreMarked

\* The asserts of threadFunc: both new buffers are there at the top of the loop,
\* because for each that was given away a written one comes back.
BuffersComeBack ==
    /\ pc = "top" => newBuffers = {1, 2}
    /\ pc = "write" /\ toWrite = <<>> => spare >= 2 - Cardinality(newBuffers)

\* When stop() has returned nothing is left in a FILE, and with a queue every line
\* that was put before the empty message of stop() is in a file (or refused by
\* fwrite): the thread drains the queue although running_ is FALSE by then.
StoppedIsOnDisk ==
    main = "stopped" =>
        /\ stdio = <<>>
        /\ backend = "queue" => 1..stopLine \subseteq Ids(FileLines) \cup failed

\* A line is written, dropped or refused in the end, unless stop() comes first;
\* a full queue holds up nobody for ever while the log runs; and stop() returns.
LogMakesProgress ==
    /\ (current # <<>> \/ buffers # <<>>) /\ running
         ~> (Len(current) + Len(buffers) = 0 \/ ~running)
    /\ \A t \in Appenders : t \in calls /\ running ~> (t \notin calls \/ pc = "end")
    /\ main \in {"put", "join"} ~> main = "stopped"
=============================================================================
