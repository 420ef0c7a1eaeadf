------------------------- MODULE AsyncLoggingProofs ------------------------
(***************************************************************************)
(* AsyncLogging and its LogFile for any number of lines, threads and       *)
(* buffers: rolling, the exchange of buffers, what stop() leaves, and that *)
(* every line is at one place, in order.                                   *)
(***************************************************************************)
EXTENDS AsyncLogging, SequenceTheorems, FiniteSetTheorems, TLAPS

-----------------------------------------------------------------------------
(* The inductive invariant.                                                *)

Line == [id : Nat, len : Nat]

\* What is written is only compared with a bound: the sum of Bytes stays abstract.
LogTypes ==
    /\ now \in Nat
    /\ log \in [count : Nat, startOfPeriod : {log.startOfPeriod}, lastRoll : Nat,
                lastFlush : Nat, written : {log.written}, last : Nat]
    /\ files \in Seq([name : Nat, lines : Seq(Line)])
    /\ stdio \in Seq(Line)
    /\ late \in Nat

BufferTypes ==
    /\ lines \in Nat
    /\ current \in Seq(Line)
    /\ buffers \in Seq(Seq(Line))
    /\ toWrite \in Seq(Seq(Line))
    /\ queue \in Seq(Seq(Line))
    /\ nextBuffer \in BOOLEAN
    /\ spare \in Nat

\* The last file is named after the last roll, which fixed the period, and the lines
\* that it took after its period are counted by count_ too.
Rolling ==
    /\ files # <<>> => files[Len(files)].name = log.lastRoll /\ log.lastRoll <= now
    /\ files # <<>> => log.startOfPeriod = StartOfPeriod(log.lastRoll)
    /\ \A i, j \in DOMAIN files : i < j => files[i].name < files[j].name
    /\ log.written > RollSize => log.last = log.lastRoll
    /\ late <= log.count /\ log.count <= kCheckTimeRoll + 1

\* The file is opened by the thread, when it starts.
Opened ==
    /\ files = <<>> <=> pc \in {"none", "start"}
    /\ files = <<>> => late = 0

\* Where both threads are.
Phases ==
    /\ main \in {"new", "latch", "started", "put", "join", "stopped"}
    /\ backend \in {"doubleBuffering", "queue"}
    /\ main = "new" <=> pc = "none"
    /\ main = "latch" <=> pc = "start"
    /\ main = "put" => backend = "queue"
    /\ pc = "take" => backend = "queue"
    /\ pc \in {"top", "wait", "drop", "write"} => backend = "doubleBuffering"
    /\ pc = "end" => stdio = <<>>
    /\ pc = "end" /\ backend = "queue" => main \in {"join", "stopped"}
    /\ main = "stopped" => pc = "end"

\* For each new buffer that was given away there is one to come back.
Exchange ==
    /\ ~nextBuffer => buffers # <<>>
    /\ pc \in {"none", "start", "top", "wait"} =>
         newBuffers = {1, 2} /\ spare = 0 /\ toWrite = <<>>
    /\ pc = "drop" => /\ newBuffers \in {{2}, {}} /\ spare = 0
                      /\ Len(toWrite) > MaxBuffers
    /\ pc = "write" => \/ newBuffers = {2} /\ spare + Len(toWrite) >= 1
                       \/ newBuffers = {} /\ spare + Len(toWrite) >= 2

\* The empty message that stop() puts into the queue is there once, until it is taken.
StopMessage ==
    /\ \A i, j \in DOMAIN queue : queue[i] = <<>> /\ queue[j] = <<>> => i = j
    /\ (\E i \in DOMAIN queue : queue[i] = <<>>) =>
         main = "join" /\ pc # "end" /\ backend = "queue"

IInv == LogTypes /\ BufferTypes /\ Rolling /\ Opened /\ Phases /\ Exchange /\ StopMessage

-----------------------------------------------------------------------------
(* LogFile.                                                                *)

Files == [name : Nat, lines : Seq(Line)]

\* A new file at the end of files.
LEMMA RollFacts ==
  ASSUME NEW fs \in Seq(Files), now \in Nat
  PROVE  /\ RolledFiles(fs) \in Seq(Files) /\ RolledFiles(fs) # <<>>
         /\ RolledFiles(fs)[Len(RolledFiles(fs))].name = now
         /\ (\A i, j \in DOMAIN fs : i < j => fs[i].name < fs[j].name)
            /\ (\A i \in DOMAIN fs : fs[i].name < now)
              => \A i, j \in DOMAIN RolledFiles(fs) :
                   i < j => RolledFiles(fs)[i].name < RolledFiles(fs)[j].name
<1> DEFINE f == [name |-> now, lines |-> <<>>]
           gs == RolledFiles(fs)
<1>1. f \in Files /\ f.name = now
  BY DEF Files
<1>2. gs = Append(fs, f)
  BY DEF RolledFiles
<1> HIDE DEF f, gs
<1>3. /\ gs \in Seq(Files) /\ gs # <<>> /\ Len(gs) = Len(fs) + 1 /\ gs[Len(gs)] = f
      /\ DOMAIN fs = 1..Len(fs) /\ DOMAIN gs = 1..(Len(fs) + 1) /\ Len(fs) \in Nat
      /\ \A i \in DOMAIN fs : gs[i] = fs[i]
  BY <1>1, <1>2
<1>4. ASSUME \A i, j \in DOMAIN fs : i < j => fs[i].name < fs[j].name,
             \A i \in DOMAIN fs : fs[i].name < now,
             NEW i \in DOMAIN gs, NEW j \in DOMAIN gs, i < j
      PROVE  gs[i].name < gs[j].name
  <2>1. i \in DOMAIN fs /\ gs[i] = fs[i]
    BY <1>3, <1>4
  <2>2. CASE j \in DOMAIN fs
    BY <1>3, <1>4, <2>1, <2>2
  <2>3. CASE j \notin DOMAIN fs
    <3>1. j = Len(gs)
      BY <1>3, <2>3
    <3> QED BY <1>1, <1>3, <1>4, <2>1, <3>1
  <2> QED BY <2>2, <2>3
<1> QED BY <1>1, <1>3, <1>4 DEF gs

\* The names of files before and after lines were added to the last one.
Grown(fs, ls) == [fs EXCEPT ![Len(fs)].lines = @ \o ls]

LEMMA GrownFacts ==
  ASSUME NEW fs \in Seq(Files), fs # <<>>, NEW ls \in Seq(Line)
  PROVE  /\ Grown(fs, ls) \in Seq(Files) /\ Grown(fs, ls) # <<>>
         /\ Len(Grown(fs, ls)) = Len(fs) /\ DOMAIN Grown(fs, ls) = DOMAIN fs
         /\ \A i \in DOMAIN fs : Grown(fs, ls)[i].name = fs[i].name
<1> DEFINE gs == Grown(fs, ls)
           n == Len(fs)
           f == [fs[n] EXCEPT !.lines = @ \o ls]
<1>1. n \in DOMAIN fs /\ fs[n] \in Files
  OBVIOUS
<1>2. fs[n].lines \o ls \in Seq(Line)
  BY <1>1 DEF Files
<1>3. f \in Files /\ f.name = fs[n].name
  BY <1>1, <1>2 DEF Files
<1>4. gs = [fs EXCEPT ![n] = f]
  BY <1>1 DEF Grown
<1> HIDE DEF f, n, gs
<1>5. gs \in Seq(Files) /\ Len(gs) = Len(fs) /\ DOMAIN gs = DOMAIN fs
  <2>1. n \in 1..Len(fs)
    BY <1>1
  <2>2. [fs EXCEPT ![n] = f] \in Seq(Files) /\ Len([fs EXCEPT ![n] = f]) = Len(fs)
    BY <1>3, <2>1, ExceptSeq
  <2>3. DOMAIN [fs EXCEPT ![n] = f] = DOMAIN fs
    OBVIOUS
  <2> QED BY <1>4, <2>2, <2>3
<1>6. \A i \in DOMAIN fs : gs[i] = IF i = n THEN f ELSE fs[i]
  BY <1>4
<1>7. gs # <<>>
  BY <1>5
<1> QED BY <1>3, <1>5, <1>6, <1>7 DEF gs

\* append_unlocked keeps the file of the last roll last, and checks the time
\* often enough.
LEMMA AppendLinesStep ==
  ASSUME LogTypes, Rolling, files # <<>>,
         NEW ls \in Seq(Line), NEW n \in 0..Len(ls), AppendLines(ls, n)
  PROVE  LogTypes' /\ Rolling' /\ files' # <<>>
<1> DEFINE l == [log EXCEPT !.written = @ + Bytes(ls), !.last = now]
           check == ~TooBig(l, ls) /\ CheckTime(l)
           over == StartOfPeriod(now) # l.startOfPeriod
           roll == (TooBig(l, ls) \/ (check /\ over)) /\ MayRoll(l)
           flush == check /\ ~over /\ now - l.lastFlush > FlushInterval
           k == [l EXCEPT !.count = IF TooBig(l, ls) THEN @ ELSE IF check THEN 0 ELSE @ + 1,
                          !.lastFlush = IF flush THEN now ELSE @]
           taken == SubSeq(ls, 1, n)
           grown == [files EXCEPT ![Len(files)].lines = @ \o taken]
<1>1. /\ log' = (IF roll THEN Rolled(k) ELSE k)
      /\ files' = (IF roll THEN RolledFiles(grown) ELSE grown)
      /\ stdio' = (IF roll \/ flush THEN <<>> ELSE stdio \o taken)
      /\ late' = (IF roll \/ ~over THEN 0 ELSE late + 1)
      /\ now' = now
  BY DEF AppendLines
<1>2. taken \in Seq(Line)
  <2>1. \A i \in 1..n : ls[i] \in Line
    OBVIOUS
  <2> QED BY <2>1, SubSeqProperties
<1>3. /\ log \in [count : Nat, startOfPeriod : {log.startOfPeriod}, lastRoll : Nat,
                  lastFlush : Nat, written : {log.written}, last : Nat]
      /\ now \in Nat /\ files \in Seq(Files) /\ stdio \in Seq(Line) /\ late \in Nat
  BY DEF LogTypes, Files
<1> DEFINE big == log.written + Bytes(ls) > RollSize
           due == log.count > kCheckTimeRoll
           later == now > log.lastRoll
           wrong == StartOfPeriod(now) # log.startOfPeriod
<1>4. /\ l.written = log.written + Bytes(ls) /\ l.last = now /\ l.count = log.count
      /\ l.lastRoll = log.lastRoll /\ l.startOfPeriod = log.startOfPeriod
      /\ l.lastFlush = log.lastFlush
  BY <1>3
<1>5. /\ TooBig(l, ls) = big /\ check = (~big /\ due) /\ over = wrong
      /\ roll = ((big \/ (~big /\ due /\ wrong)) /\ later)
  BY <1>4 DEF TooBig, CheckTime, MayRoll
<1>6. l \in [count : Nat, startOfPeriod : {log.startOfPeriod}, lastRoll : Nat,
             lastFlush : Nat, written : {l.written}, last : Nat]
  BY <1>3, <1>4
<1>7. /\ k.written = l.written /\ k.last = now /\ k.lastRoll = log.lastRoll
      /\ k.startOfPeriod = log.startOfPeriod
      /\ k.count = (IF big THEN log.count ELSE IF due THEN 0 ELSE log.count + 1)
      /\ k.lastFlush \in Nat
  BY <1>3, <1>4, <1>5, <1>6
<1>8. k \in [count : Nat, startOfPeriod : {k.startOfPeriod}, lastRoll : Nat,
             lastFlush : Nat, written : {k.written}, last : Nat]
  <2>1. k.count \in Nat
    BY <1>3, <1>7
  <2> QED BY <1>6, <1>7, <2>1
<1>9. /\ grown \in Seq(Files) /\ grown # <<>> /\ Len(grown) = Len(files)
      /\ DOMAIN grown = DOMAIN files /\ \A i \in DOMAIN files : grown[i].name = files[i].name
  <2>1. grown = Grown(files, taken)
    BY DEF Grown
  <2> HIDE DEF l, check, over, roll, flush, k, taken, grown
  <2> QED BY <1>2, <1>3, <2>1, GrownFacts
<1>10. stdio' \in Seq(Line) /\ late' \in Nat
  <2>1. stdio \o taken \in Seq(Line)
    BY <1>2, <1>3
  <2> HIDE DEF taken, roll, flush, over
  <2> QED BY <1>1, <1>3, <2>1
<1> HIDE DEF l, check, over, roll, flush, k, taken, grown, big, due, later, wrong
<1>11. /\ Len(files) \in DOMAIN files /\ DOMAIN files = 1..Len(files)
       /\ \A i \in DOMAIN files : files[i].name \in Nat
  <2>1. \A i \in DOMAIN files : files[i] \in Files
    BY <1>3
  <2> QED BY <1>3, <2>1 DEF Files
<1>12. log.lastRoll <= now /\ (~later => now = log.lastRoll)
  BY <1>3 DEF Rolling, later
<1>13. ~later => ~wrong
  BY <1>12 DEF Rolling, wrong
<1>14. log.count \in Nat /\ late <= log.count /\ log.count <= kCheckTimeRoll + 1
  BY <1>3 DEF Rolling
<1>15. late' <= k.count /\ k.count <= kCheckTimeRoll + 1 /\ k.count \in Nat
  <2>1. late' # 0 => ~big /\ ~due
    BY <1>1, <1>5, <1>13
  <2>2. late' = 0 \/ late' = late + 1
    BY <1>1
  <2>3. ~due => log.count <= kCheckTimeRoll
    BY <1>14, LogFileAssumption DEF due
  <2>4. k.count = (IF big THEN log.count ELSE IF due THEN 0 ELSE log.count + 1)
    BY <1>7
  <2>5. k.count \in Nat /\ k.count <= kCheckTimeRoll + 1
    BY <1>14, <2>3, <2>4, LogFileAssumption
  <2>6. CASE late' = 0
    BY <2>5, <2>6
  <2>7. CASE late' # 0
    <3>1. late' = late + 1 /\ k.count = log.count + 1
      BY <2>1, <2>2, <2>4, <2>7
    <3>2. late + 1 <= log.count + 1
      BY <1>3, <1>14
    <3> QED BY <2>5, <3>1, <3>2
  <2> QED BY <2>5, <2>6, <2>7
<1>16. CASE roll
  <2>1. log' = Rolled(k) /\ files' = RolledFiles(grown)
    BY <1>1, <1>16
  <2>2. /\ log'.lastRoll = now /\ log'.startOfPeriod = StartOfPeriod(now) /\ log'.written = 0
        /\ log'.count = k.count /\ log'.last = now
        /\ log' \in [count : Nat, startOfPeriod : {log'.startOfPeriod}, lastRoll : Nat,
                     lastFlush : Nat, written : {log'.written}, last : Nat]
    BY <1>3, <1>7, <1>8, <2>1 DEF Rolled
  <2>3. \A i \in DOMAIN grown : grown[i].name < now
    <3>1. later
      BY <1>5, <1>16
    <3>2. files[Len(files)].name < now
      BY <1>3, <1>12, <3>1 DEF Rolling, later
    <3>3. \A i \in DOMAIN files : i = Len(files) \/ files[i].name < files[Len(files)].name
      BY <1>11 DEF Rolling
    <3>4. \A i \in DOMAIN files : files[i].name < now
      <4> SUFFICES ASSUME NEW i \in DOMAIN files PROVE files[i].name < now
        OBVIOUS
      <4>1. files[i].name \in Nat /\ files[Len(files)].name \in Nat
        BY <1>11
      <4>2. i = Len(files) \/ files[i].name < files[Len(files)].name
        BY <3>3
      <4> QED BY <1>3, <3>2, <4>1, <4>2
    <3> QED BY <1>9, <3>4
  <2>4. \A i, j \in DOMAIN grown : i < j => grown[i].name < grown[j].name
    BY <1>9 DEF Rolling
  <2>5. /\ files' \in Seq(Files) /\ files' # <<>> /\ files'[Len(files')].name = now
        /\ \A i, j \in DOMAIN files' : i < j => files'[i].name < files'[j].name
    BY <1>3, <1>9, <2>1, <2>3, <2>4, RollFacts
  <2>6. LogTypes'
    BY <1>1, <1>3, <1>10, <2>2, <2>5 DEF LogTypes, Files
  <2>7. ~(log'.written > RollSize)
    BY <2>2, LogFileAssumption
  <2>8. now <= now
    BY <1>3
  <2>9. Rolling'
    BY <1>1, <1>15, <2>2, <2>5, <2>7, <2>8 DEF Rolling
  <2> QED BY <2>5, <2>6, <2>9
<1>17. CASE ~roll
  <2>1. log' = k /\ files' = grown
    BY <1>1, <1>17
  <2>2. LogTypes'
    BY <1>1, <1>3, <1>8, <1>9, <1>10, <2>1 DEF LogTypes, Files
  <2>3. log'.written > RollSize => log'.last = log'.lastRoll
    <3>1. log'.written > RollSize => big
      BY <1>4, <1>7, <2>1 DEF big
    <3>2. big => now = log.lastRoll
      BY <1>5, <1>12, <1>17
    <3> QED BY <1>7, <2>1, <3>1, <3>2
  <2>4. /\ files'[Len(files')].name = log'.lastRoll /\ log'.lastRoll <= now'
        /\ log'.startOfPeriod = StartOfPeriod(log'.lastRoll)
    BY <1>1, <1>7, <1>9, <1>11, <1>12, <2>1 DEF Rolling
  <2>5. \A i, j \in DOMAIN files' : i < j => files'[i].name < files'[j].name
    BY <1>9, <2>1 DEF Rolling
  <2>6. Rolling'
    BY <1>15, <2>1, <2>3, <2>4, <2>5 DEF Rolling
  <2> QED BY <1>9, <2>1, <2>2, <2>6
<1> QED BY <1>16, <1>17

LEMMA LogAppendStep ==
  ASSUME LogTypes, Rolling, files # <<>>, NEW ls \in Seq(Line), LogAppend(ls)
  PROVE  LogTypes' /\ Rolling' /\ files' # <<>>
<1>1. PICK n \in {Len(ls)} \cup (IF failed = {} /\ ls # <<>> THEN {Len(ls) - 1} ELSE {}) :
        AppendLines(ls, n)
  BY DEF LogAppend
<1>2. Len(ls) \in Nat /\ (ls # <<>> => Len(ls) # 0)
  OBVIOUS
<1>3. n \in 0..Len(ls)
  BY <1>1, <1>2
<1> QED BY <1>1, <1>3, AppendLinesStep

\* The constructor of LogFile.
LEMMA OpenLogStep ==
  ASSUME LogTypes, files = <<>>, late = 0, OpenLog
  PROVE  LogTypes' /\ Rolling' /\ files' # <<>>
<1>1. now \in Nat /\ files \in Seq(Files)
  BY DEF LogTypes, Files
<1>2. log' = Rolled(NoLog) /\ files' = RolledFiles(files) /\ UNCHANGED <<now, stdio, late>>
  BY DEF OpenLog
<1>3. /\ log'.lastRoll = now /\ log'.startOfPeriod = StartOfPeriod(now) /\ log'.written = 0
      /\ log'.count = 0
      /\ log' \in [count : Nat, startOfPeriod : {log'.startOfPeriod}, lastRoll : Nat,
                   lastFlush : Nat, written : {log'.written}, last : Nat]
  BY <1>1, <1>2 DEF Rolled, NoLog
<1>4. DOMAIN files = {}
  OBVIOUS
<1>5. /\ files' \in Seq(Files) /\ files' # <<>> /\ files'[Len(files')].name = now
      /\ \A i, j \in DOMAIN files' : i < j => files'[i].name < files'[j].name
  BY <1>1, <1>2, <1>4, RollFacts
<1>6. LogTypes'
  BY <1>1, <1>2, <1>3, <1>5 DEF LogTypes, Files
<1>7. ~(log'.written > RollSize) /\ now <= now /\ log'.count <= kCheckTimeRoll + 1
  BY <1>1, <1>3, LogFileAssumption
<1>8. Rolling'
  BY <1>2, <1>3, <1>5, <1>7 DEF Rolling
<1> QED BY <1>5, <1>6, <1>8

\* Steps that do not append to the file.
LEMMA LogKept ==
  ASSUME LogTypes, Rolling, UNCHANGED <<log, files, late>>, now <= now', now' \in Nat,
         stdio' \in Seq(Line)
  PROVE  LogTypes' /\ Rolling'
<1>1. LogTypes'
  BY DEF LogTypes
<1>2. files # <<>> => log.lastRoll <= now'
  <2>1. now \in Nat /\ log.lastRoll \in Nat
    BY DEF LogTypes
  <2>2. ASSUME NEW x \in Nat, NEW m \in Nat, NEW n \in Nat, m <= n, x <= m PROVE x <= n
    BY <2>2
  <2> QED BY <2>1, <2>2 DEF Rolling
<1>3. Rolling'
  BY <1>2 DEF Rolling
<1> QED BY <1>1, <1>3

-----------------------------------------------------------------------------
(* Steps.                                                                  *)

LEMMA BufferTypesStep == IInv /\ [Next]_vars => BufferTypes'
<1> SUFFICES ASSUME IInv, [Next]_vars PROVE BufferTypes'
  OBVIOUS
<1>1. BufferTypes
  BY DEF IInv
<1> USE <1>1 DEF otherVars, bufferVars, threadVars, queueVars, setupVars, historyVars
<1>2. CASE AppendDoubleBuffering
  <2>1. PICK len \in LineSizes :
          /\ current' = Appended(IF ~Fits(current, [id |-> lines + 1, len |-> len])
                                 THEN <<>> ELSE current, [id |-> lines + 1, len |-> len])
          /\ buffers' = IF ~Fits(current, [id |-> lines + 1, len |-> len])
                        THEN Append(buffers, current) ELSE buffers
          /\ nextBuffer' = (nextBuffer /\ ~~Fits(current, [id |-> lines + 1, len |-> len]))
    BY <1>2 DEF AppendDoubleBuffering
  <2> DEFINE line == [id |-> lines + 1, len |-> len]
  <2>2. line \in Line
    BY AsyncLoggingAssumption DEF BufferTypes, Line
  <2> HIDE DEF line
  <2>3. <<>> \in Seq(Line) /\ current \in Seq(Line) /\ buffers \in Seq(Seq(Line))
    BY DEF BufferTypes
  <2>4. \A b \in Seq(Line) : Appended(b, line) \in Seq(Line)
    BY <2>2 DEF Appended
  <2>5. current' \in Seq(Line)
    BY <2>1, <2>3, <2>4 DEF line
  <2>6. Append(buffers, current) \in Seq(Seq(Line))
    BY <2>3
  <2>7. buffers' \in Seq(Seq(Line)) /\ nextBuffer' \in BOOLEAN
    BY <2>1, <2>3, <2>6
  <2>8. lines' \in Nat /\ UNCHANGED <<toWrite, queue, spare>>
    BY <1>2 DEF AppendDoubleBuffering, BufferTypes
  <2> QED BY <2>5, <2>7, <2>8 DEF BufferTypes
<1>3. ASSUME NEW t \in Appenders, AppendQueuePut(t) PROVE BufferTypes'
  <2>1. CASE PutWaits(t) /\ UNCHANGED <<calls, lines>>
    BY <1>3, <2>1 DEF AppendQueuePut, PutWaits, BufferTypes
  <2>2. ASSUME NEW len \in LineSizes, Put(t, <<[id |-> lines + 1, len |-> len]>>),
               lines' = lines + 1
        PROVE  BufferTypes'
    <3> DEFINE line == [id |-> lines + 1, len |-> len]
    <3>1. line \in Line
      BY AsyncLoggingAssumption DEF BufferTypes, Line
    <3>2. queue' = Append(queue, <<line>>)
      BY <2>2 DEF Put
    <3> HIDE DEF line
    <3>3. queue' \in Seq(Seq(Line))
      BY <3>1, <3>2 DEF BufferTypes
    <3> QED BY <1>3, <2>2, <3>3 DEF AppendQueuePut, BufferTypes
  <2> QED BY <1>3, <2>1, <2>2 DEF AppendQueuePut
<1>4. CASE StopPut
  <2>1. UNCHANGED <<lines, current, buffers, toWrite, nextBuffer, spare>>
    BY <1>4 DEF StopPut
  <2>2. queue' = queue \/ queue' = Append(queue, <<>>)
    BY <1>4 DEF StopPut, PutWaits, Put
  <2>3. <<>> \in Seq(Line)
    OBVIOUS
  <2>4. queue \in Seq(Seq(Line))
    BY DEF BufferTypes
  <2>5. ASSUME NEW m \in Seq(Line) PROVE Append(queue, m) \in Seq(Seq(Line))
    BY <2>4
  <2>6. Append(queue, <<>>) \in Seq(Seq(Line))
    BY ONLY <2>3, <2>5
  <2>7. queue' \in Seq(Seq(Line))
    BY <2>2, <2>4, <2>6
  <2> QED BY <2>1, <2>7 DEF BufferTypes
<1>5. ASSUME SwapBuffers, UNCHANGED <<lines, queue, spare>> PROVE BufferTypes'
  <2>1. toWrite' \in Seq(Seq(Line))
    <3>1. toWrite' = Append(buffers, current)
      BY <1>5 DEF SwapBuffers
    <3> QED BY <3>1 DEF BufferTypes
  <2>2. <<>> \in Seq(Line) /\ <<>> \in Seq(Seq(Line))
    OBVIOUS
  <2> QED BY <1>5, <2>1, <2>2 DEF SwapBuffers, BufferTypes
<1>6. CASE Top
  <2>1. UNCHANGED <<lines, queue, spare>>
    BY <1>6 DEF Top
  <2>2. SwapBuffers \/ UNCHANGED <<current, buffers, toWrite, nextBuffer>>
    BY <1>6 DEF Top
  <2> QED BY <1>5, <2>1, <2>2 DEF BufferTypes
<1>7. CASE Wake
  BY <1>5, <1>7 DEF Wake
<1>8. CASE Drop
  <2>1. /\ toWrite' = SubSeq(toWrite, Len(toWrite) - 2 + 1, Len(toWrite) - 2 + 2)
        /\ UNCHANGED <<lines, current, buffers, queue, nextBuffer, spare>>
    BY <1>8 DEF Drop
  <2>2. Len(toWrite) \in Nat /\ Len(toWrite) > 2 /\ toWrite \in Seq(Seq(Line))
    BY <1>8, AsyncLoggingAssumption DEF Drop, IInv, Exchange, BufferTypes
  <2>3. \A i \in (Len(toWrite) - 2 + 1)..(Len(toWrite) - 2 + 2) : toWrite[i] \in Seq(Line)
    BY <2>2
  <2>4. toWrite' \in Seq(Seq(Line))
    BY <2>1, <2>2, <2>3, SubSeqProperties
  <2> QED BY <2>1, <2>4 DEF BufferTypes
<1>9. CASE WriteBuffer
  <2>1. toWrite # <<>> /\ toWrite' = Tail(toWrite) /\ spare' = spare + 1
    BY <1>9 DEF WriteBuffer
  <2>2. toWrite' \in Seq(Seq(Line)) /\ spare' \in Nat
    BY <2>1 DEF BufferTypes
  <2> QED BY <1>9, <2>2 DEF WriteBuffer, BufferTypes
<1>10. CASE TakeLine
  <2>1. queue # <<>> /\ queue' = Tail(queue)
    BY <1>10 DEF TakeLine, Take
  <2>2. queue' \in Seq(Seq(Line))
    BY <2>1 DEF BufferTypes
  <2> QED BY <1>10, <2>2 DEF TakeLine, BufferTypes
<1>11. CASE Recycle
  BY <1>11 DEF Recycle, BufferTypes
<1>12. CASE \/ \E t \in Appenders : AppendQueue(t)
            \/ Start \/ Stop \/ Join \/ ThreadStart \/ TakeWait \/ Spurious \/ Clock
            \/ UNCHANGED vars
  <2>1. UNCHANGED <<lines, current, buffers, toWrite, queue, nextBuffer, spare>>
    BY <1>12 DEF AppendQueue, Start, Stop, Join, ThreadStart, TakeWait, TakeWaits, Spurious,
                 SpuriousWakeup, Clock, Tick, vars
  <2> QED BY <2>1 DEF BufferTypes
<1> QED
  BY <1>2, <1>3, <1>4, <1>6, <1>7, <1>8, <1>9, <1>10, <1>11, <1>12 DEF Next, LoggerThread

LEMMA LogStep == IInv /\ [Next]_vars => LogTypes' /\ Rolling' /\ Opened'
<1> SUFFICES ASSUME IInv, [Next]_vars PROVE LogTypes' /\ Rolling' /\ Opened'
  OBVIOUS
<1>1. /\ LogTypes /\ Rolling /\ Opened /\ BufferTypes
      /\ now \in Nat /\ stdio \in Seq(Line) /\ <<>> \in Seq(Line)
  BY DEF IInv, LogTypes
<1>2. ASSUME UNCHANGED <<log, files, late>>, now <= now', now' \in Nat, stdio' \in Seq(Line),
             pc' \in {"none", "start"} <=> pc \in {"none", "start"}
      PROVE  LogTypes' /\ Rolling' /\ Opened'
  BY <1>1, <1>2, LogKept DEF Opened
<1>3. ASSUME NEW ls \in Seq(Line), LogAppend(ls), pc \notin {"none", "start"},
             pc' \notin {"none", "start"}
      PROVE  LogTypes' /\ Rolling' /\ Opened'
  <2>1. files # <<>>
    BY <1>1, <1>3 DEF Opened
  <2>2. LogTypes' /\ Rolling' /\ files' # <<>>
    BY <1>1, <1>3, <2>1, LogAppendStep
  <2> QED BY <1>3, <2>2 DEF Opened
<1>4. now <= now
  BY <1>1
<1>5. CASE \/ AppendDoubleBuffering \/ \E t \in Appenders : AppendQueue(t) \/ AppendQueuePut(t)
           \/ Start \/ Stop \/ StopPut \/ Join \/ TakeWait \/ Spurious \/ UNCHANGED vars
  <2>1. UNCHANGED <<now, log, files, stdio, late>>
    BY <1>5 DEF AppendDoubleBuffering, AppendQueue, AppendQueuePut, Start, Stop, StopPut, Join,
                TakeWait, Spurious, vars, logVars
  <2>2. pc' = pc \/ (pc = "none" /\ pc' = "start")
    <3>1. CASE Start
      BY <3>1 DEF Start, IInv, Phases
    <3>2. CASE ~Start
      BY <1>5, <3>2 DEF AppendDoubleBuffering, AppendQueue, AppendQueuePut, Stop, StopPut, Join,
                        TakeWait, Spurious, vars
    <3> QED BY <3>1, <3>2
  <2> QED BY <1>1, <1>2, <1>4, <2>1, <2>2
<1>6. CASE Wake
  <2>1. UNCHANGED <<now, log, files, stdio, late>> /\ pc = "wait"
    BY <1>6 DEF Wake, logVars
  <2>2. pc' \in {"drop", "write"}
    BY <1>6 DEF Wake, SwapBuffers
  <2> QED BY <1>1, <1>2, <1>4, <2>1, <2>2
<1>7. CASE Top
  <2>1. UNCHANGED <<now, log, files, late>> /\ pc = "top"
    BY <1>7 DEF Top, CloseLog, logVars, otherVars, setupVars
  <2>2. pc' \in {"drop", "write", "wait", "end"} /\ stdio' \in {stdio, <<>>}
    BY <1>7 DEF Top, CloseLog, logVars, SwapBuffers
  <2> QED BY <1>1, <1>2, <1>4, <2>1, <2>2
<1>8. CASE Recycle
  <2>1. UNCHANGED <<now, log, files, late>> /\ pc = "write" /\ pc' = "top" /\ stdio' = <<>>
    BY <1>8 DEF Recycle, LogFlush
  <2> QED BY <1>1, <1>2, <1>4, <2>1
<1>9. CASE Clock
  <2>1. UNCHANGED <<log, files, stdio, late, pc>> /\ now' = now + 1
    BY <1>9 DEF Clock, Tick, logVars
  <2>2. now <= now' /\ now' \in Nat
    BY <1>1, <2>1
  <2> QED BY <1>1, <1>2, <2>1, <2>2
<1>10. CASE ThreadStart
  <2>1. pc = "start" /\ OpenLog /\ pc' \in {"take", "top"}
    BY <1>10 DEF ThreadStart
  <2>2. files = <<>> /\ late = 0
    BY <1>1, <2>1 DEF Opened
  <2>3. LogTypes' /\ Rolling' /\ files' # <<>>
    BY <1>1, <2>1, <2>2, OpenLogStep
  <2> QED BY <2>1, <2>3 DEF Opened
<1>11. CASE Drop
  <2>1. pc = "drop" /\ pc' = "write" /\ LogAppend(<<DropMsg>>)
    BY <1>11 DEF Drop
  <2>2. DropMsg \in Line
    BY AsyncLoggingAssumption DEF DropMsg, Line
  <2>3. <<DropMsg>> \in Seq(Line)
    BY <2>2
  <2> QED BY <1>3, <2>1, <2>3
<1>12. CASE WriteBuffer
  <2>1. pc = "write" /\ pc' = "write" /\ toWrite # <<>> /\ LogAppend(Head(toWrite))
    BY <1>12 DEF WriteBuffer
  <2>2. Head(toWrite) \in Seq(Line)
    BY <1>1, <2>1 DEF BufferTypes
  <2> QED BY <1>3, <2>1, <2>2
<1>13. CASE TakeLine
  <2>1. pc = "take" /\ queue # <<>>
    BY <1>13 DEF TakeLine, Take
  <2>2. CASE Head(queue) = <<>>
    <3>1. UNCHANGED <<now, log, files, late>> /\ pc' = "end" /\ stdio' = <<>>
      BY <1>13, <2>2 DEF TakeLine, CloseLog
    <3> QED BY <1>1, <1>2, <1>4, <2>1, <3>1
  <2>3. CASE Head(queue) # <<>>
    <3>1. LogAppend(Head(queue)) /\ pc' = "take"
      BY <1>13, <2>1, <2>3 DEF TakeLine
    <3>2. Head(queue) \in Seq(Line)
      BY <1>1, <2>1 DEF BufferTypes
    <3> QED BY <1>3, <2>1, <3>1, <3>2
  <2> QED BY <2>2, <2>3
<1> QED
  BY <1>5, <1>6, <1>7, <1>8, <1>9, <1>10, <1>11, <1>12, <1>13 DEF Next, LoggerThread

LEMMA PhasesStep == IInv /\ [Next]_vars => Phases'
<1> SUFFICES ASSUME IInv, [Next]_vars PROVE Phases'
  OBVIOUS
<1>1. Phases
  BY DEF IInv
<1> USE DEF otherVars, setupVars, logVars
<1>2. CASE Start
  BY <1>1, <1>2 DEF Start, Phases
<1>3. CASE Stop
  BY <1>1, <1>3 DEF Stop, Phases
<1>4. CASE StopPut
  <2>1. main = "put" /\ UNCHANGED <<pc, backend, stdio>> /\ main' \in {"put", "join"}
    BY <1>4 DEF StopPut
  <2> QED BY <1>1, <2>1 DEF Phases
<1>5. CASE Join
  BY <1>1, <1>5 DEF Join, Phases
<1>6. CASE ThreadStart
  <2>1. /\ pc = "start" /\ main' = "started" /\ UNCHANGED backend
        /\ pc' = IF backend = "queue" THEN "take" ELSE "top"
    BY <1>6 DEF ThreadStart
  <2>2. backend \in {"doubleBuffering", "queue"}
    BY DEF IInv, Phases
  <2> QED BY <1>1, <2>1, <2>2 DEF Phases
<1>7. CASE Top
  <2>1. /\ pc = "top" /\ UNCHANGED <<main, backend>>
        /\ pc' \in {"drop", "write", "wait"} \/ (pc' = "end" /\ stdio' = <<>>)
    BY <1>7 DEF Top, CloseLog, SwapBuffers
  <2> QED BY <1>1, <2>1 DEF Phases
<1>8. CASE Wake \/ Drop \/ WriteBuffer \/ Recycle
  <2>1. /\ pc \in {"wait", "drop", "write"} /\ UNCHANGED <<main, backend>>
        /\ pc' \in {"drop", "write", "top"}
    BY <1>8 DEF Wake, SwapBuffers, Drop, WriteBuffer, Recycle
  <2> QED BY <1>1, <2>1 DEF Phases
<1>9. CASE TakeLine
  <2>1. pc = "take" /\ queue # <<>> /\ UNCHANGED <<main, backend>>
    BY <1>9 DEF TakeLine, Take
  <2>2. CASE Head(queue) = <<>>
    <3>1. pc' = "end" /\ stdio' = <<>>
      BY <1>9, <2>2 DEF TakeLine, CloseLog
    <3>2. 1 \in DOMAIN queue /\ queue[1] = <<>>
      BY <2>1, <2>2 DEF IInv, BufferTypes
    <3>3. main = "join"
      BY <3>2 DEF IInv, StopMessage
    <3> QED BY <1>1, <2>1, <3>1, <3>3 DEF Phases
  <2>3. CASE Head(queue) # <<>>
    BY <1>1, <1>9, <2>1, <2>3 DEF TakeLine, Phases
  <2> QED BY <2>2, <2>3
<1>10. CASE \/ AppendDoubleBuffering \/ \E t \in Appenders : AppendQueue(t) \/ AppendQueuePut(t)
            \/ TakeWait \/ Spurious \/ Clock \/ UNCHANGED vars
  <2>1. UNCHANGED <<main, pc, backend, stdio>>
    BY <1>10 DEF AppendDoubleBuffering, AppendQueue, AppendQueuePut, TakeWait, Spurious, Clock,
                 Tick, vars
  <2> QED BY <1>1, <2>1 DEF Phases
<1> QED
  BY <1>2, <1>3, <1>4, <1>5, <1>6, <1>7, <1>8, <1>9, <1>10 DEF Next, LoggerThread

LEMMA ExchangeStep == IInv /\ [Next]_vars => Exchange'
<1> SUFFICES ASSUME IInv, [Next]_vars PROVE Exchange'
  OBVIOUS
<1>1. Exchange /\ BufferTypes /\ Phases
  BY DEF IInv
<1> USE DEF otherVars, bufferVars, threadVars
<1>2. CASE AppendDoubleBuffering
  <2>1. UNCHANGED <<pc, newBuffers, toWrite, spare>>
    BY <1>2 DEF AppendDoubleBuffering
  <2>2. \/ UNCHANGED <<nextBuffer, buffers>>
        \/ buffers' = Append(buffers, current)
    BY <1>1, <1>2 DEF AppendDoubleBuffering, BufferTypes
  <2>3. ~nextBuffer' => buffers' # <<>>
    BY <1>1, <2>2 DEF Exchange, BufferTypes
  <2> QED BY <1>1, <2>1, <2>3 DEF Exchange
<1>3. CASE Start
  BY <1>1, <1>3 DEF Start, Exchange, Phases
<1>4. CASE ThreadStart
  BY <1>1, <1>4 DEF ThreadStart, Exchange
<1>5. ASSUME SwapBuffers, pc \in {"top", "wait"}, UNCHANGED spare PROVE Exchange'
  <2>1. /\ toWrite' = Append(buffers, current) /\ nextBuffer' = TRUE
        /\ newBuffers' = newBuffers \ (IF nextBuffer THEN {1} ELSE {1, 2})
        /\ pc' = IF Len(buffers) + 1 > MaxBuffers THEN "drop" ELSE "write"
    BY <1>5 DEF SwapBuffers
  <2>2. newBuffers = {1, 2} /\ spare = 0 /\ spare' = 0
    BY <1>1, <1>5 DEF Exchange
  <2>3. newBuffers' = IF nextBuffer THEN {2} ELSE {}
    BY <2>1, <2>2
  <2>4. Len(toWrite') = Len(buffers) + 1 /\ Len(buffers) \in Nat
    BY <1>1, <2>1 DEF BufferTypes
  <2>5. ~nextBuffer => Len(buffers) >= 1
    BY <1>1, <2>4 DEF Exchange, BufferTypes
  <2>6. pc' = "drop" => Len(toWrite') > MaxBuffers
    BY <2>1, <2>4
  <2>7. \/ newBuffers' = {2} /\ spare' + Len(toWrite') >= 1
        \/ newBuffers' = {} /\ spare' + Len(toWrite') >= 2
    BY <2>2, <2>3, <2>4, <2>5
  <2>8. pc' \in {"drop", "write"}
    BY <2>1
  <2> QED BY <2>1, <2>2, <2>3, <2>6, <2>7, <2>8 DEF Exchange
<1>6. CASE Top
  <2>1. CASE SwapBuffers
    BY <1>5, <1>6, <2>1 DEF Top, SwapBuffers
  <2>2. CASE ~SwapBuffers
    <3>1. /\ pc = "top" /\ UNCHANGED <<nextBuffer, buffers, newBuffers, toWrite, spare>>
          /\ pc' \in {"wait", "end"}
      BY <1>6, <2>2 DEF Top
    <3> QED BY <1>1, <3>1 DEF Exchange
  <2> QED BY <2>1, <2>2
<1>7. CASE Wake
  BY <1>5, <1>7 DEF Wake
<1>8. CASE Drop
  <2>1. /\ pc = "drop" /\ pc' = "write"
        /\ toWrite' = SubSeq(toWrite, Len(toWrite) - 2 + 1, Len(toWrite) - 2 + 2)
        /\ UNCHANGED <<nextBuffer, buffers, newBuffers, spare>>
    BY <1>8 DEF Drop
  <2>2. Len(toWrite) \in Nat /\ Len(toWrite) > 2 /\ toWrite \in Seq(Seq(Line))
    BY <1>1, <2>1, AsyncLoggingAssumption DEF Exchange, BufferTypes
  <2>3. Len(toWrite') = 2
    <3> DEFINE a == Len(toWrite) - 2 + 1
               b == Len(toWrite) - 2 + 2
    <3>1. /\ a \in 1..(Len(toWrite) + 1) /\ b \in (a - 1)..Len(toWrite) /\ a <= b
          /\ b - a + 1 = 2
      BY <2>2
    <3>2. toWrite' = SubSeq(toWrite, a, b)
      BY <2>1
    <3> HIDE DEF a, b
    <3>3. Len(SubSeq(toWrite, a, b)) = b - a + 1
      BY <2>2, <3>1, SubSeqProperties
    <3> QED BY <3>1, <3>2, <3>3
  <2>4. newBuffers \in {{2}, {}} /\ spare = 0
    BY <1>1, <2>1 DEF Exchange
  <2>5. spare' + Len(toWrite') >= 1 /\ spare' + Len(toWrite') >= 2
    BY <2>1, <2>3, <2>4
  <2> QED BY <1>1, <2>1, <2>4, <2>5 DEF Exchange
<1>9. CASE WriteBuffer
  <2>1. /\ pc = "write" /\ toWrite # <<>> /\ toWrite' = Tail(toWrite) /\ spare' = spare + 1
        /\ UNCHANGED <<pc, nextBuffer, buffers, newBuffers>>
    BY <1>9 DEF WriteBuffer
  <2>2. spare' + Len(toWrite') = spare + Len(toWrite)
    BY <1>1, <2>1 DEF BufferTypes
  <2> QED BY <1>1, <2>1, <2>2 DEF Exchange
<1>10. CASE Recycle
  BY <1>1, <1>10 DEF Recycle, Exchange
<1>11. CASE TakeLine
  <2>1. /\ pc = "take" /\ pc' \in {"take", "end"}
        /\ UNCHANGED <<nextBuffer, buffers, newBuffers, toWrite, spare>>
    BY <1>11 DEF TakeLine
  <2> QED BY <1>1, <2>1 DEF Exchange
<1>12. CASE \/ \E t \in Appenders : AppendQueue(t) \/ AppendQueuePut(t)
            \/ Stop \/ StopPut \/ Join \/ TakeWait \/ Spurious \/ Clock \/ UNCHANGED vars
  <2>1. UNCHANGED <<pc, nextBuffer, buffers, newBuffers, toWrite, spare>>
    BY <1>12 DEF AppendQueue, AppendQueuePut, Stop, StopPut, Join, TakeWait, Spurious, Clock, vars
  <2> QED BY <1>1, <2>1 DEF Exchange
<1> QED
  BY <1>2, <1>3, <1>4, <1>6, <1>7, <1>8, <1>9, <1>10, <1>11, <1>12 DEF Next, LoggerThread

\* A message at the end of the queue, and the first one out of it.
LEMMA StopMessageAppend ==
  ASSUME queue \in Seq(Seq(Line)), NEW m \in Seq(Line), queue' = Append(queue, m)
  PROVE  \E n : /\ queue'[n] = m /\ n \notin DOMAIN queue
                /\ \A i : i \in DOMAIN queue' <=> i \in DOMAIN queue \/ i = n
                /\ \A i \in DOMAIN queue : queue'[i] = queue[i]
<1> DEFINE n == Len(queue) + 1
<1>1. /\ DOMAIN queue = 1..Len(queue) /\ DOMAIN queue' = 1..n /\ Len(queue) \in Nat
      /\ queue'[n] = m /\ \A i \in DOMAIN queue : queue'[i] = queue[i]
  OBVIOUS
<1>2. \A i : i \in DOMAIN queue' <=> i \in DOMAIN queue \/ i = n
  BY <1>1
<1>3. n \notin DOMAIN queue
  BY <1>1
<1> HIDE DEF n
<1> QED BY <1>1, <1>2, <1>3

LEMMA StopMessageTail ==
  ASSUME queue \in Seq(Seq(Line)), queue # <<>>, queue' = Tail(queue)
  PROVE  /\ 1 \in DOMAIN queue /\ Head(queue) = queue[1]
         /\ \A i \in DOMAIN queue' : i + 1 \in DOMAIN queue \ {1} /\ queue'[i] = queue[i + 1]
         /\ DOMAIN queue' \subseteq Nat
<1>1. /\ DOMAIN queue = 1..Len(queue) /\ DOMAIN queue' = 1..(Len(queue) - 1)
      /\ Len(queue) \in Nat \ {0} /\ Head(queue) = queue[1]
  OBVIOUS
<1>2. \A i \in DOMAIN queue' : i + 1 \in DOMAIN queue \ {1} /\ queue'[i] = queue[i + 1]
  BY <1>1
<1> QED BY <1>1, <1>2

LEMMA StopMessageStep == IInv /\ [Next]_vars => StopMessage'
<1> SUFFICES ASSUME IInv, [Next]_vars PROVE StopMessage'
  OBVIOUS
<1>1. StopMessage /\ Phases /\ queue \in Seq(Seq(Line)) /\ lines \in Nat
  BY DEF IInv, BufferTypes
<1> USE DEF otherVars, setupVars, queueVars
<1>2. ASSUME NEW t \in Appenders, AppendQueuePut(t) PROVE StopMessage'
  <2>1. UNCHANGED <<main, pc, backend>>
    BY <1>2 DEF AppendQueuePut
  <2>2. CASE PutWaits(t)
    BY <1>1, <2>1, <2>2 DEF PutWaits, StopMessage
  <2>3. ASSUME NEW len \in LineSizes, Put(t, <<[id |-> lines + 1, len |-> len]>>)
        PROVE  StopMessage'
    <3> DEFINE line == [id |-> lines + 1, len |-> len]
               m == <<line>>
    <3>1. line \in Line
      BY <1>1, AsyncLoggingAssumption DEF Line
    <3>2. queue' = Append(queue, m)
      BY <2>3 DEF Put
    <3> HIDE DEF line
    <3>3. m \in Seq(Line) /\ m # <<>>
      BY <3>1
    <3> HIDE DEF m
    <3>4. PICK n : /\ queue'[n] = m /\ n \notin DOMAIN queue
                   /\ \A i : i \in DOMAIN queue' <=> i \in DOMAIN queue \/ i = n
                   /\ \A i \in DOMAIN queue : queue'[i] = queue[i]
      BY <1>1, <3>2, <3>3, StopMessageAppend
    <3>5. \A i \in DOMAIN queue' : queue'[i] = <<>> => i \in DOMAIN queue /\ queue[i] = <<>>
      BY <3>3, <3>4
    <3> QED BY <1>1, <2>1, <3>5 DEF StopMessage
  <2> QED BY <1>2, <2>2, <2>3 DEF AppendQueuePut
<1>3. CASE StopPut
  <2>1. main = "put" /\ UNCHANGED <<pc, backend>>
    BY <1>3 DEF StopPut
  <2>2. \A i \in DOMAIN queue : queue[i] # <<>>
    BY <1>1, <2>1 DEF StopMessage
  <2>3. CASE PutWaits(Main) /\ UNCHANGED <<main, stopLine>>
    BY <1>1, <2>1, <2>3 DEF PutWaits, StopMessage
  <2>4. CASE Put(Main, <<>>) /\ main' = "join" /\ stopLine' = lines
    <3> DEFINE m == <<>>
    <3>1. queue' = Append(queue, m) /\ m \in Seq(Line)
      BY <2>4 DEF Put
    <3> HIDE DEF m
    <3>2. PICK n : /\ queue'[n] = m /\ n \notin DOMAIN queue
                   /\ \A i : i \in DOMAIN queue' <=> i \in DOMAIN queue \/ i = n
                   /\ \A i \in DOMAIN queue : queue'[i] = queue[i]
      BY <1>1, <3>1, StopMessageAppend
    <3>3. \A i \in DOMAIN queue' : queue'[i] = <<>> => i = n
      BY <2>2, <3>2
    <3>4. backend = "queue" /\ pc # "end"
      BY <1>1, <2>1 DEF Phases
    <3> QED BY <2>1, <2>4, <3>3, <3>4 DEF StopMessage
  <2> QED BY <1>3, <2>3, <2>4 DEF StopPut
<1>4. CASE TakeLine
  <2>1. queue # <<>> /\ queue' = Tail(queue) /\ UNCHANGED <<main, backend>> /\ pc = "take"
    BY <1>4 DEF TakeLine, Take
  <2>2. /\ 1 \in DOMAIN queue /\ Head(queue) = queue[1]
        /\ \A i \in DOMAIN queue' : i + 1 \in DOMAIN queue \ {1} /\ queue'[i] = queue[i + 1]
        /\ DOMAIN queue' \subseteq Nat
    BY <1>1, <2>1, StopMessageTail
  <2>3. CASE Head(queue) = <<>>
    <3>1. \A i \in DOMAIN queue' : queue'[i] # <<>>
      BY <1>1, <2>2, <2>3 DEF StopMessage
    <3> QED BY <3>1 DEF StopMessage
  <2>4. CASE Head(queue) # <<>>
    <3>1. pc' = pc
      BY <1>4, <2>4 DEF TakeLine
    <3>2. ASSUME NEW i \in DOMAIN queue', NEW j \in DOMAIN queue', queue'[i] = <<>>,
                 queue'[j] = <<>>
          PROVE  i = j
      <4>1. i + 1 = j + 1
        BY <1>1, <2>2, <3>2 DEF StopMessage
      <4> QED BY <2>2, <4>1
    <3>3. (\E i \in DOMAIN queue' : queue'[i] = <<>>) => \E i \in DOMAIN queue : queue[i] = <<>>
      BY <2>2
    <3> QED BY <1>1, <2>1, <3>1, <3>2, <3>3 DEF StopMessage
  <2> QED BY <2>3, <2>4
<1>5. ASSUME UNCHANGED <<queue, backend>>, main = "join" => main' \in {"join", "stopped"},
             main' = "stopped" => main = "stopped" \/ pc = "end",
             pc' = "end" => pc = "end" \/ backend = "doubleBuffering"
      PROVE  StopMessage'
  BY <1>1, <1>5 DEF StopMessage
<1>6. CASE Start \/ Stop \/ Join
  BY <1>1, <1>5, <1>6 DEF Start, Stop, Join
<1>7. CASE ThreadStart
  <2>1. main # "join"
    BY <1>1, <1>7 DEF ThreadStart, Phases
  <2> QED BY <1>5, <1>7, <2>1 DEF ThreadStart
<1>8. CASE Top
  <2>1. backend = "doubleBuffering" /\ UNCHANGED <<queue, backend, main>>
    BY <1>1, <1>8 DEF Top, Phases
  <2> QED BY <1>5, <2>1
<1>9. CASE Wake \/ Drop \/ WriteBuffer \/ Recycle
  <2>1. pc' \in {"drop", "write", "top"} /\ UNCHANGED <<queue, backend, main>>
    BY <1>9 DEF Wake, SwapBuffers, Drop, WriteBuffer, Recycle
  <2> QED BY <1>5, <2>1
<1>10. CASE \/ AppendDoubleBuffering \/ \E t \in Appenders : AppendQueue(t)
            \/ TakeWait \/ Spurious \/ Clock \/ UNCHANGED vars
  <2>1. UNCHANGED <<main, pc, backend, queue>>
    BY <1>10 DEF AppendDoubleBuffering, AppendQueue, TakeWait, TakeWaits, Spurious,
                 SpuriousWakeup, Clock, vars
  <2> QED BY <1>5, <2>1
<1> QED
  BY <1>2, <1>3, <1>4, <1>6, <1>7, <1>8, <1>9, <1>10 DEF Next, LoggerThread

-----------------------------------------------------------------------------
(* Theorems.                                                               *)

LEMMA InitIInv == Init => IInv
<1> SUFFICES ASSUME Init PROVE IInv
  OBVIOUS
<1>1. /\ now = 1 /\ log = NoLog /\ files = <<>> /\ stdio = <<>> /\ late = 0
      /\ backend \in {"doubleBuffering", "queue"} /\ main = "new" /\ pc = "none" /\ lines = 0
      /\ queue = <<>> /\ current = <<>> /\ nextBuffer = TRUE /\ buffers = <<>>
      /\ newBuffers = {1, 2} /\ toWrite = <<>> /\ spare = 0
  BY DEF Init, LogInit
<1>2. LogTypes
  <2>1. log \in [count : Nat, startOfPeriod : {log.startOfPeriod}, lastRoll : Nat,
                 lastFlush : Nat, written : {log.written}, last : Nat]
    BY <1>1 DEF NoLog
  <2>2. files \in Seq([name : Nat, lines : Seq(Line)]) /\ stdio \in Seq(Line)
    BY <1>1
  <2> QED BY <1>1, <2>1, <2>2 DEF LogTypes
<1>3. BufferTypes
  <2>1. current \in Seq(Line) /\ buffers \in Seq(Seq(Line)) /\ toWrite \in Seq(Seq(Line))
    BY <1>1
  <2>2. queue \in Seq(Seq(Line))
    BY <1>1
  <2> QED BY <1>1, <2>1, <2>2 DEF BufferTypes
<1>4. Rolling
  <2>1. DOMAIN files = {}
    BY <1>1
  <2>2. log.written = 0 /\ log.count = 0
    BY <1>1 DEF NoLog
  <2>3. ~(log.written > RollSize) /\ late <= log.count /\ log.count <= kCheckTimeRoll + 1
    BY <1>1, <2>2, LogFileAssumption
  <2> QED BY <1>1, <2>1, <2>3 DEF Rolling
<1>5. StopMessage
  <2>1. DOMAIN queue = {}
    BY <1>1
  <2> QED BY <2>1 DEF StopMessage
<1> QED BY <1>1, <1>2, <1>3, <1>4, <1>5 DEF IInv, Opened, Phases, Exchange

\* The inductive invariant of both asynchronous logs and their LogFile.
THEOREM Inductive == Spec => []IInv
<1>1. IInv /\ [Next]_vars => IInv'
  BY LogStep, BufferTypesStep, PhasesStep, ExchangeStep, StopMessageStep DEF IInv
<1> QED BY <1>1, InitIInv, PTL DEF Spec

\* The log rolls in time, whatever the sizes, periods and intervals: names of files
\* rise, a file that is too big is left within its second, and at most
\* kCheckTimeRoll_ + 1 appends go to a file after its period (LogFile::append_unlocked).
THEOREM LogRollsInTime == Spec => []RollsInTime
<1>1. IInv => RollsInTime
  <2> SUFFICES ASSUME IInv PROVE RollsInTime
    OBVIOUS
  <2>1. Rolling /\ late \in Nat /\ log.count \in Nat
    BY DEF IInv, LogTypes
  <2>2. late <= kCheckTimeRoll + 1
    BY <2>1, LogFileAssumption DEF Rolling
  <2> QED BY <2>1, <2>2 DEF Rolling, RollsInTime
<1> QED BY <1>1, Inductive, PTL

\* Both new buffers are back at the top of the loop of threadFunc, also after
\* buffers were dropped: its asserts hold.
THEOREM BuffersAreReturned == Spec => []BuffersComeBack
<1>1. IInv => BuffersComeBack
  <2> SUFFICES ASSUME IInv PROVE BuffersComeBack
    OBVIOUS
  <2>1. Exchange /\ spare \in Nat
    BY DEF IInv, BufferTypes
  <2>2. ASSUME pc = "write", toWrite = <<>> PROVE spare >= 2 - Cardinality(newBuffers)
    <3>1. Len(toWrite) = 0
      BY <2>2
    <3>2. Cardinality({2}) = 1 /\ Cardinality({}) = 0
      BY FS_Singleton, FS_EmptySet
    <3>3. \/ newBuffers = {2} /\ spare >= 1
          \/ newBuffers = {} /\ spare >= 2
      BY <2>1, <2>2, <3>1 DEF Exchange
    <3>4. CASE newBuffers = {2} /\ spare >= 1
      <4>1. Cardinality(newBuffers) = 1
        BY <3>2, <3>4
      <4> QED BY <2>1, <3>4, <4>1
    <3>5. CASE newBuffers = {} /\ spare >= 2
      <4>1. Cardinality(newBuffers) = 0
        BY <3>2, <3>5
      <4> QED BY <2>1, <3>5, <4>1
    <3> QED BY <3>3, <3>4, <3>5
  <2> QED BY <2>1, <2>2 DEF Exchange, BuffersComeBack
<1> QED BY <1>1, Inductive, PTL

-----------------------------------------------------------------------------
(* Every line is at one place, in order.                                   *)

\* Line x is at place j of ss[i].
In(ss, i, j, x) == i \in DOMAIN ss /\ j \in DOMAIN ss[i] /\ x = ss[i][j].id

\* The lines of ss were logged before those of tt.
Below(ss, tt) == \A x \in Ids(ss) \ {0}, y \in Ids(tt) \ {0} : x < y

LEMMA InFacts ==
  ASSUME NEW ss
  PROVE  /\ InOrder(ss) <=> \A i, j, k, l, x, y :
              In(ss, i, j, x) /\ In(ss, k, l, y) /\ Before(i, j, k, l) /\ x # 0 /\ y # 0 => x < y
         /\ \A x : x \in Ids(ss) <=> \E i, j : In(ss, i, j, x)
<1>1. InOrder(ss) <=> \A i, j, k, l, x, y :
        In(ss, i, j, x) /\ In(ss, k, l, y) /\ Before(i, j, k, l) /\ x # 0 /\ y # 0 => x < y
  BY Zenon DEF InOrder, In
<1>2. \A x : x \in Ids(ss) <=> \E i, j : In(ss, i, j, x)
  <2>1. ASSUME NEW x, x \in Ids(ss) PROVE \E i, j : In(ss, i, j, x)
    <3>1. PICK i \in DOMAIN ss : x \in {ss[i][j].id : j \in DOMAIN ss[i]}
      BY <2>1 DEF Ids
    <3>2. PICK j \in DOMAIN ss[i] : x = ss[i][j].id
      BY <3>1
    <3> QED BY <3>1, <3>2 DEF In
  <2>2. ASSUME NEW x, NEW i, NEW j, In(ss, i, j, x) PROVE x \in Ids(ss)
    <3>1. x \in {ss[i][n].id : n \in DOMAIN ss[i]} /\ i \in DOMAIN ss
      BY <2>2 DEF In
    <3> QED BY <3>1 DEF Ids
  <2> QED BY <2>1, <2>2
<1> QED BY <1>1, <1>2

LEMMA InTypes ==
  ASSUME NEW ss \in Seq(Seq(Line)), NEW i, NEW j, NEW x, In(ss, i, j, x)
  PROVE  i \in 1..Len(ss) /\ ss[i] \in Seq(Line) /\ j \in 1..Len(ss[i]) /\ x \in Nat
<1>1. i \in 1..Len(ss) /\ ss[i] \in Seq(Line)
  BY DEF In
<1>2. j \in 1..Len(ss[i]) /\ ss[i][j] \in Line
  BY <1>1 DEF In
<1> QED BY <1>1, <1>2 DEF In, Line

LEMMA InConcat ==
  ASSUME NEW ss \in Seq(Seq(Line)), NEW tt \in Seq(Seq(Line)), NEW i, NEW j, NEW x
  PROVE  In(ss \o tt, i, j, x) <=>
           In(ss, i, j, x) \/ \E k \in Nat : i = Len(ss) + k /\ In(tt, k, j, x)
<1> DEFINE st == ss \o tt
<1>1. /\ DOMAIN st = 1..(Len(ss) + Len(tt)) /\ DOMAIN ss = 1..Len(ss) /\ DOMAIN tt = 1..Len(tt)
      /\ Len(ss) \in Nat /\ Len(tt) \in Nat
      /\ \A n \in 1..Len(ss) : st[n] = ss[n]
      /\ \A n \in 1..Len(tt) : st[Len(ss) + n] = tt[n]
  OBVIOUS
<1> HIDE DEF st
<1>2. ASSUME In(st, i, j, x)
      PROVE  In(ss, i, j, x) \/ \E k \in Nat : i = Len(ss) + k /\ In(tt, k, j, x)
  <2>1. CASE i \in 1..Len(ss)
    BY <1>1, <1>2, <2>1 DEF In
  <2>2. CASE i \notin 1..Len(ss)
    <3>1. PICK k \in 1..Len(tt) : i = Len(ss) + k
      <4>1. i \in 1..(Len(ss) + Len(tt))
        BY <1>1, <1>2 DEF In
      <4>2. i - Len(ss) \in 1..Len(tt) /\ i = Len(ss) + (i - Len(ss))
        BY <1>1, <2>2, <4>1
      <4> QED BY <4>2
    <3>2. st[i] = tt[k]
      BY <1>1, <3>1
    <3> QED BY <1>1, <1>2, <3>1, <3>2 DEF In
  <2> QED BY <2>1, <2>2
<1>3. ASSUME In(ss, i, j, x) PROVE In(st, i, j, x)
  <2>1. i \in 1..Len(ss) /\ i \in DOMAIN st
    BY <1>1, <1>3 DEF In
  <2>2. st[i] = ss[i]
    BY <1>1, <2>1
  <2> QED BY <1>3, <2>1, <2>2 DEF In
<1>4. ASSUME NEW k \in Nat, i = Len(ss) + k, In(tt, k, j, x) PROVE In(st, i, j, x)
  <2>1. k \in 1..Len(tt) /\ i \in DOMAIN st
    BY <1>1, <1>4 DEF In
  <2>2. st[i] = tt[k]
    BY <1>1, <1>4, <2>1
  <2> QED BY <1>4, <2>1, <2>2 DEF In
<1> QED BY <1>2, <1>3, <1>4 DEF st

\* Two rows of buffers in a row.
LEMMA OrderConcat ==
  ASSUME NEW ss \in Seq(Seq(Line)), NEW tt \in Seq(Seq(Line))
  PROVE  /\ InOrder(ss \o tt) <=> InOrder(ss) /\ InOrder(tt) /\ Below(ss, tt)
         /\ Ids(ss \o tt) = Ids(ss) \cup Ids(tt)
<1> DEFINE st == ss \o tt
<1>1. \A i, j, x : In(st, i, j, x) <=>
        In(ss, i, j, x) \/ \E k \in Nat : i = Len(ss) + k /\ In(tt, k, j, x)
  BY InConcat
<1>2. /\ \A i, j, x : In(ss, i, j, x) => i \in Nat /\ i <= Len(ss) /\ j \in Nat
      /\ \A i, j, x : In(tt, i, j, x) => i \in Nat /\ i > 0 /\ j \in Nat
      /\ Len(ss) \in Nat
  BY InTypes
<1> HIDE DEF st
<1>3. /\ \A i, j, x : In(ss, i, j, x) => In(st, i, j, x)
      /\ \A i, j, x : In(tt, i, j, x) => In(st, Len(ss) + i, j, x)
  BY <1>1, <1>2
<1>4. \A x : x \in Ids(st) <=> x \in Ids(ss) \/ x \in Ids(tt)
  <2>1. \A x : x \in Ids(st) => x \in Ids(ss) \/ x \in Ids(tt)
    BY <1>1, InFacts
  <2>2. \A x : x \in Ids(ss) \/ x \in Ids(tt) => x \in Ids(st)
    BY <1>3, InFacts
  <2> QED BY <2>1, <2>2
<1>5. ASSUME InOrder(st) PROVE InOrder(ss) /\ InOrder(tt) /\ Below(ss, tt)
  <2>1. \A i, j, k, l, x, y :
          In(st, i, j, x) /\ In(st, k, l, y) /\ Before(i, j, k, l) /\ x # 0 /\ y # 0 => x < y
    BY <1>5, InFacts
  <2>2. InOrder(ss)
    BY <1>3, <2>1, InFacts
  <2>3. InOrder(tt)
    <3>1. SUFFICES ASSUME NEW i, NEW j, NEW k, NEW l, NEW x, NEW y,
                          In(tt, i, j, x), In(tt, k, l, y), Before(i, j, k, l), x # 0, y # 0
                   PROVE  x < y
      BY InFacts
    <3>2. Before(Len(ss) + i, j, Len(ss) + k, l)
      BY <1>2, <3>1 DEF Before
    <3> QED BY <1>3, <2>1, <3>1, <3>2
  <2>4. Below(ss, tt)
    <3>1. SUFFICES ASSUME NEW x \in Ids(ss) \ {0}, NEW y \in Ids(tt) \ {0} PROVE x < y
      BY DEF Below
    <3>2. PICK i, j : In(ss, i, j, x)
      BY InFacts
    <3>3. PICK k, l : In(tt, k, l, y)
      BY InFacts
    <3>4. Before(i, j, Len(ss) + k, l)
      BY <1>2, <3>2, <3>3 DEF Before
    <3> QED BY <1>3, <2>1, <3>2, <3>3, <3>4
  <2> QED BY <2>2, <2>3, <2>4
<1>6. ASSUME InOrder(ss), InOrder(tt), Below(ss, tt) PROVE InOrder(st)
  <2>1. SUFFICES ASSUME NEW i, NEW j, NEW k, NEW l, NEW x, NEW y, In(st, i, j, x), In(st, k, l, y),
                        Before(i, j, k, l), x # 0, y # 0
                 PROVE  x < y
    BY InFacts
  <2>2. CASE In(ss, i, j, x) /\ In(ss, k, l, y)
    BY <1>6, <2>1, <2>2, InFacts
  <2>3. ASSUME In(ss, i, j, x), NEW n \in Nat, k = Len(ss) + n, In(tt, n, l, y) PROVE x < y
    <3>1. x \in Ids(ss) /\ y \in Ids(tt)
      BY <2>3, InFacts
    <3> QED BY <1>6, <2>1, <3>1 DEF Below
  <2>4. ASSUME NEW m \in Nat, i = Len(ss) + m, In(tt, m, j, x),
               NEW n \in Nat, k = Len(ss) + n, In(tt, n, l, y)
        PROVE  x < y
    <3>1. Before(m, j, n, l)
      BY <1>2, <2>1, <2>4 DEF Before
    <3> QED BY <1>6, <2>1, <2>4, <3>1, InFacts
  <2>5. ASSUME NEW m \in Nat, i = Len(ss) + m, In(tt, m, j, x), In(ss, k, l, y) PROVE FALSE
    BY <1>2, <2>1, <2>5 DEF Before
  <2> QED BY <1>1, <2>1, <2>2, <2>3, <2>4, <2>5
<1> QED BY <1>4, <1>5, <1>6 DEF st

\* Rows of no buffer, of one, and of one that takes a line.
LEMMA OrderEmpty ==
  /\ InOrder(<<>>) /\ Ids(<<>>) = {}
  /\ InOrder(<< <<>> >>) /\ Ids(<< <<>> >>) = {}
<1>1. \A i, j, x : ~In(<<>>, i, j, x)
  BY DEF In
<1>2. \A i, j, x : ~In(<< <<>> >>, i, j, x)
  BY DEF In
<1>3. InOrder(<<>>) /\ InOrder(<< <<>> >>)
  BY <1>1, <1>2, InFacts
<1>4. (\A x : x \notin Ids(<<>>)) /\ \A x : x \notin Ids(<< <<>> >>)
  BY <1>1, <1>2, InFacts
<1> QED BY <1>3, <1>4

LEMMA InSingle ==
  ASSUME NEW s, NEW i, NEW j, NEW x
  PROVE  In(<<s>>, i, j, x) <=> i = 1 /\ j \in DOMAIN s /\ x = s[j].id
BY DEF In

LEMMA OrderSingle ==
  ASSUME NEW s \in Seq(Line), NEW line \in Line, InOrder(<<s>>), \A x \in Ids(<<s>>) : x < line.id
  PROVE  /\ InOrder(<<Append(s, line)>>)
         /\ Ids(<<Append(s, line)>>) = Ids(<<s>>) \cup {line.id}
<1> DEFINE t == Append(s, line)
<1>1. /\ DOMAIN s = 1..Len(s) /\ DOMAIN t = 1..(Len(s) + 1) /\ Len(s) \in Nat
      /\ \A n \in 1..Len(s) : t[n] = s[n]
      /\ t[Len(s) + 1] = line
  OBVIOUS
<1> HIDE DEF t
<1>2. \A i, j, x : In(<<t>>, i, j, x) <=>
        In(<<s>>, i, j, x) \/ (i = 1 /\ j = Len(s) + 1 /\ x = line.id)
  <2> SUFFICES ASSUME NEW i, NEW j, NEW x
               PROVE  In(<<t>>, i, j, x) <=>
                        In(<<s>>, i, j, x) \/ (i = 1 /\ j = Len(s) + 1 /\ x = line.id)
    OBVIOUS
  <2>1. j \in DOMAIN t <=> j \in DOMAIN s \/ j = Len(s) + 1
    BY <1>1
  <2>2. CASE j \in DOMAIN s
    <3>1. t[j] = s[j] /\ j # Len(s) + 1
      BY <1>1, <2>2
    <3> QED BY <2>1, <2>2, <3>1, InSingle
  <2>3. CASE j \notin DOMAIN s
    BY <1>1, <2>1, <2>3, InSingle
  <2> QED BY <2>2, <2>3
<1>3. \A x : x \in Ids(<<t>>) <=> x \in Ids(<<s>>) \/ x = line.id
  BY <1>2, InFacts
<1>4. InOrder(<<t>>)
  <2>1. SUFFICES ASSUME NEW i, NEW j, NEW k, NEW l, NEW x, NEW y, In(<<t>>, i, j, x),
                        In(<<t>>, k, l, y), Before(i, j, k, l), x # 0, y # 0
                 PROVE  x < y
    BY InFacts
  <2>2. CASE In(<<s>>, i, j, x) /\ In(<<s>>, k, l, y)
    BY <2>1, <2>2, InFacts
  <2>3. CASE In(<<s>>, i, j, x) /\ y = line.id
    BY <2>3, InFacts
  <2>4. CASE i = 1 /\ j = Len(s) + 1
    <3>1. k = 1 /\ l \in 1..(Len(s) + 1)
      BY <1>1, <2>1, InSingle
    <3> QED BY <1>1, <2>1, <2>4, <3>1 DEF Before
  <2> QED BY <1>2, <2>1, <2>2, <2>3, <2>4
<1> QED BY <1>3, <1>4 DEF t

\* An append puts the first n lines of ls after place o of file m, the last line so far.
GrowsAt(ls, n, m, o) ==
    /\ \A i, j, x : In(FileLines', i, j, x) <=>
         \/ In(FileLines, i, j, x)
         \/ i = m /\ \E p \in 1..n : j = o + p /\ x = ls[p].id
    /\ \A i, j, x : In(FileLines, i, j, x) =>
         /\ i \in Nat /\ j \in Nat
         /\ i < m \/ (i = m /\ j <= o)

\* What append_unlocked of ls, of which fwrite takes the first n lines, makes of the
\* places of the lines in the files.
LEMMA FileLinesAppend ==
  ASSUME LogTypes, files # <<>>, NEW ls \in Seq(Line), NEW n \in 0..Len(ls), AppendLines(ls, n)
  PROVE  \E m, o \in Nat : GrowsAt(ls, n, m, o)
<1> DEFINE taken == SubSeq(ls, 1, n)
           grown == Grown(files, taken)
           m == Len(files)
           o == Len(files[m].lines)
<1>1. /\ files \in Seq(Files) /\ m \in Nat /\ m \in DOMAIN files /\ DOMAIN files = 1..m
      /\ \A i \in DOMAIN files : files[i].lines \in Seq(Line)
  <2>1. files \in Seq(Files)
    BY DEF LogTypes, Files
  <2>2. \A i \in DOMAIN files : files[i] \in Files
    BY <2>1
  <2> QED BY <2>1, <2>2 DEF Files
<1>2. /\ taken \in Seq(Line) /\ DOMAIN taken = 1..n
      /\ \A p \in 1..n : taken[p] = ls[p]
  <2>1. \A i \in 1..n : ls[i] \in Line
    OBVIOUS
  <2>2. /\ taken \in Seq(Line) /\ Len(taken) = IF 1 <= n THEN n - 1 + 1 ELSE 0
        /\ \A i \in 1..(n - 1 + 1) : taken[i] = ls[1 + i - 1]
    BY <2>1, SubSeqProperties
  <2> HIDE DEF taken
  <2>3. Len(taken) = n
    BY <2>2
  <2>4. DOMAIN taken = 1..n
    BY <2>2, <2>3
  <2>5. \A i \in 1..n : i \in 1..(n - 1 + 1) /\ 1 + i - 1 = i
    OBVIOUS
  <2> QED BY <2>2, <2>4, <2>5
<1>3. files' = grown \/ files' = RolledFiles(grown)
  BY DEF AppendLines, Grown
<1> HIDE DEF taken
<1>4. /\ grown \in Seq(Files) /\ DOMAIN grown = DOMAIN files /\ Len(grown) = m
      /\ grown[m].lines = files[m].lines \o taken
      /\ \A i \in DOMAIN files : i # m => grown[i] = files[i]
  <2>1. grown \in Seq(Files) /\ DOMAIN grown = DOMAIN files /\ Len(grown) = m
    BY <1>1, <1>2, GrownFacts
  <2>2. files[m] \in Files
    BY <1>1
  <2> QED BY <1>1, <2>1, <2>2 DEF Grown, Files
<1> HIDE DEF grown, m
<1>5. /\ DOMAIN FileLines = DOMAIN files
      /\ \A i \in DOMAIN files : FileLines[i] = files[i].lines
  BY DEF FileLines
<1> DEFINE gl == [i \in DOMAIN grown |-> grown[i].lines]
<1>6. o \in Nat /\ DOMAIN (files[m].lines) = 1..o /\ DOMAIN (files[m].lines \o taken) = 1..(o + n)
      /\ (\A j \in 1..o : (files[m].lines \o taken)[j] = files[m].lines[j])
      /\ (\A p \in 1..n : (files[m].lines \o taken)[o + p] = ls[p])
  <2> DEFINE old == files[m].lines
  <2>1. old \in Seq(Line) /\ Len(taken) = n /\ n \in Nat
    BY <1>1, <1>2
  <2> HIDE DEF old
  <2>2. /\ Len(old) \in Nat /\ DOMAIN old = 1..Len(old)
        /\ DOMAIN (old \o taken) = 1..(Len(old) + n)
        /\ \A j \in 1..Len(old) : (old \o taken)[j] = old[j]
    BY <1>2, <2>1
  <2>3. \A p \in 1..n : (old \o taken)[Len(old) + p] = taken[p]
    BY <1>2, <2>1
  <2> QED BY <1>2, <2>2, <2>3 DEF old
<1>7. \A i, j, x : In(gl, i, j, x) <=>
        \/ In(FileLines, i, j, x)
        \/ i = m /\ \E p \in 1..n : j = o + p /\ x = ls[p].id
  <2> SUFFICES ASSUME NEW i, NEW j, NEW x
               PROVE  In(gl, i, j, x) <=>
                        \/ In(FileLines, i, j, x)
                        \/ i = m /\ \E p \in 1..n : j = o + p /\ x = ls[p].id
    OBVIOUS
  <2>1. i # m => (In(gl, i, j, x) <=> In(FileLines, i, j, x))
    BY <1>4, <1>5 DEF In
  <2>2. CASE i = m
    <3>1. In(FileLines, m, j, x) <=> j \in 1..o /\ x = files[m].lines[j].id
      BY <1>1, <1>5, <1>6 DEF In
    <3>2. In(gl, m, j, x) <=> j \in 1..(o + n) /\ x = (files[m].lines \o taken)[j].id
      BY <1>1, <1>4, <1>6 DEF In
    <3>3. j \in 1..(o + n) <=> j \in 1..o \/ \E p \in 1..n : j = o + p
      <4>1. ASSUME j \in 1..(o + n), j \notin 1..o PROVE \E p \in 1..n : j = o + p
        <5>1. j - o \in 1..n /\ j = o + (j - o)
          BY <1>6, <4>1
        <5> QED BY <5>1
      <4>2. n \in Nat
        OBVIOUS
      <4>3. \A p \in 1..n : o + p \in 1..(o + n)
        BY <1>6, <4>2
      <4>4. \A p \in 1..o : p \in 1..(o + n)
        BY <1>6, <4>2
      <4> QED BY <4>1, <4>3, <4>4
    <3>4. \A p \in 1..n : o + p \notin 1..o
      BY <1>6
    <3>5. CASE j \in 1..o
      BY <1>6, <2>2, <3>1, <3>2, <3>3, <3>4, <3>5
    <3>6. CASE j \notin 1..o
      BY <1>6, <2>2, <3>1, <3>2, <3>3, <3>4, <3>6
    <3> QED BY <3>5, <3>6
  <2> QED BY <1>1, <2>1, <2>2
<1>8. \A i, j, x : In(FileLines', i, j, x) <=> In(gl, i, j, x)
  <2>1. CASE files' = grown
    <3>1. FileLines' = gl
      BY <2>1 DEF FileLines
    <3> QED BY <3>1
  <2>2. CASE files' = RolledFiles(grown)
    <3> DEFINE f == [name |-> now, lines |-> <<>>]
               fs == Append(grown, f)
    <3>1. files' = fs /\ f.lines = <<>>
      BY <2>2 DEF RolledFiles
    <3> HIDE DEF f
    <3>2. /\ DOMAIN fs = 1..(m + 1) /\ DOMAIN grown = 1..m /\ fs[m + 1] = f
          /\ \A i \in 1..m : fs[i] = grown[i]
      BY <1>4
    <3> HIDE DEF fs
    <3>3. FileLines' = [i \in DOMAIN fs |-> fs[i].lines]
      BY <3>1 DEF FileLines
    <3>4. ASSUME NEW i, NEW j, NEW x PROVE In(FileLines', i, j, x) <=> In(gl, i, j, x)
      <4>1. CASE i \in 1..m
        <5>1. i \in DOMAIN fs /\ fs[i] = grown[i]
          BY <1>1, <3>2, <4>1
        <5> QED BY <3>2, <3>3, <4>1, <5>1 DEF In
      <4>2. CASE i = m + 1
        <5>1. i \notin 1..m /\ i \in DOMAIN fs
          BY <1>1, <3>2, <4>2
        <5>2. FileLines'[i] = <<>>
          BY <3>1, <3>2, <3>3, <4>2, <5>1
        <5> QED BY <3>2, <5>1, <5>2 DEF In
      <4>3. CASE i \notin 1..m /\ i # m + 1
        <5>1. i \notin DOMAIN fs
          BY <1>1, <3>2, <4>3
        <5> QED BY <3>2, <3>3, <4>3, <5>1 DEF In
      <4> QED BY <4>1, <4>2, <4>3
    <3> QED BY <3>4
  <2> QED BY <1>3, <2>1, <2>2
<1>9. \A i, j, x : In(FileLines, i, j, x) => /\ i \in Nat /\ j \in Nat
                                             /\ i < m \/ (i = m /\ j <= o)
  <2> SUFFICES ASSUME NEW i, NEW j, NEW x, In(FileLines, i, j, x)
               PROVE  i \in Nat /\ j \in Nat /\ (i < m \/ (i = m /\ j <= o))
    OBVIOUS
  <2>1. i \in 1..m /\ j \in DOMAIN files[i].lines /\ files[i].lines \in Seq(Line)
    BY <1>1, <1>5 DEF In
  <2>2. j \in Nat /\ (i = m => j <= o)
    BY <1>6, <2>1
  <2> QED BY <1>1, <2>1, <2>2
<1> HIDE DEF gl
<1> m \in Nat /\ o \in Nat
  BY <1>1, <1>6
<1> HIDE DEF o
<1>10. GrowsAt(ls, n, m, o)
  BY <1>7, <1>8, <1>9 DEF GrowsAt
<1> QED BY <1>10

LEMMA LogAppendGrows ==
  ASSUME LogTypes, files # <<>>, NEW ls \in Seq(Line), LogAppend(ls)
  PROVE  \E n \in 0..Len(ls) : \E m, o \in Nat : AppendLines(ls, n) /\ GrowsAt(ls, n, m, o)
<1>1. PICK n : /\ n \in {Len(ls)} \cup (IF failed = {} /\ ls # <<>> THEN {Len(ls) - 1} ELSE {})
               /\ AppendLines(ls, n)
  BY DEF LogAppend
<1>2. Len(ls) \in Nat /\ (ls # <<>> => Len(ls) # 0)
  OBVIOUS
<1>3. n = Len(ls) \/ (ls # <<>> /\ n = Len(ls) - 1)
  BY <1>1
<1>4. n \in 0..Len(ls)
  BY <1>2, <1>3
<1> QED BY <1>1, <1>4, FileLinesAppend


\* The lines of one message.
LEMMA IdsSingle ==
  ASSUME NEW ls \in Seq(Line)
  PROVE  /\ \A p \in 1..Len(ls) : ls[p].id \in Nat /\ ls[p].id \in Ids(<<ls>>)
         /\ \A x \in Ids(<<ls>>) : \E p \in 1..Len(ls) : x = ls[p].id
<1>1. DOMAIN ls = 1..Len(ls)
  OBVIOUS
<1>2. ASSUME NEW p \in 1..Len(ls) PROVE ls[p].id \in Nat /\ ls[p].id \in Ids(<<ls>>)
  <2>1. ls[p] \in Line
    OBVIOUS
  <2>2. In(<<ls>>, 1, p, ls[p].id)
    BY <1>1, InSingle
  <2>3. ls[p].id \in Ids(<<ls>>)
    BY <2>2, InFacts
  <2> QED BY <2>1, <2>3 DEF Line
<1>3. ASSUME NEW x \in Ids(<<ls>>) PROVE \E p \in 1..Len(ls) : x = ls[p].id
  <2>1. PICK i, j : In(<<ls>>, i, j, x)
    BY InFacts
  <2> QED BY <1>1, <2>1, InSingle
<1> QED BY <1>2, <1>3

\* The facts of InFacts for the files after a step.
LEMMA InFactsNext ==
  /\ InOrder(FileLines') <=> \A i, j, k, l, x, y :
       In(FileLines', i, j, x) /\ In(FileLines', k, l, y) /\ Before(i, j, k, l) /\ x # 0 /\ y # 0
         => x < y
  /\ \A x : x \in Ids(FileLines') <=> \E i, j : In(FileLines', i, j, x)
<1>1. ASSUME NEW ss
      PROVE  /\ InOrder(ss) <=> \A i, j, k, l, x, y :
                  In(ss, i, j, x) /\ In(ss, k, l, y) /\ Before(i, j, k, l) /\ x # 0 /\ y # 0
                    => x < y
             /\ \A x : x \in Ids(ss) <=> \E i, j : In(ss, i, j, x)
  BY InFacts
<1> QED BY <1>1

\* append_unlocked keeps the order of the lines, if what comes is in order and new;
\* what fwrite does not take is in failed.
LEMMA AppendInOrder ==
  ASSUME LogTypes, files # <<>>, NEW ls \in Seq(Line), LogAppend(ls),
         InOrder(FileLines), InOrder(<<ls>>), Below(FileLines, <<ls>>)
  PROVE  /\ InOrder(FileLines')
         /\ \E taken, refused :
              /\ taken \cup refused = Ids(<<ls>>)
              /\ 0 \notin Ids(<<ls>>) => taken \cap refused = {}
              /\ Ids(FileLines') = Ids(FileLines) \cup taken
              /\ failed' = failed \cup refused
<1>1. PICK n \in 0..Len(ls) : \E m, o \in Nat : AppendLines(ls, n) /\ GrowsAt(ls, n, m, o)
  BY LogAppendGrows
<1>2. PICK m \in Nat, o \in Nat : AppendLines(ls, n) /\ GrowsAt(ls, n, m, o)
  BY <1>1
<1>3. Len(ls) \in Nat /\ n \in Nat /\ n <= Len(ls)
  OBVIOUS
<1> DEFINE taken == {ls[p].id : p \in 1..n}
           refused == {ls[p].id : p \in n + 1..Len(ls)}
<1>4. failed' = failed \cup refused
  BY <1>2 DEF AppendLines
<1>5. \A p : p \in 1..Len(ls) <=> p \in 1..n \/ p \in n + 1..Len(ls)
  BY <1>3
<1>6. taken \cup refused = Ids(<<ls>>)
  <2>1. ASSUME NEW x \in Ids(<<ls>>) PROVE x \in taken \cup refused
    BY <1>5, IdsSingle
  <2>2. ASSUME NEW x \in taken \cup refused PROVE x \in Ids(<<ls>>)
    BY <1>5, IdsSingle
  <2> QED BY <2>1, <2>2
<1>7. \A p, q \in 1..Len(ls) : p < q /\ ls[p].id # 0 /\ ls[q].id # 0 => ls[p].id < ls[q].id
  <2> SUFFICES ASSUME NEW p \in 1..Len(ls), NEW q \in 1..Len(ls), p < q,
                      ls[p].id # 0, ls[q].id # 0
               PROVE  ls[p].id < ls[q].id
    OBVIOUS
  <2>1. DOMAIN ls = 1..Len(ls)
    OBVIOUS
  <2>2. In(<<ls>>, 1, p, ls[p].id) /\ In(<<ls>>, 1, q, ls[q].id) /\ Before(1, p, 1, q)
    BY <2>1, InSingle DEF Before
  <2> QED BY <2>2, InFacts
<1>8. ASSUME 0 \notin Ids(<<ls>>) PROVE taken \cap refused = {}
  <2> SUFFICES ASSUME NEW p \in 1..n, NEW q \in n + 1..Len(ls), ls[p].id = ls[q].id PROVE FALSE
    OBVIOUS
  <2>1. p \in 1..Len(ls) /\ q \in 1..Len(ls) /\ p < q
    BY <1>3
  <2>2. ls[p].id # 0 /\ ls[q].id # 0 /\ ls[p].id \in Nat
    BY <1>8, <2>1, IdsSingle
  <2> QED BY <1>7, <2>1, <2>2
<1>9. Ids(FileLines') = Ids(FileLines) \cup taken
  <2>1. ASSUME NEW x \in Ids(FileLines') PROVE x \in Ids(FileLines) \cup taken
    <3>1. PICK i, j : In(FileLines', i, j, x)
      BY InFactsNext
    <3>2. CASE In(FileLines, i, j, x)
      BY <3>2, InFacts
    <3>3. CASE ~In(FileLines, i, j, x)
      BY <1>2, <3>1, <3>3 DEF GrowsAt
    <3> QED BY <3>2, <3>3
  <2>2. ASSUME NEW x \in Ids(FileLines) PROVE x \in Ids(FileLines')
    <3>1. PICK i, j : In(FileLines, i, j, x)
      BY InFacts
    <3>2. In(FileLines', i, j, x)
      BY <1>2, <3>1 DEF GrowsAt
    <3> QED BY <3>2, InFactsNext
  <2>3. ASSUME NEW x \in taken PROVE x \in Ids(FileLines')
    <3>1. PICK p \in 1..n : x = ls[p].id
      OBVIOUS
    <3>2. In(FileLines', m, o + p, x)
      BY <1>2, <3>1 DEF GrowsAt
    <3> QED BY <3>2, InFactsNext
  <2> HIDE DEF taken
  <2> QED BY <2>1, <2>2, <2>3
<1>10. InOrder(FileLines')
  <2>1. SUFFICES ASSUME NEW i, NEW j, NEW k, NEW l, NEW x, NEW y, In(FileLines', i, j, x),
                        In(FileLines', k, l, y), Before(i, j, k, l), x # 0, y # 0
                 PROVE  x < y
    BY InFactsNext
  <2>2. CASE In(FileLines, i, j, x) /\ In(FileLines, k, l, y)
    BY <2>1, <2>2, InFacts
  <2>3. ASSUME In(FileLines, i, j, x), NEW p \in 1..n, k = m, l = o + p, y = ls[p].id PROVE x < y
    <3>1. x \in Ids(FileLines)
      BY <2>3, InFacts
    <3>2. y \in Ids(<<ls>>)
      BY <1>5, <2>3, IdsSingle
    <3> QED BY <2>1, <3>1, <3>2 DEF Below
  <2>4. ASSUME NEW p \in 1..n, i = m, j = o + p, x = ls[p].id,
               NEW q \in 1..n, k = m, l = o + q, y = ls[q].id
        PROVE  x < y
    <3>1. p < q /\ p \in 1..Len(ls) /\ q \in 1..Len(ls)
      BY <1>3, <2>1, <2>4 DEF Before
    <3> QED BY <1>7, <2>1, <2>4, <3>1
  <2>5. ASSUME NEW p \in 1..n, i = m, j = o + p, In(FileLines, k, l, y) PROVE FALSE
    <3>1. k \in Nat /\ l \in Nat /\ (k < m \/ (k = m /\ l <= o))
      BY <1>2, <2>5 DEF GrowsAt
    <3> QED BY <1>3, <2>1, <2>5, <3>1 DEF Before
  <2>6. /\ In(FileLines, i, j, x) \/ (i = m /\ \E p \in 1..n : j = o + p /\ x = ls[p].id)
        /\ In(FileLines, k, l, y) \/ (k = m /\ \E p \in 1..n : l = o + p /\ y = ls[p].id)
    BY <1>2, <2>1 DEF GrowsAt
  <2> QED BY <2>2, <2>3, <2>4, <2>5, <2>6
<1> HIDE DEF taken, refused
<1> QED BY <1>4, <1>6, <1>8, <1>9, <1>10

\* The message that stands for the lost line n is in the files at (a, b).
MarkedAt(n, a, b) ==
    /\ In(FileLines, a, b, 0)
    /\ \A i, j, x : In(FileLines, i, j, x) =>
         /\ x # 0 /\ x < n => Before(i, j, a, b)
         /\ x > n => Before(a, b, i, j)

Marked(n) == 0 \in failed \/ \E a, b : MarkedAt(n, a, b)

LEMMA MarkFacts == DropsAreMarked <=> \A n \in dropped : Marked(n)
<1>1. ASSUME NEW n, NEW a, NEW b
      PROVE  MarkedAt(n, a, b) <=>
               /\ a \in DOMAIN FileLines /\ b \in DOMAIN FileLines[a] /\ FileLines[a][b].id = 0
               /\ \A i \in DOMAIN FileLines : \A j \in DOMAIN FileLines[i] :
                    /\ FileLines[i][j].id # 0 /\ FileLines[i][j].id < n => Before(i, j, a, b)
                    /\ FileLines[i][j].id > n => Before(a, b, i, j)
  BY Zenon DEF MarkedAt, In
<1> QED BY <1>1 DEF DropsAreMarked, Marked

\* A message that is there stays between what was before it and what comes.
LEMMA MarkKept ==
  ASSUME LogTypes, files # <<>>, NEW ls \in Seq(Line), LogAppend(ls), NEW n \in Nat, Marked(n),
         \A y \in Ids(<<ls>>) \ {0} : n < y
  PROVE  Marked(n)'
<1>1. PICK k \in 0..Len(ls) : \E m, o \in Nat : AppendLines(ls, k) /\ GrowsAt(ls, k, m, o)
  BY LogAppendGrows
<1>2. PICK m \in Nat, o \in Nat : AppendLines(ls, k) /\ GrowsAt(ls, k, m, o)
  BY <1>1
<1>3. CASE 0 \in failed
  <2>1. 0 \in failed'
    BY <1>2, <1>3 DEF AppendLines
  <2> QED BY <2>1 DEF Marked
<1>4. ASSUME NEW a, NEW b, MarkedAt(n, a, b) PROVE MarkedAt(n, a, b)'
  <2>1. In(FileLines, a, b, 0)
    BY <1>4 DEF MarkedAt
  <2>2. In(FileLines', a, b, 0) /\ a \in Nat /\ b \in Nat /\ (a < m \/ (a = m /\ b <= o))
    BY <1>2, <2>1 DEF GrowsAt
  <2>3. ASSUME NEW i, NEW j, NEW x, In(FileLines', i, j, x)
        PROVE  (x # 0 /\ x < n => Before(i, j, a, b)) /\ (x > n => Before(a, b, i, j))
    <3>1. CASE In(FileLines, i, j, x)
      BY <1>4, <3>1 DEF MarkedAt
    <3>2. ASSUME NEW p \in 1..k, i = m, j = o + p, x = ls[p].id
          PROVE  (x # 0 /\ x < n => Before(i, j, a, b)) /\ (x > n => Before(a, b, i, j))
      <4>1. Before(a, b, i, j)
        BY <2>2, <3>2 DEF Before
      <4>2. p \in 1..Len(ls)
        OBVIOUS
      <4>3. x \in Nat /\ x \in Ids(<<ls>>)
        BY <3>2, <4>2, IdsSingle
      <4>4. ~(x # 0 /\ x < n)
        BY <4>3
      <4> QED BY <4>1, <4>4
    <3>3. In(FileLines, i, j, x) \/ (i = m /\ \E p \in 1..k : j = o + p /\ x = ls[p].id)
      BY <1>2, <2>3 DEF GrowsAt
    <3> QED BY <3>1, <3>2, <3>3
  <2> QED BY <2>2, <2>3 DEF MarkedAt
<1> QED BY <1>3, <1>4 DEF Marked

\* The message marks what is dropped with it.
LEMMA MarkMade ==
  ASSUME LogTypes, files # <<>>, LogAppend(<<DropMsg>>), NEW n \in Nat,
         \A x \in Ids(FileLines) : x \in Nat /\ (x = 0 \/ x < n)
  PROVE  Marked(n)'
<1> DEFINE ls == <<DropMsg>>
<1>1. ls \in Seq(Line) /\ Len(ls) = 1 /\ ls[1].id = 0
  BY AsyncLoggingAssumption DEF DropMsg, Line
<1> HIDE DEF ls
<1>2. LogAppend(ls)
  BY DEF ls
<1>3. PICK k \in 0..Len(ls) : \E m, o \in Nat : AppendLines(ls, k) /\ GrowsAt(ls, k, m, o)
  BY <1>1, <1>2, LogAppendGrows
<1>4. PICK m \in Nat, o \in Nat : AppendLines(ls, k) /\ GrowsAt(ls, k, m, o)
  BY <1>3
<1>5. CASE k = 0
  <2>1. failed' = failed \cup {ls[i].id : i \in k + 1..Len(ls)}
    BY <1>4 DEF AppendLines
  <2>2. 1 \in k + 1..Len(ls)
    BY <1>1, <1>5
  <2>3. 0 \in failed'
    BY <1>1, <2>1, <2>2
  <2> QED BY <2>3 DEF Marked
<1>6. CASE k = 1
  <2>1. In(FileLines', m, o + 1, 0)
    BY <1>1, <1>4, <1>6 DEF GrowsAt
  <2>2. ASSUME NEW i, NEW j, NEW x, In(FileLines', i, j, x)
        PROVE  (x # 0 /\ x < n => Before(i, j, m, o + 1)) /\ (x > n => Before(m, o + 1, i, j))
    <3>1. CASE In(FileLines, i, j, x)
      <4>1. x \in Ids(FileLines)
        BY <3>1, InFacts
      <4>2. x \in Nat /\ ~(x > n)
        BY <4>1
      <4>3. Before(i, j, m, o + 1)
        BY <1>4, <3>1 DEF Before, GrowsAt
      <4> QED BY <4>2, <4>3
    <3>2. CASE x = 0
      BY <3>2
    <3>3. In(FileLines, i, j, x) \/ \E p \in 1..k : x = ls[p].id
      BY <1>4, <2>2 DEF GrowsAt
    <3> QED BY <1>1, <1>6, <3>1, <3>2, <3>3
  <2>3. MarkedAt(n, m, o + 1)'
    BY <2>1, <2>2 DEF MarkedAt
  <2> QED BY <2>3 DEF Marked
<1> QED BY <1>1, <1>5, <1>6

-----------------------------------------------------------------------------
(* The places of all lines: files, buffers that are being written, buffers *)
(* that are being filled, queue.                                           *)

Filling == Append(buffers, current)

\* The lines that are not yet in the files.
Ahead == Ids(toWrite) \cup Ids(Filling) \cup Ids(queue)

\* Each place is in order and comes before the next, and all that was dropped was
\* logged before all that is still to be written.
Order ==
    /\ InOrder(FileLines) /\ InOrder(toWrite) /\ InOrder(Filling) /\ InOrder(queue)
    /\ Below(FileLines, toWrite) /\ Below(FileLines, Filling) /\ Below(FileLines, queue)
    /\ Below(toWrite, Filling)
    /\ 0 \notin Ahead
    /\ \A n \in dropped, y \in Ahead : n < y

\* A log uses the buffers or the queue.
Apart ==
    /\ backend = "queue" => toWrite = <<>> /\ buffers = <<>> /\ current = <<>>
    /\ backend # "queue" => queue = <<>> /\ calls = {}

Conserved ==
    /\ (Ids(FileLines) \cup Ahead) \ {0} = 1..lines \ (tooLong \cup dropped \cup failed)
    /\ tooLong \cup dropped \cup failed \subseteq 0..lines

LinesInv == Order /\ Apart /\ Conserved /\ DropsAreMarked

LEMMA IdsTypes ==
  ASSUME NEW ss \in Seq(Seq(Line))
  PROVE  Ids(ss) \subseteq Nat
<1> SUFFICES ASSUME NEW x \in Ids(ss) PROVE x \in Nat
  OBVIOUS
<1>1. PICK i, j : In(ss, i, j, x)
  BY InFacts
<1> QED BY <1>1, InTypes

LEMMA PlaceTypes ==
  ASSUME LogTypes, BufferTypes
  PROVE  /\ FileLines \in Seq(Seq(Line)) /\ toWrite \in Seq(Seq(Line))
         /\ Filling \in Seq(Seq(Line)) /\ queue \in Seq(Seq(Line))
         /\ Ids(FileLines) \subseteq Nat /\ Ids(toWrite) \subseteq Nat
         /\ Ids(Filling) \subseteq Nat /\ Ids(queue) \subseteq Nat
         /\ lines \in Nat
<1>1. files \in Seq(Files)
  BY DEF LogTypes, Files
<1>2. /\ DOMAIN files = 1..Len(files) /\ Len(files) \in Nat
      /\ \A i \in DOMAIN files : files[i] \in Files
  BY <1>1
<1>3. \A i \in 1..Len(files) : files[i].lines \in Seq(Line)
  BY <1>2 DEF Files
<1>4. FileLines = [i \in 1..Len(files) |-> files[i].lines]
  BY <1>2 DEF FileLines
<1>5. FileLines \in Seq(Seq(Line))
  BY <1>2, <1>3, <1>4
<1>6. /\ toWrite \in Seq(Seq(Line)) /\ Filling \in Seq(Seq(Line))
      /\ queue \in Seq(Seq(Line)) /\ lines \in Nat
  BY DEF BufferTypes, Filling
<1> QED BY <1>5, <1>6, IdsTypes

\* Steps that leave all places alone.
LEMMA LinesFrame ==
  ASSUME IInv, LinesInv,
         UNCHANGED <<files, failed, toWrite, buffers, current, queue, lines, tooLong, dropped,
                     backend>>,
         backend # "queue" => calls' = {}
  PROVE  LinesInv'
<1>1. FileLines' = FileLines /\ Filling' = Filling /\ Ahead' = Ahead
  BY DEF FileLines, Filling, Ahead
<1>2. Order'
  BY <1>1 DEF LinesInv, Order
<1>3. Apart'
  BY DEF LinesInv, Apart
<1>4. Conserved'
  BY <1>1 DEF LinesInv, Conserved
<1>5. DropsAreMarked'
  BY <1>1 DEF LinesInv, DropsAreMarked
<1> QED BY <1>2, <1>3, <1>4, <1>5 DEF LinesInv

LEMMA OneMoreIsConcat ==
  ASSUME NEW ss \in Seq(Seq(Line)), NEW s \in Seq(Line)
  PROVE  Append(ss, s) = ss \o <<s>> /\ <<s>> \in Seq(Seq(Line))
OBVIOUS

\* A row of buffers takes one more buffer: an empty one, or one with a new line.
LEMMA OneMore ==
  ASSUME NEW ss \in Seq(Seq(Line)), InOrder(ss)
  PROVE  /\ InOrder(Append(ss, <<>>)) /\ Ids(Append(ss, <<>>)) = Ids(ss)
         /\ \A line \in Line : (\A x \in Ids(ss) : x < line.id) =>
              /\ InOrder(Append(ss, <<line>>))
              /\ Ids(Append(ss, <<line>>)) = Ids(ss) \cup {line.id}
<1>2. InOrder(Append(ss, <<>>)) /\ Ids(Append(ss, <<>>)) = Ids(ss)
  <2> DEFINE e == <<>>
  <2>1. e \in Seq(Line)
    OBVIOUS
  <2>2. InOrder(<<e>>) /\ Ids(<<e>>) = {}
    BY OrderEmpty
  <2> HIDE DEF e
  <2>3. Below(ss, <<e>>)
    BY <2>2 DEF Below
  <2>4. Append(ss, e) = ss \o <<e>> /\ <<e>> \in Seq(Seq(Line))
    BY <2>1, OneMoreIsConcat
  <2>5. InOrder(ss \o <<e>>) /\ Ids(ss \o <<e>>) = Ids(ss) \cup Ids(<<e>>)
    BY <2>2, <2>3, <2>4, OrderConcat
  <2>6. InOrder(Append(ss, e)) /\ Ids(Append(ss, e)) = Ids(ss)
    BY <2>2, <2>4, <2>5
  <2> QED BY <2>6 DEF e
<1>3. ASSUME NEW line \in Line, \A x \in Ids(ss) : x < line.id
      PROVE  /\ InOrder(Append(ss, <<line>>))
             /\ Ids(Append(ss, <<line>>)) = Ids(ss) \cup {line.id}
  <2>1. <<line>> \in Seq(Line) /\ <<line>> = Append(<<>>, line)
    OBVIOUS
  <2>2. InOrder(<< <<line>> >>) /\ Ids(<< <<line>> >>) = {line.id}
    <3>1. <<>> \in Seq(Line)
      OBVIOUS
    <3>2. InOrder(<<Append(<<>>, line)>>) /\ Ids(<<Append(<<>>, line)>>) = {line.id}
      BY <3>1, OrderEmpty, OrderSingle
    <3> QED BY <2>1, <3>2
  <2>3. Below(ss, << <<line>> >>)
    BY <1>3, <2>2 DEF Below
  <2>4. Append(ss, <<line>>) = ss \o << <<line>> >> /\ << <<line>> >> \in Seq(Seq(Line))
    BY <2>1, OneMoreIsConcat
  <2> QED BY <2>2, <2>3, <2>4, OrderConcat
<1> QED BY <1>2, <1>3

\* A new line is later than all others.
LEMMA NewLine ==
  ASSUME LogTypes, BufferTypes, LinesInv, NEW len \in LineSizes
  PROVE  /\ [id |-> lines + 1, len |-> len] \in Line
         /\ \A x \in Ids(FileLines) \cup Ahead : x < lines + 1
         /\ \A n \in dropped : n < lines + 1
         /\ lines + 1 # 0 /\ lines + 1 \notin tooLong \cup dropped \cup failed
<1>1. lines \in Nat /\ lines + 1 \in Nat /\ lines + 1 # 0 /\ len \in Nat
  BY AsyncLoggingAssumption DEF BufferTypes
<1>2. ASSUME NEW x \in Ids(FileLines) \cup Ahead PROVE x < lines + 1
  <2>1. x = 0 \/ x \in 1..lines
    BY DEF LinesInv, Conserved
  <2> QED BY <1>1, <2>1
<1>3. tooLong \cup dropped \cup failed \subseteq 0..lines
  BY DEF LinesInv, Conserved
<1>4. \A x \in 0..lines : x < lines + 1 /\ x # lines + 1
  BY <1>1
<1> QED BY <1>1, <1>2, <1>3, <1>4 DEF Line

\* A line goes to the buffers, or nowhere because no buffer has room for it.
LEMMA FillingGrows ==
  ASSUME LogTypes, BufferTypes, LinesInv, AppendDoubleBuffering
  PROVE  /\ InOrder(Filling')
         /\ \/ Ids(Filling') = Ids(Filling) \cup {lines + 1} /\ UNCHANGED tooLong
            \/ Ids(Filling') = Ids(Filling) /\ tooLong' = tooLong \cup {lines + 1}
<1>1. PICK len \in LineSizes :
        /\ current' = Appended(IF ~Fits(current, [id |-> lines + 1, len |-> len])
                               THEN <<>> ELSE current, [id |-> lines + 1, len |-> len])
        /\ buffers' = IF ~Fits(current, [id |-> lines + 1, len |-> len])
                      THEN Append(buffers, current) ELSE buffers
        /\ tooLong' = IF /\ ~Fits(current, [id |-> lines + 1, len |-> len])
                         /\ ~Fits(<<>>, [id |-> lines + 1, len |-> len])
                      THEN tooLong \cup {[id |-> lines + 1, len |-> len].id} ELSE tooLong
  BY DEF AppendDoubleBuffering
<1> DEFINE line == [id |-> lines + 1, len |-> len]
<1>2. line \in Line /\ line.id = lines + 1 /\ \A x \in Ids(Filling) : x < line.id
  BY NewLine DEF Ahead
<1>3. /\ current' = Appended(IF ~Fits(current, line) THEN <<>> ELSE current, line)
      /\ buffers' = IF ~Fits(current, line) THEN Append(buffers, current) ELSE buffers
      /\ tooLong' = IF ~Fits(current, line) /\ ~Fits(<<>>, line)
                    THEN tooLong \cup {line.id} ELSE tooLong
  BY <1>1
<1> HIDE DEF line
<1>4. /\ Filling \in Seq(Seq(Line)) /\ InOrder(Filling) /\ Filling = Append(buffers, current)
      /\ Filling' = Append(buffers', current')
      /\ buffers \in Seq(Seq(Line)) /\ current \in Seq(Line)
  BY PlaceTypes DEF LinesInv, Order, Filling, BufferTypes
<1>5. CASE Fits(current, line)
  <2>1. Filling' = Append(buffers, Append(current, line)) /\ UNCHANGED tooLong
    BY <1>3, <1>4, <1>5 DEF Appended
  <2>2. /\ Filling = buffers \o <<current>> /\ <<current>> \in Seq(Seq(Line))
        /\ Filling' = buffers \o <<Append(current, line)>>
        /\ <<Append(current, line)>> \in Seq(Seq(Line))
    <3>1. Append(current, line) \in Seq(Line)
      BY <1>2, <1>4
    <3>2. buffers \in Seq(Seq(Line)) /\ current \in Seq(Line)
      BY <1>4
    <3>3. Append(buffers, current) = buffers \o <<current>> /\ <<current>> \in Seq(Seq(Line))
      BY <3>2, OneMoreIsConcat
    <3>4. /\ Append(buffers, Append(current, line)) = buffers \o <<Append(current, line)>>
          /\ <<Append(current, line)>> \in Seq(Seq(Line))
      <4> DEFINE s == Append(current, line)
      <4> HIDE DEF s
      <4>1. s \in Seq(Line)
        BY <3>1 DEF s
      <4>2. Append(buffers, s) = buffers \o <<s>> /\ <<s>> \in Seq(Seq(Line))
        BY <3>2, <4>1, OneMoreIsConcat
      <4> QED BY <4>2 DEF s
    <3> QED BY <1>4, <2>1, <3>3, <3>4
  <2>3. /\ InOrder(buffers) /\ InOrder(<<current>>) /\ Below(buffers, <<current>>)
        /\ Ids(Filling) = Ids(buffers) \cup Ids(<<current>>)
    BY <1>4, <2>2, OrderConcat
  <2>4. /\ InOrder(<<Append(current, line)>>)
        /\ Ids(<<Append(current, line)>>) = Ids(<<current>>) \cup {line.id}
    BY <1>2, <1>4, <2>3, OrderSingle
  <2>5. Below(buffers, <<Append(current, line)>>)
    BY <1>2, <2>3, <2>4 DEF Below
  <2>6. /\ InOrder(buffers \o <<Append(current, line)>>)
        /\ Ids(buffers \o <<Append(current, line)>>)
             = Ids(buffers) \cup Ids(<<Append(current, line)>>)
    BY <1>4, <2>2, <2>3, <2>4, <2>5, OrderConcat
  <2>7. Ids(Filling') = Ids(Filling) \cup {line.id}
    BY <2>2, <2>3, <2>4, <2>6
  <2> QED BY <1>2, <2>1, <2>2, <2>6, <2>7
<1>6. CASE ~Fits(current, line) /\ Fits(<<>>, line)
  <2>1. Filling' = Append(Filling, <<line>>) /\ UNCHANGED tooLong
    <3>1. current' = Append(<<>>, line) /\ Append(<<>>, line) = <<line>>
      BY <1>3, <1>6 DEF Appended
    <3> QED BY <1>3, <1>4, <1>6, <3>1
  <2> QED BY <1>2, <1>4, <2>1, OneMore
<1>7. CASE ~Fits(current, line) /\ ~Fits(<<>>, line)
  <2>1. Filling' = Append(Filling, <<>>) /\ tooLong' = tooLong \cup {line.id}
    BY <1>3, <1>4, <1>7 DEF Appended
  <2> QED BY <1>2, <1>4, <2>1, OneMore
<1> QED BY <1>5, <1>6, <1>7

LEMMA LinesAppend ==
  ASSUME IInv, LinesInv, AppendDoubleBuffering
  PROVE  LinesInv'
<1> DEFINE n == lines + 1
<1>1. LogTypes /\ BufferTypes
  BY DEF IInv
<1>2. /\ UNCHANGED <<files, failed, toWrite, queue, dropped, backend, calls>>
      /\ lines' = n /\ backend = "doubleBuffering"
  BY DEF AppendDoubleBuffering, logVars, queueVars, setupVars, threadVars
<1>3. /\ InOrder(Filling')
      /\ \/ Ids(Filling') = Ids(Filling) \cup {n} /\ UNCHANGED tooLong
         \/ Ids(Filling') = Ids(Filling) /\ tooLong' = tooLong \cup {n}
  BY <1>1, FillingGrows
<1>4. /\ \A x \in Ids(FileLines) \cup Ahead : x < n
      /\ \A x \in dropped : x < n
      /\ n # 0 /\ n \notin tooLong \cup dropped \cup failed
      /\ lines \in Nat
  <2>1. PICK len \in LineSizes : TRUE
    BY DEF AppendDoubleBuffering
  <2> QED BY <1>1, <2>1, NewLine DEF BufferTypes
<1>5. FileLines' = FileLines /\ Ids(Filling') \subseteq Ids(Filling) \cup {n}
  BY <1>2, <1>3 DEF FileLines
<1>6. Order'
  <2>1. Below(FileLines, Filling')
    BY <1>4, <1>5 DEF LinesInv, Order, Below
  <2>2. Below(toWrite, Filling')
    BY <1>4, <1>5 DEF LinesInv, Order, Below, Ahead
  <2>3. 0 \notin Ahead' /\ \A x \in dropped, y \in Ahead' : x < y
    BY <1>2, <1>4, <1>5 DEF LinesInv, Order, Ahead
  <2> QED BY <1>2, <1>3, <1>5, <2>1, <2>2, <2>3 DEF LinesInv, Order
<1>7. Apart'
  BY <1>2 DEF LinesInv, Apart
<1>8. Conserved'
  <2>1. /\ (Ids(FileLines) \cup Ahead) \ {0} = 1..lines \ (tooLong \cup dropped \cup failed)
        /\ tooLong \cup dropped \cup failed \subseteq 0..lines
    BY DEF LinesInv, Conserved
  <2>2. /\ 1..n = 1..lines \cup {n} /\ 0..lines \subseteq 0..n /\ n \in 0..n
    BY <1>4
  <2>3. n \notin 1..lines /\ n \notin Ids(FileLines) \cup Ahead
    BY <1>4, <2>1
  <2> HIDE DEF n
  <2>4. CASE Ids(Filling') = Ids(Filling) \cup {n} /\ UNCHANGED tooLong
    <3>1. Ahead' = Ahead \cup {n}
      BY <1>2, <2>4 DEF Ahead
    <3> QED BY <1>2, <1>4, <1>5, <2>1, <2>2, <2>3, <2>4, <3>1 DEF Conserved
  <2>5. CASE Ids(Filling') = Ids(Filling) /\ tooLong' = tooLong \cup {n}
    <3>1. Ahead' = Ahead
      BY <1>2, <2>5 DEF Ahead
    <3> QED BY <1>2, <1>4, <1>5, <2>1, <2>2, <2>3, <2>5, <3>1 DEF Conserved
  <2> QED BY <1>3, <2>4, <2>5
<1>9. DropsAreMarked'
  BY <1>2, <1>5 DEF LinesInv, DropsAreMarked
<1> QED BY <1>6, <1>7, <1>8, <1>9 DEF LinesInv

LEMMA LinesQueuePut ==
  ASSUME IInv, LinesInv, NEW t \in Appenders, AppendQueuePut(t)
  PROVE  LinesInv'
<1> DEFINE n == lines + 1
<1>1. LogTypes /\ BufferTypes
  BY DEF IInv
<1>2. /\ UNCHANGED <<files, failed, toWrite, buffers, current, tooLong, dropped, backend>>
      /\ t \in calls
  BY DEF AppendQueuePut, logVars, setupVars, historyVars, bufferVars, threadVars
<1>3. backend = "queue"
  BY <1>2 DEF LinesInv, Apart
<1>4. CASE UNCHANGED <<queue, lines>>
  BY <1>2, <1>3, <1>4, LinesFrame
<1>5. ASSUME NEW len \in LineSizes, queue' = Append(queue, <<[id |-> n, len |-> len]>>), lines' = n
      PROVE  LinesInv'
  <2>1. /\ [id |-> n, len |-> len] \in Line
        /\ \A x \in Ids(FileLines) \cup Ahead : x < n
        /\ \A x \in dropped : x < n
        /\ n # 0 /\ n \notin tooLong \cup dropped \cup failed
        /\ lines \in Nat
    BY <1>1, NewLine DEF BufferTypes
  <2>2. queue \in Seq(Seq(Line)) /\ InOrder(queue) /\ \A x \in Ids(queue) : x < n
    BY <1>1, <2>1 DEF BufferTypes, LinesInv, Order, Ahead
  <2>3. InOrder(queue') /\ Ids(queue') = Ids(queue) \cup {n}
    BY <1>5, <2>1, <2>2, OneMore
  <2>4. FileLines' = FileLines /\ Filling' = Filling /\ Ahead' = Ahead \cup {n}
    BY <1>2, <2>3 DEF FileLines, Filling, Ahead
  <2>5. Order'
    <3>1. Below(FileLines, queue')
      BY <2>1, <2>3 DEF LinesInv, Order, Below
    <3>2. 0 \notin Ahead' /\ \A x \in dropped, y \in Ahead' : x < y
      BY <2>1, <2>4 DEF LinesInv, Order
    <3> QED BY <1>2, <2>3, <2>4, <3>1, <3>2 DEF LinesInv, Order
  <2>6. Apart'
    BY <1>2, <1>3 DEF LinesInv, Apart
  <2>7. Conserved'
    <3>1. /\ (Ids(FileLines) \cup Ahead) \ {0} = 1..lines \ (tooLong \cup dropped \cup failed)
          /\ tooLong \cup dropped \cup failed \subseteq 0..lines
      BY DEF LinesInv, Conserved
    <3>2. /\ 1..n = 1..lines \cup {n} /\ 0..lines \subseteq 0..n
      BY <2>1
    <3>3. n \notin 1..lines
      BY <2>1
    <3> HIDE DEF n
    <3> QED BY <1>2, <1>5, <2>1, <2>4, <3>1, <3>2, <3>3 DEF Conserved
  <2>8. DropsAreMarked'
    BY <1>2, <2>4 DEF LinesInv, DropsAreMarked
  <2> QED BY <2>5, <2>6, <2>7, <2>8 DEF LinesInv
<1>6. \/ UNCHANGED <<queue, lines>>
      \/ \E len \in LineSizes : queue' = Append(queue, <<[id |-> n, len |-> len]>>) /\ lines' = n
  BY DEF AppendQueuePut, PutWaits, Put
<1> QED BY <1>4, <1>5, <1>6

LEMMA LinesStopPut ==
  ASSUME IInv, LinesInv, StopPut
  PROVE  LinesInv'
<1>1. /\ UNCHANGED <<files, failed, toWrite, buffers, current, tooLong, dropped, backend, lines,
                     calls>>
      /\ backend = "queue"
  BY DEF StopPut, logVars, setupVars, historyVars, bufferVars, threadVars, IInv, Phases
<1>2. queue' = queue \/ queue' = Append(queue, <<>>)
  BY DEF StopPut, PutWaits, Put
<1>3. queue \in Seq(Seq(Line)) /\ InOrder(queue)
  BY DEF IInv, BufferTypes, LinesInv, Order
<1>4. InOrder(queue') /\ Ids(queue') = Ids(queue)
  BY <1>2, <1>3, OneMore
<1>5. FileLines' = FileLines /\ Filling' = Filling /\ Ahead' = Ahead
  BY <1>1, <1>4 DEF FileLines, Filling, Ahead
<1>6. Order'
  BY <1>1, <1>4, <1>5 DEF LinesInv, Order, Below
<1>7. Apart' /\ Conserved' /\ DropsAreMarked'
  BY <1>1, <1>5 DEF LinesInv, Apart, Conserved, DropsAreMarked
<1> QED BY <1>6, <1>7 DEF LinesInv

\* The buffers that were filled are to be written, the others are empty.
LEMMA LinesSwap ==
  ASSUME IInv, LinesInv, SwapBuffers, pc \in {"top", "wait"},
         UNCHANGED <<files, failed, queue, tooLong, dropped, backend, lines, calls>>
  PROVE  LinesInv'
<1>1. toWrite = <<>> /\ backend = "doubleBuffering"
  BY DEF IInv, Exchange, Phases
<1>2. toWrite' = Filling /\ Filling' = << <<>> >>
  BY DEF SwapBuffers, Filling
<1>3. Ids(toWrite) = {} /\ Ids(Filling') = {} /\ InOrder(Filling')
  BY <1>1, <1>2, OrderEmpty
<1>4. FileLines' = FileLines /\ Ahead' = Ahead
  BY <1>2, <1>3 DEF FileLines, Ahead
<1>5. Below(FileLines, Filling') /\ Below(toWrite', Filling')
  BY <1>3 DEF Below
<1>6. Order'
  BY <1>2, <1>3, <1>4, <1>5 DEF LinesInv, Order
<1>7. Apart' /\ Conserved' /\ DropsAreMarked'
  BY <1>1, <1>4 DEF LinesInv, Apart, Conserved, DropsAreMarked
<1> QED BY <1>6, <1>7 DEF LinesInv

\* What is in the files was logged before what is ahead.
LEMMA FilesFirst ==
  ASSUME LinesInv
  PROVE  /\ \A x \in Ids(FileLines) \ {0}, y \in Ahead : x < y
         /\ 0 \notin Ahead
BY DEF LinesInv, Order, Below, Ahead

\* The first buffer or message of what is ahead goes to the files.
LEMMA HandOver ==
  ASSUME IInv, LinesInv, NEW h \in Seq(Line), LogAppend(h), files # <<>>,
         UNCHANGED <<tooLong, dropped, lines>>,
         Ahead = Ids(<<h>>) \cup Ahead', InOrder(<<h>>),
         \A x \in Ids(<<h>>), y \in Ahead' : x < y
  PROVE  /\ InOrder(FileLines') /\ Conserved' /\ DropsAreMarked'
         /\ \A x \in Ids(FileLines') \ {0}, y \in Ahead' : x < y
<1> DEFINE H == Ids(<<h>>)
<1>1. LogTypes /\ BufferTypes /\ InOrder(FileLines)
  BY DEF IInv, LinesInv, Order
<1>2. /\ \A x \in Ids(FileLines) \ {0}, y \in Ahead : x < y
      /\ 0 \notin H /\ 0 \notin Ahead' /\ H \subseteq Ahead
  BY FilesFirst
<1>3. Below(FileLines, <<h>>)
  BY <1>2 DEF Below
<1>4. InOrder(FileLines') /\ \E taken, refused :
              /\ taken \cup refused = Ids(<<h>>)
              /\ 0 \notin Ids(<<h>>) => taken \cap refused = {}
              /\ Ids(FileLines') = Ids(FileLines) \cup taken
              /\ failed' = failed \cup refused
  BY <1>1, <1>3, AppendInOrder
<1>5. PICK taken, refused :
              /\ taken \cup refused = Ids(<<h>>)
              /\ 0 \notin Ids(<<h>>) => taken \cap refused = {}
              /\ Ids(FileLines') = Ids(FileLines) \cup taken
              /\ failed' = failed \cup refused
  BY <1>4
<1>6. \A x \in Ids(FileLines') \ {0}, y \in Ahead' : x < y
  BY <1>2, <1>5
<1>7. \A x \in H \cup Ahead \cup Ids(FileLines) : x \in Nat
  BY <1>1, <1>2, PlaceTypes DEF Ahead
<1>8. Conserved'
  <2>1. /\ (Ids(FileLines) \cup Ahead) \ {0} = 1..lines \ (tooLong \cup dropped \cup failed)
        /\ tooLong \cup dropped \cup failed \subseteq 0..lines
    BY DEF LinesInv, Conserved
  <2>2. \A x \in refused : x \notin Ids(FileLines) /\ x \notin taken /\ x \notin Ahead' /\ x # 0
    <3> SUFFICES ASSUME NEW x \in refused
                 PROVE  x \notin Ids(FileLines) /\ x \notin taken /\ x \notin Ahead' /\ x # 0
      OBVIOUS
    <3>1. x \in H /\ x # 0 /\ x \notin taken
      BY <1>2, <1>5
    <3>2. x \in Nat
      BY <1>7, <3>1
    <3>3. ~(x < x)
      BY <3>2
    <3> QED BY <1>2, <3>1, <3>3
  <2>3. refused \subseteq 1..lines
    BY <1>2, <1>5, <2>1
  <2>4. refused \subseteq 0..lines
    <3>1. 1..lines \subseteq 0..lines
      BY <1>1 DEF BufferTypes
    <3> QED BY <2>3, <3>1
  <2>5. (Ids(FileLines') \cup Ahead') \ {0}
           = ((Ids(FileLines) \cup Ahead) \ {0}) \ refused
    BY <1>2, <1>5, <2>2
  <2>6. (Ids(FileLines') \cup Ahead') \ {0} = 1..lines \ (tooLong \cup dropped \cup failed')
    BY <1>5, <2>1, <2>5
  <2>7. tooLong \cup dropped \cup failed' \subseteq 0..lines
    BY <1>5, <2>1, <2>4
  <2> QED BY <2>6, <2>7 DEF Conserved
<1>9. DropsAreMarked'
  <2>1. ASSUME NEW n \in dropped PROVE Marked(n)'
    <3>1. Marked(n)
      BY MarkFacts DEF LinesInv
    <3>2. n \in 0..lines
      BY DEF LinesInv, Conserved
    <3>3. n \in Nat
      BY <1>1, <3>2 DEF BufferTypes
    <3>4. \A y \in Ids(<<h>>) \ {0} : n < y
      BY <1>2 DEF LinesInv, Order
    <3> QED BY <1>1, <3>1, <3>3, <3>4, MarkKept
  <2>2. (\A n \in dropped : Marked(n))'
    BY <2>1
  <2> QED BY <2>2, MarkFacts, PTL
<1> QED BY <1>4, <1>6, <1>8, <1>9

\* The first of a row, and the others.
LEMMA HeadFirst ==
  ASSUME NEW ss \in Seq(Seq(Line)), ss # <<>>, InOrder(ss)
  PROVE  /\ Head(ss) \in Seq(Line) /\ InOrder(<<Head(ss)>>) /\ InOrder(Tail(ss))
         /\ Below(<<Head(ss)>>, Tail(ss)) /\ Ids(ss) = Ids(<<Head(ss)>>) \cup Ids(Tail(ss))
<1>1. /\ Head(ss) \in Seq(Line) /\ <<Head(ss)>> \in Seq(Seq(Line)) /\ Tail(ss) \in Seq(Seq(Line))
      /\ ss = <<Head(ss)>> \o Tail(ss)
  <2>1. Head(ss) \in Seq(Line) /\ Tail(ss) \in Seq(Seq(Line))
    OBVIOUS
  <2>2. <<Head(ss)>> \in Seq(Seq(Line))
    BY <2>1
  <2>3. ss = <<Head(ss)>> \o Tail(ss)
    BY HeadTailProperties, <2>1, <2>2
  <2> QED BY <2>1, <2>2, <2>3
<1> DEFINE h == <<Head(ss)>>
           r == Tail(ss)
<1> HIDE DEF h, r
<1>2. InOrder(h \o r) /\ h \in Seq(Seq(Line)) /\ r \in Seq(Seq(Line)) /\ ss = h \o r
  BY <1>1 DEF h, r
<1>3. InOrder(h) /\ InOrder(r) /\ Below(h, r) /\ Ids(h \o r) = Ids(h) \cup Ids(r)
  BY <1>2, OrderConcat
<1> QED BY <1>1, <1>2, <1>3 DEF h, r

LEMMA LinesWrite ==
  ASSUME IInv, LinesInv, WriteBuffer
  PROVE  LinesInv'
<1> DEFINE h == Head(toWrite)
<1>1. /\ UNCHANGED <<queue, backend, calls, lines, tooLong, dropped, buffers, current>>
      /\ toWrite # <<>> /\ LogAppend(h) /\ toWrite' = Tail(toWrite)
  BY DEF WriteBuffer, queueVars, otherVars, setupVars, historyVars, bufferVars
<1>2. /\ pc = "write" /\ files # <<>> /\ backend = "doubleBuffering" /\ queue = <<>>
      /\ toWrite \in Seq(Seq(Line)) /\ InOrder(toWrite)
  BY DEF WriteBuffer, IInv, Opened, Phases, BufferTypes, LinesInv, Apart, Order
<1>3. /\ h \in Seq(Line) /\ InOrder(<<h>>) /\ InOrder(toWrite')
      /\ Below(<<h>>, toWrite') /\ Ids(toWrite) = Ids(<<h>>) \cup Ids(toWrite')
  BY <1>1, <1>2, HeadFirst
<1> HIDE DEF h
<1>4. Filling' = Filling /\ Ids(queue) = {}
  BY <1>1, <1>2, OrderEmpty DEF Filling
<1>5. Ahead = Ids(<<h>>) \cup Ahead'
  BY <1>1, <1>3, <1>4 DEF Ahead
<1>6. 0 \notin Ahead /\ Below(toWrite, Filling)
  BY DEF LinesInv, Order
<1>7. \A x \in Ids(<<h>>), y \in Ahead' : x < y
  <2>1. ASSUME NEW x \in Ids(<<h>>), NEW y \in Ids(toWrite') PROVE x < y
    BY <1>3, <1>5, <1>6 DEF Below, Ahead
  <2>2. ASSUME NEW x \in Ids(<<h>>), NEW y \in Ids(Filling) PROVE x < y
    BY <1>3, <1>6 DEF Below, Ahead
  <2> QED BY <1>1, <1>4, <2>1, <2>2 DEF Ahead
<1>8. /\ InOrder(FileLines') /\ Conserved' /\ DropsAreMarked'
      /\ \A x \in Ids(FileLines') \ {0}, y \in Ahead' : x < y
  BY <1>1, <1>2, <1>3, <1>5, <1>7, HandOver
<1>9. Order'
  <2>1. Below(FileLines', toWrite') /\ Below(FileLines', Filling') /\ Below(FileLines', queue')
    BY <1>8 DEF Below, Ahead
  <2>2. Below(toWrite', Filling')
    BY <1>3, <1>4, <1>6 DEF Below
  <2>3. 0 \notin Ahead' /\ \A n \in dropped, y \in Ahead' : n < y
    BY <1>5 DEF LinesInv, Order
  <2> QED BY <1>1, <1>3, <1>4, <1>8, <2>1, <2>2, <2>3 DEF LinesInv, Order
<1>10. Apart'
  BY <1>1, <1>2 DEF LinesInv, Apart
<1> QED BY <1>8, <1>9, <1>10 DEF LinesInv

LEMMA LinesTake ==
  ASSUME IInv, LinesInv, TakeLine
  PROVE  LinesInv'
<1> DEFINE h == Head(queue)
<1>1. /\ UNCHANGED <<backend, calls, lines, tooLong, dropped, buffers, current, toWrite>>
      /\ queue # <<>> /\ queue' = Tail(queue)
      /\ (h = <<>> /\ UNCHANGED <<files, failed>>) \/ LogAppend(h)
  BY DEF TakeLine, Take, CloseLog, otherVars, setupVars, historyVars, bufferVars, threadVars
<1>2. /\ pc = "take" /\ files # <<>> /\ backend = "queue"
      /\ queue \in Seq(Seq(Line)) /\ InOrder(queue)
      /\ toWrite = <<>> /\ buffers = <<>> /\ current = <<>>
  BY DEF TakeLine, IInv, Opened, Phases, BufferTypes, LinesInv, Apart, Order
<1>3. /\ h \in Seq(Line) /\ InOrder(<<h>>) /\ InOrder(queue')
      /\ Below(<<h>>, queue') /\ Ids(queue) = Ids(<<h>>) \cup Ids(queue')
  BY <1>1, <1>2, HeadFirst
<1> HIDE DEF h
<1>4. Filling = << <<>> >>
  BY <1>2 DEF Filling
<1>5. Filling' = Filling /\ Ids(Filling) = {} /\ Ids(toWrite) = {}
  BY <1>1, <1>2, <1>4, OrderEmpty DEF Filling
<1>6. Ahead = Ids(<<h>>) \cup Ahead' /\ Ahead' = Ids(queue')
  BY <1>1, <1>3, <1>5 DEF Ahead
<1>7. \A x \in Ids(<<h>>), y \in Ahead' : x < y
  BY <1>3, <1>6 DEF Below, LinesInv, Order
<1>8. /\ InOrder(FileLines') /\ Conserved' /\ DropsAreMarked'
      /\ \A x \in Ids(FileLines') \ {0}, y \in Ahead' : x < y
  <2>1. CASE LogAppend(h)
    BY <1>1, <1>2, <1>3, <1>6, <1>7, <2>1, HandOver
  <2>2. CASE h = <<>> /\ UNCHANGED <<files, failed>>
    <3>1. FileLines' = FileLines /\ Ahead' = Ahead
      BY <1>6, <2>2, OrderEmpty DEF FileLines
    <3>2. Conserved' /\ DropsAreMarked' /\ InOrder(FileLines')
      BY <1>1, <2>2, <3>1 DEF LinesInv, Order, Conserved, DropsAreMarked
    <3> QED BY <3>1, <3>2, FilesFirst
  <2> QED BY <1>1, <2>1, <2>2
<1>9. Order'
  <2>1. Below(FileLines', toWrite') /\ Below(FileLines', Filling') /\ Below(FileLines', queue')
    BY <1>8 DEF Below, Ahead
  <2>2. 0 \notin Ahead' /\ \A n \in dropped, y \in Ahead' : n < y
    BY <1>6 DEF LinesInv, Order
  <2> QED BY <1>1, <1>3, <1>5, <1>8, <2>1, <2>2 DEF LinesInv, Order
<1>10. Apart'
  BY <1>1, <1>2 DEF LinesInv, Apart
<1> QED BY <1>8, <1>9, <1>10 DEF LinesInv

\* The first place is taken by a message: the lines of the files are the same.
LEMMA LinesDrop ==
  ASSUME IInv, LinesInv, Drop
  PROVE  LinesInv'
<1> DEFINE kept == Len(toWrite) - 2
           gone == SubSeq(toWrite, 1, kept)
           left == SubSeq(toWrite, kept + 1, kept + 2)
           msg == <<DropMsg>>
           D == Ids(gone)
<1>1. /\ UNCHANGED <<queue, backend, calls, lines, tooLong, buffers, current>>
      /\ LogAppend(msg) /\ toWrite' = left /\ dropped' = dropped \cup D
  BY DEF Drop, queueVars, setupVars, bufferVars
<1>2. /\ pc = "drop" /\ files # <<>> /\ backend = "doubleBuffering" /\ queue = <<>>
      /\ toWrite \in Seq(Seq(Line)) /\ InOrder(toWrite) /\ Len(toWrite) > MaxBuffers
  BY DEF Drop, IInv, Opened, Phases, Exchange, BufferTypes, LinesInv, Apart, Order
<1>3. kept \in Nat /\ kept + 2 = Len(toWrite) /\ kept >= 1
  BY <1>2, AsyncLoggingAssumption
<1>4. gone \in Seq(Seq(Line)) /\ left \in Seq(Seq(Line)) /\ toWrite = gone \o left
  <2>1. DOMAIN toWrite = 1..(kept + 2) /\ \A i \in 1..(kept + 2) : toWrite[i] \in Seq(Line)
    BY <1>2, <1>3
  <2> HIDE DEF kept
  <2>2. /\ \A i \in 1..kept : toWrite[i] \in Seq(Line)
        /\ \A i \in kept + 1..kept + 2 : toWrite[i] \in Seq(Line)
    BY <1>3, <2>1
  <2>3. gone \in Seq(Seq(Line))
    BY <1>3, <2>2, SubSeqProperties
  <2>4. left \in Seq(Seq(Line))
    BY <1>3, <2>2, SubSeqProperties
  <2>5. SubSeq(toWrite, 1, kept + 2) = toWrite
    BY <1>2, <1>3, SubSeqFull
  <2>6. SubSeq(toWrite, 1, kept) \o SubSeq(toWrite, kept + 1, kept + 2)
          = SubSeq(toWrite, 1, kept + 2)
    BY <1>2, <1>3, ConcatAdjacentSubSeq
  <2> QED BY <2>3, <2>4, <2>5, <2>6
<1> HIDE DEF kept, gone, left
<1>5. InOrder(left) /\ Below(gone, left) /\ Ids(toWrite) = D \cup Ids(left)
  BY <1>2, <1>4, OrderConcat
<1>6. LogTypes /\ BufferTypes /\ InOrder(FileLines) /\ lines \in Nat
  BY DEF IInv, LinesInv, Order, BufferTypes
<1>7. /\ Filling' = Filling /\ Ids(queue) = {}
      /\ Ahead = D \cup Ahead' /\ Ahead' = Ids(left) \cup Ids(Filling)
  <2>1. Filling' = Filling /\ Ids(queue) = {}
    BY <1>1, <1>2, OrderEmpty DEF Filling
  <2> QED BY <1>1, <1>5, <2>1 DEF Ahead
<1>8. /\ \A x \in Ids(FileLines) \ {0}, y \in Ahead : x < y
      /\ 0 \notin Ahead /\ Ahead \subseteq Nat /\ Ids(FileLines) \subseteq Nat
  BY <1>6, PlaceTypes, FilesFirst DEF Ahead
<1>9. \A x \in D, y \in Ahead' : x < y
  <2>1. ASSUME NEW x \in D, NEW y \in Ids(left) PROVE x < y
    BY <1>5, <1>7, <1>8 DEF Below
  <2>2. ASSUME NEW x \in D, NEW y \in Ids(Filling) PROVE x < y
    BY <1>5, <1>7, <1>8 DEF Below, LinesInv, Order
  <2> QED BY <1>7, <2>1, <2>2
<1>10. msg \in Seq(Line) /\ InOrder(<<msg>>) /\ Ids(<<msg>>) = {0}
  <2>1. DropMsg \in Line /\ DropMsg.id = 0
    BY AsyncLoggingAssumption DEF DropMsg, Line
  <2>2. <<>> \in Seq(Line) /\ msg = Append(<<>>, DropMsg)
    OBVIOUS
  <2>3. InOrder(<<Append(<<>>, DropMsg)>>) /\ Ids(<<Append(<<>>, DropMsg)>>) = {0}
    BY <2>1, <2>2, OrderEmpty, OrderSingle
  <2> QED BY <2>1, <2>2, <2>3
<1>11. Below(FileLines, <<msg>>)
  BY <1>10 DEF Below
<1>12. InOrder(FileLines') /\ \E taken, refused :
              /\ taken \cup refused = Ids(<<msg>>)
              /\ 0 \notin Ids(<<msg>>) => taken \cap refused = {}
              /\ Ids(FileLines') = Ids(FileLines) \cup taken
              /\ failed' = failed \cup refused
  BY <1>1, <1>2, <1>6, <1>10, <1>11, AppendInOrder
<1>13. /\ Ids(FileLines') \ {0} = Ids(FileLines) \ {0}
       /\ failed \subseteq failed' /\ failed' \subseteq failed \cup {0}
  BY <1>10, <1>12
<1>14. Order'
  <2>1. Below(FileLines', toWrite') /\ Below(FileLines', Filling') /\ Below(FileLines', queue')
    BY <1>1, <1>7, <1>8, <1>13 DEF Below
  <2>2. Below(toWrite', Filling')
    BY <1>1, <1>5, <1>7 DEF Below, LinesInv, Order
  <2>3. 0 \notin Ahead' /\ \A n \in dropped', y \in Ahead' : n < y
    BY <1>1, <1>7, <1>8, <1>9 DEF LinesInv, Order
  <2> QED BY <1>1, <1>5, <1>7, <1>12, <2>1, <2>2, <2>3 DEF LinesInv, Order
<1>15. Apart'
  BY <1>1, <1>2 DEF LinesInv, Apart
<1>16. Conserved'
  <2>1. /\ (Ids(FileLines) \cup Ahead) \ {0} = 1..lines \ (tooLong \cup dropped \cup failed)
        /\ tooLong \cup dropped \cup failed \subseteq 0..lines
    BY DEF LinesInv, Conserved
  <2>2. ASSUME NEW x \in D PROVE x \notin Ids(FileLines) /\ x \notin Ahead' /\ x # 0
    <3>1. x \in Ahead /\ x \in Nat /\ x # 0
      BY <1>7, <1>8
    <3>2. ~(x < x)
      BY <3>1
    <3> QED BY <1>8, <1>9, <3>1, <3>2
  <2>3. D \subseteq 1..lines
    BY <1>7, <1>8, <2>1
  <2>4. 0 \in 0..lines /\ 1..lines \subseteq 0..lines /\ 0 \notin 1..lines
    BY <1>6
  <2> HIDE DEF D
  <2>5. (Ids(FileLines') \cup Ahead') \ {0} = ((Ids(FileLines) \cup Ahead) \ {0}) \ D
    BY <1>7, <1>13, <2>2
  <2>6. (Ids(FileLines') \cup Ahead') \ {0}
           = 1..lines \ (tooLong \cup (dropped \cup D) \cup failed')
    BY <1>13, <2>1, <2>4, <2>5
  <2>7. tooLong \cup (dropped \cup D) \cup failed' \subseteq 0..lines
    BY <1>13, <2>1, <2>3, <2>4
  <2> QED BY <1>1, <2>6, <2>7 DEF Conserved
<1>17. DropsAreMarked'
  <2>1. ASSUME NEW n \in dropped PROVE Marked(n)'
    <3>1. Marked(n)
      BY MarkFacts DEF LinesInv
    <3>2. n \in 0..lines
      BY DEF LinesInv, Conserved
    <3>3. n \in Nat
      BY <1>6, <3>2
    <3>4. \A y \in Ids(<<msg>>) \ {0} : n < y
      BY <1>10
    <3> HIDE DEF msg
    <3> QED BY <1>1, <1>2, <1>6, <1>10, <3>1, <3>3, <3>4, MarkKept
  <2>2. ASSUME NEW n \in D PROVE Marked(n)'
    <3>1. n \in Nat /\ \A x \in Ids(FileLines) : x \in Nat /\ (x = 0 \/ x < n)
      BY <1>7, <1>8
    <3> QED BY <1>1, <1>2, <1>6, <3>1, MarkMade
  <2>3. (\A n \in dropped : Marked(n))'
    BY <1>1, <2>1, <2>2
  <2> QED BY <2>3, MarkFacts, PTL
<1> QED BY <1>14, <1>15, <1>16, <1>17 DEF LinesInv

\* The first file is empty.
LEMMA LinesOpen ==
  ASSUME IInv, LinesInv, ThreadStart
  PROVE  LinesInv'
<1>1. /\ UNCHANGED <<failed, queue, backend, calls, lines, tooLong, dropped, buffers, current,
                     toWrite>>
      /\ files = <<>> /\ files' = Append(files, [name |-> now, lines |-> <<>>])
  BY DEF ThreadStart, OpenLog, RolledFiles, IInv, Opened, queueVars, setupVars, historyVars,
         bufferVars, threadVars
<1>2. FileLines = <<>> /\ FileLines' = << <<>> >>
  <2>1. files' = <<[name |-> now, lines |-> <<>>]>>
    BY <1>1
  <2>2. FileLines = <<>>
    BY <1>1 DEF FileLines
  <2>3. FileLines' = [i \in 1..1 |-> <<>>]
    BY <2>1 DEF FileLines
  <2> QED BY <2>2, <2>3
<1>3. Ids(FileLines) = {} /\ Ids(FileLines') = {} /\ InOrder(FileLines')
  BY <1>2, OrderEmpty
<1>4. Filling' = Filling /\ Ahead' = Ahead
  BY <1>1 DEF Filling, Ahead
<1>5. Order'
  BY <1>1, <1>3, <1>4 DEF LinesInv, Order, Below
<1>6. Apart' /\ Conserved'
  BY <1>1, <1>3, <1>4 DEF LinesInv, Apart, Conserved
<1>7. DropsAreMarked'
  <2>1. ASSUME NEW n \in dropped PROVE 0 \in failed
    BY <1>2 DEF LinesInv, DropsAreMarked
  <2> QED BY <1>1, <2>1 DEF DropsAreMarked
<1> QED BY <1>5, <1>6, <1>7 DEF LinesInv

LEMMA LinesStep == IInv /\ LinesInv /\ [Next]_vars => LinesInv'
<1> SUFFICES ASSUME IInv, LinesInv, [Next]_vars PROVE LinesInv'
  OBVIOUS
<1> USE DEF logVars, otherVars, setupVars, historyVars, queueVars, bufferVars, threadVars
<1>1. backend # "queue" => calls = {}
  BY DEF LinesInv, Apart
<1>2. CASE AppendDoubleBuffering
  BY <1>2, LinesAppend
<1>3. ASSUME NEW t \in Appenders, AppendQueue(t) PROVE LinesInv'
  BY <1>3, LinesFrame DEF AppendQueue
<1>4. ASSUME NEW t \in Appenders, AppendQueuePut(t) PROVE LinesInv'
  BY <1>4, LinesQueuePut
<1>5. CASE Start \/ Stop \/ Join
  BY <1>1, <1>5, LinesFrame DEF Start, Stop, Join
<1>6. CASE StopPut
  BY <1>6, LinesStopPut
<1>7. CASE ThreadStart
  BY <1>7, LinesOpen
<1>8. CASE Top
  <2>1. UNCHANGED <<files, failed, queue, tooLong, dropped, backend, lines, calls>> /\ pc = "top"
    BY <1>8 DEF Top, CloseLog
  <2>2. CASE SwapBuffers
    BY <2>1, <2>2, LinesSwap
  <2>3. CASE UNCHANGED <<toWrite, buffers, current>>
    BY <1>1, <2>1, <2>3, LinesFrame
  <2> QED BY <1>8, <2>2, <2>3 DEF Top
<1>9. CASE Wake
  <2>1. UNCHANGED <<files, failed, queue, tooLong, dropped, backend, lines, calls>> /\ pc = "wait"
    BY <1>9 DEF Wake
  <2> QED BY <1>9, <2>1, LinesSwap DEF Wake
<1>10. CASE Drop
  BY <1>10, LinesDrop
<1>11. CASE WriteBuffer
  BY <1>11, LinesWrite
<1>12. CASE Recycle
  BY <1>1, <1>12, LinesFrame DEF Recycle, LogFlush
<1>13. CASE TakeWait
  BY <1>1, <1>13, LinesFrame DEF TakeWait, TakeWaits
<1>14. CASE TakeLine
  BY <1>14, LinesTake
<1>15. CASE Spurious
  BY <1>1, <1>15, LinesFrame DEF Spurious, SpuriousWakeup
<1>16. CASE Clock
  BY <1>1, <1>16, LinesFrame DEF Clock, Tick
<1>17. CASE UNCHANGED vars
  BY <1>1, <1>17, LinesFrame DEF vars
<1> QED
  BY <1>2, <1>3, <1>4, <1>5, <1>6, <1>7, <1>8, <1>9, <1>10, <1>11, <1>12, <1>13, <1>14, <1>15,
     <1>16, <1>17 DEF Next, LoggerThread

LEMMA InitLines == Init => LinesInv
<1> SUFFICES ASSUME Init PROVE LinesInv
  OBVIOUS
<1>1. /\ files = <<>> /\ failed = {} /\ queue = <<>> /\ calls = {} /\ lines = 0
      /\ tooLong = {} /\ dropped = {} /\ current = <<>> /\ buffers = <<>> /\ toWrite = <<>>
  BY DEF Init, LogInit
<1>2. FileLines = <<>> /\ Filling = << <<>> >>
  BY <1>1 DEF FileLines, Filling
<1>3. Ids(FileLines) = {} /\ Ahead = {}
  BY <1>1, <1>2, OrderEmpty DEF Ahead
<1>4. Order
  BY <1>1, <1>2, <1>3, OrderEmpty DEF Order, Below
<1>5. Apart /\ DropsAreMarked
  BY <1>1 DEF Apart, DropsAreMarked
<1>6. Conserved
  <2>1. 1..lines = {}
    BY <1>1
  <2> QED BY <1>1, <1>3, <2>1 DEF Conserved
<1> QED BY <1>4, <1>5, <1>6 DEF LinesInv

\* Every line that append accepted is at exactly one place, in the order accepted: in
\* the files, in the buffers or the queue between the threads, or among those that
\* had no room, were dropped or were refused by fwrite; and the files say where
\* lines were dropped (AsyncLoggingDoubleBuffering, AsyncLoggingQueue, LogFile).
THEOREM EveryLineIsOnce == Spec => []EveryLineOnce
<1>1. IInv /\ LinesInv => EveryLineOnce
  <2> SUFFICES ASSUME IInv, LinesInv PROVE EveryLineOnce
    OBVIOUS
  <2> DEFINE a == FileLines \o toWrite
             b == a \o Filling
             c == b \o queue
  <2>1. /\ FileLines \in Seq(Seq(Line)) /\ toWrite \in Seq(Seq(Line))
        /\ Filling \in Seq(Seq(Line)) /\ queue \in Seq(Seq(Line))
    BY PlaceTypes DEF IInv
  <2>2. /\ InOrder(FileLines) /\ InOrder(toWrite) /\ InOrder(Filling) /\ InOrder(queue)
        /\ Below(FileLines, toWrite) /\ Below(FileLines, Filling) /\ Below(FileLines, queue)
        /\ Below(toWrite, Filling)
    BY DEF LinesInv, Order
  <2>3. a \in Seq(Seq(Line)) /\ InOrder(a) /\ Ids(a) = Ids(FileLines) \cup Ids(toWrite)
    BY <2>1, <2>2, OrderConcat
  <2> HIDE DEF a
  <2>4. b \in Seq(Seq(Line)) /\ InOrder(b) /\ Ids(b) = Ids(a) \cup Ids(Filling)
    <3>1. Below(a, Filling)
      BY <2>2, <2>3 DEF Below
    <3> QED BY <2>1, <2>2, <2>3, <3>1, OrderConcat
  <2> HIDE DEF b
  <2>5. InOrder(c) /\ Ids(c) = Ids(b) \cup Ids(queue)
    <3>1. Below(b, queue)
      <4>1. CASE backend = "queue"
        <5>1. toWrite = <<>> /\ Filling = << <<>> >>
          BY <4>1 DEF LinesInv, Apart, Filling
        <5>2. Ids(b) = Ids(FileLines)
          BY <2>3, <2>4, <5>1, OrderEmpty
        <5> QED BY <2>2, <5>2 DEF Below
      <4>2. CASE backend # "queue"
        <5>1. Ids(queue) = {}
          BY <4>2, OrderEmpty DEF LinesInv, Apart
        <5> QED BY <5>1 DEF Below
      <4> QED BY <4>1, <4>2
    <3> QED BY <2>1, <2>2, <2>4, <3>1, OrderConcat
  <2>6. c = Pipeline
    BY DEF a, b, Pipeline, Filling
  <2>7. Ids(c) = Ids(FileLines) \cup Ahead
    BY <2>3, <2>4, <2>5 DEF Ahead
  <2> HIDE DEF c
  <2> QED BY <2>5, <2>6, <2>7 DEF EveryLineOnce, LinesInv, Conserved
<1>2. IInv /\ LinesInv /\ [Next]_vars => LinesInv'
  BY LinesStep
<1> QED BY <1>1, <1>2, InitLines, Inductive, PTL DEF Spec

-----------------------------------------------------------------------------
(* What stop() leaves.                                                     *)

\* Behind every line that was in the queue when stop() put the empty message there,
\* that message still waits; lines come to a queue alone, and none is dropped.
BeforeStop ==
    /\ stopLine \in Nat /\ stopLine <= lines
    /\ \A i, j, x : In(queue, i, j, x) /\ x <= stopLine =>
         \E k \in DOMAIN queue : i < k /\ queue[k] = <<>>
    /\ backend = "queue" => tooLong = {} /\ dropped = {}

LEMMA BeforeStopFrame ==
  ASSUME BeforeStop, UNCHANGED <<queue, lines, stopLine, backend>>,
         backend = "queue" => UNCHANGED <<tooLong, dropped>>
  PROVE  BeforeStop'
<1>1. \A i, j, x : In(queue, i, j, x)' <=> In(queue, i, j, x)
  BY DEF In
<1> QED BY <1>1 DEF BeforeStop

LEMMA BeforeStopPut ==
  ASSUME IInv, BeforeStop, NEW t \in Appenders, AppendQueuePut(t)
  PROVE  BeforeStop'
<1>1. /\ queue \in Seq(Seq(Line)) /\ lines \in Nat /\ stopLine \in Nat /\ stopLine <= lines
      /\ UNCHANGED <<backend, tooLong, dropped, stopLine>>
  BY DEF IInv, BufferTypes, BeforeStop, AppendQueuePut, setupVars, historyVars
<1>2. CASE PutWaits(t) /\ UNCHANGED lines
  BY <1>1, <1>2, BeforeStopFrame DEF PutWaits
<1>3. ASSUME NEW len \in LineSizes, Put(t, <<[id |-> lines + 1, len |-> len]>>),
             lines' = lines + 1
      PROVE  BeforeStop'
  <2> DEFINE line == [id |-> lines + 1, len |-> len]
             m == <<line>>
  <2>1. line \in Line /\ line.id = lines + 1
    BY <1>1, AsyncLoggingAssumption DEF Line
  <2>2. queue' = Append(queue, m)
    BY <1>3 DEF Put
  <2> HIDE DEF line
  <2>3. m \in Seq(Line) /\ \A j \in DOMAIN m : m[j].id = lines + 1
    BY <2>1
  <2> HIDE DEF m
  <2>4. PICK n : /\ queue'[n] = m /\ n \notin DOMAIN queue
                 /\ \A i : i \in DOMAIN queue' <=> i \in DOMAIN queue \/ i = n
                 /\ \A i \in DOMAIN queue : queue'[i] = queue[i]
    BY <1>1, <2>2, <2>3, StopMessageAppend
  <2>5. ASSUME NEW i, NEW j, NEW x, In(queue, i, j, x)', x <= stopLine
        PROVE  \E k \in DOMAIN queue' : i < k /\ queue'[k] = <<>>
    <3>1. i # n
      <4>1. ASSUME i = n PROVE x = lines + 1
        BY <2>3, <2>4, <2>5, <4>1 DEF In
      <4>2. ~(lines + 1 <= stopLine)
        BY <1>1
      <4> QED BY <2>5, <4>1, <4>2
    <3>2. In(queue, i, j, x)
      BY <2>4, <2>5, <3>1 DEF In
    <3>3. PICK k \in DOMAIN queue : i < k /\ queue[k] = <<>>
      BY <2>5, <3>2 DEF BeforeStop
    <3> QED BY <2>4, <3>3
  <2>6. stopLine' \in Nat /\ stopLine' <= lines'
    BY <1>1, <1>3
  <2> QED BY <1>1, <2>5, <2>6 DEF BeforeStop
<1> QED BY <1>2, <1>3 DEF AppendQueuePut

LEMMA BeforeStopStop ==
  ASSUME IInv, BeforeStop, StopPut
  PROVE  BeforeStop'
<1>1. /\ queue \in Seq(Seq(Line)) /\ lines \in Nat
      /\ UNCHANGED <<backend, tooLong, dropped, lines>>
  BY DEF IInv, BufferTypes, StopPut, setupVars
<1>2. CASE PutWaits(Main) /\ UNCHANGED <<main, stopLine>>
  BY <1>1, <1>2, BeforeStopFrame DEF PutWaits
<1>3. CASE Put(Main, <<>>) /\ stopLine' = lines
  <2> DEFINE m == <<>>
             n == Len(queue) + 1
  <2>1. queue' = Append(queue, m)
    BY <1>3 DEF Put
  <2> HIDE DEF m
  <2>2. /\ DOMAIN queue = 1..Len(queue) /\ DOMAIN queue' = 1..n /\ Len(queue) \in Nat
        /\ queue'[n] = m
    BY <1>1, <2>1
  <2>3. ASSUME NEW i, NEW j, NEW x, In(queue, i, j, x)'
        PROVE  \E k \in DOMAIN queue' : i < k /\ queue'[k] = <<>>
    <3>1. i \in 1..n /\ queue'[i] # <<>>
      BY <2>2, <2>3 DEF In
    <3>2. i < n
      BY <2>2, <3>1 DEF m
    <3>3. n \in DOMAIN queue'
      BY <2>2
    <3> QED BY <2>2, <3>2, <3>3 DEF m
  <2>4. stopLine' \in Nat /\ stopLine' <= lines'
    BY <1>1, <1>3
  <2> QED BY <1>1, <2>3, <2>4 DEF BeforeStop
<1> QED BY <1>2, <1>3 DEF StopPut

LEMMA BeforeStopTake ==
  ASSUME IInv, BeforeStop, TakeLine
  PROVE  BeforeStop'
<1>1. /\ queue \in Seq(Seq(Line)) /\ queue # <<>> /\ queue' = Tail(queue)
      /\ UNCHANGED <<backend, tooLong, dropped, lines, stopLine>>
  BY DEF IInv, BufferTypes, TakeLine, Take, otherVars, setupVars, historyVars
<1>2. /\ DOMAIN queue = 1..Len(queue) /\ DOMAIN queue' = 1..(Len(queue) - 1)
      /\ Len(queue) \in Nat \ {0} /\ \A i \in DOMAIN queue' : queue'[i] = queue[i + 1]
  BY <1>1
<1>3. ASSUME NEW i, NEW j, NEW x, In(queue, i, j, x)', x <= stopLine
      PROVE  \E k \in DOMAIN queue' : i < k /\ queue'[k] = <<>>
  <2>1. i \in 1..(Len(queue) - 1)
    BY <1>2, <1>3 DEF In
  <2>2. In(queue, i + 1, j, x)
    BY <1>2, <1>3, <2>1 DEF In
  <2>3. PICK k \in DOMAIN queue : i + 1 < k /\ queue[k] = <<>>
    BY <1>3, <2>2 DEF BeforeStop
  <2>4. k - 1 \in DOMAIN queue' /\ i < k - 1 /\ (k - 1) + 1 = k
    BY <1>2, <2>1, <2>3
  <2>5. queue'[k - 1] = <<>>
    BY <1>2, <2>3, <2>4
  <2> QED BY <2>4, <2>5
<1> QED BY <1>1, <1>3 DEF BeforeStop

LEMMA BeforeStopStep == IInv /\ BeforeStop /\ [Next]_vars => BeforeStop'
<1> SUFFICES ASSUME IInv, BeforeStop, [Next]_vars PROVE BeforeStop'
  OBVIOUS
<1> USE DEF otherVars, setupVars, historyVars, queueVars
<1>1. CASE AppendDoubleBuffering
  <2>1. backend # "queue" /\ UNCHANGED <<queue, stopLine, backend>> /\ lines' = lines + 1
    BY <1>1 DEF AppendDoubleBuffering
  <2>2. stopLine \in Nat /\ lines \in Nat /\ stopLine <= lines
    BY DEF IInv, BufferTypes, BeforeStop
  <2>3. stopLine' <= lines'
    BY <2>1, <2>2
  <2>4. \A i, j, x : In(queue, i, j, x)' <=> In(queue, i, j, x)
    BY <2>1 DEF In
  <2> QED BY <2>1, <2>2, <2>3, <2>4 DEF BeforeStop
<1>2. ASSUME NEW t \in Appenders, AppendQueue(t) PROVE BeforeStop'
  BY <1>2, BeforeStopFrame DEF AppendQueue
<1>3. CASE Start \/ Stop \/ Join \/ ThreadStart \/ Top \/ Wake \/ WriteBuffer \/ Recycle
  BY <1>3, BeforeStopFrame DEF Start, Stop, Join, ThreadStart, Top, Wake, WriteBuffer, Recycle
<1>4. CASE Drop
  <2>1. backend # "queue" /\ UNCHANGED <<queue, lines, stopLine, backend>>
    BY <1>4 DEF Drop, IInv, Phases
  <2> QED BY <2>1, BeforeStopFrame
<1>5. CASE TakeWait \/ Spurious \/ Clock \/ UNCHANGED vars
  BY <1>5, BeforeStopFrame DEF TakeWait, TakeWaits, Spurious, SpuriousWakeup, Clock, vars
<1> QED
  BY <1>1, <1>2, <1>3, <1>4, <1>5, BeforeStopPut, BeforeStopStop, BeforeStopTake
  DEF Next, LoggerThread

\* stop() of a log with a queue returns only when every line that was put before its
\* empty message is in a file or was refused by fwrite, and no log leaves lines in a
\* FILE: the thread goes on taking although running_ is FALSE (AsyncLoggingT).
THEOREM StopLeavesNothing == Spec => []StoppedIsOnDisk
<1>1. IInv /\ LinesInv /\ BeforeStop => StoppedIsOnDisk
  <2> SUFFICES ASSUME IInv, LinesInv, BeforeStop, main = "stopped"
               PROVE  /\ stdio = <<>>
                      /\ backend = "queue" => 1..stopLine \subseteq Ids(FileLines) \cup failed
    BY DEF StoppedIsOnDisk
  <2>1. stdio = <<>>
    BY DEF IInv, Phases
  <2>2. ASSUME backend = "queue", NEW x \in 1..stopLine PROVE x \in Ids(FileLines) \cup failed
    <3>1. x \notin Ids(queue)
      <4>1. SUFFICES ASSUME x \in Ids(queue) PROVE FALSE
        OBVIOUS
      <4>2. PICK i, j : In(queue, i, j, x)
        BY <4>1, InFacts
      <4>3. x <= stopLine
        BY DEF BeforeStop
      <4>4. PICK k \in DOMAIN queue : queue[k] = <<>>
        BY <4>2, <4>3 DEF BeforeStop
      <4> QED BY <4>4 DEF IInv, StopMessage
    <3>2. toWrite = <<>> /\ Filling = << <<>> >>
      BY <2>2 DEF LinesInv, Apart, Filling
    <3>3. Ahead = Ids(queue)
      BY <3>2, OrderEmpty DEF Ahead
    <3>4. x \in 1..lines /\ x # 0
      BY DEF BeforeStop, IInv, BufferTypes
    <3>5. x \notin tooLong /\ x \notin dropped
      BY <2>2 DEF BeforeStop
    <3> QED BY <3>1, <3>3, <3>4, <3>5 DEF LinesInv, Conserved
  <2> QED BY <2>1, <2>2
<1>2. Init => BeforeStop
  <2> SUFFICES ASSUME Init PROVE BeforeStop
    OBVIOUS
  <2>1. queue = <<>> /\ lines = 0 /\ stopLine = 0 /\ tooLong = {} /\ dropped = {}
    BY DEF Init
  <2>2. \A i : i \notin DOMAIN queue
    BY <2>1
  <2> QED BY <2>1, <2>2 DEF BeforeStop, In
<1>3. IInv /\ LinesInv /\ [Next]_vars => LinesInv'
  BY LinesStep
<1>4. IInv /\ BeforeStop /\ [Next]_vars => BeforeStop'
  BY BeforeStopStep
<1> QED BY <1>1, <1>2, <1>3, <1>4, InitLines, Inductive, PTL DEF Spec
=============================================================================
