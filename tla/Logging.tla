------------------------------ MODULE Logging ------------------------------
(***************************************************************************)
(* muduo::Logger (base/logging/Logging.h, Logging.cpp): a temporary Logger *)
(* is made for every line, takes the operands and hands the line to the    *)
(* output function when it is destroyed.  The text of the current second   *)
(* is cached per thread; the clock of the system may be set back.  A FATAL *)
(* line is flushed and ends the program.                                   *)
(***************************************************************************)
EXTENDS LogStream, FiniteSets, FiniteSetsExt

CONSTANTS Threads,
          MaxClock,      \* the clock shows the seconds 1..MaxClock
          MaxLines,      \* lines of the whole run
          UsedLevels,    \* the levels of the macros in use
          TextLengths,   \* the texts, ints and pointers a line may be given
          Ints,
          Pointers,
          MaxOperands    \* operands of the lines being made at one time

ASSUME BoundsAssumption == MaxClock \in Nat /\ MaxLines \in Nat /\ MaxOperands \in Nat

Levels == [TRACE |-> 0, DEBUG |-> 1, INFO |-> 2, WARN |-> 3, ERROR |-> 4, FATAL |-> 5]
Sinks == {"stdout", "file"}
Operands == {Text("text", n) : n \in TextLengths} \cup {Number(i) : i \in Ints}
              \cup {Pointer(p) : p \in Pointers} \cup {Double}
NoLogger == [level |-> "none"]

VARIABLES
  clock,          \* the second that gettimeofday shows
  t_lastSecond,   \* thread-local: the second whose text is cached
  t_time,         \* thread-local: the second the cached text spells, 0: no text
  logger,         \* the Logger a thread is using
  pc,             \* "idle", "open", "output", "flush", "abort"
  g_logLevel, g_output, g_flush,
  sink,           \* the levels of the lines each sink was given, not flushed and flushed
  aborted

vars == <<clock, t_lastSecond, t_time, logger, pc, g_logLevel, g_output, g_flush, sink, aborted>>

globals == <<g_logLevel, g_output, g_flush>>

Lines == sink["stdout"].pending \o sink["stdout"].written
           \o sink["file"].pending \o sink["file"].written
Begun == Len(Lines) + Cardinality({t \in Threads : pc[t] \in {"open", "output"}})

Init ==
  /\ clock \in 1..MaxClock
  /\ t_lastSecond = [t \in Threads |-> 0]
  /\ t_time = [t \in Threads |-> 0]
  /\ logger = [t \in Threads |-> NoLogger]
  /\ pc = [t \in Threads |-> "idle"]
  /\ g_logLevel = Levels["DEBUG"]
  /\ g_output = "stdout" /\ g_flush = "stdout"
  /\ sink = [s \in Sinks |-> [pending |-> <<>>, written |-> <<>>]]
  /\ aborted = FALSE

-----------------------------------------------------------------------------
(* The constructors.  "%5d " of a thread id of at most five digits, the     *)
(* time and the level have fixed lengths; the error number is only there    *)
(* in the lines of LOG_SYSERR and LOG_SYSFATAL, the name of the function    *)
(* only in those of LOG_TRACE and LOG_DEBUG.                                *)

\* The cached text is only replaced when the clock has advanced.
FormatTimeForward(t, seconds) ==
  IF seconds > t_lastSecond[t]
  THEN /\ t_lastSecond' = [t_lastSecond EXCEPT ![t] = seconds]
       /\ t_time' = [t_time EXCEPT ![t] = seconds]
  ELSE UNCHANGED <<t_lastSecond, t_time>>

FormatTime(t, seconds) ==
  IF seconds # t_lastSecond[t]
  THEN /\ t_lastSecond' = [t_lastSecond EXCEPT ![t] = seconds]
       /\ t_time' = [t_time EXCEPT ![t] = seconds]
  ELSE UNCHANGED <<t_lastSecond, t_time>>

Prefix(time, level, savedErrno) ==
  <<Text(time, 17), Text("us", 9), Text("tid", 6), Text(level, 6)>>
    \o (IF savedErrno = 0 THEN <<>>
        ELSE <<Text("strerror", 20), Text(" (errno=", 8), Number(savedErrno), Text(") ", 2)>>)
    \o (IF level \in {"TRACE", "DEBUG"} THEN <<Text("func", 10), Text(" ", 1)>> ELSE <<>>)

Construct(t, level, savedErrno) ==
  /\ pc[t] = "idle" /\ Begun < MaxLines
  /\ level \in {"TRACE", "DEBUG", "INFO"} => g_logLevel <= Levels[level]
  /\ savedErrno # 0 => level \in {"ERROR", "FATAL"}
  /\ FormatTime(t, clock)
  /\ LET wanted == Prefix(t_time'[t], level, savedErrno)
     IN  logger' = [logger EXCEPT ![t] = [level |-> level, seconds |-> clock, wanted |-> wanted,
                                          stream |-> PutAll(<<>>, wanted), operands |-> 0]]
  /\ pc' = [pc EXCEPT ![t] = "open"]
  /\ UNCHANGED <<clock, globals, sink, aborted>>

\* stream() << x
Stream(t, x) ==
  /\ pc[t] = "open"
  /\ MapThenSumSet(LAMBDA u : IF pc[u] # "idle" THEN logger[u].operands ELSE 0, Threads)
       < MaxOperands
  /\ logger' = [logger EXCEPT ![t].wanted = Append(@, x), ![t].stream = Put(@, x),
                              ![t].operands = @ + 1]
  /\ UNCHANGED <<clock, t_lastSecond, t_time, pc, globals, sink, aborted>>

-----------------------------------------------------------------------------
(* ~Logger: finish, the output function, and for FATAL flush and abort.     *)

Suffix == <<Text(" - ", 3), Text("basename", 6), Text(":", 1), Number(120), Text("\n", 1)>>

Finish(t) ==
  /\ pc[t] = "open"
  /\ logger' = [logger EXCEPT ![t].wanted = @ \o Suffix, ![t].stream = PutAll(@, Suffix)]
  /\ pc' = [pc EXCEPT ![t] = "output"]
  /\ UNCHANGED <<clock, t_lastSecond, t_time, globals, sink, aborted>>

Output(t) ==
  /\ pc[t] = "output"
  /\ sink' = [sink EXCEPT ![g_output].pending = Append(@, logger[t].level)]
  /\ IF logger[t].level = "FATAL"
     THEN pc' = [pc EXCEPT ![t] = "flush"] /\ UNCHANGED logger
     ELSE pc' = [pc EXCEPT ![t] = "idle"] /\ logger' = [logger EXCEPT ![t] = NoLogger]
  /\ UNCHANGED <<clock, t_lastSecond, t_time, globals, aborted>>

\* FATAL aborts with the line still in the buffer of the sink.
FlushNothing(t) ==
  /\ pc[t] = "flush"
  /\ pc' = [pc EXCEPT ![t] = "abort"]
  /\ UNCHANGED <<clock, t_lastSecond, t_time, logger, globals, sink, aborted>>

Flush(t) ==
  /\ pc[t] = "flush"
  /\ sink' = [sink EXCEPT ![g_flush] = [pending |-> <<>>, written |-> @.written \o @.pending]]
  /\ pc' = [pc EXCEPT ![t] = "abort"]
  /\ UNCHANGED <<clock, t_lastSecond, t_time, logger, globals, aborted>>

Abort(t) ==
  /\ pc[t] = "abort"
  /\ aborted' = TRUE
  /\ UNCHANGED <<clock, t_lastSecond, t_time, logger, pc, globals, sink>>

-----------------------------------------------------------------------------
(* The clock moves in either direction; the settings are made before the    *)
(* first line is logged.                                                    *)

Tick ==
  /\ clock' \in 1..MaxClock
  /\ UNCHANGED <<t_lastSecond, t_time, logger, pc, globals, sink, aborted>>

Set(level, output, flush) ==
  /\ Begun = 0
  /\ g_logLevel' = level /\ g_output' = output /\ g_flush' = flush
  /\ UNCHANGED <<clock, t_lastSecond, t_time, logger, pc, sink, aborted>>

setLogLevel == Set(Levels["WARN"], g_output, g_flush)
setOutput == \E s \in Sinks : Set(g_logLevel, s, g_flush)
setFlush == \E s \in Sinks : Set(g_logLevel, g_output, s)

\* The C library writes its buffer on its own account now and then.
Write ==
  /\ \E s \in Sinks :
       /\ sink[s].pending # <<>>
       /\ sink' = [sink EXCEPT ![s] = [pending |-> <<>>, written |-> @.written \o @.pending]]
  /\ UNCHANGED <<clock, t_lastSecond, t_time, logger, pc, globals, aborted>>

LoggerStep(t) ==
  \/ \E level \in UsedLevels, savedErrno \in {0, 2} : Construct(t, level, savedErrno)
  \/ \E x \in Operands : Stream(t, x)
  \/ Finish(t) \/ Output(t) \/ Flush(t) \/ Abort(t)

Next ==
  /\ ~aborted
  /\ \/ \E t \in Threads : LoggerStep(t)
     \/ Tick \/ setLogLevel \/ setOutput \/ setFlush \/ Write

Spec == Init /\ [][Next]_vars

-----------------------------------------------------------------------------
(* A line begins with the text of the second at which its Logger was made,  *)
(* by whichever thread and however the clock was set in between: the cache  *)
(* of formatTime (Logging.cpp:107) is never stale and never empty.          *)
LineTellsItsTime ==
  \A t \in Threads : pc[t] # "idle" => logger[t].stream[1] = Text(logger[t].seconds, 17)

(* What the operators of LogStream made of the operands of a line: the      *)
(* buffer has room for one more byte at any time (convert writes a          *)
(* terminator behind a number, LogStream.cpp:45), every number reads back   *)
(* as the value, and a line that leaves kMaxNumericSize bytes free has lost *)
(* none of its operands, nor its end.                                       *)
ReadBack(field) ==
  LET sign == IF field.chars.sign = "-" THEN -1 ELSE 1
  IN  FoldLeft(LAMBDA n, d : (field.base * n) + (sign * d), 0, field.chars.digits)

LineIsWhole ==
  \A t \in Threads : pc[t] # "idle" =>
    LET line == logger[t]
    IN  /\ length(line.stream) < kSmallBuffer
        /\ \A i \in DOMAIN line.stream :
             "value" \in DOMAIN line.stream[i] /\ line.stream[i].base # 0
               => ReadBack(line.stream[i]) = line.stream[i].value
        /\ length(line.wanted) <= kSmallBuffer - kMaxNumericSize => line.stream = line.wanted

(* When FATAL has ended the program (Logging.cpp:154) and the flush         *)
(* function is the one of the sink in use, a FATAL line has been written,   *)
(* whatever the other threads logged around it.                             *)
FatalIsWritten ==
  aborted /\ g_flush = g_output =>
    \E i \in DOMAIN sink[g_output].written : sink[g_output].written[i] = "FATAL"
=============================================================================
