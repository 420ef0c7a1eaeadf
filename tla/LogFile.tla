------------------------------ MODULE LogFile ------------------------------
(***************************************************************************)
(* LogFile: where a log goes on the disk, rolled by size and by period.    *)
(* What is appended is a sequence of lines, a line is [id, len].           *)
(***************************************************************************)
EXTENDS Integers, Sequences, SequencesExt

CONSTANTS RollSize,        \* rollSize_
          FlushInterval,   \* flushInterval_
          kCheckTimeRoll,  \* 1024 in the code
          kRollPerSeconds, \* a day in the code
          MaxTime          \* bound of the clock

ASSUME LogFileAssumption ==
    /\ RollSize \in Nat /\ FlushInterval \in Nat /\ kCheckTimeRoll \in Nat
    /\ kRollPerSeconds \in Nat \ {0} /\ MaxTime \in Nat

VARIABLES
    now,     \* time(NULL)
    log,     \* members of LogFile, writtenBytes_, and the time of the last append
    files,   \* the files: their name (the second it was made), their lines
    stdio,   \* lines of the last file that are in the buffer of its FILE
    failed,  \* lines that fwrite refused
    late     \* appends that went to the last file after its period was over

logVars == <<log, files, stdio, failed, late>>

Bytes(lines) == FoldLeft(LAMBDA n, l : n + l.len, 0, lines)

StartOfPeriod(t) == (t \div kRollPerSeconds) * kRollPerSeconds

\* rollFile: a second later or more a new file, else the old one goes on.  With
\* the old File goes its FILE, which writes what it has buffered.
Rolled(l) == [l EXCEPT !.lastRoll = now, !.lastFlush = now,
                       !.startOfPeriod = StartOfPeriod(now), !.written = 0]

RolledFiles(fs) == Append(fs, [name |-> now, lines |-> <<>>])

MayRoll(l) == now > l.lastRoll

\* Before the constructor of LogFile, and by it.
NoLog == [count |-> 0, startOfPeriod |-> 0, lastRoll |-> 0, lastFlush |-> 0,
          written |-> 0, last |-> 0]

LogInit ==
    /\ now = 1
    /\ log = NoLog
    /\ files = <<>>
    /\ stdio = <<>>
    /\ failed = {}
    /\ late = 0

OpenLog ==
    /\ log' = Rolled(NoLog)
    /\ files' = RolledFiles(files)
    /\ UNCHANGED <<now, stdio, failed, late>>

-----------------------------------------------------------------------------
TooBig(l, lines) == l.written > RollSize

\* Mutant: count_ is let grow too far.
CheckedTooSeldom(l) == l.count > 2 * kCheckTimeRoll + 1

CheckTime(l) == l.count > kCheckTimeRoll

\* append_unlocked(lines): File::append, of which fwrite takes the first n
\* lines; then rollFile by size, or every so often by period, or flush.
AppendLines(lines, n) ==
    LET l == [log EXCEPT !.written = @ + Bytes(lines), !.last = now]
        check == ~TooBig(l, lines) /\ CheckTime(l)
        over == StartOfPeriod(now) # l.startOfPeriod
        roll == (TooBig(l, lines) \/ (check /\ over)) /\ MayRoll(l)
        flush == check /\ ~over /\ now - l.lastFlush > FlushInterval
        k == [l EXCEPT !.count = IF TooBig(l, lines) THEN @ ELSE IF check THEN 0 ELSE @ + 1,
                       !.lastFlush = IF flush THEN now ELSE @]
        taken == SubSeq(lines, 1, n)
        grown == [files EXCEPT ![Len(files)].lines = @ \o taken]
    IN  /\ log' = IF roll THEN Rolled(k) ELSE k
        /\ files' = IF roll THEN RolledFiles(grown) ELSE grown
        /\ stdio' = IF roll \/ flush THEN <<>> ELSE stdio \o taken
        /\ failed' = failed \cup {lines[i].id : i \in n + 1..Len(lines)}
        /\ late' = IF roll \/ ~over THEN 0 ELSE late + 1
        /\ UNCHANGED now

\* fwrite takes everything, or (once) fails before the last line.
LogAppend(lines) ==
    \E n \in {Len(lines)} \cup (IF failed = {} /\ lines # <<>> THEN {Len(lines) - 1} ELSE {}) :
        AppendLines(lines, n)

LogFlush ==
    /\ stdio' = <<>>
    /\ UNCHANGED <<now, log, files, failed, late>>

\* ~LogFile: ~File closes the FILE, and fclose writes what it has buffered.
CloseLog ==
    /\ stdio' = <<>>
    /\ UNCHANGED <<now, log, files, failed, late>>

Tick ==
    /\ now < MaxTime
    /\ now' = now + 1
    /\ UNCHANGED logVars

\* The lines on their way to the disk, file by file.
FileLines == [i \in DOMAIN files |-> files[i].lines]
-----------------------------------------------------------------------------
\* Rolling.  A roll never goes back to a file that exists: the second of its
\* creation is its name, and names rise (rollFile, LogFile.cc:155).  A file
\* larger than rollSize_ is left in the second of its creation only, and with the
\* next append (LogFile.cc:121).  A file takes few lines after its period: what
\* kCheckTimeRoll_ lets through although count_ goes on counting over files and
\* periods (LogFile.cc:127).
RollsInTime ==
    /\ \A i, j \in DOMAIN files : i < j => files[i].name < files[j].name
    /\ log.written > RollSize => log.last = log.lastRoll
    /\ late <= kCheckTimeRoll + 1
=============================================================================
