------------------------------- MODULE Logger -------------------------------
(***************************************************************************)
(* The file logger of src/Logger.cpp.  A LOG(severity) statement builds a  *)
(* LogMessage, whose LogMessageData takes the timestamp when the statement *)
(* starts; the LogMessage destructor, when the statement ends, hands the   *)
(* text to the one LogFileObject, whose Write runs under m_mutex.  Write   *)
(* rotates to a new file when the message's day (its timestamp over        *)
(* kRotateInterval) differs from the day of the last rotation, which is    *)
(* the clock reading taken when that file was created.                     *)
(*                                                                         *)
(* Time is counted in ticks, PerSecond ticks to a second and Day seconds   *)
(* to a rotation interval.  A file is named by the second of the message   *)
(* that created it (ToFormattedString at second resolution, then the pid,  *)
(* the same for every file), so two creations in one second collide on    *)
(* O_EXCL.  Write holds m_mutex for all of its body and nothing else       *)
(* touches the logger's state, so its body is one step; it reads the clock *)
(* once.                                                                   *)
(***************************************************************************)
EXTENDS Naturals

CONSTANTS
    Threads,      \* threads that log
    MsgsEach,     \* LOG statements each thread executes
    Severities,   \* severities the statements use (FATAL = 0 ... ALL = 6)
    SEVERITY,     \* FLAG_SEVERITY
    STDERR,       \* FLAG_STDERR
    PerSecond,    \* kMicroSecondsPerSecond, scaled down
    Day,          \* kRotateInterval, in seconds
    MaxTime,      \* the last tick of the clock
    DiskMayFill,  \* the file system may run out of space
    FdopenMayFail, \* fdopen may fail after the file is created
    NoFile,       \* m_file is NULL
    Stderr        \* m_file is stderr

ASSUME /\ MsgsEach \in Nat /\ Severities \subseteq 0..6 /\ SEVERITY \in 0..6
       /\ STDERR \in BOOLEAN /\ DiskMayFill \in BOOLEAN /\ FdopenMayFail \in BOOLEAN
       /\ PerSecond \in Nat \ {0} /\ Day \in Nat \ {0} /\ MaxTime \in Nat

FATAL == 0

VARIABLES
    now,      \* the clock, in ticks
    pc,       \* each thread: "idle" | "building" (inside a LOG statement) | "aborted"
    sent,     \* LOG statements each thread has started
    stamp,    \* m_timestamp of the message each thread is building
    sev,      \* m_severity of that message
    file,     \* m_file: NoFile, Stderr, or the name (a second) of the open file
    lastRotate, \* now_last_rotate_time, in ticks
    files,    \* names of the files created
    full,     \* the file system is out of space
    stop,     \* g_stop_writing
    written,  \* messages that reached a file
    dropped   \* messages Write returned without writing (COULD NOT CREATE LOGFILE)

vars == <<now, pc, sent, stamp, sev, file, lastRotate, files, full, stop, written, dropped>>

\* Timestamp::Now: the clock.
Now == now

\* Timestamp::SecondsSinceEpoch.
SecondsSinceEpoch(ts) == ts \div PerSecond

\* ToFormattedString("%Y%m%d.%H%M%S", false): one name per second.
ToFormattedString(ts) == SecondsSinceEpoch(ts)

Msg(t) == [th |-> t, n |-> sent[t], at |-> stamp[t], sev |-> sev[t]]

-----------------------------------------------------------------------------
\* LogMessageData's constructor: the severity, and the timestamp Now().
LogMessageData(t, s) ==
    /\ stamp' = [stamp EXCEPT ![t] = Now]
    /\ sev' = [sev EXCEPT ![t] = s]

\* LogMessage's constructor: the message data, then the prefix is streamed.
LogMessage(t, s) ==
    /\ pc' = [pc EXCEPT ![t] = "building"]
    /\ LogMessageData(t, s)

\* LOG(severity): a statement above FLAG_SEVERITY builds nothing.
LOG(t) ==
    /\ pc[t] = "idle" /\ sent[t] < MsgsEach
    /\ \E s \in Severities :
         IF s <= SEVERITY THEN LogMessage(t, s)
         ELSE UNCHANGED <<pc, stamp, sev>>
    /\ sent' = [sent EXCEPT ![t] = @ + 1]
    /\ UNCHANGED <<now, file, lastRotate, files, full, stop, written, dropped>>

\* fwrite then the forced flush: with the disk full the text is lost, and
\* fwrite may or may not report ENOSPC (the stdio buffer may take it, and
\* fflush's failure is not checked).  A report latches g_stop_writing.
WriteOut(t, f) ==
    IF stop THEN UNCHANGED <<stop, written>>
    ELSE IF full THEN UNCHANGED written /\ \E enospc \in BOOLEAN : stop' = enospc
    ELSE written' = written \cup {[msg |-> Msg(t), in |-> f]} /\ UNCHANGED stop

\* Write returns early: "COULD NOT CREATE LOGFILE" goes to stderr.
Drop(t) ==
    /\ dropped' = dropped \cup {Msg(t)}
    /\ UNCHANGED <<stop, written>>

\* CreateLogfile: open with O_EXCL fails if the name exists; otherwise the
\* old file is closed and the new one fdopen'ed, and the rotation time is
\* Now().  When fdopen fails the old file is already closed and m_file is
\* NULL.
CreateLogfile(t, name) ==
    \/ /\ name \in files
       /\ Drop(t)
       /\ UNCHANGED <<file, lastRotate, files>>
    \/ /\ name \notin files
       /\ files' = files \cup {name}
       /\ \/ file' = name /\ lastRotate' = Now /\ WriteOut(t, name) /\ UNCHANGED dropped
          \/ FdopenMayFail /\ file' = NoFile /\ UNCHANGED lastRotate /\ Drop(t)

Rotating(t) ==
    \/ file = NoFile
    \/ SecondsSinceEpoch(stamp[t]) \div Day # SecondsSinceEpoch(lastRotate) \div Day

\* LogFileObject::Write under m_mutex: the file is stderr, the open file,
\* or a new one named after the message's time.
Write(t) ==
    \/ STDERR /\ file' = Stderr /\ WriteOut(t, Stderr)
       /\ UNCHANGED <<lastRotate, files, dropped>>
    \/ ~STDERR /\ ~Rotating(t) /\ WriteOut(t, file)
       /\ UNCHANGED <<file, lastRotate, files, dropped>>
    \/ ~STDERR /\ Rotating(t) /\ CreateLogfile(t, ToFormattedString(stamp[t]))

\* ~LogMessage: GetLogFileObject().Write(true, m_timestamp, ...), then
\* ~LogMessageData aborts the process on FATAL.
EndLog(t) ==
    /\ pc[t] = "building"
    /\ Write(t)
    /\ pc' = [pc EXCEPT ![t] = IF sev[t] = FATAL THEN "aborted" ELSE "idle"]
    /\ UNCHANGED <<now, sent, stamp, sev, full>>

-----------------------------------------------------------------------------
(* The environment: the clock and the file system.                         *)

Tick ==
    /\ now < MaxTime
    /\ now' = now + 1
    /\ UNCHANGED <<pc, sent, stamp, sev, file, lastRotate, files, full, stop, written, dropped>>

DiskSpace ==
    /\ DiskMayFill
    /\ full' = ~full
    /\ UNCHANGED <<now, pc, sent, stamp, sev, file, lastRotate, files, stop, written, dropped>>

\* The LogFileObject constructor (built by the first GetLogFileObject):
\* no file, last rotation at time 0, g_stop_writing false.
Init ==
    /\ now = 0 /\ full = FALSE
    /\ pc = [t \in Threads |-> "idle"]
    /\ sent = [t \in Threads |-> 0]
    /\ stamp = [t \in Threads |-> 0]
    /\ sev = [t \in Threads |-> FATAL]
    /\ file = NoFile /\ lastRotate = 0 /\ files = {}
    /\ stop = FALSE /\ written = {} /\ dropped = {}

Aborted == \E t \in Threads : pc[t] = "aborted"

Next ==
    \/ ~Aborted /\ \E t \in Threads : LOG(t) \/ EndLog(t)
    \/ Tick \/ DiskSpace

Spec == Init /\ [][Next]_vars

-----------------------------------------------------------------------------
TypeOK ==
    /\ now \in 0..MaxTime
    /\ pc \in [Threads -> {"idle", "building", "aborted"}]
    /\ sent \in [Threads -> 0..MsgsEach]
    /\ stamp \in [Threads -> 0..MaxTime] /\ sev \in [Threads -> 0..6]
    /\ file \in {NoFile, Stderr} \cup 0..(MaxTime \div PerSecond)
    /\ lastRotate \in 0..MaxTime
    /\ files \subseteq 0..(MaxTime \div PerSecond)
    /\ full \in BOOLEAN /\ stop \in BOOLEAN

\* The log rotates daily (kRotateInterval): every message that reaches a
\* log file is in a file created for the message's own day.
RotatesDaily ==
    \A w \in written :
        w.in \notin {NoFile, Stderr} => w.in \div Day = SecondsSinceEpoch(w.msg.at) \div Day

\* No LOG statement loses its message to a failed file creation: Write
\* never returns at "COULD NOT CREATE LOGFILE" (O_EXCL finding the name of a
\* file created in the same second, or fdopen failing).
NoMessageDropped == dropped = {}

=============================================================================
