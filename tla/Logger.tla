------------------------------- MODULE Logger -------------------------------
(***************************************************************************)
(* The logger: messages of several threads on the console and in the log   *)
(* file.  The lines are written under a mutex; the error number of a       *)
(* thread passes through one shared variable that is outside it.           *)
(***************************************************************************)
EXTENDS Integers, Sequences, FiniteSets

CONSTANTS
    LogThreads,
    Errors,         \* values of errno, among them 0
    LogOutputs,     \* cases of output: "console", "file", "both", "unknown"
    MaxMessages     \* bound on messages, for TLC

VARIABLES
    output, log_file,                 \* log_file: FALSE before logger_init
    last_error_code, lmutex,          \* lmutex: the thread that holds it, or none
    lerrno,                           \* errno of each thread
    lcall,                            \* the message each thread is writing
    ltext,                            \* per sink: the parts written so far
    lcount, lexited,
    lraced                            \* history: threads whose saved number another one has replaced

logVars == <<output, log_file, last_error_code, lmutex, lerrno, lcall, ltext, lcount, lexited, lraced>>

Sinks(o) == CASE o = "console" -> <<"console">> [] o = "file" -> <<"file">>
              [] o = "both" -> <<"console", "file">> [] OTHER -> <<>>
NoThread == "nobody"
ASSUME LoggerAssumption == NoThread \notin LogThreads
NoCall == [pc |-> "idle", level |-> "error", sys |-> FALSE, sinks |-> <<>>, err |-> 0, shown |-> {}]

LoggerInit ==
    /\ output \in LogOutputs /\ log_file = FALSE
    /\ last_error_code = 0 /\ lmutex = NoThread
    /\ lerrno = [t \in LogThreads |-> 0]
    /\ lcall = [t \in LogThreads |-> NoCall]
    /\ ltext = [s \in {"console", "file"} |-> <<>>]
    /\ lcount = 0 /\ lexited = FALSE /\ lraced = {}

Goes(t, pc) == lcall' = [lcall EXCEPT ![t].pc = pc]

\* logger_init: the output defaults to both, and the file is opened.
logger_init ==
    /\ ~lexited /\ ~log_file
    /\ \A t \in LogThreads : lcall[t].pc = "idle"
    /\ output' = IF output = "unknown" THEN "both" ELSE output
    /\ log_file' = TRUE
    /\ UNCHANGED <<last_error_code, lmutex, lerrno, lcall, ltext, lcount, lexited, lraced>>

\* A system call of the thread fails, or one succeeds and leaves errno.
LogFails(t) ==
    /\ ~lexited /\ lcall[t].pc = "idle"
    /\ \E e \in Errors \ {lerrno[t]} : lerrno' = [lerrno EXCEPT ![t] = e]
    /\ UNCHANGED <<output, log_file, last_error_code, lmutex, lcall, ltext, lcount, lexited, lraced>>

\* logger_log, logger_log_error, logger_log_perror, logger_log_critical and
\* logger_log_pcritical: the sinks follow from the output, one after another.
logger_log(t) ==
    /\ ~lexited /\ lcall[t].pc = "idle" /\ lcount < MaxMessages
    /\ \E level \in {"error", "critical"}, sys \in BOOLEAN :
        lcall' = [lcall EXCEPT ![t] = [pc |-> "next", level |-> level, sys |-> sys, sinks |-> Sinks(output),
                                       err |-> lerrno[t], shown |-> {}]]
    /\ lcount' = lcount + 1
    /\ lraced' = lraced \ {t}
    /\ UNCHANGED <<output, log_file, last_error_code, lmutex, lerrno, ltext, lexited>>

\* The next sink, or the end of the call: a critical message ends the program.
LogNext(t) ==
    /\ ~lexited /\ lcall[t].pc = "next"
    /\ IF lcall[t].sinks = <<>>
       THEN lexited' = (lcall[t].level = "critical") /\ Goes(t, "idle") /\ UNCHANGED <<last_error_code, lraced>>
       ELSE /\ last_error_code' = lerrno[t]           \* save_last_error_code
            /\ lraced' = lraced \cup {u \in LogThreads \ {t} : lcall[u].pc \in {"lock", "body", "restore"}}
            /\ Goes(t, "lock") /\ UNCHANGED lexited
    /\ UNCHANGED <<output, log_file, lmutex, lerrno, ltext, lcount>>

LockNone(t) == TRUE /\ UNCHANGED lmutex                 \* mutant: no mutex
LockLog(t) == lmutex = NoThread /\ lmutex' = t

\* The head of the line under the mutex.  Without a log file the message
\* goes to syslog, and errno is not restored.
LogHead(t) ==
    /\ ~lexited /\ lcall[t].pc = "lock"
    /\ LockLog(t)
    /\ LET s == Head(lcall[t].sinks)
       IN  IF s = "file" /\ ~log_file THEN Goes(t, "syslog") /\ UNCHANGED ltext
           ELSE Goes(t, "body") /\ ltext' = [ltext EXCEPT ![s] = Append(@, [by |-> t, part |-> "head"])]
    /\ UNCHANGED <<output, log_file, last_error_code, lerrno, lcount, lexited, lraced>>

\* The numbers strerror has been asked for, once this sink has the message.
Displayed(t) ==
    IF lcall[t].shown # {} \/ lcall[t].sys THEN lcall[t].shown \cup {last_error_code} ELSE lcall[t].shown

\* The message, the error if there is one to show, and the end of the line.
\* Writing may change errno.
LogBody(t) ==
    /\ ~lexited /\ lcall[t].pc = "body"
    /\ LET s == Head(lcall[t].sinks)
       IN  ltext' = [ltext EXCEPT ![s] = Append(@, [by |-> t, part |-> "end"])]
    /\ lcall' = [lcall EXCEPT ![t] = [lcall[t] EXCEPT !.pc = "restore", !.shown = Displayed(t)]]
    /\ \E e \in Errors : lerrno' = [lerrno EXCEPT ![t] = e]
    /\ lmutex' = NoThread
    /\ UNCHANGED <<output, log_file, last_error_code, lcount, lexited, lraced>>

restore_last_error_code(t) == lerrno' = [lerrno EXCEPT ![t] = last_error_code]

LogRestore(t) ==
    /\ ~lexited /\ lcall[t].pc = "restore"
    /\ restore_last_error_code(t)
    /\ lcall' = [lcall EXCEPT ![t] = [lcall[t] EXCEPT !.pc = "next", !.sinks = Tail(lcall[t].sinks)]]
    /\ UNCHANGED <<output, log_file, last_error_code, lmutex, ltext, lcount, lexited, lraced>>

LogSyslog(t) ==
    /\ ~lexited /\ lcall[t].pc = "syslog"
    /\ lcall' = [lcall EXCEPT ![t] = [lcall[t] EXCEPT !.pc = "next", !.sinks = Tail(lcall[t].sinks)]]
    /\ lmutex' = NoThread
    /\ UNCHANGED <<output, log_file, last_error_code, lerrno, ltext, lcount, lexited, lraced>>

LoggerNext ==
    \/ logger_init
    \/ \E t \in LogThreads :
        LogFails(t) \/ logger_log(t) \/ LogNext(t) \/ LogHead(t) \/ LogBody(t) \/ LogRestore(t) \/ LogSyslog(t)
LoggerSpec == LoggerInit /\ [][LoggerNext]_logVars

-----------------------------------------------------------------------------
\* Lines of different threads never mix: what follows the head of a line is
\* its end, in every sink.
LinesWhole ==
    \A s \in DOMAIN ltext : \A i \in 1..Len(ltext[s]) :
        ltext[s][i].part = "head" /\ i < Len(ltext[s]) => ltext[s][i + 1] = [by |-> ltext[s][i].by, part |-> "end"]

\* Logging changes no thread's errno and shows the error the thread had,
\* unless another thread began a message in between: the saved number is
\* shared and not under the mutex.
ErrnoKept ==
    \A t \in LogThreads : lcall[t].pc \in {"next", "idle"} /\ lcall[t].sinks = <<>> /\ t \notin lraced =>
        /\ lcall[t].pc = "next" => lerrno[t] = lcall[t].err
        /\ lcall[t].shown \subseteq {lcall[t].err}

\* The program never ends by a critical message while a line is half
\* written by the thread that ends it, and every open sink has the message.
CriticalShown ==
    lexited => \E t \in LogThreads :
        /\ lcall[t].level = "critical" /\ lcall[t].pc = "idle"
        /\ \A s \in {"console", "file"} :
            output \in {s, "both"} /\ (s = "file" => log_file)
                => \E i \in 1..Len(ltext[s]) : ltext[s][i] = [by |-> t, part |-> "end"]

\* Messages of several threads never mix, errno survives logging, and a critical
\* message is shown wherever the log goes.
LogSound == LinesWhole /\ ErrnoKept /\ CriticalShown

=============================================================================
