--------------------------- MODULE ProcessProofs ----------------------------
(***************************************************************************)
(* What Process promises, for every set of pids: no worker outlives its    *)
(* master, the crash loop is counted exactly and ends, and the pid file is *)
(* never another process's. Signals between fork and the assignment of     *)
(* worker_pid are outside these theorems (SignalAfterFork). And what Logger*)
(* promises, for any number of threads and messages.                       *)
(***************************************************************************)
EXTENDS Process, Logger, FiniteSetTheorems, TLAPS

USE SMTT(60)    \* the SMT backend and its time limit, where a step names no other

-----------------------------------------------------------------------------
(* The inductive invariant.                                                *)

\* The process that holds the listening socket of its own and not as a child.
Main(p) == HoldsSocket(p) /\ parent[p] = None

Typed == TypeOK /\ streak \in Nat

\* A worker, dead or alive, has a parent; a process with a parent is a worker,
\* and its parent is a master that has not come back to fork.
Tree ==
    /\ \A p \in Pids : pc[p] \in WorkerAt \cup {"zombie"} => parent[p] # None
    /\ \A c \in Pids : parent[c] # None =>
          /\ pc[c] \in WorkerAt \cup {"kill", "reap", "zombie"}
          /\ pc[parent[c]] \in {"assign", "wait", "kill", "reap"}
          /\ parent[parent[c]] = None

\* The socket admits one server, and a server has one worker.
OneServer ==
    /\ \A p, q \in Pids : Main(p) /\ Main(q) => p = q
    /\ \A c, d \in Pids : parent[c] # None /\ parent[d] # None => c = d

\* What a master knows of its worker.
Knows ==
    \A p \in Pids :
        /\ pc[p] = "assign" => \E c \in Pids : parent[c] = p
        /\ pc[p] = "wait" => wp[p] \in Pids /\ parent[wp[p]] = p
        /\ pc[p] \in {"kill", "reap"} /\ parent[p] = None =>
               \A c \in Pids : parent[c] = p => wp[p] \in {c, None}

\* The counter of crashes, from the reset of create_pidfile on.
Counted ==
    \A p \in Pids : pc[p] \in {"write", "fork", "assign", "wait"} => fails = streak /\ streak <= MaxFails

\* The file is the master's once it has been looked at.
OwnFile ==
    \A p \in Pids : pc[p] \in MasterAt /\ parent[p] = None => pidfile \in {p, None}

Inv == Typed /\ Tree /\ OneServer /\ Knows /\ Counted /\ OwnFile

States == {"none", "zombie", "other"} \cup Booting \cup MasterAt \cup WorkerAt

\* Every state is none of the others: the sets of states written out.
USE DEF Booting, MasterAt, WorkerAt

LEMMA InitInv == Init => Inv
BY ProcessAssumption DEF Init, Inv, Typed, TypeOK, Tree, OneServer, Main, HoldsSocket, Knows, Counted, OwnFile

-----------------------------------------------------------------------------
(* The end of a process.                                                   *)

\* Exit of a process that no living process is a child of keeps the invariant,
\* also when it removes the pid file or leaves the counters at zero.
LEMMA ExitInv ==
    ASSUME Inv, NEW p \in Pids, NEW s \in {"exit", "restart", "signal"}, Exit(p, s),
           pc[p] \notin {"none", "zombie"},
           \A c \in Pids : parent[c] = p => pc[c] = "zombie",
           pidfile' \in {pidfile, None}, quick' = quick,
           UNCHANGED <<fails, streak>> \/ (fails' = 0 /\ streak' = 0)
    PROVE  Inv'
<1>1. /\ \A q \in Pids : pc'[q] = IF q = p THEN (IF parent[p] = None THEN "none" ELSE "zombie")
                                  ELSE IF parent[q] = p /\ pc[q] = "zombie" THEN "none" ELSE pc[q]
      /\ \A q \in Pids : parent'[q] = IF parent[q] = p THEN None ELSE parent[q]
      /\ \A q \in Pids : wp'[q] = IF q = p THEN None ELSE wp[q]
    BY DEF Exit, Ended, Orphaned, Inv, Typed, TypeOK
<1>2. Typed'
    <2>1. pc' \in [Pids -> States] /\ parent' \in [Pids -> Pids \cup {None}] /\ wp' \in [Pids -> Pids \cup {None}]
        BY DEF Exit, Ended, Orphaned, Inv, Typed, TypeOK, States
    <2>2. status' \in [Pids -> {"exit", "restart", "signal"}] /\ sig' \subseteq Pids
        BY DEF Exit, Inv, Typed, TypeOK
    <2>3. fails' \in 0..255 /\ streak' \in Nat /\ quick' \in [Pids -> BOOLEAN] /\ pidfile' \in Pids \cup {None}
        BY DEF Inv, Typed, TypeOK
    <2> QED
        BY <2>1, <2>2, <2>3 DEF Typed, TypeOK, States
<1>3. \A c \in Pids : parent[c] # None => parent[c] \in Pids
    BY DEF Inv, Typed, TypeOK
<1>4. Tree'
    BY <1>1, <1>3, ProcessAssumption DEF Inv, Tree
<1>5. OneServer'
    BY <1>1, <1>3, ProcessAssumption DEF Inv, Tree, OneServer, Main, HoldsSocket
<1>6. Knows'
    BY <1>1, <1>3, ProcessAssumption DEF Inv, Tree, Knows
<1>7. Counted'
    BY <1>1, ProcessAssumption DEF Inv, Counted
<1>8. OwnFile'
    BY <1>1, ProcessAssumption DEF Inv, Tree, OwnFile
<1> QED
    BY <1>2, <1>4, <1>5, <1>6, <1>7, <1>8 DEF Inv

LEMMA StartInv ==
    ASSUME Inv, NEW p \in Pids, Start(p) PROVE Inv'
BY ProcessAssumption DEF Start, Go, Inv, Typed, TypeOK, Tree, OneServer, Main, HoldsSocket, Knows, Counted, OwnFile

LEMMA WriteInv ==
    ASSUME Inv, NEW p \in Pids, WritePidfile(p) PROVE Inv'
BY ProcessAssumption DEF WritePidfile, Go, pvars, Inv, Typed, TypeOK, Tree, OneServer, Main, HoldsSocket, Knows, Counted, OwnFile

LEMMA ForkInv ==
    ASSUME Inv, NEW p \in Pids, NEW c \in Pids, Fork(p, c) PROVE Inv'
BY ProcessAssumption DEF Fork, Inv, Typed, TypeOK, Tree, OneServer, Main, HoldsSocket, Knows, Counted, OwnFile

LEMMA AssignInv ==
    ASSUME Inv, NEW p \in Pids, Assign(p) PROVE Inv'
BY ProcessAssumption DEF Assign, Go, Inv, Typed, TypeOK, Tree, OneServer, Main, HoldsSocket, Knows, Counted, OwnFile

LEMMA QuitKillInv ==
    ASSUME Inv, NEW p \in Pids, QuitKill(p) PROVE Inv'
BY ProcessAssumption DEF QuitKill, Go, pvars, Inv, Typed, TypeOK, Tree, OneServer, Main, HoldsSocket, Knows, Counted, OwnFile

LEMMA ReadyInv ==
    ASSUME Inv, NEW p \in Pids, Ready(p) PROVE Inv'
BY ProcessAssumption DEF Ready, Go, Inv, Typed, TypeOK, Tree, OneServer, Main, HoldsSocket, Knows, Counted, OwnFile

LEMMA RestartInv ==
    ASSUME Inv, NEW p \in Pids, Restart(p) PROVE Inv'
BY ProcessAssumption DEF Restart, Go, Inv, Typed, TypeOK, Tree, OneServer, Main, HoldsSocket, Knows, Counted, OwnFile

LEMMA TerminateInv ==
    ASSUME Inv, NEW p \in Pids, Terminate(p) PROVE Inv'
BY ProcessAssumption DEF Terminate, Go, pvars, Inv, Typed, TypeOK, Tree, OneServer, Main, HoldsSocket, Knows, Counted, OwnFile

LEMMA SendInv ==
    ASSUME Inv, NEW p \in Pids, Send(p) PROVE Inv'
BY ProcessAssumption DEF Send, pvars, Inv, Typed, TypeOK, Tree, OneServer, Main, HoldsSocket, Knows, Counted, OwnFile

LEMMA AgeInv ==
    ASSUME Inv, NEW p \in Pids, Age(p) PROVE Inv'
BY ProcessAssumption DEF Age, Inv, Typed, TypeOK, Tree, OneServer, Main, HoldsSocket, Knows, Counted, OwnFile

LEMMA OtherInv ==
    ASSUME Inv, NEW p \in Pids, Other(p) PROVE Inv'
BY ProcessAssumption DEF Other, Go, Inv, Typed, TypeOK, Tree, OneServer, Main, HoldsSocket, Knows, Counted, OwnFile

LEMMA ForkFailsInv ==
    ASSUME Inv, NEW p \in Pids, ForkFails(p) PROVE Inv'
<1>1. \A c \in Pids : parent[c] = p => pc[c] = "zombie"
    BY ProcessAssumption DEF ForkFails, Inv, Tree
<1> QED
    BY <1>1, ExitInv DEF ForkFails, Inv, Typed, TypeOK

LEMMA NoUserInv ==
    ASSUME Inv, NEW p \in Pids, NoUser(p) PROVE Inv'
<1>1. \A c \in Pids : parent[c] = p => pc[c] = "zombie"
    BY ProcessAssumption DEF NoUser, Inv, Tree
<1> QED
    BY <1>1, ExitInv DEF NoUser, Inv, Typed, TypeOK

LEMMA RemoveInv ==
    ASSUME Inv, NEW p \in Pids, RemovePidfile(p) PROVE Inv'
<1>1. \A c \in Pids : parent[c] = p => pc[c] = "zombie"
    BY ProcessAssumption DEF RemovePidfile, Inv, Tree
<1> QED
    BY <1>1, ExitInv DEF RemovePidfile, Inv, Typed, TypeOK

LEMMA CrashInv ==
    ASSUME Inv, NEW p \in Pids, Crash(p) PROVE Inv'
<1>1. \A c \in Pids : parent[c] = p => pc[c] = "zombie"
    BY ProcessAssumption DEF Crash, Inv, Tree
<1> QED
    BY <1>1, ExitInv DEF Crash, Inv, Typed, TypeOK

LEMMA OtherEndInv ==
    ASSUME Inv, NEW p \in Pids, OtherEnd(p) PROVE Inv'
<1>1. \A c \in Pids : parent[c] = p => pc[c] = "zombie"
    BY ProcessAssumption DEF OtherEnd, Inv, Tree
<1> QED
    BY <1>1, ExitInv DEF OtherEnd, Inv, Typed, TypeOK

LEMMA QuitReapInv ==
    ASSUME Inv, NEW p \in Pids, QuitReap(p) PROVE Inv'
<1>1. \A c \in Pids : parent[c] = p => pc[c] = "zombie"
    BY ProcessAssumption DEF QuitReap, Inv, Tree, Typed, TypeOK, Knows, Awaited
<1> QED
    BY <1>1, ExitInv DEF QuitReap, Inv, Typed, TypeOK

LEMMA BindInv ==
    ASSUME Inv, NEW p \in Pids, Bind(p) PROVE Inv'
<1>1. CASE \E q \in Pids : HoldsSocket(q)
    <2>1. \A c \in Pids : parent[c] = p => pc[c] = "zombie"
        BY ProcessAssumption DEF Bind, Inv, Tree
    <2> QED
        BY <1>1, <2>1, ExitInv DEF Bind
<1>2. CASE ~ \E q \in Pids : HoldsSocket(q)
    BY <1>2, ProcessAssumption DEF Bind, Go, Inv, Typed, TypeOK, Tree, OneServer, Main, HoldsSocket, Knows, Counted, OwnFile
<1> QED
    BY <1>1, <1>2

LEMMA CreateInv ==
    ASSUME Inv, NEW p \in Pids, CreatePidfile(p) PROVE Inv'
<1>1. CASE pidfile \in InUse \ {p} /\ Exit(p, "exit")
    <2>1. \A c \in Pids : parent[c] = p => pc[c] = "zombie"
        BY ProcessAssumption DEF CreatePidfile, Inv, Tree
    <2> QED
        BY <1>1, <2>1, ExitInv DEF CreatePidfile
<1>2. CASE \E to \in {"write", "fork"} :
               /\ Go(p, "create", to) /\ UNCHANGED <<wp, parent, status, sig>>
               /\ to = "fork" => pidfile = p
    BY <1>2, ProcessAssumption DEF CreatePidfile, Go, Inv, Typed, TypeOK, Tree, OneServer, Main, HoldsSocket, Knows, Counted, OwnFile
<1> QED
    BY <1>1, <1>2 DEF CreatePidfile

LEMMA HandleInv ==
    ASSUME Inv, ~SignalAfterFork, NEW p \in Pids, Handle(p) PROVE Inv'
<1>1. CASE pc[p] \in Booting \cup {"other"} /\ Exit(p, "signal")
    <2>1. \A c \in Pids : parent[c] = p => pc[c] = "zombie"
        BY <1>1, ProcessAssumption DEF Inv, Tree
    <2> QED
        BY <1>1, <2>1, ExitInv DEF Handle
<1>2. CASE /\ pc[p] \in {"fork", "wait", "start"}
           /\ pc' = [pc EXCEPT ![p] = "kill"] /\ sig' = sig \ {p} /\ UNCHANGED <<wp, parent, status>>
    <2>1. UNCHANGED <<quick, fails, streak, pidfile>>
        BY Zenon DEF Handle
    <2> QED
        BY <1>2, <2>1, ProcessAssumption DEF Inv, Typed, TypeOK, Tree, OneServer, Main, HoldsSocket, Knows, Counted, OwnFile
<1>3. CASE /\ Go(p, "run", "stop")
           /\ status' = [status EXCEPT ![p] = "exit"] /\ sig' = sig \ {p} /\ UNCHANGED <<wp, parent>>
    BY <1>3, ProcessAssumption DEF Handle, Go, Inv, Typed, TypeOK, Tree, OneServer, Main, HoldsSocket, Knows, Counted, OwnFile
<1>4. CASE sig' = sig \ {p} /\ UNCHANGED <<pc, wp, parent, status>>
    <2>1. /\ pc' = pc /\ wp' = wp /\ parent' = parent /\ status' = status /\ quick' = quick
          /\ fails' = fails /\ streak' = streak /\ pidfile' = pidfile /\ sig' = sig \ {p}
        BY <1>4, Zenon DEF Handle
    <2>2. Typed'
        BY <2>1, Zenon DEF Inv, Typed, TypeOK
    <2>3. (Tree /\ OneServer /\ Knows /\ Counted /\ OwnFile)'
        BY <2>1, ZenonT(60) DEF Inv, Tree, OneServer, Main, HoldsSocket, Knows, Counted, OwnFile
    <2> QED
        BY <2>2, <2>3, Zenon DEF Inv
<1> QED
    BY <1>1, <1>2, <1>3, <1>4 DEF Handle

\* waitpid returns the worker the master waits for; respawn_fails does not wrap
\* because the master gives up before.
LEMMA WaitInv ==
    ASSUME Inv, NEW p \in Pids, Wait(p) PROVE Inv'
<1> DEFINE c == wp[p]
<1>1. c \in Pids /\ c # p /\ parent[c] = p /\ pc[c] = "zombie" /\ pc[p] = "wait" /\ parent[p] = None
    BY ProcessAssumption DEF Wait, Inv, Typed, TypeOK, Tree, Knows
<1>2. fails = streak /\ streak \in 0..MaxFails /\ MaxFails \in 0..254
    BY <1>1, ProcessAssumption DEF Inv, Typed, Counted
<1>3. Fails(c) = IF quick[c] THEN streak + 1 ELSE 0
    BY <1>2 DEF Fails
<1>4. PICK to \in {"none", "fork"} :
          /\ pc' = [pc EXCEPT ![c] = "none", ![p] = to]
          /\ parent' = [parent EXCEPT ![c] = None]
          /\ wp' = (IF to = "none" THEN [wp EXCEPT ![p] = None] ELSE wp)
          /\ sig' \subseteq Pids
          /\ to = "fork" => streak' <= MaxFails
    <2> DEFINE done == status[c] = "exit" \/ (status[c] = "signal" /\ Fails(c) > MaxFails)
    <2>1. CASE done
        BY <2>1, Zenon DEF Wait, Inv, Typed, TypeOK
    <2>2. CASE ~done
        <3>1. streak' <= MaxFails
            BY <1>2, <1>3, <2>2 DEF Wait
        <3> QED
            BY <2>2, <3>1 DEF Wait, Inv, Typed, TypeOK
    <2> QED
        BY <2>1, <2>2
<1>5. fails' = streak' /\ fails' \in 0..255 /\ streak' \in Nat
    BY <1>2, <1>3 DEF Wait
<1>6. UNCHANGED pidfile /\ quick' = [quick EXCEPT ![c] = FALSE] /\ status' = [status EXCEPT ![c] = "exit"]
    BY DEF Wait
<1> HIDE DEF c
<1> QED
    BY <1>1, <1>4, <1>5, <1>6, ProcessAssumption DEF Inv, Typed, TypeOK, Tree, OneServer, Main, HoldsSocket, Knows, Counted, OwnFile

LEMMA StepInv ==
    ASSUME Inv, ~SignalAfterFork, [Next]_vars PROVE Inv'
<1>1. CASE \E p \in Pids : Boot(p)
    BY <1>1, BindInv, CreateInv, WriteInv DEF Boot
<1>2. CASE \E p \in Pids : Master(p)
    BY <1>2, ForkInv, ForkFailsInv, AssignInv, WaitInv, QuitKillInv, QuitReapInv DEF Master
<1>3. CASE \E p \in Pids : Worker(p)
    BY <1>3, ReadyInv, NoUserInv, RestartInv, TerminateInv, RemoveInv DEF Worker
<1>4. CASE \E p \in Pids : Handle(p)
    BY <1>4, HandleInv
<1>5. CASE \E p \in Pids : World(p)
    BY <1>5, StartInv, SendInv, CrashInv, AgeInv, OtherInv, OtherEndInv DEF World, Signal
<1>6. CASE KillMaster
    BY <1>6, SendInv DEF KillMaster, Inv, Typed, TypeOK
<1>7. CASE UNCHANGED vars
    BY <1>7 DEF vars, pvars, Inv, Typed, TypeOK, Tree, OneServer, Main, HoldsSocket, Knows, Counted, OwnFile
<1> QED
    BY <1>1, <1>2, <1>3, <1>4, <1>5, <1>6, <1>7 DEF Next

-----------------------------------------------------------------------------
(* The theorems.                                                           *)

\* Init and the steps together.
LEMMA Invariance == ASSUME ~SignalAfterFork PROVE Spec => []Inv
<1>1. Inv /\ [Next]_vars => Inv'
    BY StepInv
<1> QED
    BY <1>1, InitInv, PTL DEF Spec

\* spawn_worker and quit_master: however many processes start, crash, are
\* signalled and end, every living worker has a living master that will wait
\* for it, and there is at most one of them.
THEOREM NoOrphanTheorem == ASSUME ~SignalAfterFork PROVE Spec => []NoOrphan
<1>1. ASSUME Inv PROVE NoOrphan
    <2>1. \A c \in Live : parent[c] # None /\ pc[parent[c]] \in {"assign", "wait", "kill", "reap"}
        BY <1>1 DEF Inv, Tree, Live
    <2>2. CASE Live = {}
        BY <2>1, <2>2, FS_EmptySet DEF NoOrphan
    <2>3. CASE Live # {}
        <3>1. PICK c \in Live : TRUE
            BY <2>3
        <3>2. Live = {c}
            BY <1>1, <2>1, <3>1 DEF Inv, OneServer, Live
        <3> QED
            <4>1. Cardinality({c}) = 1
                BY FS_Singleton, Zenon
            <4> QED
                BY <2>1, <3>2, <4>1 DEF NoOrphan
    <2> QED
        BY <2>2, <2>3
<1> QED
    BY <1>1, Invariance, PTL

\* spawn_worker: respawn_fails, an unsigned char, is the true number of quick
\* crashes in a row and the master has not gone on past the limit.
THEOREM CrashLoopTheorem == ASSUME ~SignalAfterFork PROVE Spec => []CrashLoopEnds
<1>1. Inv => CrashLoopEnds
    BY DEF Inv, Counted, CrashLoopEnds
<1> QED
    BY <1>1, Invariance, PTL

\* create_pidfile and remove_pidfile: while a worker serves, the pid file names
\* its master or is missing.
THEOREM PidFileTheorem == ASSUME ~SignalAfterFork PROVE Spec => []PidFileNotForeign
<1>1. Inv => PidFileNotForeign
    BY ProcessAssumption DEF Inv, Typed, TypeOK, Tree, OwnFile, PidFileNotForeign
<1> QED
    BY <1>1, Invariance, PTL

-----------------------------------------------------------------------------
(* Logger: lines, errno and critical messages.                              *)

LogSinks == {"console", "file"}
SinkLists == {<<>>, <<"console">>, <<"file">>, <<"console", "file">>}
LogPart == [by : LogThreads, part : {"head", "end"}]

LogTyped ==
    /\ lcall = [t \in LogThreads |-> lcall[t]] /\ lerrno = [t \in LogThreads |-> lerrno[t]]
    /\ \A t \in LogThreads : DOMAIN lcall[t] = {"pc", "level", "sys", "sinks", "err", "shown"}
    /\ \A t \in LogThreads :
           /\ lcall[t].sinks \in SinkLists
           /\ lcall[t].pc \in {"lock", "body", "restore", "syslog"} => lcall[t].sinks # <<>>
    /\ ltext = [s \in LogSinks |-> ltext[s]] /\ \A s \in LogSinks : ltext[s] \in Seq(LogPart)

\* Whoever is inside a line, or in syslog, holds the mutex.
LogLocked == \A t \in LogThreads : lcall[t].pc \in {"body", "syslog"} <=> lmutex = t

\* A text whose lines are whole, but for the last one; and the thread that is
\* writing that.
WholeText(q) ==
    \A i \in 1..Len(q) : q[i].part = "head" /\ i < Len(q) => q[i + 1] = [by |-> q[i].by, part |-> "end"]
InLine(t, s) == lcall[t].pc = "body" /\ Head(lcall[t].sinks) = s
LogTexts ==
    \A s \in LogSinks :
        /\ WholeText(ltext[s])
        /\ \A t \in LogThreads : InLine(t, s) =>
               Len(ltext[s]) > 0 /\ ltext[s][Len(ltext[s])] = [by |-> t, part |-> "head"]
        /\ Len(ltext[s]) > 0 /\ ltext[s][Len(ltext[s])].part = "head" => \E t \in LogThreads : InLine(t, s)

\* The error number of a thread no other has interfered with is in errno, or
\* in the shared variable while the thread writes.
Undisturbed(t) ==
    /\ lcall[t].shown \subseteq {lcall[t].err}
    /\ lcall[t].pc \in {"lock", "body", "restore"} => last_error_code = lcall[t].err
    /\ lcall[t].pc \in {"next", "lock", "syslog"} => lerrno[t] = lcall[t].err
LogSaved == \A t \in LogThreads : t \notin lraced => Undisturbed(t)

\* A sink that is open has the message of a thread, or is one the thread has
\* still to write to.
Still(q, s) == q = <<"console", "file">> \/ q = <<s>>
ToWrite(t) == IF lcall[t].pc = "restore" THEN Tail(lcall[t].sinks) ELSE lcall[t].sinks
LogOpen(s) == output \in {s, "both"} /\ (s = "file" => log_file)
ShownBy(t, s) == \E i \in 1..Len(ltext[s]) : ltext[s][i] = [by |-> t, part |-> "end"]
LogReached ==
    /\ \A t \in LogThreads : lcall[t].pc # "idle" => \A s \in LogSinks : LogOpen(s) => Still(ToWrite(t), s) \/ ShownBy(t, s)
    /\ lexited => \E t \in LogThreads :
           lcall[t].level = "critical" /\ lcall[t].pc = "idle" /\ \A s \in LogSinks : LogOpen(s) => ShownBy(t, s)
    /\ \A t \in LogThreads : lcall[t].pc = "syslog" => Head(lcall[t].sinks) = "file" /\ ~log_file

LogInv == LogTyped /\ LogLocked /\ LogTexts /\ LogSaved /\ LogReached

LEMMA LogInvExact == LogInv => LogSound
<1> SUFFICES ASSUME LogInv PROVE LogSound
    OBVIOUS
<1>1. LinesWhole
    <2>1. DOMAIN ltext = LogSinks
        BY Zenon DEF LogInv, LogTyped
    <2> QED
        BY <2>1, Zenon DEF LogInv, LogTexts, WholeText, LinesWhole
<1>2. ErrnoKept
    BY Zenon DEF LogInv, LogSaved, Undisturbed, ErrnoKept
<1>3. CriticalShown
    BY Zenon DEF LogInv, LogReached, CriticalShown, LogOpen, ShownBy, LogSinks
<1> QED
    BY <1>1, <1>2, <1>3 DEF LogSound

LEMMA LogInvInit == LoggerInit => LogInv
<1> SUFFICES ASSUME LoggerInit PROVE LogInv
    OBVIOUS
<1>1. /\ \A t \in LogThreads : lcall[t] = NoCall
      /\ \A s \in LogSinks : ltext[s] = <<>>
      /\ lmutex = NoThread /\ ~lexited
    BY Zenon DEF LoggerInit, LogSinks
<1>2. NoCall.pc = "idle" /\ NoCall.sinks = <<>> /\ NoCall.shown = {} /\ DOMAIN NoCall = {"pc", "level", "sys", "sinks", "err", "shown"}
    BY Zenon DEF NoCall
<1>3. LogTyped
    <2>1. lcall = [t \in LogThreads |-> lcall[t]] /\ lerrno = [t \in LogThreads |-> lerrno[t]] /\ ltext = [s \in LogSinks |-> ltext[s]]
        BY Zenon DEF LoggerInit, LogSinks
    <2>2. <<>> \in Seq(LogPart)
        OBVIOUS
    <2>2a. \A s \in LogSinks : ltext[s] \in Seq(LogPart)
        BY <1>1, <2>2, Zenon
    <2>3. <<>> \in SinkLists
        BY DEF SinkLists
    <2> QED
        BY <1>1, <1>2, <2>1, <2>2a, <2>3 DEF LogTyped
<1>4. LogLocked
    BY <1>1, <1>2, LoggerAssumption DEF LogLocked
<1>5. LogTexts
    <2>1. Len(<<>>) = 0 /\ WholeText(<<>>)
        BY DEF WholeText
    <2> QED
        BY <1>1, <1>2, <2>1 DEF LogTexts, InLine
<1>6. LogSaved /\ LogReached
    BY <1>1, <1>2 DEF LogSaved, Undisturbed, LogReached
<1> QED
    BY <1>3, <1>4, <1>5, <1>6 DEF LogInv

-----------------------------------------------------------------------------
(* Texts and lists of sinks.                                               *)

LEMMA TextGrows ==
    ASSUME NEW q \in Seq(LogPart), NEW e \in LogPart, WholeText(q),
           Len(q) > 0 /\ q[Len(q)].part = "head" => e = [by |-> q[Len(q)].by, part |-> "end"]
    PROVE  /\ WholeText(Append(q, e)) /\ Append(q, e) \in Seq(LogPart)
           /\ Len(Append(q, e)) = Len(q) + 1 /\ Len(q) \in Nat
           /\ Append(q, e)[Len(q) + 1] = e
           /\ \A i \in 1..Len(q) : Append(q, e)[i] = q[i]
<1>1. PICK n, r : n = Len(q) /\ r = Append(q, e)
    BY Zenon
<1>2. /\ r \in Seq(LogPart) /\ n \in Nat /\ Len(r) = n + 1 /\ r[n + 1] = e
      /\ \A i \in 1..n : r[i] = q[i]
    BY <1>1
<1>3. WholeText(r)
    <2>1. SUFFICES ASSUME NEW i \in 1..(n + 1), r[i].part = "head", i < n + 1
                   PROVE  r[i + 1] = [by |-> r[i].by, part |-> "end"]
        BY <1>2 DEF WholeText
    <2>2. i \in 1..n /\ r[i] = q[i]
        BY <1>2, <2>1
    <2>3. CASE i = n
        BY <1>1, <1>2, <2>1, <2>2, <2>3
    <2>4. CASE i < n
        <3>1. r[i + 1] = q[i + 1]
            BY <1>2, <2>2, <2>4
        <3>2. q[i + 1] = [by |-> q[i].by, part |-> "end"]
            BY <1>1, <2>1, <2>2, <2>4 DEF WholeText
        <3> QED
            BY <2>2, <3>1, <3>2
    <2> QED
        BY <1>2, <2>2, <2>3, <2>4
<1> QED
    BY <1>1, <1>2, <1>3, Zenon

LEMMA SinkFacts ==
    ASSUME NEW q \in SinkLists
    PROVE  /\ q # <<>> => Head(q) \in LogSinks /\ Tail(q) \in SinkLists
           /\ q # <<>> => \A s \in LogSinks : Still(q, s) => s = Head(q) \/ Still(Tail(q), s)
           /\ \A s \in LogSinks : ~Still(<<>>, s)
<1>1. \A s : <<>> # <<s>> /\ <<>> # <<"console", "file">>
    OBVIOUS
<1>2. CASE q = <<"console", "file">>
    BY <1>2 DEF SinkLists, LogSinks, Still
<1>3. CASE q = <<"console">>
    BY <1>3 DEF SinkLists, LogSinks, Still
<1>4. CASE q = <<"file">>
    BY <1>4 DEF SinkLists, LogSinks, Still
<1>5. CASE q = <<>>
    BY <1>1, <1>5, Zenon DEF Still
<1> QED
    BY <1>1, <1>2, <1>3, <1>4, <1>5 DEF SinkLists, Still

-----------------------------------------------------------------------------
(* One thread moves.                                                       *)

\* Thread t's call becomes c, and the other calls stay.
CallMoved(t, c) == lcall' = [lcall EXCEPT ![t] = c]

LEMMA CallMovedFacts ==
    ASSUME LogTyped, NEW t \in LogThreads, NEW c, CallMoved(t, c),
           DOMAIN c = {"pc", "level", "sys", "sinks", "err", "shown"}
    PROVE  /\ lcall' = [u \in LogThreads |-> lcall'[u]]
           /\ \A u \in LogThreads : DOMAIN lcall'[u] = {"pc", "level", "sys", "sinks", "err", "shown"}
           /\ lcall'[t] = c
           /\ \A u \in LogThreads : u # t => lcall'[u] = lcall[u]
BY ZenonT(60) DEF LogTyped, CallMoved

LEMMA CallAtFacts ==
    ASSUME LogTyped, NEW t \in LogThreads, NEW p, lcall' = [lcall EXCEPT ![t].pc = p]
    PROVE  /\ lcall' = [u \in LogThreads |-> lcall'[u]]
           /\ \A u \in LogThreads : DOMAIN lcall'[u] = {"pc", "level", "sys", "sinks", "err", "shown"}
           /\ \A u \in LogThreads : u # t => lcall'[u] = lcall[u]
           /\ lcall'[t].pc = p /\ lcall'[t].sinks = lcall[t].sinks /\ lcall'[t].err = lcall[t].err
           /\ lcall'[t].shown = lcall[t].shown /\ lcall'[t].level = lcall[t].level
<1>1. PICK c : c = [lcall[t] EXCEPT !.pc = p]
    BY Zenon
<1>2. CallMoved(t, c)
    BY <1>1, Zenon DEF CallMoved
<1>3. DOMAIN lcall[t] = {"pc", "level", "sys", "sinks", "err", "shown"}
    BY Zenon DEF LogTyped
<1>4. DOMAIN c = {"pc", "level", "sys", "sinks", "err", "shown"}
    BY <1>1, <1>3, Zenon
<1>5. c.pc = p /\ c.sinks = lcall[t].sinks /\ c.err = lcall[t].err /\ c.shown = lcall[t].shown /\ c.level = lcall[t].level
    BY <1>1, <1>3, ZenonT(60)
<1>6. /\ lcall' = [u \in LogThreads |-> lcall'[u]]
      /\ \A u \in LogThreads : DOMAIN lcall'[u] = {"pc", "level", "sys", "sinks", "err", "shown"}
      /\ lcall'[t] = c
      /\ \A u \in LogThreads : u # t => lcall'[u] = lcall[u]
    BY <1>2, <1>4, CallMovedFacts, ZenonT(60)
<1> QED
    BY <1>5, <1>6, Zenon

LEMMA CallAfterFacts ==
    ASSUME LogTyped, NEW t \in LogThreads, lcall' = [lcall EXCEPT ![t] = [lcall[t] EXCEPT !.pc = "next", !.sinks = Tail(lcall[t].sinks)]]
    PROVE  /\ lcall' = [u \in LogThreads |-> lcall'[u]]
           /\ \A u \in LogThreads : DOMAIN lcall'[u] = {"pc", "level", "sys", "sinks", "err", "shown"}
           /\ \A u \in LogThreads : u # t => lcall'[u] = lcall[u]
           /\ lcall'[t].pc = "next" /\ lcall'[t].sinks = Tail(lcall[t].sinks) /\ lcall'[t].err = lcall[t].err
           /\ lcall'[t].shown = lcall[t].shown /\ lcall'[t].level = lcall[t].level
<1>1. PICK c : c = [lcall[t] EXCEPT !.pc = "next", !.sinks = Tail(lcall[t].sinks)]
    BY Zenon
<1>3. DOMAIN lcall[t] = {"pc", "level", "sys", "sinks", "err", "shown"} /\ lcall = [u \in LogThreads |-> lcall[u]]
    BY Zenon DEF LogTyped
<1>2. CallMoved(t, c)
    BY <1>1, Zenon DEF CallMoved
<1>4. DOMAIN c = {"pc", "level", "sys", "sinks", "err", "shown"}
    BY <1>1, <1>3, Zenon
<1>5. c.pc = "next" /\ c.sinks = Tail(lcall[t].sinks) /\ c.err = lcall[t].err /\ c.shown = lcall[t].shown /\ c.level = lcall[t].level
    BY <1>1, <1>3, ZenonT(60)
<1>6. /\ lcall' = [u \in LogThreads |-> lcall'[u]]
      /\ \A u \in LogThreads : DOMAIN lcall'[u] = {"pc", "level", "sys", "sinks", "err", "shown"}
      /\ lcall'[t] = c
      /\ \A u \in LogThreads : u # t => lcall'[u] = lcall[u]
    BY <1>2, <1>4, CallMovedFacts, ZenonT(60)
<1> QED
    BY <1>5, <1>6, Zenon

LEMMA CallBodyFacts ==
    ASSUME LogTyped, NEW t \in LogThreads,
           lcall' = [lcall EXCEPT ![t] = [lcall[t] EXCEPT !.pc = "restore", !.shown = Displayed(t)]]
    PROVE  /\ lcall' = [u \in LogThreads |-> lcall'[u]]
           /\ \A u \in LogThreads : DOMAIN lcall'[u] = {"pc", "level", "sys", "sinks", "err", "shown"}
           /\ \A u \in LogThreads : u # t => lcall'[u] = lcall[u]
           /\ lcall'[t].pc = "restore" /\ lcall'[t].sinks = lcall[t].sinks /\ lcall'[t].err = lcall[t].err
           /\ lcall'[t].shown \subseteq lcall[t].shown \cup {last_error_code} /\ lcall'[t].level = lcall[t].level
<1>0. PICK w : w = IF lcall[t].shown # {} \/ lcall[t].sys THEN lcall[t].shown \cup {last_error_code} ELSE lcall[t].shown
    BY Zenon
<1>1. PICK c : c = [lcall[t] EXCEPT !.pc = "restore", !.shown = w]
    BY Zenon
<1>3. DOMAIN lcall[t] = {"pc", "level", "sys", "sinks", "err", "shown"} /\ lcall = [u \in LogThreads |-> lcall[u]]
    BY Zenon DEF LogTyped
<1>2. CallMoved(t, c)
    BY <1>0, <1>1, Zenon DEF CallMoved, Displayed
<1>4. DOMAIN c = {"pc", "level", "sys", "sinks", "err", "shown"}
    BY <1>1, <1>3, Zenon
<1>5. c.pc = "restore" /\ c.sinks = lcall[t].sinks /\ c.err = lcall[t].err /\ c.shown = w /\ c.level = lcall[t].level
    BY <1>1, <1>3, ZenonT(60)
<1>6. /\ lcall' = [u \in LogThreads |-> lcall'[u]]
      /\ \A u \in LogThreads : DOMAIN lcall'[u] = {"pc", "level", "sys", "sinks", "err", "shown"}
      /\ lcall'[t] = c
      /\ \A u \in LogThreads : u # t => lcall'[u] = lcall[u]
    BY <1>2, <1>4, CallMovedFacts, ZenonT(60)
<1>7. w \subseteq lcall[t].shown \cup {last_error_code}
    BY <1>0, Zenon
<1> QED
    BY <1>5, <1>6, <1>7, Zenon

-----------------------------------------------------------------------------
(* The parts of the invariant, when one thread's call changes.             *)

\* What every step of thread t leaves alone.
OthersRest(t) ==
    /\ lcall' = [u \in LogThreads |-> lcall'[u]]
    /\ \A u \in LogThreads : DOMAIN lcall'[u] = {"pc", "level", "sys", "sinks", "err", "shown"}
    /\ \A u \in LogThreads : u # t => lcall'[u] = lcall[u]

LEMMA LogTypedStep ==
    ASSUME LogTyped, NEW t \in LogThreads, OthersRest(t), lcall'[t].sinks \in SinkLists,
           lcall'[t].pc \in {"lock", "body", "restore", "syslog"} => lcall'[t].sinks # <<>>,
           lerrno' = [u \in LogThreads |-> lerrno'[u]],
           ltext' = [s \in LogSinks |-> ltext'[s]], \A s \in LogSinks : ltext'[s] \in Seq(LogPart)
    PROVE  LogTyped'
<1>1. \A u \in LogThreads :
           /\ lcall'[u].sinks \in SinkLists
           /\ lcall'[u].pc \in {"lock", "body", "restore", "syslog"} => lcall'[u].sinks # <<>>
    BY Zenon DEF LogTyped, OthersRest
<1> QED
    BY <1>1, Zenon DEF LogTyped, OthersRest, SinkLists, LogPart, LogSinks

\* A step that writes nothing and leaves every line with its writer.
LEMMA LogTextsStep ==
    ASSUME LogTexts, NEW t \in LogThreads, OthersRest(t), ltext' = ltext,
           lcall'[t].pc = "body" <=> lcall[t].pc = "body", lcall[t].pc # "body"
    PROVE  LogTexts'
<1>0. \A u \in LogThreads : u # t => lcall'[u] = lcall[u]
    BY Zenon DEF OthersRest
<1>1. \A u \in LogThreads, s \in LogSinks : InLine(u, s)' <=> InLine(u, s)
    BY <1>0 DEF InLine
<1> QED
    BY <1>1, Zenon DEF LogTexts, WholeText

\* A step that changes neither the shared number nor who was raced.
LEMMA LogSavedStep ==
    ASSUME LogSaved, NEW t \in LogThreads, OthersRest(t), last_error_code' = last_error_code,
           \A u \in LogThreads : u # t => lerrno'[u] = lerrno[u],
           \A u \in LogThreads : u # t => (u \in lraced' <=> u \in lraced),
           t \notin lraced' => Undisturbed(t)'
    PROVE  LogSaved'
<1>1. ASSUME NEW u \in LogThreads, u # t, u \notin lraced' PROVE Undisturbed(u)'
    BY <1>1, Zenon DEF LogSaved, Undisturbed, OthersRest
<1> QED
    BY <1>1, Zenon DEF LogSaved

\* A step that loses no text, and after which thread t has every open sink
\* before it or behind it.
LEMMA LogReachedStep ==
    ASSUME LogReached, NEW t \in LogThreads, OthersRest(t), ~lexited, ~lexited', output' = output, log_file' = log_file,
           \A u \in LogThreads, s \in LogSinks : ShownBy(u, s) => ShownBy(u, s)',
           lcall'[t].pc # "idle" => \A s \in LogSinks : LogOpen(s) => Still(ToWrite(t)', s) \/ ShownBy(t, s)',
           lcall'[t].pc = "syslog" => Head(lcall'[t].sinks) = "file" /\ ~log_file
    PROVE  LogReached'
<1>1. \A s \in LogSinks : LogOpen(s)' <=> LogOpen(s)
    BY Zenon DEF LogOpen
<1>2. ASSUME NEW u \in LogThreads, lcall'[u].pc # "idle", NEW s \in LogSinks, LogOpen(s)
      PROVE  Still(ToWrite(u)', s) \/ ShownBy(u, s)'
    <2>1. CASE u = t
        BY <1>2, <2>1, Zenon
    <2>2. CASE u # t
        <3>1. lcall'[u] = lcall[u] /\ ToWrite(u)' = ToWrite(u)
            BY <2>2, Zenon DEF OthersRest, ToWrite
        <3> QED
            BY <1>2, <3>1, Zenon DEF LogReached
    <2> QED
        BY <2>1, <2>2, Zenon
<1>3. \A u \in LogThreads : lcall'[u].pc = "syslog" => Head(lcall'[u].sinks) = "file" /\ ~log_file'
    BY Zenon DEF LogReached, OthersRest
<1> QED
    BY <1>1, <1>2, <1>3, Zenon DEF LogReached, Still

LEMMA ShownSame ==
    ASSUME ltext' = ltext
    PROVE  \A u \in LogThreads, s \in LogSinks : ShownBy(u, s) => ShownBy(u, s)'
BY Zenon DEF ShownBy

\* A text grows by one part.
LEMMA TextMoves ==
    ASSUME LogTyped, LogTexts, NEW s \in LogSinks, NEW e \in LogPart,
           ltext' = [ltext EXCEPT ![s] = Append(@, e)],
           Len(ltext[s]) > 0 /\ ltext[s][Len(ltext[s])].part = "head" => e = [by |-> ltext[s][Len(ltext[s])].by, part |-> "end"]
    PROVE  /\ ltext' = [x \in LogSinks |-> ltext'[x]] /\ \A x \in LogSinks : ltext'[x] \in Seq(LogPart)
           /\ \A x \in LogSinks : x # s => ltext'[x] = ltext[x]
           /\ WholeText(ltext'[s]) /\ Len(ltext'[s]) > 0 /\ ltext'[s][Len(ltext'[s])] = e
           /\ \A u \in LogThreads, x \in LogSinks : ShownBy(u, x) => ShownBy(u, x)'
<1>1. PICK q : q = ltext[s] /\ q \in Seq(LogPart) /\ WholeText(q)
    BY Zenon DEF LogTyped, LogTexts
<1>2. PICK r : r = Append(q, e)
    BY Zenon
<1>3. /\ ltext' = [x \in LogSinks |-> ltext'[x]]
      /\ ltext'[s] = r /\ \A x \in LogSinks : x # s => ltext'[x] = ltext[x]
    BY <1>1, <1>2, ZenonT(60) DEF LogTyped
<1>4. /\ WholeText(r) /\ r \in Seq(LogPart) /\ Len(r) = Len(q) + 1 /\ Len(q) \in Nat /\ r[Len(q) + 1] = e
      /\ \A i \in 1..Len(q) : r[i] = q[i]
    BY <1>1, <1>2, TextGrows, ZenonT(60)
<1>5. Len(r) > 0 /\ r[Len(r)] = e
    BY <1>4
<1>6. \A u \in LogThreads, x \in LogSinks : ShownBy(u, x) => ShownBy(u, x)'
    <2>1. ASSUME NEW u \in LogThreads, ShownBy(u, s) PROVE ShownBy(u, s)'
        <3>1. PICK i \in 1..Len(q) : q[i] = [by |-> u, part |-> "end"]
            BY <1>1, <2>1, Zenon DEF ShownBy
        <3>2. i \in 1..Len(r) /\ r[i] = [by |-> u, part |-> "end"]
            BY <1>4, <3>1
        <3> QED
            BY <1>3, <3>2, Zenon DEF ShownBy
    <2>2. ASSUME NEW u \in LogThreads, NEW x \in LogSinks, x # s, ShownBy(u, x) PROVE ShownBy(u, x)'
        BY <1>3, <2>2, Zenon DEF ShownBy
    <2> QED
        BY <2>1, <2>2, Zenon
<1>7. \A x \in LogSinks : ltext'[x] \in Seq(LogPart)
    BY <1>3, <1>4, Zenon DEF LogTyped
<1> QED
    BY <1>3, <1>4, <1>5, <1>6, <1>7, Zenon

LEMMA LogInvNext ==
    ASSUME LogInv, LoggerNext \/ UNCHANGED logVars
    PROVE  LogInv'
<1>0. LogTyped /\ LogLocked /\ LogTexts /\ LogSaved /\ LogReached
    BY DEF LogInv
<1>00. ASSUME NEW u \in LogThreads PROVE lcall[u].sinks \in SinkLists
    BY <1>0, Zenon DEF LogTyped
<1>1. CASE UNCHANGED logVars
    <2>1. /\ lcall' = lcall /\ lerrno' = lerrno /\ ltext' = ltext /\ lmutex' = lmutex /\ last_error_code' = last_error_code
          /\ lexited' = lexited /\ lraced' = lraced /\ output' = output /\ log_file' = log_file
        BY <1>1, Zenon DEF logVars
    <2>2. LogTyped' /\ LogLocked'
        BY <1>0, <2>1, Zenon DEF LogTyped, LogLocked
    <2>3. LogTexts' /\ LogSaved'
        BY <1>0, <2>1, Zenon DEF LogTexts, WholeText, InLine, LogSaved, Undisturbed
    <2>4. LogReached'
        BY <1>0, <2>1, Zenon DEF LogReached, Still, ToWrite, LogOpen, ShownBy
    <2> QED
        BY <2>2, <2>3, <2>4, Zenon DEF LogInv
<1>2. CASE logger_init
    <2>1. /\ ~lexited /\ \A t \in LogThreads : lcall[t].pc = "idle"
          /\ lcall' = lcall /\ lerrno' = lerrno /\ ltext' = ltext /\ lmutex' = lmutex
          /\ last_error_code' = last_error_code /\ lexited' = lexited /\ lraced' = lraced
        BY <1>2, Zenon DEF logger_init
    <2>2. LogTyped' /\ LogLocked' /\ LogTexts' /\ LogSaved'
        BY <1>0, <2>1, Zenon DEF LogTyped, LogLocked, LogTexts, WholeText, InLine, LogSaved, Undisturbed
    <2>3. LogReached'
        BY <2>1, Zenon DEF LogReached
    <2> QED
        BY <2>2, <2>3, Zenon DEF LogInv
<1>3. ASSUME NEW t \in LogThreads, LogFails(t) PROVE LogInv'
    <2>1. PICK e \in Errors : lerrno' = [lerrno EXCEPT ![t] = e]
        BY <1>3, Zenon DEF LogFails
    <2>2. /\ ~lexited /\ lcall[t].pc = "idle" /\ lcall' = lcall /\ ltext' = ltext /\ lmutex' = lmutex
          /\ last_error_code' = last_error_code /\ lexited' = lexited /\ lraced' = lraced /\ output' = output /\ log_file' = log_file
        BY <1>3, Zenon DEF LogFails
    <2>3. lerrno' = [u \in LogThreads |-> lerrno'[u]] /\ \A u \in LogThreads : u # t => lerrno'[u] = lerrno[u]
        BY <1>0, <2>1, Zenon DEF LogTyped
    <2>4. LogTyped' /\ LogLocked' /\ LogTexts' /\ LogReached'
        <3>1. LogTyped' /\ LogLocked'
            BY <1>0, <2>2, <2>3, Zenon DEF LogTyped, LogLocked
        <3>2. LogTexts'
            BY <1>0, <2>2, Zenon DEF LogTexts, WholeText, InLine
        <3>3. LogReached'
            BY <1>0, <2>2, Zenon DEF LogReached, Still, ToWrite, LogOpen, ShownBy
        <3> QED
            BY <3>1, <3>2, <3>3, Zenon
    <2>5. LogSaved'
        <3>1. ASSUME NEW u \in LogThreads, u \notin lraced' PROVE Undisturbed(u)'
            BY <1>0, <2>2, <2>3, <3>1 DEF LogSaved, Undisturbed
        <3> QED
            BY <3>1, Zenon DEF LogSaved
    <2> QED
        BY <2>4, <2>5, Zenon DEF LogInv
<1>4. ASSUME NEW t \in LogThreads, logger_log(t) PROVE LogInv'
    <2>1. PICK level, sys : lcall' = [lcall EXCEPT ![t] = [pc |-> "next", level |-> level, sys |-> sys, sinks |-> Sinks(output),
                                       err |-> lerrno[t], shown |-> {}]]
        BY <1>4, Zenon DEF logger_log
    <2>2. PICK c : c = [pc |-> "next", level |-> level, sys |-> sys, sinks |-> Sinks(output), err |-> lerrno[t], shown |-> {}]
        BY Zenon
    <2>3. /\ c.pc = "next" /\ c.sinks = Sinks(output) /\ c.err = lerrno[t] /\ c.shown = {}
          /\ DOMAIN c = {"pc", "level", "sys", "sinks", "err", "shown"}
        BY <2>2, Zenon
    <2>4. /\ ~lexited /\ lcall[t].pc = "idle" /\ ltext' = ltext /\ lmutex' = lmutex /\ lerrno' = lerrno
          /\ last_error_code' = last_error_code /\ lexited' = lexited /\ lraced' = lraced \ {t} /\ output' = output /\ log_file' = log_file
        BY <1>4, Zenon DEF logger_log
    <2>5. OthersRest(t) /\ lcall'[t] = c
        <3>1. CallMoved(t, c)
            BY <2>1, <2>2, Zenon DEF CallMoved
        <3> QED
            BY <1>0, <2>3, <3>1, CallMovedFacts, ZenonT(60) DEF OthersRest
    <2>6. Sinks(output) \in SinkLists /\ \A s \in LogSinks : output \in {s, "both"} => Still(Sinks(output), s)
        BY DEF Sinks, SinkLists, Still, LogSinks
    <2>7. LogTyped'
        <3>1. lcall'[t].sinks \in SinkLists
            BY <2>3, <2>5, <2>6, Zenon
        <3>2. lcall'[t].pc \in {"lock", "body", "restore", "syslog"} => lcall'[t].sinks # <<>>
            BY <2>3, <2>5
        <3>3. lerrno' = [u \in LogThreads |-> lerrno'[u]] /\ ltext' = [s \in LogSinks |-> ltext'[s]]
              /\ \A s \in LogSinks : ltext'[s] \in Seq(LogPart)
            BY <1>0, <2>4, Zenon DEF LogTyped
        <3> QED
            BY <1>0, <2>5, <3>1, <3>2, <3>3, LogTypedStep, ZenonT(60)
    <2>8. LogLocked'
        <3>1. ~(lcall'[t].pc \in {"body", "syslog"}) /\ lmutex' # t
            BY <1>0, <2>3, <2>4, <2>5 DEF LogLocked
        <3> QED
            BY <1>0, <2>4, <2>5, <3>1, Zenon DEF LogLocked, OthersRest
    <2>9. LogTexts'
        <3>1. (lcall'[t].pc = "body" <=> lcall[t].pc = "body") /\ lcall[t].pc # "body"
            BY <2>3, <2>4, <2>5
        <3> QED
            BY <1>0, <2>4, <2>5, <3>1, LogTextsStep, ZenonT(60)
    <2>10. LogSaved'
        <3>1. Undisturbed(t)'
            BY <2>3, <2>4, <2>5 DEF Undisturbed
        <3>2. /\ \A u \in LogThreads : u # t => lerrno'[u] = lerrno[u]
              /\ \A u \in LogThreads : u # t => (u \in lraced' <=> u \in lraced)
            BY <2>4, Zenon
        <3> QED
            BY <1>0, <2>4, <2>5, <3>1, <3>2, LogSavedStep, ZenonT(60)
    <2>11. LogReached'
        <3>1. ToWrite(t)' = Sinks(output)
            BY <2>3, <2>5 DEF ToWrite
        <3>2. \A s \in LogSinks : LogOpen(s) => Still(ToWrite(t)', s) \/ ShownBy(t, s)'
            BY <2>6, <3>1, Zenon DEF LogOpen
        <3>3. \A u \in LogThreads, s \in LogSinks : ShownBy(u, s) => ShownBy(u, s)'
            BY <2>4, ShownSame, Zenon
        <3>9. lcall'[t].pc = "syslog" => Head(lcall'[t].sinks) = "file" /\ ~log_file
            BY <2>3, <2>5
        <3> QED
            BY <1>0, <2>4, <2>5, <3>2, <3>3, <3>9, LogReachedStep, ZenonT(60)
    <2> QED
        BY <2>7, <2>8, <2>9, <2>10, <2>11, Zenon DEF LogInv
<1>5. ASSUME NEW t \in LogThreads, LogNext(t), lcall[t].sinks # <<>> PROVE LogInv'
    <2>1. /\ ~lexited /\ lcall[t].pc = "next" /\ ltext' = ltext /\ lmutex' = lmutex /\ lerrno' = lerrno
          /\ last_error_code' = lerrno[t] /\ lexited' = lexited
          /\ lraced' = lraced \cup {u \in LogThreads \ {t} : lcall[u].pc \in {"lock", "body", "restore"}}
          /\ output' = output /\ log_file' = log_file
        BY <1>5, Zenon DEF LogNext
    <2>2. lcall' = [lcall EXCEPT ![t].pc = "lock"]
        BY <1>5, Zenon DEF LogNext, Goes
    <2>3. OthersRest(t) /\ lcall'[t].pc = "lock" /\ lcall'[t].sinks = lcall[t].sinks /\ lcall'[t].err = lcall[t].err
          /\ lcall'[t].shown = lcall[t].shown
        BY <1>0, <2>2, CallAtFacts, ZenonT(60) DEF OthersRest
    <2>4. LogTyped'
        <3>1. lcall'[t].sinks \in SinkLists /\ lcall'[t].sinks # <<>>
            BY <1>00, <1>5, <2>3, Zenon
        <3>2. lerrno' = [u \in LogThreads |-> lerrno'[u]] /\ ltext' = [s \in LogSinks |-> ltext'[s]]
              /\ \A s \in LogSinks : ltext'[s] \in Seq(LogPart)
            BY <1>0, <2>1, Zenon DEF LogTyped
        <3> QED
            BY <1>0, <2>3, <3>1, <3>2, LogTypedStep, ZenonT(60)
    <2>5. LogLocked'
        <3>1. ~(lcall'[t].pc \in {"body", "syslog"}) /\ lmutex' # t
            BY <1>0, <2>1, <2>3 DEF LogLocked
        <3> QED
            BY <1>0, <2>1, <2>3, <3>1, Zenon DEF LogLocked, OthersRest
    <2>6. LogTexts'
        <3>1. (lcall'[t].pc = "body" <=> lcall[t].pc = "body") /\ lcall[t].pc # "body"
            BY <2>1, <2>3
        <3> QED
            BY <1>0, <2>1, <2>3, <3>1, LogTextsStep, ZenonT(60)
    <2>7. LogSaved'
        <3>1. ASSUME NEW u \in LogThreads, u # t, u \notin lraced' PROVE Undisturbed(u)'
            <4>1. u \notin lraced /\ lcall'[u] = lcall[u] /\ ~(lcall[u].pc \in {"lock", "body", "restore"})
                BY <2>1, <2>3, <3>1 DEF OthersRest
            <4> QED
                BY <1>0, <2>1, <4>1, Zenon DEF LogSaved, Undisturbed
        <3>2. ASSUME t \notin lraced' PROVE Undisturbed(t)'
            <4>1. Undisturbed(t)
                BY <1>0, <2>1, <3>2, Zenon DEF LogSaved
            <4> QED
                BY <2>1, <2>3, <4>1 DEF Undisturbed
        <3> QED
            BY <3>1, <3>2, Zenon DEF LogSaved
    <2>8. LogReached'
        <3>1. ToWrite(t)' = ToWrite(t)
            BY <2>1, <2>3 DEF ToWrite
        <3>2. \A u \in LogThreads, s \in LogSinks : ShownBy(u, s) => ShownBy(u, s)'
            BY <2>1, ShownSame, Zenon
        <3>3. \A s \in LogSinks : LogOpen(s) => Still(ToWrite(t)', s) \/ ShownBy(t, s)'
            <4>1. lcall[t].pc # "idle"
                BY <2>1
            <4> QED
                BY <1>0, <3>1, <3>2, <4>1, Zenon DEF LogReached
        <3>9. lcall'[t].pc = "syslog" => Head(lcall'[t].sinks) = "file" /\ ~log_file
            BY <2>3
        <3> QED
            BY <1>0, <2>1, <2>3, <3>2, <3>3, <3>9, LogReachedStep, ZenonT(60)
    <2> QED
        BY <2>4, <2>5, <2>6, <2>7, <2>8, Zenon DEF LogInv
<1>6. ASSUME NEW t \in LogThreads, LogNext(t), lcall[t].sinks = <<>> PROVE LogInv'
    <2>1. /\ ~lexited /\ lcall[t].pc = "next" /\ ltext' = ltext /\ lmutex' = lmutex /\ lerrno' = lerrno
          /\ last_error_code' = last_error_code /\ lexited' = (lcall[t].level = "critical") /\ lraced' = lraced
          /\ output' = output /\ log_file' = log_file
        BY <1>6, Zenon DEF LogNext
    <2>2. lcall' = [lcall EXCEPT ![t].pc = "idle"]
        BY <1>6, Zenon DEF LogNext, Goes
    <2>3. OthersRest(t) /\ lcall'[t].pc = "idle" /\ lcall'[t].sinks = lcall[t].sinks /\ lcall'[t].err = lcall[t].err
          /\ lcall'[t].shown = lcall[t].shown /\ lcall'[t].level = lcall[t].level
        BY <1>0, <2>2, CallAtFacts, ZenonT(60) DEF OthersRest
    <2>4. LogTyped'
        <3>1. lcall'[t].sinks \in SinkLists
            BY <1>00, <2>3, Zenon
        <3>2. lerrno' = [u \in LogThreads |-> lerrno'[u]] /\ ltext' = [s \in LogSinks |-> ltext'[s]]
              /\ \A s \in LogSinks : ltext'[s] \in Seq(LogPart)
            BY <1>0, <2>1, Zenon DEF LogTyped
        <3>3. lcall'[t].pc \in {"lock", "body", "restore", "syslog"} => lcall'[t].sinks # <<>>
            BY <2>3
        <3> QED
            BY <1>0, <2>3, <3>1, <3>2, <3>3, LogTypedStep, ZenonT(60)
    <2>5. LogLocked'
        <3>1. ~(lcall'[t].pc \in {"body", "syslog"}) /\ lmutex' # t
            BY <1>0, <2>1, <2>3 DEF LogLocked
        <3> QED
            BY <1>0, <2>1, <2>3, <3>1, Zenon DEF LogLocked, OthersRest
    <2>6. LogTexts'
        <3>1. (lcall'[t].pc = "body" <=> lcall[t].pc = "body") /\ lcall[t].pc # "body"
            BY <2>1, <2>3
        <3> QED
            BY <1>0, <2>1, <2>3, <3>1, LogTextsStep, ZenonT(60)
    <2>7. LogSaved'
        <3>1. ASSUME t \notin lraced' PROVE Undisturbed(t)'
            <4>1. Undisturbed(t)
                BY <1>0, <2>1, <3>1, Zenon DEF LogSaved
            <4> QED
                BY <2>1, <2>3, <4>1 DEF Undisturbed
        <3>2. /\ \A u \in LogThreads : u # t => lerrno'[u] = lerrno[u]
              /\ \A u \in LogThreads : u # t => (u \in lraced' <=> u \in lraced)
            BY <2>1, Zenon
        <3> QED
            BY <1>0, <2>1, <2>3, <3>1, <3>2, LogSavedStep, ZenonT(60)
    <2>8. LogReached'
        <3>1. \A u \in LogThreads, s \in LogSinks : ShownBy(u, s) => ShownBy(u, s)'
            BY <2>1, ShownSame, Zenon
        <3>2. \A s \in LogSinks : LogOpen(s)' => ShownBy(t, s)'
            <4>1. \A s \in LogSinks : LogOpen(s)' => LogOpen(s)
                BY <2>1, Zenon DEF LogOpen
            <4>2. ToWrite(t) = <<>> /\ lcall[t].pc # "idle"
                BY <1>6, <2>1 DEF ToWrite
            <4>3. \A s \in LogSinks : ~Still(<<>>, s)
                BY <1>00, SinkFacts, Zenon
            <4> QED
                BY <1>0, <3>1, <4>1, <4>2, <4>3, Zenon DEF LogReached
        <3>3. CASE lexited'
            <4>1. lcall'[t].level = "critical"
                BY <2>1, <2>3, <3>3, Zenon
            <4>2. \E u \in LogThreads : lcall'[u].level = "critical" /\ lcall'[u].pc = "idle" /\ \A s \in LogSinks : LogOpen(s)' => ShownBy(u, s)'
                BY <2>3, <3>2, <4>1, Zenon
            <4>3. ASSUME NEW u \in LogThreads, lcall'[u].pc # "idle", NEW s \in LogSinks, LogOpen(s)'
                  PROVE  Still(ToWrite(u)', s) \/ ShownBy(u, s)'
                <5>1. u # t
                    BY <2>3, <4>3
                <5>2. lcall'[u] = lcall[u] /\ ToWrite(u)' = ToWrite(u)
                    BY <2>3, <5>1, Zenon DEF OthersRest, ToWrite
                <5>3. LogOpen(s)
                    BY <2>1, <4>3, Zenon DEF LogOpen
                <5> QED
                    BY <1>0, <3>1, <4>3, <5>2, <5>3, Zenon DEF LogReached
            <4>4. \A u \in LogThreads : lcall'[u].pc = "syslog" => Head(lcall'[u].sinks) = "file" /\ ~log_file'
                BY <1>0, <2>1, <2>3 DEF LogReached, OthersRest
            <4> QED
                BY <4>2, <4>3, <4>4, Zenon DEF LogReached, Still
        <3>4. CASE ~lexited'
            <4>1. lcall'[t].pc # "idle" => \A s \in LogSinks : LogOpen(s) => Still(ToWrite(t)', s) \/ ShownBy(t, s)'
                BY <2>3
            <4>9. lcall'[t].pc = "syslog" => Head(lcall'[t].sinks) = "file" /\ ~log_file
                BY <2>3
            <4> QED
                BY <1>0, <2>1, <2>3, <3>1, <3>4, <4>1, <4>9, LogReachedStep, ZenonT(60)
        <3> QED
            BY <3>3, <3>4, Zenon
    <2> QED
        BY <2>4, <2>5, <2>6, <2>7, <2>8, Zenon DEF LogInv
<1>7. ASSUME NEW t \in LogThreads, LogHead(t), Head(lcall[t].sinks) = "file" /\ ~log_file PROVE LogInv'
    <2>1. /\ ~lexited /\ lcall[t].pc = "lock" /\ ltext' = ltext /\ lmutex = NoThread /\ lmutex' = t /\ lerrno' = lerrno
          /\ last_error_code' = last_error_code /\ lexited' = lexited /\ lraced' = lraced
          /\ output' = output /\ log_file' = log_file
        BY <1>7, Zenon DEF LogHead, LockLog
    <2>2. lcall' = [lcall EXCEPT ![t].pc = "syslog"]
        BY <1>7, Zenon DEF LogHead, Goes
    <2>3. OthersRest(t) /\ lcall'[t].pc = "syslog" /\ lcall'[t].sinks = lcall[t].sinks /\ lcall'[t].err = lcall[t].err
          /\ lcall'[t].shown = lcall[t].shown
        BY <1>0, <2>2, CallAtFacts, ZenonT(60) DEF OthersRest
    <2>4. LogTyped'
        <3>0. lcall[t].sinks # <<>>
            BY <1>0, <2>1 DEF LogTyped
        <3>1. lcall'[t].sinks \in SinkLists /\ lcall'[t].sinks # <<>>
            BY <1>00, <2>3, <3>0, Zenon
        <3>2. lerrno' = [u \in LogThreads |-> lerrno'[u]] /\ ltext' = [s \in LogSinks |-> ltext'[s]]
              /\ \A s \in LogSinks : ltext'[s] \in Seq(LogPart)
            BY <1>0, <2>1, Zenon DEF LogTyped
        <3> QED
            BY <1>0, <2>3, <3>1, <3>2, LogTypedStep, ZenonT(60)
    <2>5. LogLocked'
        BY <1>0, <2>1, <2>3, LoggerAssumption DEF LogLocked, OthersRest
    <2>6. LogTexts'
        <3>1. (lcall'[t].pc = "body" <=> lcall[t].pc = "body") /\ lcall[t].pc # "body"
            BY <2>1, <2>3
        <3> QED
            BY <1>0, <2>1, <2>3, <3>1, LogTextsStep, ZenonT(60)
    <2>7. LogSaved'
        <3>1. ASSUME t \notin lraced' PROVE Undisturbed(t)'
            <4>1. Undisturbed(t)
                BY <1>0, <2>1, <3>1, Zenon DEF LogSaved
            <4> QED
                BY <2>1, <2>3, <4>1 DEF Undisturbed
        <3>2. /\ \A u \in LogThreads : u # t => lerrno'[u] = lerrno[u]
              /\ \A u \in LogThreads : u # t => (u \in lraced' <=> u \in lraced)
            BY <2>1, Zenon
        <3> QED
            BY <1>0, <2>1, <2>3, <3>1, <3>2, LogSavedStep, ZenonT(60)
    <2>8. LogReached'
        <3>1. ToWrite(t)' = ToWrite(t)
            BY <2>1, <2>3 DEF ToWrite
        <3>2. \A u \in LogThreads, s \in LogSinks : ShownBy(u, s) => ShownBy(u, s)'
            BY <2>1, ShownSame, Zenon
        <3>3. \A s \in LogSinks : LogOpen(s) => Still(ToWrite(t)', s) \/ ShownBy(t, s)'
            <4>1. lcall[t].pc # "idle"
                BY <2>1
            <4> QED
                BY <1>0, <3>1, <3>2, <4>1, Zenon DEF LogReached
        <3>9. lcall'[t].pc = "syslog" => Head(lcall'[t].sinks) = "file" /\ ~log_file
            BY <1>7, <2>3
        <3> QED
            BY <1>0, <2>1, <2>3, <3>2, <3>3, <3>9, LogReachedStep, ZenonT(60)
    <2> QED
        BY <2>4, <2>5, <2>6, <2>7, <2>8, Zenon DEF LogInv
<1>8. ASSUME NEW t \in LogThreads, LogHead(t), ~(Head(lcall[t].sinks) = "file" /\ ~log_file) PROVE LogInv'
    <2>0. PICK s, e : s = Head(lcall[t].sinks) /\ e = [by |-> t, part |-> "head"]
        BY Zenon
    <2>1. /\ ~lexited /\ lcall[t].pc = "lock" /\ lmutex = NoThread /\ lmutex' = t /\ lerrno' = lerrno
          /\ last_error_code' = last_error_code /\ lexited' = lexited /\ lraced' = lraced
          /\ output' = output /\ log_file' = log_file /\ ltext' = [ltext EXCEPT ![s] = Append(@, e)]
        BY <1>8, <2>0, Zenon DEF LogHead, LockLog
    <2>2. lcall' = [lcall EXCEPT ![t].pc = "body"]
        BY <1>8, Zenon DEF LogHead, Goes
    <2>3. OthersRest(t) /\ lcall'[t].pc = "body" /\ lcall'[t].sinks = lcall[t].sinks /\ lcall'[t].err = lcall[t].err
          /\ lcall'[t].shown = lcall[t].shown
        BY <1>0, <2>2, CallAtFacts, ZenonT(60) DEF OthersRest
    <2>4. lcall[t].sinks # <<>> /\ s \in LogSinks /\ e \in LogPart
        <3>1. lcall[t].sinks # <<>>
            BY <1>0, <2>1 DEF LogTyped
        <3>2. s \in LogSinks
            BY <1>00, <2>0, <3>1, SinkFacts, Zenon
        <3>3. e \in LogPart
            BY <2>0 DEF LogPart
        <3> QED
            BY <3>1, <3>2, <3>3, Zenon
    <2>5. \A u \in LogThreads : lcall[u].pc # "body"
        BY <1>0, <2>1, LoggerAssumption DEF LogLocked
    <2>6. \A x \in LogSinks : ~(Len(ltext[x]) > 0 /\ ltext[x][Len(ltext[x])].part = "head")
        BY <1>0, <2>5, Zenon DEF LogTexts, InLine
    <2>7. /\ ltext' = [x \in LogSinks |-> ltext'[x]] /\ \A x \in LogSinks : ltext'[x] \in Seq(LogPart)
          /\ \A x \in LogSinks : x # s => ltext'[x] = ltext[x]
          /\ WholeText(ltext'[s]) /\ Len(ltext'[s]) > 0 /\ ltext'[s][Len(ltext'[s])] = e
          /\ \A u \in LogThreads, x \in LogSinks : ShownBy(u, x) => ShownBy(u, x)'
        <3>1. Len(ltext[s]) > 0 /\ ltext[s][Len(ltext[s])].part = "head" => e = [by |-> ltext[s][Len(ltext[s])].by, part |-> "end"]
            BY <2>4, <2>6, Zenon
        <3>2. ltext' = [ltext EXCEPT ![s] = Append(@, e)]
            BY <2>1, Zenon
        <3> QED
            BY <1>0, <2>4, <3>1, <3>2, TextMoves, ZenonT(60)
    <2>8. LogTyped'
        <3>1. lcall'[t].sinks \in SinkLists /\ lcall'[t].sinks # <<>>
            BY <1>00, <2>3, <2>4, Zenon
        <3>2. lerrno' = [u \in LogThreads |-> lerrno'[u]]
            BY <1>0, <2>1, Zenon DEF LogTyped
        <3> QED
            BY <1>0, <2>3, <2>7, <3>1, <3>2, LogTypedStep, ZenonT(60)
    <2>9. LogLocked'
        BY <1>0, <2>1, <2>3, LoggerAssumption DEF LogLocked, OthersRest
    <2>10. LogTexts'
        <3>1. \A u \in LogThreads, x \in LogSinks : InLine(u, x)' <=> u = t /\ x = s
            BY <2>0, <2>3, <2>5, Zenon DEF InLine, OthersRest
        <3>2. ASSUME NEW x \in LogSinks, x # s
              PROVE  WholeText(ltext'[x]) /\ ~(Len(ltext'[x]) > 0 /\ ltext'[x][Len(ltext'[x])].part = "head")
            BY <1>0, <2>6, <2>7, <3>2, Zenon DEF LogTexts
        <3>3. \A x \in LogSinks : WholeText(ltext'[x])
            BY <2>7, <3>2, Zenon
        <3>4. \A x \in LogSinks : \A u \in LogThreads : InLine(u, x)' =>
                Len(ltext'[x]) > 0 /\ ltext'[x][Len(ltext'[x])] = [by |-> u, part |-> "head"]
            BY <2>0, <2>7, <3>1, Zenon
        <3>5. \A x \in LogSinks : Len(ltext'[x]) > 0 /\ ltext'[x][Len(ltext'[x])].part = "head" => \E u \in LogThreads : InLine(u, x)'
            BY <2>7, <3>1, <3>2, Zenon
        <3> QED
            BY <3>3, <3>4, <3>5, Zenon DEF LogTexts, WholeText
    <2>11. LogSaved'
        <3>1. ASSUME t \notin lraced' PROVE Undisturbed(t)'
            <4>1. Undisturbed(t)
                BY <1>0, <2>1, <3>1, Zenon DEF LogSaved
            <4> QED
                BY <2>1, <2>3, <4>1 DEF Undisturbed
        <3>2. /\ \A u \in LogThreads : u # t => lerrno'[u] = lerrno[u]
              /\ \A u \in LogThreads : u # t => (u \in lraced' <=> u \in lraced)
            BY <2>1, Zenon
        <3> QED
            BY <1>0, <2>1, <2>3, <3>1, <3>2, LogSavedStep, ZenonT(60)
    <2>12. LogReached'
        <3>1. ToWrite(t)' = ToWrite(t)
            BY <2>1, <2>3 DEF ToWrite
        <3>2. \A x \in LogSinks : LogOpen(x) => Still(ToWrite(t)', x) \/ ShownBy(t, x)'
            <4>1. lcall[t].pc # "idle"
                BY <2>1
            <4> QED
                BY <1>0, <2>7, <3>1, <4>1, ZenonT(60) DEF LogReached
        <3>9. lcall'[t].pc = "syslog" => Head(lcall'[t].sinks) = "file" /\ ~log_file
            BY <2>3
        <3> QED
            BY <1>0, <2>1, <2>3, <2>7, <3>2, <3>9, LogReachedStep, ZenonT(60)
    <2> QED
        BY <2>8, <2>9, <2>10, <2>11, <2>12, Zenon DEF LogInv
<1>9. ASSUME NEW t \in LogThreads, LogBody(t) PROVE LogInv'
    <2>0. PICK s, e : s = Head(lcall[t].sinks) /\ e = [by |-> t, part |-> "end"]
        BY Zenon
    <2>1. /\ ~lexited /\ lcall[t].pc = "body" /\ lmutex' = NoThread
          /\ last_error_code' = last_error_code /\ lexited' = lexited /\ lraced' = lraced
          /\ output' = output /\ log_file' = log_file /\ ltext' = [ltext EXCEPT ![s] = Append(@, e)]
        BY <1>9, <2>0, Zenon DEF LogBody
    <2>2. lcall' = [lcall EXCEPT ![t] = [lcall[t] EXCEPT !.pc = "restore", !.shown = Displayed(t)]]
        BY <1>9, Zenon DEF LogBody
    <2>3. OthersRest(t) /\ lcall'[t].pc = "restore" /\ lcall'[t].sinks = lcall[t].sinks /\ lcall'[t].err = lcall[t].err
          /\ lcall'[t].shown \subseteq lcall[t].shown \cup {last_error_code}
        BY <1>0, <2>2, CallBodyFacts, ZenonT(60) DEF OthersRest
    <2>3a. lerrno' = [u \in LogThreads |-> lerrno'[u]] /\ \A u \in LogThreads : u # t => lerrno'[u] = lerrno[u]
        <3>1. PICK x \in Errors : lerrno' = [lerrno EXCEPT ![t] = x]
            BY <1>9, Zenon DEF LogBody
        <3> QED
            BY <1>0, <3>1, Zenon DEF LogTyped
    <2>4. lcall[t].sinks # <<>> /\ s \in LogSinks /\ e \in LogPart
        <3>1. lcall[t].sinks # <<>>
            BY <1>0, <2>1 DEF LogTyped
        <3>2. s \in LogSinks
            BY <1>00, <2>0, <3>1, SinkFacts, Zenon
        <3>3. e \in LogPart
            BY <2>0 DEF LogPart
        <3> QED
            BY <3>1, <3>2, <3>3, Zenon
    <2>5. lmutex = t /\ \A u \in LogThreads : u # t => ~(lcall[u].pc \in {"body", "syslog"})
        BY <1>0, <2>1 DEF LogLocked
    <2>6. Len(ltext[s]) > 0 /\ ltext[s][Len(ltext[s])] = [by |-> t, part |-> "head"]
        BY <1>0, <2>0, <2>1, <2>4, Zenon DEF LogTexts, InLine
    <2>6a. \A x \in LogSinks : x # s => ~(Len(ltext[x]) > 0 /\ ltext[x][Len(ltext[x])].part = "head")
        BY <1>0, <2>0, <2>5 DEF LogTexts, InLine
    <2>7. /\ ltext' = [x \in LogSinks |-> ltext'[x]] /\ \A x \in LogSinks : ltext'[x] \in Seq(LogPart)
          /\ \A x \in LogSinks : x # s => ltext'[x] = ltext[x]
          /\ WholeText(ltext'[s]) /\ Len(ltext'[s]) > 0 /\ ltext'[s][Len(ltext'[s])] = e
          /\ \A u \in LogThreads, x \in LogSinks : ShownBy(u, x) => ShownBy(u, x)'
        <3>1. Len(ltext[s]) > 0 /\ ltext[s][Len(ltext[s])].part = "head" => e = [by |-> ltext[s][Len(ltext[s])].by, part |-> "end"]
            BY <2>0, <2>6
        <3>2. ltext' = [ltext EXCEPT ![s] = Append(@, e)]
            BY <2>1, Zenon
        <3> QED
            BY <1>0, <2>4, <3>1, <3>2, TextMoves, ZenonT(60)
    <2>8. LogTyped'
        <3>1. lcall'[t].sinks \in SinkLists /\ lcall'[t].sinks # <<>>
            BY <1>00, <2>3, <2>4, ZenonT(60)
        <3> QED
            BY <1>0, <2>3, <2>3a, <2>7, <3>1, LogTypedStep, ZenonT(60)
    <2>9. LogLocked'
        BY <2>1, <2>3, <2>5, LoggerAssumption DEF LogLocked, OthersRest
    <2>10. LogTexts'
        <3>1. \A u \in LogThreads, x \in LogSinks : ~InLine(u, x)'
            BY <2>3, <2>5 DEF InLine, OthersRest
        <3>2. ASSUME NEW x \in LogSinks, x # s
              PROVE  WholeText(ltext'[x]) /\ ~(Len(ltext'[x]) > 0 /\ ltext'[x][Len(ltext'[x])].part = "head")
            BY <1>0, <2>6a, <2>7, <3>2, ZenonT(60) DEF LogTexts
        <3>3. \A x \in LogSinks : WholeText(ltext'[x])
            BY <2>7, <3>2, Zenon
        <3>4. e.part # "head"
            BY <2>0
        <3>5. \A x \in LogSinks : ~(Len(ltext'[x]) > 0 /\ ltext'[x][Len(ltext'[x])].part = "head")
            BY <2>7, <3>2, <3>4, Zenon
        <3> QED
            BY <3>1, <3>3, <3>5, Zenon DEF LogTexts, WholeText
    <2>11. LogSaved'
        <3>1. ASSUME t \notin lraced' PROVE Undisturbed(t)'
            <4>1. Undisturbed(t)
                BY <1>0, <2>1, <3>1, Zenon DEF LogSaved
            <4> QED
                BY <2>1, <2>3, <4>1 DEF Undisturbed
        <3>2. \A u \in LogThreads : u # t => (u \in lraced' <=> u \in lraced)
            BY <2>1, Zenon
        <3> QED
            BY <1>0, <2>1, <2>3, <2>3a, <3>1, <3>2, LogSavedStep, ZenonT(60)
    <2>12. LogReached'
        <3>1. ToWrite(t) = lcall[t].sinks /\ ToWrite(t)' = Tail(lcall[t].sinks) /\ lcall[t].pc # "idle"
            BY <2>1, <2>3 DEF ToWrite
        <3>2. ShownBy(t, s)'
            <4>1. Len(ltext'[s]) \in Nat
                BY <2>4, <2>7
            <4>2. Len(ltext'[s]) \in 1..Len(ltext'[s])
                BY <2>7, <4>1
            <4> QED
                BY <2>0, <2>7, <4>2, Zenon DEF ShownBy
        <3>3. \A x \in LogSinks : LogOpen(x) => Still(ToWrite(t)', x) \/ ShownBy(t, x)'
            <4>1. \A x \in LogSinks : LogOpen(x) => Still(lcall[t].sinks, x) \/ ShownBy(t, x)
                BY <1>0, <3>1, Zenon DEF LogReached
            <4>2. \A x \in LogSinks : Still(lcall[t].sinks, x) => x = s \/ Still(Tail(lcall[t].sinks), x)
                BY <1>00, <2>0, <2>4, SinkFacts, ZenonT(60)
            <4> QED
                BY <2>7, <3>1, <3>2, <4>1, <4>2, Zenon
        <3>9. lcall'[t].pc = "syslog" => Head(lcall'[t].sinks) = "file" /\ ~log_file
            BY <2>3
        <3> QED
            BY <1>0, <2>1, <2>3, <2>7, <3>3, <3>9, LogReachedStep, ZenonT(60)
    <2> QED
        BY <2>8, <2>9, <2>10, <2>11, <2>12, Zenon DEF LogInv
<1>10. ASSUME NEW t \in LogThreads, LogRestore(t) PROVE LogInv'
    <2>1. /\ ~lexited /\ lcall[t].pc = "restore" /\ ltext' = ltext /\ lmutex' = lmutex
          /\ last_error_code' = last_error_code /\ lexited' = lexited /\ lraced' = lraced
          /\ output' = output /\ log_file' = log_file
        BY <1>10, Zenon DEF LogRestore
    <2>2. lcall' = [lcall EXCEPT ![t] = [lcall[t] EXCEPT !.pc = "next", !.sinks = Tail(lcall[t].sinks)]]
        BY <1>10, Zenon DEF LogRestore
    <2>3. OthersRest(t) /\ lcall'[t].pc = "next" /\ lcall'[t].sinks = Tail(lcall[t].sinks) /\ lcall'[t].err = lcall[t].err
          /\ lcall'[t].shown = lcall[t].shown
        BY <1>0, <2>2, CallAfterFacts, ZenonT(60) DEF OthersRest
    <2>3a. /\ lerrno' = [u \in LogThreads |-> lerrno'[u]] /\ lerrno'[t] = last_error_code
           /\ \A u \in LogThreads : u # t => lerrno'[u] = lerrno[u]
        <3>1. lerrno' = [lerrno EXCEPT ![t] = last_error_code]
            BY <1>10, Zenon DEF LogRestore, restore_last_error_code
        <3> QED
            BY <1>0, <3>1, Zenon DEF LogTyped
    <2>4. lcall[t].sinks # <<>> /\ Tail(lcall[t].sinks) \in SinkLists
        <3>1. lcall[t].sinks # <<>>
            BY <1>0, <2>1 DEF LogTyped
        <3> QED
            BY <1>00, <3>1, SinkFacts, Zenon
    <2>5. LogTyped'
        <3>1. lcall'[t].sinks \in SinkLists
            BY <2>3, <2>4, Zenon
        <3>2. ltext' = [s \in LogSinks |-> ltext'[s]] /\ \A s \in LogSinks : ltext'[s] \in Seq(LogPart)
            BY <1>0, <2>1, Zenon DEF LogTyped
        <3>3. lcall'[t].pc \in {"lock", "body", "restore", "syslog"} => lcall'[t].sinks # <<>>
            BY <2>3
        <3> QED
            BY <1>0, <2>3, <2>3a, <3>1, <3>2, <3>3, LogTypedStep, ZenonT(60)
    <2>6. LogLocked'
        BY <1>0, <2>1, <2>3, LoggerAssumption DEF LogLocked, OthersRest
    <2>7. LogTexts'
        <3>1. (lcall'[t].pc = "body" <=> lcall[t].pc = "body") /\ lcall[t].pc # "body"
            BY <2>1, <2>3
        <3> QED
            BY <1>0, <2>1, <2>3, <3>1, LogTextsStep, ZenonT(60)
    <2>8. LogSaved'
        <3>1. ASSUME t \notin lraced' PROVE Undisturbed(t)'
            <4>1. Undisturbed(t)
                BY <1>0, <2>1, <3>1, Zenon DEF LogSaved
            <4> QED
                BY <2>1, <2>3, <2>3a, <4>1 DEF Undisturbed
        <3>2. \A u \in LogThreads : u # t => (u \in lraced' <=> u \in lraced)
            BY <2>1, Zenon
        <3> QED
            BY <1>0, <2>1, <2>3, <2>3a, <3>1, <3>2, LogSavedStep, ZenonT(60)
    <2>9. LogReached'
        <3>1. ToWrite(t)' = Tail(lcall[t].sinks) /\ lcall[t].pc # "idle"
            BY <2>1, <2>3 DEF ToWrite
        <3>2. \A u \in LogThreads, s \in LogSinks : ShownBy(u, s) => ShownBy(u, s)'
            BY <2>1, ShownSame, Zenon
        <3>3. \A s \in LogSinks : LogOpen(s) => Still(ToWrite(t)', s) \/ ShownBy(t, s)'
            <4>1. ToWrite(t) = Tail(lcall[t].sinks)
                BY <2>1 DEF ToWrite
            <4> QED
                BY <1>0, <3>1, <3>2, <4>1, Zenon DEF LogReached
        <3>9. lcall'[t].pc = "syslog" => Head(lcall'[t].sinks) = "file" /\ ~log_file
            BY <2>3
        <3> QED
            BY <1>0, <2>1, <2>3, <3>2, <3>3, <3>9, LogReachedStep, ZenonT(60)
    <2> QED
        BY <2>5, <2>6, <2>7, <2>8, <2>9, Zenon DEF LogInv
<1>11. ASSUME NEW t \in LogThreads, LogSyslog(t) PROVE LogInv'
    <2>1. /\ ~lexited /\ lcall[t].pc = "syslog" /\ ltext' = ltext /\ lmutex' = NoThread
          /\ last_error_code' = last_error_code /\ lexited' = lexited /\ lraced' = lraced
          /\ output' = output /\ log_file' = log_file
        BY <1>11, Zenon DEF LogSyslog
    <2>2. lcall' = [lcall EXCEPT ![t] = [lcall[t] EXCEPT !.pc = "next", !.sinks = Tail(lcall[t].sinks)]]
        BY <1>11, Zenon DEF LogSyslog
    <2>3. OthersRest(t) /\ lcall'[t].pc = "next" /\ lcall'[t].sinks = Tail(lcall[t].sinks) /\ lcall'[t].err = lcall[t].err
          /\ lcall'[t].shown = lcall[t].shown
        BY <1>0, <2>2, CallAfterFacts, ZenonT(60) DEF OthersRest
    <2>3a. /\ lerrno' = [u \in LogThreads |-> lerrno'[u]] /\ lerrno'[t] = lerrno[t]
           /\ \A u \in LogThreads : u # t => lerrno'[u] = lerrno[u]
        BY <1>0, <1>11, ZenonT(60) DEF LogSyslog, LogTyped
    <2>4. lcall[t].sinks # <<>> /\ Tail(lcall[t].sinks) \in SinkLists
        <3>1. lcall[t].sinks # <<>>
            BY <1>0, <2>1 DEF LogTyped
        <3> QED
            BY <1>00, <3>1, SinkFacts, Zenon
    <2>5. LogTyped'
        <3>1. lcall'[t].sinks \in SinkLists
            BY <2>3, <2>4, Zenon
        <3>2. ltext' = [s \in LogSinks |-> ltext'[s]] /\ \A s \in LogSinks : ltext'[s] \in Seq(LogPart)
            BY <1>0, <2>1, Zenon DEF LogTyped
        <3>3. lcall'[t].pc \in {"lock", "body", "restore", "syslog"} => lcall'[t].sinks # <<>>
            BY <2>3
        <3> QED
            BY <1>0, <2>3, <2>3a, <3>1, <3>2, <3>3, LogTypedStep, ZenonT(60)
    <2>6. LogLocked'
        BY <1>0, <2>1, <2>3, LoggerAssumption DEF LogLocked, OthersRest
    <2>7. LogTexts'
        <3>1. (lcall'[t].pc = "body" <=> lcall[t].pc = "body") /\ lcall[t].pc # "body"
            BY <2>1, <2>3
        <3> QED
            BY <1>0, <2>1, <2>3, <3>1, LogTextsStep, ZenonT(60)
    <2>8. LogSaved'
        <3>1. ASSUME t \notin lraced' PROVE Undisturbed(t)'
            <4>1. Undisturbed(t)
                BY <1>0, <2>1, <3>1, Zenon DEF LogSaved
            <4> QED
                BY <2>1, <2>3, <2>3a, <4>1 DEF Undisturbed
        <3>2. \A u \in LogThreads : u # t => (u \in lraced' <=> u \in lraced)
            BY <2>1, Zenon
        <3> QED
            BY <1>0, <2>1, <2>3, <2>3a, <3>1, <3>2, LogSavedStep, ZenonT(60)
    <2>9. LogReached'
        <3>1. ToWrite(t)' = Tail(lcall[t].sinks) /\ lcall[t].pc # "idle"
            BY <2>1, <2>3 DEF ToWrite
        <3>2. \A u \in LogThreads, s \in LogSinks : ShownBy(u, s) => ShownBy(u, s)'
            BY <2>1, ShownSame, Zenon
        <3>3. \A s \in LogSinks : LogOpen(s) => Still(ToWrite(t)', s) \/ ShownBy(t, s)'
            <4>1. ToWrite(t) = lcall[t].sinks
                BY <2>1 DEF ToWrite
            <4>2. \A s \in LogSinks : LogOpen(s) => Still(lcall[t].sinks, s) \/ ShownBy(t, s)
                BY <1>0, <3>1, <4>1, Zenon DEF LogReached
            <4>3. \A s \in LogSinks : Still(lcall[t].sinks, s) => s = Head(lcall[t].sinks) \/ Still(Tail(lcall[t].sinks), s)
                BY <1>00, <2>4, SinkFacts, Zenon
            <4>4. \A s \in LogSinks : LogOpen(s) => s # Head(lcall[t].sinks)
                BY <1>0, <2>1 DEF LogReached, LogOpen
            <4> QED
                BY <3>1, <3>2, <4>2, <4>3, <4>4, ZenonT(60)
        <3>9. lcall'[t].pc = "syslog" => Head(lcall'[t].sinks) = "file" /\ ~log_file
            BY <2>3
        <3> QED
            BY <1>0, <2>1, <2>3, <3>2, <3>3, <3>9, LogReachedStep, ZenonT(60)
    <2> QED
        BY <2>5, <2>6, <2>7, <2>8, <2>9, Zenon DEF LogInv
<1> QED
    BY <1>1, <1>2, <1>3, <1>4, <1>5, <1>6, <1>7, <1>8, <1>9, <1>10, <1>11, ZenonT(60) DEF LoggerNext

\* Lines of different threads never mix, a thread's errno survives its message
\* unless another thread saved its own in between, and a critical message is
\* in every open sink before the program ends (core_logger.c).
THEOREM LoggerKeepsLines == LoggerSpec => []LogSound
<1>1. LogInv /\ [LoggerNext]_logVars => LogInv'
    BY LogInvNext, Zenon
<1> QED
    BY <1>1, LogInvInit, LogInvExact, PTL DEF LoggerSpec

=============================================================================
