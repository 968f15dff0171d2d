------------------------------- MODULE Process ------------------------------
(***************************************************************************)
(* The processes of the server (core_process.c, main.c and init, quit_ex   *)
(* of core_server.c): the program is started, binds its socket, records    *)
(* its pid as master and forks a worker, again and again as workers crash  *)
(* or restart themselves.  Signals come from the --kill option, which      *)
(* reads the pid file, or from elsewhere.  Release build (DEBUG_LEVEL 0).  *)
(***************************************************************************)
EXTENDS Integers, FiniteSets

CONSTANTS
    Pids,               \* process ids
    None,
    Restarts,           \* restart-timeout is set
    MaxFails,           \* the 10 of spawn_worker
    RemoveFails,        \* the worker's user may be unable to remove the file
    SignalAfterFork     \* signals may arrive before worker_pid is assigned

ASSUME ProcessAssumption == None \notin Pids /\ MaxFails \in 0..254

VARIABLES
    pc,         \* where each process is; "none" for a pid not in use
    wp,         \* worker_pid in each process, or None
    parent,     \* the process that may wait for this one, or None
    status,     \* how a process ended or is about to end
    quick,      \* at most one second has passed since the process was forked
    fails,      \* respawn_fails
    sig,        \* processes a SIGTERM, SIGINT or SIGQUIT is pending for
    pidfile,    \* the pid in the pid file, None when there is no file
    streak      \* history: crashes within a second since the last other crash

pvars == <<wp, parent, status, quick, fails, streak>>
vars == <<pc, pvars, sig, pidfile>>

Init ==
    /\ pc = [p \in Pids |-> "none"]
    /\ wp = [p \in Pids |-> None] /\ parent = [p \in Pids |-> None]
    /\ status = [p \in Pids |-> "exit"] /\ quick = [p \in Pids |-> FALSE]
    /\ fails = 0 /\ streak = 0 /\ sig = {} /\ pidfile = None

\* "kill" and "reap" are quit_master, which a worker that has not come to
\* setup_signals(quit) yet inherits from the master.
Booting == {"bind", "create", "write"}
MasterAt == {"fork", "assign", "wait", "kill", "reap"}
WorkerAt == {"start", "run", "stop", "remove"}
Live == {p \in Pids : pc[p] \in WorkerAt \/ (pc[p] \in {"kill", "reap"} /\ parent[p] # None)}
InUse == {p \in Pids : pc[p] # "none"}
HoldsSocket(p) == pc[p] \in {"create", "write"} \cup MasterAt \cup (WorkerAt \ {"remove"})

Go(p, from, to) == pc[p] = from /\ pc' = [pc EXCEPT ![p] = to]

\* What becomes of the processes when p ends: a child whose parent waits for it
\* becomes a zombie, others vanish; p's own zombies are reaped by init.
Ended(p) ==
    [q \in Pids |->
        IF q = p THEN (IF parent[p] = None THEN "none" ELSE "zombie")
        ELSE IF parent[q] = p /\ pc[q] = "zombie" THEN "none" ELSE pc[q]]
Orphaned(p) == [q \in Pids |-> IF parent[q] = p THEN None ELSE parent[q]]
Exit(p, s) ==
    /\ pc' = Ended(p)
    /\ parent' = Orphaned(p)
    /\ status' = [status EXCEPT ![p] = IF parent[p] = None THEN "exit" ELSE s]
    /\ wp' = [wp EXCEPT ![p] = None]
    /\ sig' = sig \ {p}

-----------------------------------------------------------------------------
(* Starting: main, init, create_pidfile.                                   *)

Start(p) ==
    /\ Go(p, "none", "bind")
    /\ parent' = [parent EXCEPT ![p] = None]
    /\ UNCHANGED <<wp, status, quick, fails, streak, sig, pidfile>>

\* connect_to_socket: bind fails while any process has the socket open.
Bind(p) ==
    /\ pc[p] = "bind"
    /\ IF \E q \in Pids : HoldsSocket(q) THEN Exit(p, "exit")
       ELSE Go(p, "bind", "create") /\ UNCHANGED <<wp, parent, status, sig>>
    /\ UNCHANGED <<quick, fails, streak, pidfile>>

\* create_pidfile: no file, or the pid of a process that does not exist, is
\* overwritten; the own pid is left; any other means "already running".
CreatePidfileTrusting(p) ==    \* mutant: the process in the file is not looked up
    /\ pc[p] = "create"
    /\ Go(p, "create", IF pidfile = None THEN "write" ELSE "fork")
    /\ fails' = 0 /\ streak' = 0
    /\ UNCHANGED <<wp, parent, status, quick, sig, pidfile>>
CreatePidfile(p) ==
    /\ pc[p] = "create"
    /\ fails' = 0 /\ streak' = 0
    /\ \/ pidfile \notin InUse /\ Go(p, "create", "write") /\ UNCHANGED <<wp, parent, status, sig>>
       \/ pidfile = p /\ Go(p, "create", "fork") /\ UNCHANGED <<wp, parent, status, sig>>
       \/ pidfile \in InUse \ {p} /\ Exit(p, "exit")
    /\ UNCHANGED <<quick, pidfile>>

WritePidfile(p) ==
    /\ Go(p, "write", "fork")
    /\ pidfile' = p
    /\ UNCHANGED <<pvars, sig>>

-----------------------------------------------------------------------------
(* The master: spawn_worker, quit_master.                                  *)

Fork(p, c) ==
    /\ pc[p] = "fork" /\ pc[c] = "none"
    /\ pc' = [pc EXCEPT ![p] = "assign", ![c] = "start"]
    /\ parent' = [parent EXCEPT ![c] = p]
    /\ wp' = [wp EXCEPT ![c] = wp[p]]
    /\ quick' = [quick EXCEPT ![c] = TRUE]
    /\ UNCHANGED <<status, fails, streak, sig, pidfile>>

ForkFails(p) == pc[p] = "fork" /\ Exit(p, "exit") /\ UNCHANGED <<quick, fails, streak, pidfile>>

\* worker_pid = pid
Assign(p) ==
    /\ Go(p, "assign", "wait")
    /\ wp' = [wp EXCEPT ![p] = CHOOSE c \in Pids : parent[c] = p]
    /\ UNCHANGED <<parent, status, quick, fails, streak, sig, pidfile>>

\* respawn_fails after a crash, an unsigned char.
FailsStuck(c) == IF quick[c] THEN fails ELSE 0      \* mutant: quick crashes are not counted
Fails(c) == IF quick[c] THEN (fails + 1) % 256 ELSE 0

\* waitpid returns: on with the loop, or the end.
Wait(p) ==
    LET c == wp[p]
        crash == status[c] = "signal"
        done == status[c] = "exit" \/ (crash /\ Fails(c) > MaxFails)
    IN  /\ pc[p] = "wait" /\ pc[c] = "zombie"
        /\ fails' = IF crash THEN Fails(c) ELSE fails
        /\ streak' = IF ~crash THEN streak ELSE IF quick[c] THEN streak + 1 ELSE 0
        /\ pc' = [pc EXCEPT ![c] = "none", ![p] = IF done THEN "none" ELSE "fork"]
        /\ parent' = [parent EXCEPT ![c] = None]
        /\ sig' = IF done THEN sig \ {p} ELSE sig
        /\ wp' = IF done THEN [wp EXCEPT ![p] = None] ELSE wp
        /\ quick' = [quick EXCEPT ![c] = FALSE] /\ status' = [status EXCEPT ![c] = "exit"]
        /\ UNCHANGED pidfile

\* quit_master: pass the signal on to worker_pid, whatever it is by now ...
QuitForgetful(p) ==            \* mutant: the worker is not told
    Go(p, "kill", "reap") /\ UNCHANGED <<pvars, sig, pidfile>>
QuitKill(p) ==
    /\ Go(p, "kill", "reap")
    /\ sig' = IF wp[p] \in Pids \ {p} /\ pc[wp[p]] \notin {"none", "zombie"} THEN sig \cup {wp[p]} ELSE sig
    /\ UNCHANGED <<pvars, pidfile>>

\* ... wait for it (for any child when worker_pid is 0), and exit.
Awaited(p) == {c \in Pids : parent[c] = p /\ wp[p] \in {c, None}}
QuitHasty(p) == pc[p] = "reap" /\ Exit(p, "exit") /\ UNCHANGED <<quick, fails, streak, pidfile>>   \* mutant: no waitpid
QuitReap(p) ==
    /\ pc[p] = "reap"
    /\ \A c \in Awaited(p) : pc[c] = "zombie"
    /\ Exit(p, "exit")
    /\ UNCHANGED <<quick, fails, streak, pidfile>>

-----------------------------------------------------------------------------
(* The worker: end of spawn_worker and init, event_iter, quit_ex.          *)

Ready(c) == Go(c, "start", "run") /\ wp' = [wp EXCEPT ![c] = c]
            /\ UNCHANGED <<parent, status, quick, fails, streak, sig, pidfile>>

\* The configured user does not exist.
NoUser(c) == pc[c] = "start" /\ Exit(c, "exit") /\ UNCHANGED <<quick, fails, streak, pidfile>>

\* event_iter: the restart timeout is over.
Restart(c) ==
    /\ Restarts /\ Go(c, "run", "stop")
    /\ status' = [status EXCEPT ![c] = "restart"]
    /\ UNCHANGED <<wp, parent, quick, fails, streak, sig, pidfile>>

\* http_terminate and the close of the socket.
Terminate(c) == Go(c, "stop", "remove") /\ UNCHANGED <<pvars, sig, pidfile>>

\* remove_pidfile and exit.
RemovePidfile(c) ==
    /\ pc[c] = "remove"
    /\ pidfile' = None \/ (RemoveFails /\ UNCHANGED pidfile)
    /\ Exit(c, status[c])
    /\ UNCHANGED <<quick, fails, streak>>

-----------------------------------------------------------------------------
(* Signals, crashes, time and other programs.                              *)

\* A pending signal is handled: by default, by quit_master, by quit (which
\* returns at once when quit_ex has begun), or by another program.
Handle(p) ==
    /\ p \in sig
    /\ pc[p] = "assign" => SignalAfterFork
    /\ \/ pc[p] \in Booting \cup {"other"} /\ Exit(p, "signal")
       \/ /\ pc[p] \in {"fork", "assign", "wait", "start"}
          /\ pc' = [pc EXCEPT ![p] = "kill"] /\ sig' = sig \ {p} /\ UNCHANGED <<wp, parent, status>>
       \/ /\ Go(p, "run", "stop")
          /\ status' = [status EXCEPT ![p] = "exit"] /\ sig' = sig \ {p} /\ UNCHANGED <<wp, parent>>
       \/ pc[p] \in {"kill", "reap", "stop", "remove"} /\ sig' = sig \ {p} /\ UNCHANGED <<pc, wp, parent, status>>
    /\ UNCHANGED <<quick, fails, streak, pidfile>>

Send(p) ==
    /\ pc[p] \notin {"none", "zombie"} /\ sig' = sig \cup {p}
    /\ UNCHANGED <<pc, pvars, pidfile>>

\* opentube --kill: kill_master_process.
KillMaster == pidfile # None /\ Send(pidfile)

\* A signal from elsewhere to one of the server's processes.
Signal(p) == pc[p] # "other" /\ Send(p)

\* A worker that is not in quit_ex's last steps is killed by a fault.
Crash(c) ==
    /\ pc[c] \in {"start", "run", "stop"} /\ Exit(c, "signal")
    /\ UNCHANGED <<quick, fails, streak, pidfile>>

\* More than a second has passed.
Age(c) ==
    /\ pc[c] # "none" /\ quick[c] /\ quick' = [quick EXCEPT ![c] = FALSE]
    /\ UNCHANGED <<pc, wp, parent, status, fails, sig, streak, pidfile>>

\* The kernel gives a pid to another program, which ends some time.
OtherEnd(p) == pc[p] = "other" /\ Exit(p, "exit") /\ UNCHANGED <<quick, fails, streak, pidfile>>
Other(p) == Go(p, "none", "other") /\ parent' = [parent EXCEPT ![p] = None]
            /\ UNCHANGED <<wp, status, quick, fails, streak, sig, pidfile>>

-----------------------------------------------------------------------------
Boot(p) == Bind(p) \/ CreatePidfile(p) \/ WritePidfile(p)
Master(p) ==
    \/ (\E c \in Pids : Fork(p, c)) \/ ForkFails(p) \/ Assign(p) \/ Wait(p)
    \/ QuitKill(p) \/ QuitReap(p)
Worker(c) == Ready(c) \/ NoUser(c) \/ Restart(c) \/ Terminate(c) \/ RemovePidfile(c)
World(p) == Start(p) \/ Signal(p) \/ Crash(p) \/ Age(p) \/ Other(p) \/ OtherEnd(p)

Next ==
    \/ \E p \in Pids : Boot(p) \/ Master(p) \/ Worker(p) \/ Handle(p) \/ World(p)
    \/ KillMaster

Spec == Init /\ [][Next]_vars

\* Processes are scheduled, signals delivered, and quit_ex gets through
\* http_terminate.  Nothing makes anybody start, signal or crash them.
FairSpec ==
    /\ Spec
    /\ \A p \in Pids : /\ WF_vars(Master(p)) /\ SF_vars(Handle(p))
                       /\ WF_vars(Ready(p) \/ Terminate(p) \/ RemovePidfile(p))

-----------------------------------------------------------------------------
(* Properties.                                                             *)

TypeOK ==
    /\ pc \in [Pids -> {"none", "zombie", "other"} \cup Booting \cup MasterAt \cup WorkerAt]
    /\ wp \in [Pids -> Pids \cup {None}] /\ parent \in [Pids -> Pids \cup {None}]
    /\ status \in [Pids -> {"exit", "restart", "signal"}] /\ quick \in [Pids -> BOOLEAN]
    /\ fails \in 0..255 /\ sig \subseteq Pids /\ pidfile \in Pids \cup {None}

\* A worker always has a living master that will wait for it, so there is one
\* worker at a time and none outlives its master (spawn_worker, quit_master).
NoOrphan ==
    /\ \A c \in Live : parent[c] # None /\ pc[parent[c]] \in {"assign", "wait", "kill", "reap"}
    /\ Cardinality(Live) <= 1

\* While a worker serves, the pid file is its master's or is missing, never
\* another process's, whatever file create_pidfile found at the start.
PidFileNotForeign ==
    \A c \in Pids : pc[c] = "run" => pidfile \in {parent[c], None}

\* create_pidfile and remove_pidfile against server.conf: "File where the server records PID of the master process."
\* While a worker serves, the file names its master.
PidFileNamesMaster ==
    \A c \in Pids : pc[c] = "run" => pidfile = parent[c]

\* respawn_fails is the number of crashes in a row within a second of the fork,
\* and the master gives up at the eleventh, however crashes, scheduled restarts
\* and time mix (spawn_worker).
CrashLoopEnds ==
    (\E p \in Pids : pc[p] \in {"fork", "assign", "wait"}) => fails = streak /\ streak <= MaxFails

\* A master that gets SIGTERM ends (quit_master); NoOrphan says that its worker
\* has ended before it.
StopCompletes ==
    \A p \in Pids : (p \in sig /\ pc[p] \in MasterAt) ~> (pc[p] = "none")

=============================================================================
