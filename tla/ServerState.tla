---------------------------- MODULE ServerState -----------------------------
(***************************************************************************)
(* The state of the server core (core_server.c, core_http.c): one event    *)
(* thread around epoll, worker threads that run handlers, and what they    *)
(* share: the list of request structures, wmutex, the epoll registrations, *)
(* the keep-alive table and the descriptors, which the kernel reuses.  The *)
(* steps are in EventThread and WorkerThreads; Server puts them together.  *)
(*                                                                         *)
(* Requests are reduced to how they are answered ("static": by the event   *)
(* thread, "handler": by a worker) and whether they ask for keep-alive.    *)
(* The hand-over is TaskPool, which WorkQueue implements; the keep-alive   *)
(* pool is a table indexed by socket, FragPool being its memory.           *)
(***************************************************************************)
EXTENDS Integers, Sequences, FiniteSets

CONSTANTS
    Conns,          \* connections clients may open, each at most once
    Client,         \* Client[c]: the address connection c comes from
    NFds,           \* descriptors the process may have for connections
    Prealloc,       \* config.prealloc_request_structures
    Workers,        \* worker threads
    Kinds,          \* requests clients send: records [kind, ka]
    MaxReq,         \* bound: requests on one connection
    MaxPerClient,   \* config.keepalive_max_conn_per_client
    MaxKeep,        \* keepalive_max_conn
    FreeIdle,       \* config.idle_request_structures: free or keep
    PartialReads,   \* requests may arrive in two pieces
    PartialWrites,  \* responses may exceed the socket buffer
    HalfCloses,     \* clients may stop sending
    MaxResets,      \* bound: connections clients reset
    MasksOverlap,   \* two threads may be inside the same set_epoll*_event_mask
    None

\* core_config.c accepts neither fewer than two structures nor fewer than two
\* threads; here it only matters that there is a list.
ASSUME ServerAssumption ==
    /\ Prealloc \in Nat \ {0} /\ NFds \in Nat
    /\ None \notin Conns /\ None \notin Workers /\ None \notin 1..(Prealloc + NFds)
    /\ FreeIdle \in BOOLEAN

VARIABLES
    conn,       \* each connection, as its client and the kernel see it
    log,        \* log[c]: the requests whose responses were written to c
    edge,       \* the listening socket has an unreported (edge) event
    fdt,        \* fdt[f]: the connection open under descriptor f, or None
    reg,        \* reg[f]: epoll registration of f, [mask, data]
    ev,         \* data.fd of the static epoll_event of the in and out setters
    vec,        \* requests_vector: the structures, in list order
    rs,         \* rs[r]: the fields of request structure r
    keep,       \* keepalive_sockets by socket: "no", "fresh" or "old"
    pending,    \* how often each structure waits in wr_queue
    wmutex,     \* the worker that holds wmutex, or None
    epc, cur, batch,    \* event thread: where, structure (or position) at hand, events left
    wpc, wr, wresp      \* workers: where, structure, request being answered

envVars == <<conn, log, edge>>
kernel == <<fdt, reg>>
event == <<epc, cur, batch>>
work == <<wpc, wr, wresp>>
vars == <<conn, log, edge, fdt, reg, ev, vec, rs, keep, pending, wmutex, epc, cur, batch, wpc, wr, wresp>>

Pool == INSTANCE TaskPool WITH Requests <- 1..(Prealloc + NFds), running <- wr

Fds == 1..NFds
NoFd == 0           \* sock = -1
Structs == 1..(Prealloc + NFds)
NoReg == [mask |-> "none", data |-> NoFd]
Idle == [sock |-> NoFd, keepalive |-> FALSE, out |-> 0, req |-> <<>>]
NoConn == [st |-> "none", phase |-> "idle", half |-> FALSE, inb |-> <<>>, sent |-> 0,
           eof |-> FALSE, rst |-> FALSE, ka |-> FALSE]

-----------------------------------------------------------------------------
(* Operations shared by the threads.                                       *)

IsOpen(f) == f # NoFd /\ fdt[f] # None
Works(f) == f # NoFd /\ fdt[f] # None /\ ~conn[fdt[f]].rst

\* socket_close(S): EBADF for a descriptor that is not open.
CloseFds(S) ==
    LET gone == {fdt[f] : f \in {g \in S : IsOpen(g)}}
    IN  /\ fdt' = [f \in Fds |-> IF f \in S THEN None ELSE fdt[f]]
        /\ reg' = [f \in Fds |-> IF f \in S THEN NoReg ELSE reg[f]]
        /\ conn' = [c \in Conns |-> IF c \in gone
                        THEN [NoConn EXCEPT !.st = "closed", !.sent = conn[c].sent, !.rst = conn[c].rst] ELSE conn[c]]

\* epoll_ctl(EPOLL_CTL_MOD) of set_epoll*_event_mask and disable_events_for_socket.
EpollMod(f, mask, data) ==
    reg' = [g \in Fds |-> IF g = f /\ IsOpen(f) THEN [mask |-> mask, data |-> data] ELSE reg[g]]

\* http_cleanup, the part after the socket: the structure is idle again.
Clear(r) == rs' = [rs EXCEPT ![r] = Idle]

\* writev in http_send: the response id goes to the connection under f.
Written(f, id, whole) ==
    /\ log' = [log EXCEPT ![fdt[f]] = Append(@, id)]
    /\ conn' = [conn EXCEPT ![fdt[f]].phase = IF whole THEN "idle" ELSE @]

InSetter(pc) == epc = pc \/ \E w \in Workers : wpc[w] = pc
MayEnter(pc) == MasksOverlap \/ ~InSetter(pc)

Bound(f) == {i \in DOMAIN vec : rs[vec[i]].sock = f}
First(S) == CHOOSE i \in S : \A j \in S : i <= j

\* The common part of event_find_request and event_fetch_request: positions of
\* the socket's structures, or of the idle ones when it has none.
FindIdleOnly(f) == Bound(NoFd)          \* mutant: the first loop is gone
FindBoundOnly(f) == Bound(f)            \* mutant: the second loop is gone
FindAny(f) == DOMAIN vec                \* mutant: sock == -1 is not tested
FindRequest(f) == IF Bound(f) # {} THEN Bound(f) ELSE Bound(NoFd)

\* Memory for one more structure (allocator_malloc in event_fetch_request).
NewStruct == First({r \in Structs : \A i \in DOMAIN vec : vec[i] # r})

-----------------------------------------------------------------------------
(* What must hold of the list, the sockets and the hand-over.               *)

Held == {r \in Structs : pending[r] > 0} \cup {wr[w] : w \in {v \in Workers : wr[v] # None}}

\* No two structures work on one socket, so a find by socket is unambiguous.
OneStructPerSocket ==
    \A i, j \in DOMAIN vec :
        rs[vec[i]].sock = rs[vec[j]].sock => i = j \/ rs[vec[i]].sock = NoFd

\* The list grows only when every structure is busy, hence never beyond the
\* number of descriptors (or of preallocated structures).
ListBounded == Len(vec) <= Prealloc \/ Len(vec) <= NFds

\* A socket whose read events are off has a structure that will turn them on
\* again or close it; otherwise its client would wait for ever.
NobodyForgotten ==
    \A f \in Fds : IsOpen(f) /\ reg[f].mask # "in" => Bound(f) # {}

=============================================================================
