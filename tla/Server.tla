------------------------------- MODULE Server -------------------------------
(* The server core: clients, the event thread and the worker threads.      *)
EXTENDS EventThread, WorkerThreads

Init ==
    /\ conn = [c \in Conns |-> NoConn] /\ log = [c \in Conns |-> <<>>] /\ edge = FALSE
    /\ fdt = [f \in Fds |-> None] /\ reg = [f \in Fds |-> NoReg]
    /\ ev = [in |-> NoFd, out |-> NoFd]
    /\ vec = [i \in 1..Prealloc |-> i] /\ rs = [r \in Structs |-> Idle]
    /\ keep = [f \in Fds |-> "no"]
    /\ Pool!Init /\ wmutex = None
    /\ epc = "iter" /\ cur = 0 /\ batch = {}
    /\ wpc = [w \in Workers |-> "idle"]
    /\ wresp = [w \in Workers |-> <<>>]

-----------------------------------------------------------------------------
(* Clients.  A client waits for each response before its next request.     *)

Connect(c) ==
    /\ conn[c].st = "none"
    /\ conn' = [conn EXCEPT ![c].st = "backlog"]
    /\ edge' = TRUE
    /\ UNCHANGED <<log, kernel, ev, vec, rs, keep, pending, wmutex, event, work>>

Sends(c) == conn[c].st \in {"backlog", "open"} /\ ~conn[c].eof /\ ~conn[c].rst
ClientOnly == UNCHANGED <<log, edge, kernel, ev, vec, rs, keep, pending, wmutex, event, work>>

SendPart(c) ==
    /\ PartialReads /\ Sends(c) /\ conn[c].phase = "idle" /\ conn[c].sent < MaxReq
    /\ conn' = [conn EXCEPT ![c].phase = "part", ![c].half = TRUE]
    /\ ClientOnly

SendRequest(c, k) ==
    /\ Sends(c) /\ conn[c].phase \in {"idle", "part"} /\ conn[c].sent < MaxReq
    /\ conn' = [conn EXCEPT ![c].phase = "wait", ![c].half = FALSE, ![c].sent = @ + 1,
                            ![c].inb = <<[kind |-> k.kind, ka |-> k.ka, id |-> <<c, conn[c].sent + 1>>]>>]
    /\ ClientOnly

HalfClose(c) ==
    /\ HalfCloses /\ Sends(c)
    /\ conn' = [conn EXCEPT ![c].eof = TRUE]
    /\ ClientOnly

Reset(c) ==
    /\ conn[c].st = "open" /\ ~conn[c].rst /\ Cardinality({d \in Conns : conn[d].rst}) < MaxResets
    /\ conn' = [conn EXCEPT ![c].rst = TRUE]
    /\ ClientOnly

\* keepalive_timeout_val seconds pass.
Tick ==
    /\ \E f \in Fds : keep[f] = "fresh"
    /\ keep' = [f \in Fds |-> IF keep[f] = "fresh" THEN "old" ELSE keep[f]]
    /\ UNCHANGED <<envVars, kernel, ev, vec, rs, pending, wmutex, event, work>>

-----------------------------------------------------------------------------
ClientNext ==
    \/ \E c \in Conns : Connect(c) \/ SendPart(c) \/ HalfClose(c) \/ Reset(c)
    \/ \E c \in Conns, k \in Kinds : SendRequest(c, k)
    \/ Tick

Next == ClientNext \/ EventNext \/ \E w \in Workers : WorkerNext(w)

Spec == Init /\ [][Next]_vars

\* The threads are scheduled; clients owe nothing.
FairSpec ==
    Spec /\ WF_vars(EventNext) /\ \A w \in Workers : WF_vars(WorkerNext(w))

-----------------------------------------------------------------------------
(* Properties.                                                             *)

TypeOK ==
    /\ \A f \in Fds : fdt[f] \in Conns \cup {None} /\ reg[f].mask \in {"none", "in", "out"}
    /\ \A i, j \in DOMAIN vec : vec[i] \in Structs /\ (vec[i] = vec[j] => i = j)
    /\ \A r \in Structs : rs[r].sock \in Fds \cup {NoFd}
    /\ wmutex \in Workers \cup {None}

\* Clients get the responses to their own requests, in order, once each.
OwnResponses ==
    \A c \in Conns : \A i \in DOMAIN log[c] : log[c][i] = <<c, i>>

\* The comment on the worker's test (core_http.c): "Condition r->sock == -1
\* means, that client closed connection while handler is executed".  So past the
\* test, while the socket is not -1, the structure is still that client's.
LostClientSeen ==
    \A w \in Workers :
        wpc[w] = "ready" /\ rs[wr[w]].sock # NoFd => rs[wr[w]].req = wresp[w]

\* As long as no client has reset its connection, a structure that waits for a
\* worker or is with one is with that one only, stays in the list and stays
\* bound to a socket, until the response is under way (http_response hands it
\* over, event_iter must not free it).
HeldExclusively ==
    (\A c \in Conns : ~conn[c].rst) =>
        \A r \in Structs :
            /\ pending[r] + Cardinality({w \in Workers : wr[w] = r}) <= 1
            /\ r \in Held => /\ \E i \in DOMAIN vec : vec[i] = r
                            /\ rs[r].sock # NoFd

\* A request that has been sent is answered or its connection is closed.
Answered ==
    \A c \in Conns :
        (conn[c].st = "open" /\ conn[c].phase = "wait") ~> (conn[c].phase # "wait")

\* server.conf: "Number of keep-alive connections that can be opened by one client."
KeepaliveLimit ==
    \A c \in Conns :
        Cardinality({d \in Conns : conn[d].st = "open" /\ conn[d].ka /\ Client[d] = Client[c]})
            <= MaxPerClient

=============================================================================
