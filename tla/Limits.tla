------------------------------- MODULE Limits -------------------------------
(***************************************************************************)
(* Who may connect: the accept loop of event_routine with its two          *)
(* limiters, limit_requests (connections per second of one address) and    *)
(* limit_sim_requests (connected sockets of one address), the expiry in    *)
(* event_iter, and the table of limit_requests that quit_ex saves and the  *)
(* next worker loads (file_temporary_storage.c).                           *)
(*                                                                         *)
(* Both tables are frag_pool_t's, taken from FragPool.  The listening      *)
(* socket is edge-triggered and belongs to the master too, so its backlog  *)
(* survives a worker.  A connection is its client's address.               *)
(***************************************************************************)
EXTENDS Integers, Sequences, FiniteSets, SequencesExt

CONSTANTS
    Clients,        \* addresses
    NSocks,         \* descriptors the worker may have for connections
    LimitRate,      \* config.limit_rate
    LimitDelay,     \* config.limit_delay
    SimThreshold,   \* config.limit_sim_threshold
    PoolReserved,   \* HTTP_LIMIT_*_POOL_RESERVED_SIZE
    MaxClock,       \* bound: seconds
    MaxBacklog,     \* bound: LISTEN_BACKLOG
    MaxRestarts,    \* bound: ends of the worker
    Limiters,       \* settings to look at: sets of "req", "sim" that are enabled
    NoClient

\* core_config.c refuses zero and negative values of the three settings.
ASSUME LimitsAssumption ==
    /\ LimitRate \in Nat \ {0} /\ LimitDelay \in Nat \ {0} /\ SimThreshold \in Nat \ {0}
    /\ PoolReserved \in Nat /\ NoClient \notin Clients

VARIABLES
    lon,        \* config.limit_req, config.limit_sim_req: the limiters in use
    lclock,     \* current_time_sec
    lreq,       \* limit_req_clients: slots of [addr, time, req, dtime]
    lsim,       \* limit_sim_req_clients: slots of descriptors
    lopen,      \* lopen[s]: the client accepted as descriptor s
    ldead,      \* accepted descriptors whose peer has gone (getpeername fails)
    lbacklog,   \* connections not yet accepted
    ledge,      \* epoll has an event for the listening socket
    lpc,        \* event_routine: "loop" before event_iter, "accept" in accept4
    lrestarts,
    lleft,      \* why the accept loop was left last (history)
    lacc,       \* connections accepted in this second, per client (history)
    lpen        \* end of the latest penalty, per client, 0 if none (history)

limVars == <<lon, lclock, lreq, lsim, lopen, ldead, lbacklog, ledge, lpc, lrestarts, lleft, lacc, lpen>>

Socks == 1..NSocks
Vacant == [data |-> NoClient, free |-> TRUE]
EmptyPool == [e |-> [i \in 1..PoolReserved |-> Vacant], cur_len |-> 0, reserved_len |-> PoolReserved]

\* The operators of FragPool do not depend on its variables.
P == INSTANCE FragPool WITH Blocks <- Clients, Reserved <- PoolReserved,
                            pool <- lreq, heap <- {}

\* A slot is taken and filled, or given back; what a free slot holds is never
\* read, so it is kept empty here.
Put(p, value) ==
    LET i == P!AllocIndex(p)
    IN  [P!frag_pool_alloc(p, value) EXCEPT !.e[i].data = value]
Release(p, i) ==
    LET q == P!frag_pool_free_alt(p, i)
    IN  [q EXCEPT !.e = [j \in DOMAIN q.e |-> IF q.e[j].free THEN Vacant ELSE q.e[j]]]

-----------------------------------------------------------------------------
(* limit_requests                                                          *)

ReqEntry(p, c) == {i \in P!Used(p) : p.e[i].data.addr = c}

\* [refused, pool]: the verdict on a connection of c and the new table.  An
\* entry older than a second is dropped and its connection not counted.
limit_requests(p, c, now) ==
    IF ReqEntry(p, c) = {}
    THEN [refused |-> FALSE, pool |-> Put(p, [addr |-> c, time |-> now, req |-> 1, dtime |-> 0])]
    ELSE LET i == CHOOSE j \in ReqEntry(p, c) : TRUE
             d == p.e[i].data
         IN  IF d.req > LimitRate THEN [refused |-> TRUE, pool |-> p]
             ELSE IF now - d.time <= 1
             THEN IF d.req + 1 > LimitRate
                  THEN [refused |-> TRUE,
                        pool |-> [p EXCEPT !.e[i].data.req = d.req + 1,
                                           !.e[i].data.dtime = now + LimitDelay]]
                  ELSE [refused |-> FALSE, pool |-> [p EXCEPT !.e[i].data.req = d.req + 1]]
             ELSE [refused |-> FALSE, pool |-> Release(p, i)]

\* event_iter gives back the entries whose penalty is over, and only those:
\* an entry that never exceeded the rate waits for its own client.
Expired(p, now) ==
    {i \in P!Used(p) : p.e[i].data.dtime # 0 /\ now > p.e[i].data.dtime}
ExpireReq(p, now) ==
    FoldLeft(LAMBDA q, i : IF i \in Expired(q, now) THEN Release(q, i) ELSE q,
             p, [i \in 1..Len(p.e) |-> i])

-----------------------------------------------------------------------------
(* limit_sim_requests                                                      *)

\* getpeername(s): the client, or nobody if s is closed or its peer gone.
Peer(s) == IF s \in ldead THEN NoClient ELSE lopen[s]

\* The scan meets the slots in order.  It drops the entry of the descriptor
\* that is being accepted and those without a peer, and stops at the
\* threshold; the slots behind that are not looked at.
SimStepKeepsOwn(c, sock, acc, i) ==    \* mutant: the descriptor's own old entry stays
    IF acc.total >= SimThreshold \/ i \notin P!Used(acc.pool) THEN acc
    ELSE LET s == acc.pool.e[i].data
         IN  IF s # sock /\ Peer(s) = NoClient THEN [acc EXCEPT !.pool = Release(@, i)]
             ELSE IF Peer(s) = c THEN [acc EXCEPT !.total = @ + 1]
             ELSE acc
SimStep(c, sock, acc, i) ==
    IF acc.total >= SimThreshold \/ i \notin P!Used(acc.pool) THEN acc
    ELSE LET s == acc.pool.e[i].data
         IN  IF s = sock \/ Peer(s) = NoClient THEN [acc EXCEPT !.pool = Release(@, i)]
             ELSE IF Peer(s) = c THEN [acc EXCEPT !.total = @ + 1]
             ELSE acc
limit_sim_requests(p, c, sock) ==
    LET scan == FoldLeft(LAMBDA acc, i : SimStep(c, sock, acc, i), [pool |-> p, total |-> 0],
                         [i \in 1..Len(p.e) |-> i])
    IN  IF scan.total >= SimThreshold THEN [refused |-> TRUE, pool |-> scan.pool]
        ELSE [refused |-> FALSE, pool |-> Put(scan.pool, sock)]

-----------------------------------------------------------------------------
LimitsInit ==
    /\ lon \in Limiters
    /\ lclock = 1 /\ lreq = EmptyPool /\ lsim = EmptyPool
    /\ lopen = [s \in Socks |-> NoClient] /\ ldead = {} /\ lbacklog = <<>>
    /\ ledge = FALSE /\ lpc = "loop" /\ lrestarts = 0 /\ lleft = "empty"
    /\ lacc = [c \in Clients |-> 0] /\ lpen = [c \in Clients |-> 0]

\* A client connects; the kernel queues it and reports the edge.
LimConnect(c) ==
    /\ Len(lbacklog) < MaxBacklog
    /\ lbacklog' = Append(lbacklog, c) /\ ledge' = TRUE
    /\ UNCHANGED <<lon, lclock, lreq, lsim, lopen, ldead, lpc, lrestarts, lleft, lacc, lpen>>

\* event_iter, then epoll_wait, which returns the listening socket or not.
LimLoop ==
    /\ lpc = "loop"
    /\ lreq' = IF "req" \in lon THEN ExpireReq(lreq, lclock) ELSE lreq
    /\ lpc' = IF ledge THEN "accept" ELSE "loop"
    /\ ledge' = FALSE
    /\ UNCHANGED <<lon, lclock, lsim, lopen, ldead, lbacklog, lrestarts, lleft, lacc, lpen>>

FreeSocks == {s \in Socks : lopen[s] = NoClient}
NextSock == CHOOSE s \in FreeSocks : \A t \in FreeSocks : s <= t

\* accept4 gives the lowest free descriptor; the limiters are asked in turn.
\* A refusal resets the connection and leaves the loop, whatever is waiting.
LimAccept ==
    /\ lpc = "accept" /\ lbacklog # <<>> /\ FreeSocks # {}
    /\ LET c == Head(lbacklog)
           req == IF "req" \in lon THEN limit_requests(lreq, c, lclock)
                  ELSE [refused |-> FALSE, pool |-> lreq]
           sim == IF "sim" \in lon THEN limit_sim_requests(lsim, c, NextSock)
                  ELSE [refused |-> FALSE, pool |-> lsim]
       IN  /\ lbacklog' = Tail(lbacklog)
           /\ lreq' = req.pool
           /\ lsim' = IF req.refused THEN lsim ELSE sim.pool
           /\ IF req.refused \/ sim.refused
              THEN /\ lpc' = "loop" /\ lleft' = "refused"
                   /\ UNCHANGED <<lopen, lacc>>
              ELSE /\ lopen' = [lopen EXCEPT ![NextSock] = c]
                   /\ lacc' = IF "req" \in lon THEN [lacc EXCEPT ![c] = @ + 1] ELSE lacc
                   /\ UNCHANGED <<lpc, lleft>>
           /\ lpen' = IF req.refused /\ req.pool # lreq
                      THEN [lpen EXCEPT ![c] = lclock + LimitDelay] ELSE lpen
    /\ UNCHANGED <<lon, lclock, ldead, ledge, lrestarts>>

\* accept4 fails: nobody is waiting, or the descriptors are used up.
LimAcceptEnds ==
    /\ lpc = "accept" /\ (lbacklog = <<>> \/ FreeSocks = {})
    /\ lpc' = "loop" /\ lleft' = IF FreeSocks = {} THEN "exhausted" ELSE "empty"
    /\ UNCHANGED <<lon, lclock, lreq, lsim, lopen, ldead, lbacklog, ledge, lrestarts, lacc, lpen>>

\* The server closes a descriptor; neither limiter is told.
LimClose(s) ==
    /\ lopen[s] # NoClient
    /\ lopen' = [lopen EXCEPT ![s] = NoClient] /\ ldead' = ldead \ {s}
    /\ UNCHANGED <<lon, lclock, lreq, lsim, lbacklog, ledge, lpc, lrestarts, lleft, lacc, lpen>>

\* A client goes while the server still has its descriptor; only getpeername
\* in limit_sim_requests notices.
LimGone(s) ==
    /\ "sim" \in lon /\ lopen[s] # NoClient /\ s \notin ldead
    /\ ldead' = ldead \cup {s}
    /\ UNCHANGED <<lon, lclock, lreq, lsim, lopen, lbacklog, ledge, lpc, lrestarts, lleft, lacc, lpen>>

\* The time thread; only limit_requests looks at the clock.
LimTick ==
    /\ "req" \in lon /\ lclock < MaxClock
    /\ lclock' = lclock + 1 /\ lacc' = [c \in Clients |-> 0]
    /\ UNCHANGED <<lon, lreq, lsim, lopen, ldead, lbacklog, ledge, lpc, lrestarts, lleft, lpen>>

\* frag_pool_save writes the used slots in order, frag_pool_load allocates
\* one slot for each of them and removes the file.
SavedPool(p) == SelectSeq(p.e, LAMBDA slot : ~slot.free)
LoadedPool(file) == FoldLeft(LAMBDA p, slot : Put(p, slot.data), EmptyPool, file)

\* The worker ends and the master starts another, which registers the
\* listening socket and is told at once of waiting connections.  Without a
\* file (a crash, or fopen failed) the table starts empty.
LimRestart(saved) ==
    /\ lrestarts < MaxRestarts /\ lrestarts' = lrestarts + 1
    /\ lreq' = IF saved THEN LoadedPool(SavedPool(lreq)) ELSE EmptyPool
    /\ lpen' = IF saved THEN lpen ELSE [c \in Clients |-> 0]
    /\ lacc' = IF saved THEN lacc ELSE [c \in Clients |-> 0]
    /\ lsim' = EmptyPool /\ lopen' = [s \in Socks |-> NoClient] /\ ldead' = {}
    /\ ledge' = (lbacklog # <<>>) /\ lpc' = "loop" /\ lleft' = "empty"
    /\ UNCHANGED <<lon, lclock, lbacklog>>

LimitsNext ==
    \/ \E c \in Clients : LimConnect(c)
    \/ LimLoop
    \/ LimAccept
    \/ LimAcceptEnds
    \/ \E s \in Socks : LimClose(s) \/ LimGone(s)
    \/ LimTick
    \/ \E saved \in BOOLEAN : LimRestart(saved)

LimitsSpec == LimitsInit /\ [][LimitsNext]_limVars

-----------------------------------------------------------------------------
(* Properties.                                                             *)

\* limit_requests: however connections, expiry and saved restarts interleave,
\* a client gets at most limit_rate connections in one second of the clock,
\* and one more if it had an old entry (which is dropped without counting).
RatePerSecond == "req" \in lon => \A c \in Clients : lacc[c] <= LimitRate + 1

\* limit_sim_requests: stale entries, reused descriptors and early returns
\* never let a client have more than the threshold of connected sockets.
SimBound ==
    "sim" \in lon => \A c \in Clients : Cardinality({s \in Socks : Peer(s) = c}) <= SimThreshold

\* Every connected socket is known to limit_sim_requests, in one slot.
SimTracked ==
    "sim" \in lon => \A s \in Socks : Peer(s) # NoClient =>
        Cardinality({i \in P!Used(lsim) : lsim.e[i].data = s}) = 1

\* The edge-triggered listening socket: connections are left waiting without
\* an event only after a refusal left the accept loop early, or when the
\* descriptors were used up.
StrandedOnlyByRefusal ==
    lpc = "loop" /\ ~ledge /\ lbacklog # <<>> => lleft # "empty"

\* Both limiters together: the rate holds over every second, no address has more
\* than its share of simultaneous requests, the counts are those of open
\* connections, and only a refusal can leave a connection waiting.
LimitsExact == RatePerSecond /\ SimBound /\ SimTracked /\ StrandedOnlyByRefusal

=============================================================================
