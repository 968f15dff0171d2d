---------------------------- MODULE EventThread -----------------------------
(* The event thread of the server core, event_routine of core_server.c,    *)
(* and what it calls in core_http.c.                                       *)
EXTENDS ServerState

\* event_iter, first loop: sockets whose keep-alive time is over and that no
\* structure is working on are closed.
EventIter ==
    LET over == {f \in Fds : keep[f] = "old" /\ Bound(f) = {}}
    IN  /\ epc = "iter"
        /\ CloseFds(over)
        /\ keep' = [f \in Fds |-> IF f \in over THEN "no" ELSE keep[f]]
        /\ IF FreeIdle THEN epc' = "free" /\ cur' = Prealloc + 1 ELSE epc' = "wait" /\ UNCHANGED cur
        /\ UNCHANGED <<log, edge, ev, vec, rs, pending, wmutex, batch, work>>

IsIdleAny(i) == TRUE            \* mutant: busy structures are freed as well
IsIdle(i) == rs[vec[i]].sock = NoFd
Unlink(i) == [k \in 1..(Len(vec) - 1) |-> vec[IF k < i THEN k ELSE k + 1]]

\* event_iter, second loop, without wmutex: the idle structures beyond the
\* preallocated ones are unlinked and freed; cur is the position reached.
FreeStep ==
    /\ epc = "free"
    /\ \/ cur > Len(vec) /\ epc' = "wait" /\ UNCHANGED <<cur, vec>>
       \/ cur <= Len(vec) /\ IsIdle(cur) /\ vec' = Unlink(cur) /\ UNCHANGED <<epc, cur>>
       \/ cur <= Len(vec) /\ ~IsIdle(cur) /\ cur' = cur + 1 /\ UNCHANGED <<epc, vec>>
    /\ UNCHANGED <<envVars, kernel, ev, rs, keep, pending, wmutex, batch, work>>

\* What epoll reports for f: hang-up whatever the mask, else what the mask asks for.
EventOf(f) ==
    LET c == conn[fdt[f]]
    IN  IF c.rst THEN "hup"
        ELSE IF reg[f].mask = "in" /\ (c.half \/ c.inb # <<>> \/ c.eof) THEN "in"
        ELSE IF reg[f].mask = "out" THEN "out" ELSE "nothing"

\* epoll_wait: all that is ready (the timeout when nothing is), the listening
\* socket once per edge.
EpollWait ==
    /\ epc = "wait"
    /\ batch' = {[fd |-> reg[f].data, src |-> f, ev |-> EventOf(f)] :
                     f \in {g \in Fds : IsOpen(g) /\ EventOf(g) # "nothing"}}
                \cup (IF edge THEN {[fd |-> NoFd, src |-> NoFd, ev |-> "listen"]} ELSE {})
    /\ edge' = FALSE
    /\ epc' = "dispatch"
    /\ UNCHANGED <<conn, log, kernel, ev, vec, rs, keep, pending, wmutex, cur, work>>

BatchDone ==
    /\ epc = "dispatch" /\ batch = {}
    /\ epc' = "iter"
    /\ UNCHANGED <<envVars, kernel, ev, vec, rs, keep, pending, wmutex, cur, batch, work>>

Take(e) == epc = "dispatch" /\ e \in batch /\ batch' = batch \ {e}

DispatchListen(e) ==
    /\ Take(e) /\ e.ev = "listen"
    /\ epc' = "accept"
    /\ UNCHANGED <<envVars, kernel, ev, vec, rs, keep, pending, wmutex, cur, work>>

\* One turn of the accept loop; the kernel gives out the lowest free descriptor.
Accept(c) ==
    LET f == First({g \in Fds : fdt[g] = None})
    IN  /\ epc = "accept" /\ conn[c].st = "backlog"
        /\ \E g \in Fds : fdt[g] = None
        /\ fdt' = [fdt EXCEPT ![f] = c]
        /\ reg' = [reg EXCEPT ![f] = [mask |-> "in", data |-> f]]
        /\ conn' = [conn EXCEPT ![c].st = "open"]
        /\ UNCHANGED <<log, edge, ev, vec, rs, keep, pending, wmutex, event, work>>

\* accept fails: EAGAIN, or no descriptor is left.
AcceptEnd ==
    /\ epc = "accept"
    /\ (\A c \in Conns : conn[c].st # "backlog") \/ (\A g \in Fds : fdt[g] # None)
    /\ epc' = "dispatch"
    /\ UNCHANGED <<envVars, kernel, ev, vec, rs, keep, pending, wmutex, cur, batch, work>>

\* event_fetch_request: the structure of the socket, else an idle one, else a
\* new one at the end of the list.
DispatchIn(e) ==
    LET f == e.fd
        found == FindRequest(f)
        r == IF found # {} THEN vec[First(found)] ELSE NewStruct
    IN  /\ wmutex = None
        /\ Take(e) /\ e.ev = "in"
        /\ vec' = IF found = {} THEN Append(vec, r) ELSE vec
        /\ rs' = [rs EXCEPT ![r] = [(IF found = {} THEN Idle ELSE @) EXCEPT !.sock = f]]
        /\ cur' = r /\ epc' = "serve"
        /\ UNCHANGED <<envVars, kernel, ev, keep, pending, wmutex, work>>

\* http_serve_client: nothing to read, or only a part of the request yet.
ServeMore ==
    LET f == rs[cur].sock
    IN  /\ epc = "serve" /\ Works(f) /\ conn[fdt[f]].inb = <<>>
        /\ conn[fdt[f]].half \/ ~conn[fdt[f]].eof
        /\ conn' = [conn EXCEPT ![fdt[f]].half = FALSE]
        /\ epc' = "dispatch"
        /\ UNCHANGED <<log, edge, kernel, ev, vec, rs, keep, pending, wmutex, cur, batch, work>>

\* http_serve_client: end of file or an error.
ServeGone ==
    LET f == rs[cur].sock
    IN  /\ epc = "serve"
        /\ Works(f) => conn[fdt[f]].eof /\ conn[fdt[f]].inb = <<>> /\ ~conn[fdt[f]].half
        /\ rs' = [rs EXCEPT ![cur].keepalive = FALSE]
        /\ keep' = [g \in Fds |-> IF g = f THEN "no" ELSE keep[g]]
        /\ epc' = "end"
        /\ UNCHANGED <<envVars, kernel, ev, vec, pending, wmutex, cur, batch, work>>

\* new_keepalive_socket: an entry for the socket is refreshed; otherwise the
\* limits are applied to the entries whose sockets still have a peer.
Granted(f) ==
    LET live == {g \in Fds : keep[g] # "no" /\ Works(g)}
        same == {g \in live : Client[fdt[g]] = Client[fdt[f]]}
    IN  \/ keep[f] # "no"
        \/ Cardinality(same) < MaxPerClient /\ Cardinality(live) < MaxKeep

\* http_serve_client: the request is complete; its headers are parsed.
ServeParse ==
    LET f == rs[cur].sock
        q == Head(conn[fdt[f]].inb)
        g == q.ka /\ Granted(f)
    IN  /\ epc = "serve" /\ Works(f) /\ conn[fdt[f]].inb # <<>>
        /\ conn' = [conn EXCEPT ![fdt[f]].inb = <<>>, ![fdt[f]].ka = g]
        /\ keep' = IF g THEN [keep EXCEPT ![f] = "fresh"] ELSE keep
        /\ rs' = [rs EXCEPT ![cur].req = q.id, ![cur].keepalive = g \/ (@ /\ ~q.ka)]
        /\ epc' = IF q.kind = "handler" THEN "handler" ELSE "static"
        /\ UNCHANGED <<log, edge, kernel, ev, vec, pending, wmutex, cur, batch, work>>

\* http_response finds a handler: no events for the socket, and to a worker.
RespondHandler ==
    /\ epc = "handler"
    /\ EpollMod(rs[cur].sock, "none", rs[cur].sock)
    /\ Pool!Submit(cur)
    /\ epc' = "dispatch"
    /\ UNCHANGED <<envVars, fdt, ev, vec, rs, keep, wmutex, cur, batch, wpc, wresp>>

\* http_response and its error and file variants answer here: http_send
\* writes the whole response, or a part of it, or fails.
RespondStatic ==
    LET f == rs[cur].sock
    IN  /\ epc = "static"
        /\ UNCHANGED <<edge, kernel, vec, keep, pending, wmutex, cur, batch, work>>
        /\ \/ /\ Works(f) /\ Written(f, rs[cur].req, TRUE)
              /\ epc' = "end" /\ UNCHANGED <<ev, rs>>
           \/ /\ PartialWrites /\ Works(f) /\ Written(f, rs[cur].req, FALSE)
              /\ MayEnter("set_out") /\ ev' = [ev EXCEPT !.out = f]
              /\ rs' = [rs EXCEPT ![cur].out = 1]
              /\ epc' = "set_out"
           \/ /\ ~Works(f)
              /\ epc' = "end" /\ UNCHANGED <<conn, log, ev, rs>>

\* mutant: the mask is not set
EventSetOutSkipped ==
    /\ epc = "set_out" /\ epc' = "dispatch"
    /\ UNCHANGED <<envVars, kernel, ev, vec, rs, keep, pending, wmutex, cur, batch, work>>

\* set_epollout_event_mask, after ev was filled in.
EventSetOut ==
    /\ epc = "set_out"
    /\ EpollMod(rs[cur].sock, "out", ev.out)
    /\ epc' = "dispatch"
    /\ UNCHANGED <<envVars, fdt, ev, vec, rs, keep, pending, wmutex, cur, batch, work>>

\* events_out_data: the next piece, or, when all is written, end_request.
DispatchOut(e) ==
    LET f == e.fd
        r == vec[First(Bound(f))]
    IN  /\ Take(e) /\ e.ev = "out"
        /\ UNCHANGED <<edge, log, kernel, ev, vec, keep, pending, wmutex, work>>
        /\ \/ Bound(f) = {} /\ epc' = "dispatch" /\ UNCHANGED <<conn, rs, cur>>
           \/ /\ Bound(f) # {} /\ rs[r].out = 1 /\ Works(f)
              /\ rs' = [rs EXCEPT ![r].out = 0]
              /\ conn' = [conn EXCEPT ![fdt[f]].phase = "idle"]
              /\ epc' = "dispatch" /\ UNCHANGED cur
           \/ /\ Bound(f) # {} /\ (rs[r].out = 0 \/ ~Works(f))
              /\ cur' = r /\ epc' = "end" /\ UNCHANGED <<conn, rs>>

\* end_request and http_cleanup in the event thread.
EventEnd ==
    LET f == rs[cur].sock
    IN  /\ epc = "end"
        /\ \/ /\ rs[cur].keepalive
              /\ MayEnter("set_in") /\ ev' = [ev EXCEPT !.in = f]
              /\ epc' = "set_in" /\ UNCHANGED <<conn, kernel, rs>>
           \/ /\ ~rs[cur].keepalive
              /\ CloseFds({f}) /\ Clear(cur)
              /\ epc' = "dispatch" /\ UNCHANGED ev
        /\ UNCHANGED <<log, edge, vec, keep, pending, wmutex, cur, batch, work>>

EventSetIn ==
    /\ epc = "set_in"
    /\ EpollMod(rs[cur].sock, "in", ev.in)
    /\ Clear(cur)
    /\ epc' = "dispatch"
    /\ UNCHANGED <<envVars, fdt, ev, vec, keep, pending, wmutex, cur, batch, work>>

\* EPOLLHUP: event_find_request, then, under wmutex again, the cleanup.
DispatchHup(e) ==
    LET f == e.fd
        found == FindRequest(f)
        r == vec[First(found)]
    IN  /\ wmutex = None
        /\ Take(e) /\ e.ev = "hup"
        /\ \/ found = {} /\ epc' = "dispatch" /\ UNCHANGED <<cur, rs>>
           \/ /\ found # {}
              /\ rs' = [rs EXCEPT ![r].sock = f]
              /\ cur' = r /\ epc' = "hup"
        /\ UNCHANGED <<envVars, kernel, ev, vec, keep, pending, wmutex, work>>

HupCleanup ==
    LET f == rs[cur].sock
    IN  /\ epc = "hup" /\ wmutex = None
        /\ keep' = [g \in Fds |-> IF g = f THEN "no" ELSE keep[g]]
        /\ CloseFds({f}) /\ Clear(cur)
        /\ epc' = "dispatch"
        /\ UNCHANGED <<log, edge, ev, vec, pending, wmutex, cur, batch, work>>

EventNext ==
    \/ EventIter \/ FreeStep \/ EpollWait \/ BatchDone
    \/ \E e \in batch : DispatchListen(e) \/ DispatchIn(e) \/ DispatchOut(e) \/ DispatchHup(e)
    \/ (\E c \in Conns : Accept(c)) \/ AcceptEnd
    \/ ServeMore \/ ServeGone \/ ServeParse
    \/ RespondHandler \/ RespondStatic
    \/ EventSetOut \/ EventEnd \/ EventSetIn \/ HupCleanup

=============================================================================
