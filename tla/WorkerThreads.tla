--------------------------- MODULE WorkerThreads ----------------------------
(* The worker threads of the server core, http_pass_to_handlers_routine,   *)
(* and what they call in core_http.c.                                      *)
EXTENDS ServerState

At(w, from, to) == wpc[w] = from /\ wpc' = [wpc EXCEPT ![w] = to]

WorkerTake(w, r) ==
    /\ At(w, "idle", "run") /\ Pool!Take(w, r)
    /\ wresp' = [wresp EXCEPT ![w] = rs[r].req]
    /\ UNCHANGED <<envVars, kernel, ev, vec, rs, keep, wmutex, event>>

Finish(w) ==
    /\ Pool!Finish(w)
    /\ wresp' = [wresp EXCEPT ![w] = <<>>]

\* The handler returns; r->sock == -1 is the only test for a lost client.
WorkerReturn(w) ==
    /\ wpc[w] = "run"
    /\ \/ rs[wr[w]].sock = NoFd /\ At(w, "run", "idle") /\ Finish(w)
       \/ rs[wr[w]].sock # NoFd /\ At(w, "run", "ready") /\ UNCHANGED <<pending, wr, wresp>>
    /\ UNCHANGED <<envVars, kernel, ev, vec, rs, keep, wmutex, event>>

\* The handler, or the compressor, fails: web_raise, http_error.
WorkerRaise(w) ==
    /\ At(w, "run", "raised")
    /\ UNCHANGED <<envVars, kernel, ev, vec, rs, keep, pending, wmutex, event, wr, wresp>>

\* wmutex is locked and http_send writes; a lost client is only tested for
\* on the normal path.
WorkerSend(w) ==
    LET f == rs[wr[w]].sock
    IN  /\ wpc[w] \in {"ready", "raised"} /\ wmutex = None
        /\ wpc[w] = "ready" => f # NoFd
        /\ wmutex' = w
        /\ \/ /\ Works(f) /\ Written(f, wresp[w], TRUE)
              /\ At(w, wpc[w], "end") /\ UNCHANGED <<ev, rs>>
           \/ /\ PartialWrites /\ Works(f) /\ Written(f, wresp[w], FALSE)
              /\ MayEnter("set_out") /\ ev' = [ev EXCEPT !.out = f]
              /\ rs' = [rs EXCEPT ![wr[w]].out = 1]
              /\ At(w, wpc[w], "set_out")
           \/ /\ ~Works(f)
              /\ At(w, wpc[w], "end") /\ UNCHANGED <<conn, log, ev, rs>>
        /\ UNCHANGED <<edge, kernel, vec, keep, pending, event, wr, wresp>>

WorkerDrop(w) ==
    /\ At(w, "ready", "idle") /\ Finish(w)
    /\ wmutex = None /\ rs[wr[w]].sock = NoFd
    /\ UNCHANGED <<envVars, kernel, ev, vec, rs, keep, wmutex, event>>

\* end_request and http_cleanup under wmutex.
WorkerEnd(w) ==
    LET r == wr[w]
    IN  \/ /\ At(w, "end", "set_in")
           /\ rs[r].keepalive /\ MayEnter("set_in")
           /\ ev' = [ev EXCEPT !.in = rs[r].sock]
           /\ UNCHANGED <<envVars, kernel, vec, rs, keep, pending, wmutex, event, wr, wresp>>
        \/ /\ At(w, "end", "idle") /\ Finish(w) /\ wmutex' = None
           /\ ~rs[r].keepalive
           /\ CloseFds({rs[r].sock}) /\ Clear(r)
           /\ UNCHANGED <<log, edge, ev, vec, keep, event>>

WorkerSetIn(w) ==
    /\ At(w, "set_in", "idle") /\ Finish(w) /\ wmutex' = None
    /\ EpollMod(rs[wr[w]].sock, "in", ev.in)
    /\ Clear(wr[w])
    /\ UNCHANGED <<envVars, fdt, ev, vec, keep, event>>

\* mutant: the structure is cleaned up although http_send was not done
WorkerSetOutClears(w) ==
    /\ At(w, "set_out", "idle") /\ Finish(w) /\ wmutex' = None
    /\ EpollMod(rs[wr[w]].sock, "out", ev.out) /\ Clear(wr[w])
    /\ UNCHANGED <<envVars, fdt, ev, vec, keep, event>>

WorkerSetOut(w) ==
    /\ At(w, "set_out", "idle") /\ Finish(w) /\ wmutex' = None
    /\ EpollMod(rs[wr[w]].sock, "out", ev.out)
    /\ UNCHANGED <<envVars, fdt, ev, vec, rs, keep, event>>

WorkerNext(w) ==
    \/ \E r \in Structs : WorkerTake(w, r)
    \/ WorkerReturn(w) \/ WorkerRaise(w) \/ WorkerSend(w) \/ WorkerDrop(w)
    \/ WorkerEnd(w) \/ WorkerSetIn(w) \/ WorkerSetOut(w)

=============================================================================
