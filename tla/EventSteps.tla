----------------------------- MODULE EventSteps -----------------------------
(***************************************************************************)
(* Proofs about the event thread of the server core: its steps preserve    *)
(* Inv and Watched, whatever the environment does, and Isolated, where the *)
(* setters of the epoll masks do not overlap and no client has reset its   *)
(* connection.                                                             *)
(***************************************************************************)
EXTENDS EventThread, WorkerSteps

USE SMTT(60)    \* the SMT backend and its time limit, where a step names no other

-----------------------------------------------------------------------------
(* The event thread: where it is.                                          *)

LEMMA NotHeld ==
    ASSUME Quiet, NEW r \in Structs, rs[r].sock = NoFd \/ reg[rs[r].sock].mask # "none"
    PROVE  pending[r] = 0 /\ \A w \in Workers : wr[w] # r
<1>1. pending[r] \in Nat
    BY DEF Quiet, Isolated, PoolOK
<1>2. ~(pending[r] > 0)
    BY DEF Quiet, Isolated, Exclusive, HeldOnce
<1>3. \A w \in Workers : wr[w] # r
    BY DEF Quiet, Isolated, Exclusive, HeldOnce, Shapes
<1> QED
    BY <1>1, <1>2, <1>3

\* The event thread goes from one place to the next, with the structure it has
\* or with one that nobody has.
LEMMA EventMove ==
    ASSUME Quiet, UNCHANGED <<fdt, reg, pending, wr, wpc>>,
           \A r \in Structs : rs'[r].sock = rs[r].sock,
           batch' \in SUBSET batch, epc' \in EventAt \cup {"dispatch", "accept"},
           epc' \in EventAt =>
               /\ cur' \in Structs /\ rs[cur'].sock # NoFd /\ reg[rs[cur'].sock].mask # "none"
               /\ \A e \in batch' : e.ev # "listen" => e.fd # rs[cur'].sock,
           \/ epc' \notin {"set_in", "set_out"} /\ UNCHANGED ev
           \/ epc' = "set_in" /\ ~InSetter("set_in") /\ ev' = [ev EXCEPT !.in = rs[cur'].sock]
           \/ epc' = "set_out" /\ ~InSetter("set_out") /\ ev' = [ev EXCEPT !.out = rs[cur'].sock]
    PROVE  Exclusive'
<1>1. SocksOpen'
    BY DEF Quiet, Isolated, Exclusive, SocksOpen
<1>2. HeldOnce'
    BY DEF Quiet, Isolated, Exclusive, HeldOnce, Shapes
<1>3. EventAlone'
    BY DEF EventAlone, EventAt
<1>4. EventsFresh'
    BY DEF Quiet, Isolated, Exclusive, EventsFresh, EventAt
<1>5. /\ epc' = "set_in" => ev'.in = rs[cur'].sock /\ ev'.out = ev.out
      /\ epc' = "set_out" => ev'.out = rs[cur'].sock /\ ev'.in = ev.in
      /\ epc' \notin {"set_in", "set_out"} => ev' = ev
    BY DEF Quiet, Inv, SetterOK
<1>6. SettersAlone'
    BY <1>5 DEF Quiet, Isolated, Exclusive, SettersAlone, InSetter, Shapes, PoolOK, EventAt
<1> QED
    BY <1>1, <1>2, <1>3, <1>4, <1>6, ZenonT(60) DEF Exclusive

\* The event thread lets go of its structure and of the socket: closed, or with
\* events on again.
LEMMA EventLeaves ==
    ASSUME Quiet, UNCHANGED <<pending, wr, wpc, ev, batch>>, epc \in EventAt, epc' = "dispatch",
           \A r \in Structs \ {cur} : rs'[r].sock = rs[r].sock,
           \A g \in Fds \ {rs[cur].sock} : fdt'[g] = fdt[g] /\ reg'[g] = reg[g],
           \/ rs'[cur].sock = NoFd /\ fdt'[rs[cur].sock] = None
           \/ /\ rs'[cur].sock \in {rs[cur].sock, NoFd} /\ fdt'[rs[cur].sock] = fdt[rs[cur].sock]
              /\ reg'[rs[cur].sock].data = rs[cur].sock
    PROVE  Exclusive'
<1> DEFINE f == rs[cur].sock
<1>1. cur \in Structs /\ f \in Fds /\ reg[f].mask # "none" /\ \A r \in Structs : r # cur => rs[r].sock # f
    BY DEF Quiet, Isolated, Exclusive, EventAlone, Shapes, EventAt
<1>2. pending[cur] = 0 /\ \A w \in Workers : wr[w] # cur
    BY <1>1, NotHeld, ZenonT(60)
<1> HIDE DEF f
<1>3. SocksOpen'
    BY <1>1 DEF Quiet, Isolated, Exclusive, SocksOpen, Shapes, f
<1>4. HeldOnce'
    BY <1>1, <1>2 DEF Quiet, Isolated, Exclusive, HeldOnce, Shapes, f
<1>5. EventAlone'
    BY DEF EventAlone, EventAt
<1>6. EventsFresh'
    BY <1>1, ZenonT(60) DEF Quiet, Isolated, Exclusive, EventsFresh, EventAt, Shapes, f
<1>7. SettersAlone'
    BY <1>2 DEF Quiet, Isolated, Exclusive, SettersAlone, Shapes, PoolOK, EventAt
<1> QED
    BY <1>3, <1>4, <1>5, <1>6, <1>7, ZenonT(60) DEF Exclusive

\* The structure x, the socket f and the connection c the event thread is at.
EventHas(x, f, c) ==
    /\ x = cur /\ x \in Structs /\ f = rs[x].sock /\ f \in Fds /\ f # NoFd /\ c = fdt[f] /\ c \in Conns /\ c # None
    /\ reg[f].mask # "none" /\ \A e \in batch : e.ev # "listen" => e.fd # f
    /\ \A r \in Structs : r # x => rs[r].sock # f
    /\ pending[x] = 0 /\ \A w \in Workers : wr[w] # x

LEMMA EventHasOne ==
    ASSUME Quiet, epc \in EventAt
    PROVE  \E x, f, c : EventHas(x, f, c)
<1>1. PICK x, f, c : x = cur /\ f = rs[x].sock /\ c = fdt[f]
    OBVIOUS
<1>2. x \in Structs /\ f # NoFd /\ reg[f].mask # "none"
    BY <1>1 DEF Quiet, Shapes, Isolated, Exclusive, EventAlone
<1>3. f \in Fds /\ c # None /\ c \in Conns
    BY <1>1, <1>2 DEF Quiet, Shapes, Isolated, Exclusive, SocksOpen
<1>4. \A e \in batch : e.ev # "listen" => e.fd # f
    BY <1>1, <1>2, ZenonT(60) DEF Quiet, Isolated, Exclusive, EventsFresh
<1>5. \A r \in Structs : r # x => rs[r].sock # f
    BY <1>1, <1>2 DEF Quiet, Shapes
<1>6. pending[x] = 0 /\ \A w \in Workers : wr[w] # x
    BY <1>1, <1>2, NotHeld, ZenonT(60)
<1> QED
    BY <1>1, <1>2, <1>3, <1>4, <1>5, <1>6 DEF EventHas

LEMMA EventStays ==
    ASSUME Quiet, NEW x, NEW f, NEW c, EventHas(x, f, c), UNCHANGED <<fdt, reg, pending, wr, wpc, cur, batch, ev>>,
           \A r \in Structs : rs'[r].sock = rs[r].sock, epc' \in {"dispatch", "end", "static", "handler"}
    PROVE  Exclusive'
<1>1. epc' \in EventAt \cup {"dispatch", "accept"} /\ epc' \notin {"set_in", "set_out"}
    BY DEF EventAt
<1>2. /\ cur' \in Structs /\ rs[cur'].sock # NoFd /\ reg[rs[cur'].sock].mask # "none"
      /\ \A e \in batch' : e.ev # "listen" => e.fd # rs[cur'].sock
    BY DEF EventHas
<1> QED
    BY <1>1, <1>2, EventMove

LEMMA EventSets ==
    ASSUME Quiet, NEW x, NEW f, NEW c, EventHas(x, f, c), UNCHANGED <<fdt, reg, pending, wr, wpc, cur, batch>>,
           \A r \in Structs : rs'[r].sock = rs[r].sock,
           \/ epc' = "set_in" /\ ~InSetter("set_in") /\ ev' = [ev EXCEPT !.in = f]
           \/ epc' = "set_out" /\ ~InSetter("set_out") /\ ev' = [ev EXCEPT !.out = f]
    PROVE  Exclusive'
<1>1. epc' \in EventAt \cup {"dispatch", "accept"}
    BY DEF EventAt
<1>2. /\ cur' \in Structs /\ rs[cur'].sock = f /\ f # NoFd /\ reg[rs[cur'].sock].mask # "none"
      /\ \A e \in batch' : e.ev # "listen" => e.fd # rs[cur'].sock
    BY DEF EventHas
<1> QED
    BY <1>1, <1>2, EventMove

\* What the logs say, while no log changes and one connection is at most changed.
LEMMA LogsFrame ==
    ASSUME Quiet, UNCHANGED log,
           \A d \in Conns : /\ conn'[d].st = conn[d].st /\ conn'[d].phase = conn[d].phase
                            /\ conn'[d].inb = conn[d].inb /\ conn'[d].sent = conn[d].sent
    PROVE  LogsOK'
<1>1. \A d \in Conns : /\ InTurn(log[d], d)
                       /\ conn'[d].st # "closed" =>
                             /\ conn'[d].phase # "wait" => conn'[d].inb = <<>> /\ conn'[d].sent = Len(log[d])
                             /\ conn'[d].inb # <<>> => /\ conn'[d].sent = Len(log[d]) + 1
                                                     /\ Head(conn'[d].inb).id = <<d, conn'[d].sent>>
    BY DEF Quiet, Isolated, InOrder, LogsOK
<1>2. log = [c \in Conns |-> log[c]]
    BY DEF Quiet, Isolated, InOrder, LogsOK
<1> QED
    BY <1>1, <1>2, Zenon DEF LogsOK, InTurn

LEMMA LogsStep ==
    ASSUME Quiet, UNCHANGED log, NEW c \in Conns, \A d \in Conns \ {c} : conn'[d] = conn[d],
           conn'[c].inb = <<>>, conn'[c].phase # "wait" => conn'[c].sent = Len(log[c])
    PROVE  LogsOK'
<1>1. ASSUME NEW d \in Conns
      PROVE  /\ InTurn(log[d], d)
             /\ conn'[d].st # "closed" =>
                    /\ conn'[d].phase # "wait" => conn'[d].inb = <<>> /\ conn'[d].sent = Len(log[d])
                    /\ conn'[d].inb # <<>> => /\ conn'[d].sent = Len(log[d]) + 1
                                            /\ Head(conn'[d].inb).id = <<d, conn'[d].sent>>
    BY ZenonT(60) DEF Quiet, Isolated, InOrder, LogsOK
<1>2. log = [d \in Conns |-> log[d]]
    BY DEF Quiet, Isolated, InOrder, LogsOK
<1> QED
    BY <1>1, <1>2, ZenonT(60) DEF LogsOK, InTurn

-----------------------------------------------------------------------------
(* The event thread: who works on a connection and what its client is sent.*)

\* event_iter closes sockets that no structure has.
LEMMA IterOwn ==
    ASSUME Quiet, EventIter
    PROVE  Isolated'
<1> DEFINE S == {f \in Fds : keep[f] = "old" /\ Bound(f) = {}}
<1>1. /\ CloseFds(S) /\ UNCHANGED <<log, ev, rs, pending, batch, wpc, wr, wresp>>
      /\ epc = "iter" /\ epc' \in {"free", "wait"} /\ batch = {}
    BY DEF EventIter, work, Quiet, Isolated, Exclusive, EventsFresh
<1>2. \A r \in Structs : rs[r].sock \notin S
    BY DEF Quiet, Watched, Kept, Bound, Shapes
<1>3. S \in SUBSET Fds
    OBVIOUS
<1> HIDE DEF S
<1>4. /\ ConnsOK' /\ LogsOK'
      /\ \A f \in Fds \ S : /\ fdt'[f] = fdt[f] /\ reg'[f] = reg[f]
                            /\ fdt[f] # None => conn'[fdt[f]] = conn[fdt[f]]
    BY <1>1, <1>3, ClosedOwn, ZenonT(60) DEF Quiet
<1>5. \A f \in S : fdt'[f] = None
    BY <1>1, <1>3, ClosedOwn DEF Quiet
<1>6. Exclusive'
    <2>1. SocksOpen'
        BY <1>1, <1>2, <1>4, <1>5, ZenonT(60) DEF Quiet, Isolated, Exclusive, SocksOpen, Shapes
    <2>2. HeldOnce'
        BY <1>1, <1>2, <1>4 DEF Quiet, Isolated, Exclusive, HeldOnce, Shapes
    <2>3. EventAlone' /\ EventsFresh'
        BY <1>1, ZenonT(60) DEF EventAlone, EventsFresh, EventAt
    <2>4. SettersAlone'
        BY <1>1 DEF Quiet, Isolated, Exclusive, SettersAlone
    <2> QED
        BY <2>1, <2>2, <2>3, <2>4, ZenonT(60) DEF Exclusive
<1>7. Responses'
    <2>1. \A r \in Structs : Same(r)
        BY <1>1, <1>2, <1>4, ZenonT(60) DEF Same, Quiet, Isolated, Exclusive, SocksOpen, Shapes
    <2> QED
        BY <1>1, <2>1, ResponsesAll, ZenonT(60)
<1>8. PoolOK'
    BY <1>1, OwnFrame
<1> QED
    BY <1>4, <1>6, <1>7, <1>8, ZenonT(60) DEF Isolated, InOrder

\* The event loop: the second half of event_iter, epoll_wait, the end of a batch,
\* the listening socket.
LEMMA LoopOwn ==
    ASSUME Quiet, FreeStep \/ EpollWait \/ BatchDone \/ AcceptEnd \/ \E e \in batch : DispatchListen(e)
    PROVE  Isolated'
<1>1. /\ UNCHANGED <<conn, log, fdt, reg, ev, rs, pending, wpc, wr, wresp>>
      /\ epc \in {"free", "wait", "dispatch", "accept"} /\ epc' \in {"free", "wait", "iter", "dispatch", "accept"}
    BY ZenonT(60) DEF FreeStep, EpollWait, BatchDone, AcceptEnd, DispatchListen, Take, envVars, kernel, work
<1>2. ConnsOK' /\ LogsOK' /\ PoolOK' /\ Responses'
    BY <1>1, OwnFrame, ZenonT(60)
<1>3. SocksOpen' /\ HeldOnce' /\ EventAlone' /\ SettersAlone'
    BY <1>1, ZenonT(60) DEF Quiet, Isolated, Exclusive, SocksOpen, HeldOnce, EventAlone, SettersAlone, EventAt
<1>4. EventsFresh'
    <2>1. CASE FreeStep \/ BatchDone
        BY <2>1, ZenonT(60) DEF FreeStep, BatchDone, Quiet, Isolated, Exclusive, EventsFresh, EventAt
    <2>2. CASE AcceptEnd \/ \E e \in batch : DispatchListen(e)
        BY <2>2, ZenonT(60) DEF AcceptEnd, DispatchListen, Take, kernel, Quiet, Isolated, Exclusive, EventsFresh, EventAt
    <2>3. CASE EpollWait
        <3>1. \A f \in Fds : fdt[f] # None => ~conn[fdt[f]].rst /\ reg[f].data = f
            BY ZenonT(60) DEF Quiet, NoReset, Shapes, Isolated, Exclusive, SocksOpen
        <3>2. \A e \in batch' : e.ev # "listen" =>
                  e.fd \in Fds /\ fdt[e.fd] # None /\ e.ev = reg[e.fd].mask /\ e.ev \in {"in", "out"}
                  /\ e = [fd |-> e.fd, src |-> e.fd, ev |-> EventOf(e.fd)]
            BY <2>3, <3>1 DEF EpollWait, EventOf, IsOpen
        <3> QED
            BY <1>1, <2>3, <3>2 DEF EpollWait, EventsFresh, EventAt
    <2> QED
        BY <2>1, <2>2, <2>3
<1> QED
    BY <1>2, <1>3, <1>4, ZenonT(60) DEF Isolated, Exclusive, InOrder

LEMMA AcceptOwn ==
    ASSUME ScansStop, Quiet, NEW c \in Conns, Accept(c)
    PROVE  Isolated'
<1>1. PICK f \in Fds : /\ fdt[f] = None /\ fdt' = [fdt EXCEPT ![f] = c]
                       /\ reg' = [reg EXCEPT ![f] = [mask |-> "in", data |-> f]]
    <2>1. {g \in Fds : fdt[g] = None} \in SUBSET Nat /\ {g \in Fds : fdt[g] = None} # {}
        BY ServerAssumption DEF Accept, Fds
    <2>2. First({g \in Fds : fdt[g] = None}) \in {g \in Fds : fdt[g] = None}
        BY <2>1 DEF ScansStop
    <2> QED
        BY <2>2, Zenon DEF Accept
<1>2. /\ UNCHANGED <<log, ev, vec, rs, pending, epc, cur, batch, wpc, wr, wresp>>
      /\ epc = "accept" /\ conn[c].st = "backlog" /\ conn'[c].st = "open"
      /\ \A d \in Conns : /\ conn'[d].phase = conn[d].phase /\ conn'[d].inb = conn[d].inb /\ conn'[d].sent = conn[d].sent
                          /\ d # c => conn'[d] = conn[d]
    BY DEF Accept, event, work, Quiet, ConnTyped
<1>3. \A g \in Fds : /\ fdt'[g] = IF g = f THEN c ELSE fdt[g]
                     /\ g # f => reg'[g] = reg[g]
                     /\ reg'[f].data = f
    BY <1>1, ZenonT(60) DEF Quiet, Inv, KernelOK
<1>4. ConnsOK'
    BY <1>1, <1>2, <1>3 DEF Quiet, Isolated, ConnsOK, Shapes
<1>5. LogsOK'
    BY <1>2 DEF Quiet, Isolated, InOrder, LogsOK
<1>6. PoolOK'
    BY <1>2, OwnFrame, ZenonT(60)
<1>7. \A r \in Structs : rs[r].sock # NoFd => rs[r].sock \in Fds \ {f} /\ fdt[rs[r].sock] \in Conns
    BY <1>1 DEF Quiet, Isolated, Exclusive, SocksOpen, Shapes
<1>8. Exclusive'
    <2>1. SocksOpen'
        BY <1>2, <1>3, <1>7, ZenonT(60) DEF Quiet, Isolated, Exclusive, SocksOpen, Shapes
    <2>2. HeldOnce'
        <3>1. HeldOnce /\ \A w \in Workers : wr[w] # None => wr[w] \in Structs
            BY ZenonT(60) DEF Quiet, Isolated, Exclusive, Shapes
        <3>2. \A r \in Structs : rs[r].sock # NoFd => reg'[rs[r].sock] = reg[rs[r].sock]
            BY <1>3, <1>7, ZenonT(60)
        <3> QED
            BY <1>2, <3>1, <3>2, ZenonT(60) DEF HeldOnce
    <2>3. EventAlone' /\ SettersAlone'
        BY <1>2, ZenonT(60) DEF Quiet, Isolated, Exclusive, EventAlone, SettersAlone, EventAt
    <2>4. EventsFresh'
        BY <1>1, <1>2, <1>3 DEF Quiet, Isolated, Exclusive, EventsFresh, EventAt, Shapes
    <2> QED
        BY <2>1, <2>2, <2>3, <2>4, ZenonT(60) DEF Exclusive
<1>9. Responses'
    <2>1. \A r \in Structs : Same(r)
        BY <1>2, <1>3, <1>7, ZenonT(60) DEF Same
    <2> QED
        BY <1>2, <2>1, ResponsesAll, ZenonT(60)
<1> QED
    BY <1>4, <1>5, <1>6, <1>8, <1>9, ZenonT(60) DEF Isolated, InOrder

\* event_fetch_request: the structure has the socket or was idle, so no worker
\* has it.
LEMMA DispatchInOwn ==
    ASSUME ScansStop, Quiet, Inv', NEW e \in batch, DispatchIn(e)
    PROVE  Isolated'
<1> DEFINE f == e.fd
<1>1. /\ f \in Fds /\ fdt[f] # None /\ reg[f].mask = "in" /\ epc = "dispatch"
      /\ \A d \in batch \ {e} : d.ev # "listen" => d.fd # f
    BY DEF DispatchIn, Take, Quiet, Isolated, Exclusive, EventsFresh, Shapes
<1>2. /\ UNCHANGED <<conn, log, fdt, reg, ev, pending, wpc, wr, wresp>>
      /\ batch' = batch \ {e} /\ epc' = "serve"
    BY DEF DispatchIn, Take, envVars, kernel, work
<1> HIDE DEF f
<1>3. PICK r \in Structs :
          /\ cur' = r /\ rs[r].sock \in {f, NoFd} /\ rs'[r].sock = f
          /\ \A q \in Structs \ {r} : rs'[q].sock = rs[q].sock /\ rs'[q].out = rs[q].out /\ rs'[q].req = rs[q].req
          /\ rs'[r].out = rs[r].out \/ rs'[r].out = 0
          /\ rs[r].sock = NoFd => \A q \in Structs : rs[q].sock # f
    <2>0. DispatchIn(e) /\ e.fd = f
        BY DEF f
    <2>a. \A r \in Structs : (\A j \in DOMAIN vec : rs[vec[j]].sock # f) => \A q \in Structs : rs[q].sock # f
        BY <1>1, ZenonT(60) DEF Quiet, Watched, Kept, Shapes
    <2>1. CASE FindRequest(f) # {}
        <3> DEFINE r == vec[First(FindRequest(f))]
        <3>1. cur' = r /\ Finds(r, f) /\ Binds(r, f)
            BY <2>0, <2>1, Zenon DEF DispatchIn, Finds, Binds
        <3> HIDE DEF r
        <3>2. /\ r \in Structs
              /\ rs[r].sock = f \/ (rs[r].sock = NoFd /\ \A j \in DOMAIN vec : rs[vec[j]].sock # f)
              /\ \A q \in Structs : /\ rs'[q].sock = IF q = r THEN f ELSE rs[q].sock
                                    /\ rs'[q].out = rs[q].out /\ rs'[q].req = rs[q].req
            <4>1. ScansStop /\ Inv /\ f \in Fds
                BY <1>1, ZenonT(60) DEF Quiet
            <4>2. /\ r \in Structs /\ (\E i \in DOMAIN vec : vec[i] = r)
                  /\ rs[r].sock = f \/ (rs[r].sock = NoFd /\ \A j \in DOMAIN vec : rs[vec[j]].sock # f)
                  /\ \A q \in Structs : /\ rs'[q].sock = IF q = r THEN f ELSE rs[q].sock
                                        /\ rs'[q].out = rs[q].out /\ rs'[q].req = rs[q].req
                                        /\ rs'[q].keepalive = rs[q].keepalive
                BY <3>1, <4>1, FoundSock
            <4> QED
                BY <4>2, ZenonT(60)
        <3> QED
            BY <2>a, <3>1, <3>2, <1>1, ZenonT(60) DEF Quiet, Shapes
    <2>2. CASE FindRequest(f) = {}
        <3> DEFINE r == NewStruct
        <3>1. cur' = r /\ Links(r, f) /\ r = NewStruct /\ Kept
            BY <2>0, <2>2, ZenonT(60) DEF DispatchIn, Links, Quiet, Watched
        <3> HIDE DEF r
        <3>2. /\ r \in Structs /\ rs[r].sock = NoFd /\ (\A j \in DOMAIN vec : rs[vec[j]].sock # f)
              /\ \A q \in Structs : rs'[q].sock = IF q = r THEN f ELSE rs[q].sock
              /\ \A q \in Structs \ {r} : rs'[q] = rs[q]
              /\ rs'[r].out = 0
            BY <1>1, <2>2, <3>1, LinkedSock DEF Quiet
        <3> QED
            BY <2>a, <3>1, <3>2, ZenonT(60)
    <2> QED
        BY <2>1, <2>2, ZenonT(60)
<1>4. pending[r] = 0 /\ \A w \in Workers : wr[w] # r
    BY <1>1, <1>3, NotHeld, ZenonT(60)
<1>5. ConnsOK' /\ LogsOK' /\ PoolOK'
    BY <1>2, OwnFrame, ZenonT(60)
<1>6. SocksOpen'
    BY <1>1, <1>2, <1>3, ZenonT(60) DEF Quiet, Isolated, Exclusive, SocksOpen
<1>7. HeldOnce'
    <2>1. HeldOnce /\ \A w \in Workers : wr[w] \in Structs \cup {None}
        BY Zenon DEF Quiet, Isolated, Exclusive, Shapes
    <2>2. /\ \A q \in Structs : pending'[q] > 0 => q # r /\ pending[q] > 0
          /\ \A w \in Workers : wr'[w] # None => wr[w] \in Structs /\ wr[w] # r
        BY <1>2, <1>4, <2>1
    <2> QED
        BY <1>2, <1>3, <2>1, <2>2 DEF HeldOnce
<1>8. EventAlone'
    BY <1>1, <1>2, <1>3, Zenon DEF EventAlone, Quiet, Shapes
<1>9. EventsFresh'
    BY <1>1, <1>2, <1>3, ZenonT(60) DEF Quiet, Isolated, Exclusive, EventsFresh, EventAt
<1>10. SettersAlone'
    <2>1. SettersAlone /\ Shapes /\ PoolOK
        BY ZenonT(60) DEF Quiet, Isolated, Exclusive
    <2>2. \A w \in Workers : wpc[w] \in {"set_in", "set_out"} => wr[w] \in Structs \ {r}
        BY <1>4, <2>1, ZenonT(60) DEF Shapes, PoolOK
    <2>3. epc' # "set_in" /\ epc' # "set_out"
        BY <1>2, ZenonT(60)
    <2> QED
        BY <1>2, <1>3, <2>1, <2>2, <2>3, ZenonT(60) DEF SettersAlone
<1>11. Responses'
    <2>1. \A q \in Structs \ {r} : Same(q)
        BY <1>2, <1>3, ZenonT(60) DEF Same
    <2>2. rs'[r].out # 1 \/ (rs'[r].sock # NoFd /\ Begun(fdt[rs[r].sock])')
        <3>1. SUFFICES ASSUME rs'[r].out = 1 PROVE rs'[r].sock # NoFd /\ Begun(fdt[rs[r].sock])'
            BY ZenonT(60)
        <3>2. rs[r].sock = f /\ Begun(fdt[f])
            BY <1>3, <3>1 DEF Quiet, Isolated, InOrder, Responses
        <3> QED
            BY <1>1, <1>2, <1>3, <3>2, ZenonT(60) DEF Quiet, Shapes, Begun
    <2> QED
        BY <1>2, <1>4, <2>1, <2>2, ResponsesFrame
<1> QED
    BY <1>5, <1>6, <1>7, <1>8, <1>9, <1>10, <1>11, ZenonT(60) DEF Isolated, Exclusive, InOrder

\* http_serve_client reads: not all of the request is there yet, or the client
\* has gone.
LEMMA ServeShortOwn ==
    ASSUME Quiet, ServeMore \/ ServeGone
    PROVE  Isolated'
<1>1. epc = "serve" /\ epc \in EventAt
    BY ZenonT(60) DEF ServeMore, ServeGone, EventAt
<1>2. PICK x, f, c : EventHas(x, f, c)
    BY <1>1, EventHasOne
<1>3. UNCHANGED <<log, fdt, reg, ev, pending, wpc, wr, wresp, cur, batch>> /\ epc' \in {"dispatch", "end"}
    BY ZenonT(60) DEF ServeMore, ServeGone, envVars, kernel, work
<1>4. \A d \in Conns : /\ conn'[d].st = conn[d].st /\ conn'[d].phase = conn[d].phase
                       /\ conn'[d].inb = conn[d].inb /\ conn'[d].sent = conn[d].sent
    <2>1. CASE ServeMore
        <3>1. conn' = [conn EXCEPT ![c].half = FALSE]
            BY <1>2, <2>1, ZenonT(60) DEF ServeMore, EventHas
        <3> QED
            BY <3>1 DEF Quiet, ConnTyped
    <2>2. CASE ServeGone
        BY <2>2, ZenonT(60) DEF ServeGone, envVars
    <2> QED
        BY <2>1, <2>2, ZenonT(60)
<1>5. \A r \in Structs : rs'[r].sock = rs[r].sock /\ rs'[r].out = rs[r].out /\ rs'[r].req = rs[r].req
    <2>1. CASE ServeMore
        BY <2>1, ZenonT(60) DEF ServeMore
    <2>2. CASE ServeGone
        <3>1. rs' = [rs EXCEPT ![x].keepalive = FALSE]
            BY <1>2, <2>2, ZenonT(60) DEF ServeGone, EventHas
        <3> QED
            BY <3>1 DEF Quiet, Inv, StructsOK
    <2> QED
        BY <2>1, <2>2, ZenonT(60)
<1>6. ConnsOK'
    BY <1>3, <1>4, ZenonT(60) DEF Quiet, Isolated, ConnsOK, Shapes
<1>7. LogsOK'
    BY <1>3, <1>4, LogsFrame, ZenonT(60)
<1>8. Exclusive'
    BY <1>2, <1>3, <1>5, EventStays, ZenonT(60)
<1>9. Responses'
    <2>1. \A r \in Structs : Same(r)
        BY <1>3, <1>4, <1>5, ZenonT(60) DEF Same, Quiet, Shapes, Isolated, Exclusive, SocksOpen
    <2> QED
        BY <1>3, <2>1, ResponsesAll
<1>10. PoolOK'
    BY <1>3, OwnFrame
<1> QED
    BY <1>6, <1>7, <1>8, <1>9, <1>10, ZenonT(60) DEF Isolated, InOrder

\* http_serve_client has the whole request: its response is due from now on.
LEMMA ServeParseOwn ==
    ASSUME Quiet, ServeParse
    PROVE  Isolated'
<1>1. epc = "serve" /\ epc \in EventAt
    BY ZenonT(60) DEF ServeParse, EventAt
<1>2. PICK x, f, c : EventHas(x, f, c)
    BY <1>1, EventHasOne
<1>3. /\ UNCHANGED <<log, fdt, reg, ev, pending, wpc, wr, wresp, cur, batch>> /\ epc' \in {"static", "handler"}
      /\ conn[c].inb # <<>>
    BY <1>2, ZenonT(60) DEF ServeParse, kernel, work, EventHas
<1>4. PICK y : conn' = [conn EXCEPT ![c].inb = <<>>, ![c].ka = y]
    BY <1>2, ZenonT(60) DEF ServeParse, EventHas
<1>5. PICK id, z : id = Head(conn[c].inb).id /\ rs' = [rs EXCEPT ![x].req = id, ![x].keepalive = z]
    BY <1>2, ZenonT(60) DEF ServeParse, EventHas
<1>6. /\ \A d \in Conns \ {c} : conn'[d] = conn[d]
      /\ conn'[c].st = conn[c].st /\ conn'[c].phase = conn[c].phase /\ conn'[c].sent = conn[c].sent
      /\ conn'[c].inb = <<>>
    BY <1>2, <1>4, ZenonT(60) DEF Quiet, ConnTyped, EventHas
<1>7. /\ \A r \in Structs : rs'[r].sock = rs[r].sock /\ rs'[r].out = rs[r].out
      /\ \A r \in Structs \ {x} : rs'[r].req = rs[r].req
      /\ rs'[x].req = id
    BY <1>2, <1>5, Zenon DEF Quiet, Inv, StructsOK, EventHas
<1>8. conn[c].phase = "wait" /\ conn[c].sent = Len(log[c]) + 1 /\ id = <<c, conn[c].sent>>
    <2>1. c \in Conns /\ conn[c].st = "open"
        BY <1>2 DEF EventHas, Quiet, Isolated, ConnsOK
    <2>2. /\ conn[c].phase # "wait" => conn[c].inb = <<>> /\ conn[c].sent = Len(log[c])
          /\ conn[c].inb # <<>> => conn[c].sent = Len(log[c]) + 1 /\ Head(conn[c].inb).id = <<c, conn[c].sent>>
        BY <2>1, ZenonT(60) DEF Quiet, Isolated, InOrder, LogsOK
    <2> QED
        BY <1>3, <1>5, <2>2, ZenonT(60)
<1>9. ConnsOK'
    BY <1>3, <1>6, ZenonT(60) DEF Quiet, Isolated, ConnsOK, Shapes
<1>10. LogsOK'
    <2>1. c \in Conns
        BY <1>2 DEF EventHas
    <2> QED
        BY <1>3, <1>6, <1>8, <2>1, LogsStep
<1>11. Exclusive'
    BY <1>2, <1>3, <1>7, EventStays, ZenonT(60)
<1>12. Responses'
    <2>1. \A r \in Structs \ {x} : Same(r)
        <3>1. x \in Structs /\ f \in Fds /\ f = rs[x].sock /\ fdt[f] = c /\ c # None
            BY <1>2, ZenonT(60) DEF EventHas
        <3>2. \A d \in Conns \ {fdt[f]} : conn'[d] = conn[d] /\ log'[d] = log[d]
            BY <1>3, <1>6, <3>1, ZenonT(60)
        <3> QED
            BY <1>3, <1>7, <3>1, <3>2, SameOtherConns, ZenonT(60)
    <2>2. rs'[x].out # 1
        <3>1. ~Begun(c)
            BY <1>3 DEF Begun
        <3> QED
            BY <1>2, <1>7, <3>1, ZenonT(60) DEF Quiet, Isolated, InOrder, Responses, EventHas
    <2>3. cur' = x /\ rs'[x].req = <<c, conn'[c].sent>> /\ fdt'[rs'[x].sock] = c
        <3>1. x = cur /\ x \in Structs /\ fdt[rs[x].sock] = c
            BY <1>2, ZenonT(60) DEF EventHas
        <3> QED
            BY <1>3, <1>6, <1>7, <1>8, <3>1, ZenonT(60)
    <2>4. conn'[c].phase = "wait" /\ conn'[c].inb = <<>> /\ conn'[c].sent = Len(log'[c]) + 1
        BY <1>3, <1>6, <1>8, ZenonT(60)
    <2>5. Answering(cur, rs[cur].req)'
        BY <2>3, <2>4, ZenonT(60) DEF Answering, Due
    <2>6. \A r \in Structs : pending'[r] > 0 => r # x /\ pending[r] > 0
        BY <1>2, <1>3 DEF EventHas
    <2>7. \A w \in Workers : wr[w] # x
        BY <1>2, ZenonT(60) DEF EventHas
    <2> QED
        BY <1>3, <2>1, <2>2, <2>5, <2>6, <2>7, ResponsesFrame, ZenonT(60)
<1>13. PoolOK'
    BY <1>3, OwnFrame
<1> QED
    BY <1>9, <1>10, <1>11, <1>12, <1>13, ZenonT(60) DEF Isolated, InOrder

\* http_response hands the structure over, with the events of its socket off.
LEMMA HandlerOwn ==
    ASSUME Quiet, RespondHandler
    PROVE  Isolated'
<1>1. epc = "handler" /\ epc \in EventAt
    BY DEF RespondHandler, EventAt
<1>2. PICK x, f, c : EventHas(x, f, c)
    BY <1>1, EventHasOne, ZenonT(60)
<1>3. /\ UNCHANGED <<conn, log, fdt, ev, rs, wpc, wr, wresp, cur, batch>> /\ epc' = "dispatch"
      /\ EpollMod(f, "none", f) /\ pending' = [pending EXCEPT ![x] = pending[x] + 1]
    BY <1>2, ZenonT(60) DEF RespondHandler, Pool!Submit, envVars, EventHas
<1>4. /\ \A g \in Fds \ {f} : reg'[g] = reg[g]
      /\ reg'[f].mask = "none" /\ reg'[f].data = f
    BY <1>2, <1>3, ZenonT(60) DEF EpollMod, IsOpen, EventHas
<1>5. /\ pending' \in [Structs -> Nat]
      /\ \A r \in Structs : pending'[r] = IF r = x THEN 1 ELSE pending[r]
    BY <1>2, <1>3 DEF EventHas, Quiet, Isolated, PoolOK
<1>6. PoolOK'
    BY <1>3, <1>5, ZenonT(60) DEF Quiet, Isolated, PoolOK
<1>7. SocksOpen' /\ EventAlone' /\ EventsFresh'
    <2>1. SocksOpen'
        BY <1>3, <1>4, ZenonT(60) DEF Quiet, Isolated, Exclusive, SocksOpen
    <2>2. EventAlone'
        BY <1>3, ZenonT(60) DEF EventAlone, EventAt
    <2>3. \A e \in batch : e.ev # "listen" => e.fd \in Fds \ {f}
        BY <1>2, ZenonT(60) DEF EventHas, Quiet, Shapes
    <2>4. EventsFresh
        BY ZenonT(60) DEF Quiet, Isolated, Exclusive
    <2>5. EventsFresh'
        BY <1>3, <1>4, <2>3, <2>4, ZenonT(60) DEF EventsFresh, EventAt
    <2> QED
        BY <2>1, <2>2, <2>5, ZenonT(60)
<1>8. HeldOnce'
    <2>1. \A r \in Structs : r # x /\ rs[r].sock # NoFd => reg'[rs[r].sock] = reg[rs[r].sock]
        BY <1>2, <1>4, ZenonT(60) DEF EventHas, Quiet, Shapes
    <2>2. ASSUME NEW r \in Structs, pending'[r] > 0
          PROVE  /\ pending'[r] = 1 /\ \A w \in Workers : wr'[w] # r
                 /\ rs'[r].sock # NoFd /\ reg'[rs'[r].sock].mask = "none"
        <3>1. CASE r = x
            <4>1. f = rs[x].sock /\ f # NoFd /\ \A w \in Workers : wr[w] # x
                BY <1>2, ZenonT(60) DEF EventHas
            <4>2. pending'[r] = 1
                BY <1>5, <3>1, ZenonT(60)
            <4> QED
                BY <1>3, <1>4, <3>1, <4>1, <4>2, ZenonT(60)
        <3>2. CASE r # x
            BY <1>3, <1>5, <2>1, <2>2, <3>2, ZenonT(60) DEF Quiet, Isolated, Exclusive, HeldOnce
        <3> QED
            BY <3>1, <3>2, ZenonT(60)
    <2>3. ASSUME NEW w \in Workers, wr'[w] # None
          PROVE  rs'[wr'[w]].sock # NoFd /\ reg'[rs'[wr'[w]].sock].mask = "none"
        <3>1. PICK r \in Structs : r = wr[w] /\ r # x /\ r # None
            BY <1>2, <1>3, <2>3, ZenonT(60) DEF EventHas, Quiet, Shapes
        <3>2. rs[r].sock # NoFd /\ reg[rs[r].sock].mask = "none"
            BY <3>1, ZenonT(60) DEF Quiet, Isolated, Exclusive, HeldOnce
        <3> QED
            BY <1>3, <2>1, <3>1, <3>2, ZenonT(60)
    <2>4. \A v, w \in Workers : wr'[v] = wr'[w] => v = w \/ wr'[v] = None
        BY <1>3, ZenonT(60) DEF Quiet, Isolated, Exclusive, HeldOnce
    <2> QED
        BY <2>2, <2>3, <2>4, Zenon DEF HeldOnce
<1>9. SettersAlone'
    BY <1>3, ZenonT(60) DEF Quiet, Isolated, Exclusive, SettersAlone
<1>10. Responses'
    <2>1. \A r \in Structs \ {x} : Same(r)
        BY <1>3 DEF Same
    <2>2. Answering(x, rs[x].req)'
        <3>1. Answering(x, rs[x].req)
            BY <1>1, <1>2 DEF EventHas, Quiet, Isolated, InOrder, Responses
        <3> QED
            BY <1>3, <3>1, ZenonT(60) DEF Answering, Due
    <2>3. rs'[x].out # 1 \/ (rs'[x].sock # NoFd /\ Begun(fdt[rs[x].sock])')
        <3>1. rs[x].out = 1 => rs[x].sock # NoFd /\ Begun(fdt[rs[x].sock])
            BY <1>2 DEF EventHas, Quiet, Isolated, InOrder, Responses
        <3> QED
            BY <1>3, <3>1, ZenonT(60) DEF Begun
    <2>4. \A r \in Structs : pending'[r] > 0 => (r # x /\ pending[r] > 0) \/ Answering(r, rs[r].req)'
        BY <1>5, <2>2, ZenonT(60)
    <2>5. \A w \in Workers : wr[w] # x
        BY <1>2, ZenonT(60) DEF EventHas
    <2> QED
        BY <1>3, <2>1, <2>3, <2>4, <2>5, ResponsesFrame, ZenonT(60)
<1> QED
    BY <1>3, <1>6, <1>7, <1>8, <1>9, <1>10, OwnFrame, ZenonT(60) DEF Isolated, Exclusive, InOrder

\* http_response answers in the event thread.
LEMMA StaticOwn ==
    ASSUME Quiet, RespondStatic
    PROVE  Isolated'
<1>1. epc = "static" /\ epc \in EventAt
    BY ZenonT(60) DEF RespondStatic, EventAt
<1>2. PICK x, f, c : EventHas(x, f, c)
    BY <1>1, EventHasOne, ZenonT(60)
<1>3. x = cur /\ x \in Structs /\ f \in Fds /\ f # NoFd /\ f = rs[x].sock /\ c = fdt[f] /\ c \in Conns /\ c # None
    BY <1>2, ZenonT(60) DEF EventHas
<1>4. Answering(x, rs[x].req) /\ rs[x].req = <<c, conn[c].sent>>
    BY <1>1, <1>3, ZenonT(60) DEF Quiet, Isolated, InOrder, Responses, Answering
<1>5. UNCHANGED <<fdt, reg, pending, wpc, wr, wresp, cur, batch>> /\ Works(f)
    <2>1. UNCHANGED <<fdt, reg, pending, wpc, wr, wresp, cur, batch>>
        BY Zenon DEF RespondStatic, kernel, work
    <2> QED
        BY <1>3, <2>1 DEF Works, Quiet, NoReset
<1>6. \/ Written(f, rs[x].req, TRUE) /\ epc' = "end" /\ UNCHANGED <<ev, rs>>
      \/ /\ Written(f, rs[x].req, FALSE) /\ MayEnter("set_out") /\ ev' = [ev EXCEPT !.out = f]
         /\ rs' = [rs EXCEPT ![x].out = 1] /\ epc' = "set_out"
    BY <1>3, <1>5, ZenonT(60) DEF RespondStatic
<1>7. PICK whole \in BOOLEAN :
          /\ Written(f, rs[x].req, whole)
          /\ whole => epc' = "end" /\ UNCHANGED <<ev, rs>>
          /\ ~whole => /\ epc' = "set_out" /\ ~InSetter("set_out")
                       /\ ev' = [ev EXCEPT !.out = f] /\ rs' = [rs EXCEPT ![x].out = 1]
    BY <1>6, ZenonT(60) DEF MayEnter, Quiet
<1>8. /\ ConnsOK' /\ LogsOK'
      /\ \A r \in Structs : rs'[r].sock = rs[r].sock
      /\ \A r \in Structs \ {x} : Same(r)
      /\ rs'[x].out # 1 \/ (rs'[x].sock # NoFd /\ Begun(fdt[rs[x].sock])')
    BY <1>3, <1>4, <1>5, <1>7, SentOwn
<1>9. Exclusive'
    <2>1. CASE whole
        BY <1>2, <1>5, <1>7, <1>8, <2>1, EventStays, ZenonT(60)
    <2>2. CASE ~whole
        BY <1>2, <1>5, <1>7, <1>8, <2>2, EventSets, ZenonT(60)
    <2> QED
        BY <2>1, <2>2, ZenonT(60)
<1>10. PoolOK'
    BY <1>5, OwnFrame
<1>11. Responses'
    <2>1. \A r \in Structs : pending'[r] > 0 => r # x /\ pending[r] > 0
        BY <1>2, <1>5 DEF EventHas
    <2>2. \A w \in Workers : wr[w] # x
        BY <1>2 DEF EventHas
    <2>3. epc' \notin {"static", "handler"}
        BY <1>7, ZenonT(60)
    <2> QED
        BY <1>5, <1>8, <2>1, <2>2, <2>3, ResponsesFrame, ZenonT(60)
<1> QED
    BY <1>8, <1>9, <1>10, <1>11, ZenonT(60) DEF Isolated, InOrder

\* The setters and the end of a request in the event thread.
LEMMA EventEndOwn ==
    ASSUME Quiet, EventSetOut \/ EventSetIn \/ EventEnd
    PROVE  Isolated'
<1>1. epc \in {"set_out", "set_in", "end"} /\ epc \in EventAt
    BY ZenonT(60) DEF EventSetOut, EventSetIn, EventEnd, EventAt
<1>2. PICK x, f, c : EventHas(x, f, c)
    BY <1>1, EventHasOne, ZenonT(60)
<1>3. x = cur /\ x \in Structs /\ f \in Fds /\ f # NoFd /\ f = rs[x].sock /\ fdt[f] # None
    BY <1>2 DEF EventHas
<1>4. UNCHANGED <<log, pending, wpc, wr, wresp, cur, batch>>
    BY ZenonT(60) DEF EventSetOut, EventSetIn, EventEnd, envVars, work
<1>5. (epc = "set_out" => ev.out = f) /\ (epc = "set_in" => ev.in = f)
    BY <1>3 DEF Quiet, Isolated, Exclusive, SettersAlone
<1>6. \/ UNCHANGED <<conn, fdt, ev, rs>> /\ epc' = "dispatch" /\ EpollMod(f, "out", f)
      \/ UNCHANGED <<conn, fdt, ev>> /\ epc' = "dispatch" /\ EpollMod(f, "in", f) /\ Clear(x)
      \/ UNCHANGED <<conn, fdt, reg, rs>> /\ epc' = "set_in" /\ ev' = [ev EXCEPT !.in = f] /\ MayEnter("set_in")
      \/ CloseFds({f}) /\ Clear(x) /\ epc' = "dispatch" /\ UNCHANGED ev
    BY <1>3, <1>5, ZenonT(60) DEF EventSetOut, EventSetIn, EventEnd, envVars, kernel
<1>7. PoolOK'
    BY <1>4, OwnFrame, ZenonT(60)
<1>8. CASE UNCHANGED <<conn, fdt, ev, rs>> /\ epc' = "dispatch" /\ EpollMod(f, "out", f)
    <2>1. (\A g \in Fds \ {f} : reg'[g] = reg[g]) /\ reg'[f].data = f
        BY <1>3, <1>8, ZenonT(60) DEF EpollMod, IsOpen
    <2>2. Exclusive'
        BY <1>1, <1>3, <1>4, <1>8, <2>1, EventLeaves, ZenonT(60)
    <2> QED
        BY <1>4, <1>7, <1>8, <2>2, OwnFrame, ZenonT(60) DEF Isolated, InOrder
<1>9. CASE UNCHANGED <<conn, fdt, reg, rs>> /\ epc' = "set_in" /\ ev' = [ev EXCEPT !.in = f] /\ MayEnter("set_in")
    <2>1. ~InSetter("set_in")
        BY <1>9 DEF MayEnter, Quiet
    <2>2. Exclusive'
        BY <1>2, <1>4, <1>9, <2>1, EventSets, ZenonT(60)
    <2> QED
        BY <1>4, <1>7, <1>9, <2>2, OwnFrame, ZenonT(60) DEF Isolated, InOrder
<1>10. ASSUME Clear(x), CloseFds({f}) \/ (EpollMod(f, "in", f) /\ UNCHANGED <<conn, fdt>>), UNCHANGED ev, epc' = "dispatch"
       PROVE  Isolated'
    <2>1. /\ ConnsOK' /\ LogsOK'
          /\ rs'[x].sock = NoFd /\ rs'[x].out # 1 /\ \A r \in Structs \ {x} : rs'[r].sock = rs[r].sock
          /\ \A g \in Fds \ {f} : fdt'[g] = fdt[g] /\ reg'[g] = reg[g]
          /\ fdt'[f] = None \/ (fdt'[f] = fdt[f] /\ reg'[f].data = f)
          /\ \A r \in Structs \ {x} : Same(r)
        <3>1. x \in Structs /\ f = rs[x].sock /\ f \in Fds
            BY <1>2, ZenonT(60) DEF EventHas
        <3> QED
            BY <1>3, <1>4, <1>10, <3>1, ClearedOwn
    <2>2. Exclusive'
        BY <1>1, <1>3, <1>4, <1>10, <2>1, EventLeaves, Zenon
    <2>3. \A r \in Structs : pending'[r] > 0 => r # x /\ pending[r] > 0
        BY <1>2, <1>4 DEF EventHas
    <2>4. \A w \in Workers : wr[w] # x
        BY <1>2 DEF EventHas
    <2>5. Responses'
        BY <1>4, <1>10, <2>1, <2>3, <2>4, ResponsesFrame, ZenonT(60)
    <2> QED
        BY <1>7, <2>1, <2>2, <2>5, ZenonT(60) DEF Isolated, InOrder
<1> QED
    BY <1>6, <1>8, <1>9, <1>10, ZenonT(60)

\* events_out_data: the next piece is written, or the request is at its end.
LEMMA DispatchOutOwn ==
    ASSUME ScansStop, Quiet, NEW e \in batch, DispatchOut(e)
    PROVE  Isolated'
<1>1. PICK f, c : f = e.fd /\ c = fdt[f]
    BY ZenonT(60)
<1>2. /\ f \in Fds /\ f # NoFd /\ c # None /\ c \in Conns /\ reg[f].mask = "out" /\ epc = "dispatch"
      /\ \A d \in batch \ {e} : d.ev # "listen" => d.fd # f
    BY <1>1, ZenonT(60) DEF DispatchOut, Take, Quiet, Isolated, Exclusive, EventsFresh, Shapes
<1>3. PICK r : r = vec[First(Bound(f))]
    BY ZenonT(60)
<1>4. Bound(f) # {} => r \in Structs /\ rs[r].sock = f
    <2>1. SUFFICES ASSUME Bound(f) # {} PROVE r \in Structs /\ rs[r].sock = f
        OBVIOUS
    <2>2. Bound(f) \in SUBSET DOMAIN vec /\ DOMAIN vec \in SUBSET Nat /\ \A i \in DOMAIN vec : vec[i] \in Structs
        BY DEF Bound, Quiet, Inv, ListOK
    <2>3. Bound(f) \in SUBSET Nat
        BY <2>2
    <2>4. First(Bound(f)) \in Bound(f)
        BY <2>1, <2>3 DEF ScansStop
    <2> HIDE DEF First
    <2> QED
        BY <1>3, <2>2, <2>4, ZenonT(60) DEF Bound
<1>5. UNCHANGED <<log, fdt, reg, ev, pending, wpc, wr, wresp>> /\ batch' = batch \ {e}
    BY ZenonT(60) DEF DispatchOut, Take, kernel, work
<1>6. \/ epc' = "dispatch" /\ UNCHANGED <<conn, rs>>
      \/ /\ Bound(f) # {} /\ rs[r].out = 1 /\ epc' = "dispatch"
         /\ rs' = [rs EXCEPT ![r].out = 0] /\ conn' = [conn EXCEPT ![c].phase = "idle"]
      \/ Bound(f) # {} /\ cur' = r /\ epc' = "end" /\ UNCHANGED <<conn, rs>>
    BY <1>1, <1>3, ZenonT(60) DEF DispatchOut
<1>7. PoolOK'
    BY <1>5, OwnFrame, ZenonT(60)
<1>8. CASE epc' = "dispatch" /\ UNCHANGED <<conn, rs>>
    <2>1. Exclusive'
        BY <1>5, <1>8, EventMove, ZenonT(60) DEF EventAt
    <2> QED
        BY <1>5, <1>7, <1>8, <2>1, OwnFrame, ZenonT(60) DEF Isolated, InOrder
<1>9. CASE Bound(f) # {} /\ cur' = r /\ epc' = "end" /\ UNCHANGED <<conn, rs>>
    <2>1. /\ cur' \in Structs /\ rs[cur'].sock # NoFd /\ reg[rs[cur'].sock].mask # "none"
          /\ \A d \in batch' : d.ev # "listen" => d.fd # rs[cur'].sock
        BY <1>2, <1>4, <1>5, <1>9, ZenonT(60)
    <2>2. epc' \in EventAt \cup {"dispatch", "accept"} /\ epc' \notin {"set_in", "set_out"}
        BY <1>9, ZenonT(60) DEF EventAt
    <2>3. Exclusive'
        BY <1>5, <1>9, <2>1, <2>2, EventMove, ZenonT(60)
    <2> QED
        BY <1>5, <1>7, <1>9, <2>3, OwnFrame, ZenonT(60) DEF Isolated, InOrder
<1>10. CASE /\ Bound(f) # {} /\ rs[r].out = 1 /\ epc' = "dispatch"
            /\ rs' = [rs EXCEPT ![r].out = 0] /\ conn' = [conn EXCEPT ![c].phase = "idle"]
    <2>1. r \in Structs /\ rs[r].sock = f /\ Begun(c)
        BY <1>1, <1>4, <1>10, ZenonT(60) DEF Quiet, Isolated, InOrder, Responses
    <2>2. /\ \A q \in Structs : rs'[q].sock = rs[q].sock /\ rs'[q].req = rs[q].req
          /\ \A q \in Structs \ {r} : rs'[q].out = rs[q].out
          /\ rs'[r].out = 0
        BY <1>10, <2>1, ZenonT(60) DEF Quiet, Inv, StructsOK
    <2>3. /\ \A d \in Conns \ {c} : conn'[d] = conn[d]
          /\ conn'[c].st = conn[c].st /\ conn'[c].phase = "idle"
          /\ conn'[c].inb = conn[c].inb /\ conn'[c].sent = conn[c].sent
        BY <1>2, <1>10, ZenonT(60) DEF Quiet, ConnTyped
    <2>4. ConnsOK'
        <3>1. \A d \in Conns : /\ conn'[d].st = conn[d].st /\ conn'[d].sent = conn[d].sent
                               /\ conn'[d].phase \in {conn[d].phase, "idle"}
            BY <2>3, ZenonT(60)
        <3>2. ConnsOK /\ \A g \in Fds : fdt[g] # None => fdt[g] \in Conns
            BY ZenonT(60) DEF Quiet, Isolated, Shapes
        <3> QED
            BY <1>5, <3>1, <3>2, ZenonT(60) DEF ConnsOK
    <2>5. LogsOK'
        <3>1. conn'[c].inb = <<>> /\ conn'[c].sent = Len(log[c])
            BY <2>1, <2>3 DEF Begun
        <3> QED
            BY <1>2, <1>5, <2>3, <3>1, LogsStep, Zenon
    <2>6. Exclusive'
        BY <1>5, <1>10, <2>2, EventMove, ZenonT(60) DEF EventAt
    <2>7. pending[r] = 0 /\ \A w \in Workers : wr[w] # r
        BY <1>2, <2>1, NotHeld, ZenonT(60)
    <2>8. \A q \in Structs \ {r} : Same(q)
        <3>1. \A d \in Conns \ {fdt[f]} : conn'[d] = conn[d] /\ log'[d] = log[d]
            BY <1>1, <1>5, <2>3, ZenonT(60)
        <3> QED
            BY <1>1, <1>2, <1>5, <2>1, <2>2, <3>1, SameOtherConns, ZenonT(60)
    <2>9. Responses'
        <3>1. \A q \in Structs : pending'[q] > 0 => q # r /\ pending[q] > 0
            BY <1>5, <2>7, ZeroIsLeast, ZenonT(60)
        <3>2. rs'[r].out # 1
            BY <2>2
        <3>3. \A w \in Workers : wpc'[w] = wpc[w] /\ wr'[w] = wr[w] /\ wresp'[w] = wresp[w] /\ wr[w] # r
            BY <1>5, <2>7, ZenonT(60)
        <3> QED
            BY <1>10, <2>8, <3>1, <3>2, <3>3, ResponsesFrame, ZenonT(60)
    <2> QED
        BY <1>7, <2>4, <2>5, <2>6, <2>9, ZenonT(60) DEF Isolated, InOrder
<1> QED
    BY <1>6, <1>8, <1>9, <1>10, ZenonT(60)

\* While the setters do not overlap and nobody resets, no hang-up is reported.
LEMMA EventOwn ==
    ASSUME ScansStop, Quiet, Inv', EventNext
    PROVE  Isolated'
<1>1. ~HupCleanup /\ \A e \in batch : ~DispatchHup(e)
    BY DEF HupCleanup, DispatchHup, Quiet, Isolated, Exclusive, EventAlone, EventsFresh
<1> QED
    BY <1>1, IterOwn, LoopOwn, AcceptOwn, DispatchInOwn, ServeShortOwn, ServeParseOwn, HandlerOwn, StaticOwn,
       EventEndOwn, DispatchOutOwn, ZenonT(60) DEF EventNext

-----------------------------------------------------------------------------
(* The event thread: the structures, the list and the descriptors.         *)

\* event_find_request binds what it found, and the socket has no other.
LEMMA Found ==
    ASSUME ScansStop, Inv, NEW f \in Fds, FindRequest(f) # {}, vec' = vec,
           rs' = [rs EXCEPT ![vec[First(FindRequest(f))]].sock = f]
    PROVE  StructsOK' /\ OneStructPerSocket' /\ vec[First(FindRequest(f))] \in Structs
<1> DEFINE k == First(FindRequest(f))
<1>1. /\ k \in DOMAIN vec /\ vec[k] \in Structs
      /\ \/ rs[vec[k]].sock = f
         \/ rs[vec[k]].sock = NoFd /\ \A j \in DOMAIN vec : rs[vec[j]].sock # f
    BY FindFound, ZenonT(60) DEF Inv
<1> HIDE DEF k
<1>2. StructsOK'
    BY <1>1 DEF Inv, StructsOK, k
<1>3. \A r \in Structs : rs'[r].sock = IF r = vec[k] THEN f ELSE rs[r].sock
    BY <1>1, ZenonT(60) DEF Inv, StructsOK, k
<1>4. \A i \in DOMAIN vec : vec[i] \in Structs /\ (vec[i] = vec[k] => i = k)
    BY <1>1 DEF Inv, ListOK
<1>5. OneStructPerSocket'
    BY <1>1, <1>3, <1>4 DEF Inv, OneStructPerSocket
<1> QED
    BY <1>1, <1>2, <1>5, ZenonT(60) DEF k

\* event_fetch_request links a new structure when all others are at work.
LEMMA Linked ==
    ASSUME HasRoom, Inv, NEW f \in Fds, FindRequest(f) = {}, vec' = Append(vec, NewStruct),
           rs' = [rs EXCEPT ![NewStruct] = [Idle EXCEPT !.sock = f]]
    PROVE  StructsOK' /\ ListOK' /\ ListBounded' /\ OneStructPerSocket' /\ NewStruct \in Structs
<1> DEFINE n == NewStruct
<1>1. Len(vec) < NFds /\ n \in Structs /\ \A i \in DOMAIN vec : vec[i] # n
    BY DEF HasRoom
<1> HIDE DEF n
<1>2. rs' = [rs EXCEPT ![n] = [Idle EXCEPT !.sock = f]]
    BY DEF n
<1> DEFINE new == [Idle EXCEPT !.sock = f]
<1>3. DOMAIN new = {"sock", "keepalive", "out", "req"} /\ new.sock = f
    BY DEF Idle
<1> HIDE DEF new
<1>4. rs' = [r \in Structs |-> IF r = n THEN new ELSE rs[r]]
    BY <1>2 DEF Inv, StructsOK, new
<1>5. StructsOK'
    BY <1>3, <1>1, <1>4, ZenonT(60) DEF Inv, StructsOK
<1>6. vec \in Seq(Structs) /\ Len(vec) \in Nat /\ vec' = Append(vec, n) /\ DOMAIN vec = 1..Len(vec)
    BY DEF n, Inv, ListOK
<1>7. /\ vec' \in Seq(Structs) /\ Len(vec') = Len(vec) + 1 /\ DOMAIN vec' = 1..(Len(vec) + 1)
      /\ \A i \in 1..Len(vec) : vec'[i] = vec[i]
      /\ vec'[Len(vec) + 1] = n
    BY <1>1, <1>6
<1>8. ListOK'
    BY <1>1, <1>6, <1>7 DEF Inv, ListOK
<1>9. ListBounded'
    BY <1>1, <1>6, <1>7, ServerAssumption DEF ListBounded
<1>10. \A r \in Structs : rs'[r].sock = IF r = n THEN f ELSE rs[r].sock
    BY <1>3, <1>4, Zenon
<1>11. \A i \in DOMAIN vec : vec[i] \in Structs /\ rs[vec[i]].sock # f
    BY <1>6 DEF FindRequest, Bound
<1>12. OneStructPerSocket'
    BY <1>1, <1>6, <1>7, <1>10, <1>11 DEF Inv, OneStructPerSocket
<1> QED
    BY <1>1, <1>5, <1>8, <1>9, <1>12, ZenonT(60) DEF n

\* event_iter and the event loop around it.
LEMMA LoopStep ==
    ASSUME Inv, EventIter \/ EpollWait \/ BatchDone \/ AcceptEnd \/ ServeMore
    PROVE  Inv'
<1>1. CASE EventIter
    <2>1. KernelOK'
        BY <1>1, Closed, ZenonT(60) DEF EventIter
    <2>2. SetterOK' /\ ThreadsOK'
        BY <1>1, ServerAssumption DEF EventIter, Inv, SetterOK, InSetter, ThreadsOK, work
    <2> QED
        BY <1>1, <2>1, <2>2, Frame, ZenonT(60) DEF EventIter, Inv
<1>2. CASE EpollWait
    <2>1. \A e \in batch' : e.ev # "listen" => e.fd \in Fds
        <3>1. \A g \in Fds : IsOpen(g) => reg[g].data \in Fds
            BY ZenonT(60) DEF Inv, KernelOK, IsOpen
        <3>2. SUFFICES ASSUME NEW e \in batch', e.ev # "listen" PROVE e.fd \in Fds
            BY ZenonT(60)
        <3>3. CASE e = [fd |-> NoFd, src |-> NoFd, ev |-> "listen"]
            BY <3>2, <3>3, ZenonT(60)
        <3>4. CASE \E g \in Fds : IsOpen(g) /\ e = [fd |-> reg[g].data, src |-> g, ev |-> EventOf(g)]
            <4>1. PICK g \in Fds : IsOpen(g) /\ e = [fd |-> reg[g].data, src |-> g, ev |-> EventOf(g)]
                BY <3>4, ZenonT(60)
            <4>2. reg[g].data \in Fds
                BY <3>1, <4>1, ZenonT(60)
            <4>3. e.fd = reg[g].data
                BY <4>1
            <4> QED
                BY <4>2, <4>3, ZenonT(60)
        <3>5. e \in {[fd |-> reg[g].data, src |-> g, ev |-> EventOf(g)] :
                        g \in {h \in Fds : IsOpen(h) /\ EventOf(h) # "nothing"}}
              \/ e = [fd |-> NoFd, src |-> NoFd, ev |-> "listen"]
            BY <1>2, <3>2, ZenonT(60) DEF EpollWait
        <3> QED
            BY <3>3, <3>4, <3>5, ZenonT(60)
    <2>2. SetterOK' /\ ThreadsOK'
        BY <1>2, <2>1, ZenonT(60) DEF EpollWait, Inv, SetterOK, InSetter, ThreadsOK, work
    <2> QED
        BY <1>2, <2>2, Frame, ZenonT(60) DEF EpollWait, Inv, kernel
<1>3. CASE BatchDone
    <2>1. SetterOK' /\ ThreadsOK'
        BY <1>3, ZenonT(60) DEF BatchDone, Inv, SetterOK, InSetter, ThreadsOK, work
    <2> QED
        BY <1>3, <2>1, Frame, ZenonT(60) DEF BatchDone, Inv, kernel
<1>4. CASE AcceptEnd
    <2>1. SetterOK' /\ ThreadsOK'
        BY <1>4, ZenonT(60) DEF AcceptEnd, Inv, SetterOK, InSetter, ThreadsOK, work
    <2> QED
        BY <1>4, <2>1, Frame, ZenonT(60) DEF AcceptEnd, Inv, kernel
<1>5. CASE ServeMore
    <2>1. SetterOK' /\ ThreadsOK'
        <3>1. UNCHANGED <<ev, wpc, wr, wmutex, cur, batch>> /\ epc = "serve" /\ epc' = "dispatch"
            BY <1>5, ZenonT(60) DEF ServeMore, work
        <3> QED
            BY <3>1, ZenonT(60) DEF Inv, SetterOK, InSetter, ThreadsOK
    <2> QED
        BY <1>5, <2>1, Frame, ZenonT(60) DEF ServeMore, Inv, kernel
<1> QED
    BY <1>1, <1>2, <1>3, <1>4, <1>5, ZenonT(60)

\* event_iter frees an idle structure: the list gets shorter, the order stays.
LEMMA FreeStepLemma ==
    ASSUME Inv, FreeStep
    PROVE  Inv'
<1>1. SetterOK' /\ ThreadsOK'
    BY DEF FreeStep, Inv, SetterOK, InSetter, ThreadsOK, work
<1>2. CASE UNCHANGED vec
    BY <1>1, <1>2, Frame, ZenonT(60) DEF FreeStep, Inv, kernel
<1>3. CASE cur <= Len(vec) /\ vec' = Unlink(cur)
    <2>1. vec \in Seq(Structs) /\ Len(vec) \in Nat /\ DOMAIN vec = 1..Len(vec) /\ cur \in 1..Len(vec)
        BY <1>3 DEF Inv, ListOK, ThreadsOK, FreeStep
    <2>2. /\ vec' \in Seq(Structs) /\ Len(vec') = Len(vec) - 1 /\ DOMAIN vec' = 1..(Len(vec) - 1)
          /\ \A k \in DOMAIN vec' : vec'[k] = vec[IF k < cur THEN k ELSE k + 1]
        BY <1>3, <2>1 DEF Unlink
    <2> DEFINE at(k) == IF k < cur THEN k ELSE k + 1
    <2>a. \A k, l \in DOMAIN vec' : at(k) \in DOMAIN vec /\ vec'[k] = vec[at(k)] /\ (at(k) = at(l) => k = l)
        BY <2>1, <2>2
    <2> HIDE DEF at
    <2>3. ListOK'
        BY <2>2, <2>a DEF Inv, ListOK
    <2>4. ListBounded'
        <3>1. Len(vec) <= Prealloc \/ Len(vec) <= NFds
            BY ZenonT(60) DEF Inv, ListBounded
        <3>2. Len(vec') <= Prealloc \/ Len(vec') <= NFds
            BY <2>1, <2>2, <3>1, ServerAssumption
        <3> QED
            BY <3>2, ZenonT(60) DEF ListBounded
    <2>5. OneStructPerSocket'
        BY <2>a DEF FreeStep, Inv, OneStructPerSocket
    <2> QED
        BY <1>1, <2>3, <2>4, <2>5, Frame, ZenonT(60) DEF FreeStep, Inv, kernel
<1> QED
    BY <1>2, <1>3, ZenonT(60) DEF FreeStep

LEMMA AcceptStep ==
    ASSUME ScansStop, Inv, (\E c \in Conns : Accept(c)) \/ (\E e \in batch : DispatchListen(e))
    PROVE  Inv'
<1>1. CASE \E c \in Conns : Accept(c)
    <2>1. PICK c \in Conns : Accept(c)
        BY <1>1
    <2>2. First({g \in Fds : fdt[g] = None}) \in Fds
        BY <2>1, ServerAssumption DEF Accept, Fds, ScansStop
    <2>3. KernelOK'
        BY <2>1, <2>2, ZenonT(60) DEF Accept, Inv, KernelOK
    <2> QED
        BY <2>1, <2>3, Frame, ZenonT(60) DEF Accept, Inv, event, work
<1>2. CASE \E e \in batch : DispatchListen(e)
    <2>1. SetterOK' /\ ThreadsOK'
        BY <1>2, ZenonT(60) DEF DispatchListen, Take, Inv, SetterOK, InSetter, ThreadsOK, work
    <2> QED
        BY <1>2, <2>1, Frame, ZenonT(60) DEF DispatchListen, Inv, kernel
<1> QED
    BY <1>1, <1>2, ZenonT(60)

\* event_fetch_request for a read event.
LEMMA DispatchInStep ==
    ASSUME ScansStop, HasRoom, Inv, NEW e \in batch, DispatchIn(e)
    PROVE  Inv'
<1> DEFINE f == e.fd
<1>1. f \in Fds
    BY ZenonT(60) DEF DispatchIn, Take, Inv, ThreadsOK
<1>2. CASE FindRequest(f) # {}
    <2>1. vec' = vec /\ rs' = [rs EXCEPT ![vec[First(FindRequest(f))]].sock = f] /\ cur' = vec[First(FindRequest(f))]
        BY <1>2, Zenon DEF DispatchIn
    <2>2. StructsOK' /\ OneStructPerSocket' /\ cur' \in Structs
        BY <1>1, <1>2, <2>1, Found, Zenon
    <2>3. SetterOK' /\ ThreadsOK'
        BY <2>2, ZenonT(60) DEF DispatchIn, Take, Inv, SetterOK, InSetter, ThreadsOK, work
    <2> QED
        BY <2>1, <2>2, <2>3, Frame, ZenonT(60) DEF DispatchIn, Inv, kernel
<1>3. CASE FindRequest(f) = {}
    <2>1. vec' = Append(vec, NewStruct) /\ rs' = [rs EXCEPT ![NewStruct] = [Idle EXCEPT !.sock = f]] /\ cur' = NewStruct
        BY <1>3 DEF DispatchIn
    <2>2. StructsOK' /\ ListOK' /\ ListBounded' /\ OneStructPerSocket' /\ cur' \in Structs
        BY <1>1, <1>3, <2>1, Linked, ZenonT(60)
    <2>3. SetterOK' /\ ThreadsOK'
        BY <2>2, ZenonT(60) DEF DispatchIn, Take, Inv, SetterOK, InSetter, ThreadsOK, work
    <2> QED
        BY <2>2, <2>3, Frame, ZenonT(60) DEF DispatchIn, Inv, kernel
<1> QED
    BY <1>2, <1>3, ZenonT(60)

\* http_serve_client: the structure keeps its socket; keep-alive is only
\* granted to a socket that was read from.
LEMMA ServeStep ==
    ASSUME Inv, ServeGone \/ ServeParse
    PROVE  Inv'
<1>1. cur \in Structs /\ rs[cur].sock \in Fds \cup {NoFd}
    BY Zenon DEF ServeGone, ServeParse, Inv, ThreadsOK, StructsOK
<1>2. CASE ServeGone
    <2>1. StructsOK' /\ \A r \in Structs : rs'[r].sock = rs[r].sock
        BY <1>1, <1>2, ZenonT(60) DEF ServeGone, Inv, StructsOK
    <2>2. SetterOK' /\ ThreadsOK'
        BY <1>2, ZenonT(60) DEF ServeGone, Inv, SetterOK, InSetter, ThreadsOK, work
    <2> QED
        BY <1>2, <2>1, <2>2, Frame, Released, ZenonT(60) DEF ServeGone, Inv, kernel
<1>3. CASE ServeParse
    <2>1. rs[cur].sock \in Fds
        BY <1>1, <1>3, ZenonT(60) DEF ServeParse, Works
    <2>2. StructsOK' /\ \A r \in Structs : rs'[r].sock = rs[r].sock
        BY <1>1, <1>3, <2>1, ZenonT(60) DEF ServeParse, Inv, StructsOK
    <2>3. SetterOK' /\ ThreadsOK'
        BY <1>3, ZenonT(60) DEF ServeParse, Inv, SetterOK, InSetter, ThreadsOK, work
    <2> QED
        BY <1>3, <2>2, <2>3, Frame, Released, Zenon DEF ServeParse, Inv, kernel
<1> QED
    BY <1>2, <1>3, ZenonT(60)

\* http_response.
LEMMA RespondStep ==
    ASSUME Inv, RespondHandler \/ RespondStatic
    PROVE  Inv'
<1>1. cur \in Structs /\ rs[cur].sock \in Fds \cup {NoFd}
    BY ZenonT(60) DEF RespondHandler, RespondStatic, Inv, ThreadsOK, StructsOK
<1>2. CASE RespondHandler
    <2>1. KernelOK'
        <3>1. CASE rs[cur].sock \in Fds
            BY <1>2, <3>1, Modified, ZenonT(60) DEF RespondHandler
        <3>2. CASE rs[cur].sock = NoFd
            BY <1>2, <3>2, ZenonT(60) DEF RespondHandler, EpollMod, IsOpen, Inv, KernelOK
        <3> QED
            BY <1>1, <3>1, <3>2
    <2>2. SetterOK' /\ ThreadsOK'
        BY <1>2 DEF RespondHandler, Pool!Submit, Inv, SetterOK, InSetter, ThreadsOK
    <2> QED
        BY <1>2, <2>1, <2>2, Frame, ZenonT(60) DEF RespondHandler, Inv
<1>3. CASE RespondStatic
    <2>1. StructsOK' /\ \A r \in Structs : rs'[r].sock = rs[r].sock
        <3>1. UNCHANGED rs \/ rs' = [rs EXCEPT ![cur].out = 1]
            BY <1>3, Zenon DEF RespondStatic
        <3> QED
            BY <3>1, OutSet
    <2>2. SetterOK' /\ ThreadsOK'
        BY <1>1, <1>3, ZenonT(60) DEF RespondStatic, Works, Inv, SetterOK, InSetter, ThreadsOK, work
    <2> QED
        BY <1>3, <2>1, <2>2, Frame, Released, ZenonT(60) DEF RespondStatic, Inv, kernel
<1> QED
    BY <1>2, <1>3

\* The two setters in the event thread.
LEMMA EventSetStep ==
    ASSUME Inv, EventSetOut \/ EventSetIn
    PROVE  Inv'
<1>1. CASE EventSetOut
    <2>1. KernelOK'
        BY <1>1, Modified, ZenonT(60) DEF EventSetOut, Inv, SetterOK, InSetter
    <2>2. SetterOK' /\ ThreadsOK'
        BY <1>1, ZenonT(60) DEF EventSetOut, Inv, SetterOK, InSetter, ThreadsOK, work
    <2> QED
        BY <1>1, <2>1, <2>2, Frame, ZenonT(60) DEF EventSetOut, Inv
<1>2. CASE EventSetIn
    <2>1. KernelOK'
        BY <1>2, Modified, ZenonT(60) DEF EventSetIn, Inv, SetterOK, InSetter
    <2>2. SetterOK' /\ ThreadsOK'
        BY <1>2, ZenonT(60) DEF EventSetIn, Inv, SetterOK, InSetter, ThreadsOK, work
    <2>3. StructsOK' /\ OneStructPerSocket'
        BY <1>2, Cleared, ZenonT(60) DEF EventSetIn
    <2> QED
        BY <1>2, <2>1, <2>2, <2>3, Frame, ZenonT(60) DEF EventSetIn, Inv
<1> QED
    BY <1>1, <1>2

\* events_out_data.
LEMMA DispatchOutStep ==
    ASSUME ScansStop, Inv, NEW e \in batch, DispatchOut(e)
    PROVE  Inv'
<1> DEFINE r == vec[First(Bound(e.fd))]
<1>1. Bound(e.fd) # {} => r \in Structs
    <2>1. SUFFICES ASSUME Bound(e.fd) # {} PROVE r \in Structs
        OBVIOUS
    <2>2. Bound(e.fd) \in SUBSET DOMAIN vec /\ DOMAIN vec \in SUBSET Nat /\ \A i \in DOMAIN vec : vec[i] \in Structs
        BY DEF Bound, Inv, ListOK
    <2> QED
        BY <2>1, <2>2 DEF ScansStop
<1>2. UNCHANGED rs \/ rs' = [rs EXCEPT ![r].out = 0]
    BY DEF DispatchOut
<1>3. StructsOK' /\ \A q \in Structs : rs'[q].sock = rs[q].sock
    BY <1>2, OutSet, Zenon
<1>4. /\ epc' = "dispatch" \/ (epc' = "end" /\ cur' \in Structs)
      /\ epc = "dispatch" /\ batch' \in SUBSET batch
    BY <1>1, ZenonT(60) DEF DispatchOut, Take
<1>5. SetterOK' /\ ThreadsOK'
    BY <1>4 DEF DispatchOut, Inv, SetterOK, InSetter, ThreadsOK, work
<1> QED
    BY <1>3, <1>5, Frame, Released, ZenonT(60) DEF DispatchOut, Inv, kernel

\* end_request and http_cleanup in the event thread: the socket that gets its
\* read events back is one, because keep-alive was granted.
LEMMA EventEndStep ==
    ASSUME Inv, EventEnd
    PROVE  Inv'
<1>1. cur \in Structs
    BY DEF EventEnd, Inv, ThreadsOK
<1>2. CASE rs[cur].keepalive
    <2>1. rs[cur].sock \in Fds
        BY <1>1, <1>2, ZenonT(60) DEF Inv, StructsOK
    <2>2. /\ ev' = [ev EXCEPT !.in = rs[cur].sock] /\ epc' = "set_in" /\ UNCHANGED <<fdt, reg, rs>>
          /\ UNCHANGED <<vec, wmutex, cur, batch, wpc, wr>> /\ epc = "end"
        BY <1>2, Zenon DEF EventEnd, kernel, work
    <2>3. SetterOK' /\ ThreadsOK'
        BY <1>1, <2>1, <2>2, ZenonT(60) DEF Inv, SetterOK, InSetter, ThreadsOK
    <2> QED
        BY <2>2, <2>3, Frame, ZenonT(60) DEF Inv
<1>3. CASE ~rs[cur].keepalive
    <2>1. /\ CloseFds({rs[cur].sock}) /\ Clear(cur) /\ epc' = "dispatch" /\ UNCHANGED ev
          /\ UNCHANGED <<vec, wmutex, cur, batch, wpc, wr>> /\ epc = "end"
        BY <1>3, ZenonT(60) DEF EventEnd, work
    <2>2. SetterOK' /\ ThreadsOK'
        BY <2>1, ZenonT(60) DEF Inv, SetterOK, InSetter, ThreadsOK
    <2>3. KernelOK' /\ StructsOK' /\ OneStructPerSocket'
        BY <2>1, Closed, Cleared, ZenonT(60)
    <2> QED
        BY <2>1, <2>2, <2>3, Frame, ZenonT(60) DEF Inv
<1> QED
    BY <1>2, <1>3, ZenonT(60)

\* EPOLLHUP: event_find_request, then the cleanup.
LEMMA HupStep ==
    ASSUME ScansStop, Inv, (\E e \in batch : DispatchHup(e)) \/ HupCleanup
    PROVE  Inv'
<1>1. ASSUME NEW e \in batch, DispatchHup(e) PROVE Inv'
    <2> DEFINE f == e.fd
    <2>1. f \in Fds /\ vec' = vec
        <3>1. e.ev = "hup" /\ vec' = vec
            BY <1>1, ZenonT(60) DEF DispatchHup
        <3> QED
            BY <3>1, ZenonT(60) DEF Inv, ThreadsOK
    <2>2. CASE FindRequest(f) = {}
        <3>1. SetterOK' /\ ThreadsOK' /\ UNCHANGED rs
            BY <1>1, <2>2, ZenonT(60) DEF DispatchHup, Take, Inv, SetterOK, InSetter, ThreadsOK, work
        <3> QED
            BY <1>1, <3>1, Frame, ZenonT(60) DEF DispatchHup, Inv, kernel
    <2>3. CASE FindRequest(f) # {}
        <3>1. rs' = [rs EXCEPT ![vec[First(FindRequest(f))]].sock = f] /\ cur' = vec[First(FindRequest(f))] /\ epc' = "hup"
            BY <1>1, <2>3 DEF DispatchHup
        <3>2. StructsOK' /\ OneStructPerSocket' /\ cur' \in Structs
            BY <2>1, <2>3, <3>1, Found, ZenonT(60)
        <3>3. SetterOK' /\ ThreadsOK'
            BY <1>1, <3>1, <3>2, ZenonT(60) DEF DispatchHup, Take, Inv, SetterOK, InSetter, ThreadsOK, work
        <3> QED
            BY <1>1, <3>2, <3>3, Frame, ZenonT(60) DEF DispatchHup, Inv, kernel
    <2> QED
        BY <2>2, <2>3, ZenonT(60)
<1>2. CASE HupCleanup
    <2>1. KernelOK' /\ StructsOK' /\ OneStructPerSocket'
        BY <1>2, Closed, Cleared, ZenonT(60) DEF HupCleanup
    <2>2. SetterOK' /\ ThreadsOK'
        BY <1>2 DEF HupCleanup, Inv, SetterOK, InSetter, ThreadsOK, work
    <2> QED
        BY <1>2, <2>1, <2>2, Frame, ZenonT(60) DEF HupCleanup, Inv
<1> QED
    BY <1>1, <1>2, ZenonT(60)

\* The event thread keeps the structures, the list and the descriptors in order.
LEMMA EventInv ==
    ASSUME ScansStop, HasRoom, Inv, EventNext
    PROVE  Inv'
BY LoopStep, FreeStepLemma, AcceptStep, DispatchInStep, ServeStep, RespondStep,
   EventSetStep, DispatchOutStep, EventEndStep, HupStep, ZenonT(60) DEF EventNext

-----------------------------------------------------------------------------
(* The event thread: nobody is forgotten.                                  *)

\* A structure found or linked for f binds f and unbinds nothing.
LEMMA WatchedBind ==
    ASSUME Inv, Inv', Watched, NEW f \in Fds, NEW r \in Structs, rs[r].sock \in {f, NoFd},
           \A q \in Structs : rs'[q].sock = IF q = r THEN f ELSE rs[q].sock,
           \E i \in DOMAIN vec' : vec'[i] = r,
           \A i \in DOMAIN vec : i \in DOMAIN vec' /\ vec'[i] = vec[i],
           UNCHANGED <<fdt, reg>>
    PROVE  Watched'
<1>1. \A g \in Fds : g # NoFd
    BY FdsNamed, Zenon
<1>2. /\ \A i \in DOMAIN vec : vec[i] \in Structs
      /\ \A i \in DOMAIN vec' : vec'[i] \in Structs
    BY DEF Inv, ListOK
<1>3. Kept'
    BY ZenonT(60) DEF Watched, Kept
<1>4. NobodyForgotten'
    BY <1>1, <1>2 DEF Watched, NobodyForgotten, Bound, IsOpen
<1> QED
    BY <1>3, <1>4, ZenonT(60) DEF Watched

\* event_iter frees structures without sockets only.
LEMMA WatchedFree ==
    ASSUME Inv, Watched, FreeStep
    PROVE  Watched'
<1>1. UNCHANGED <<rs, fdt, reg>>
    BY ZenonT(60) DEF FreeStep, kernel
<1>2. CASE UNCHANGED vec
    BY <1>1, <1>2, WatchedFrame, ZenonT(60)
<1>3. CASE cur <= Len(vec) /\ IsIdle(cur) /\ vec' = Unlink(cur)
    <2>1. Len(vec) \in Nat /\ DOMAIN vec = 1..Len(vec) /\ cur \in 1..Len(vec)
        BY <1>3 DEF Inv, ListOK, ThreadsOK, FreeStep
    <2> DEFINE at(i) == IF i < cur THEN i ELSE i - 1
    <2>2. \A i \in DOMAIN vec \ {cur} : at(i) \in DOMAIN vec' /\ vec'[at(i)] = vec[i]
        BY <1>3, <2>1 DEF Unlink
    <2> HIDE DEF at
    <2>3. rs[vec[cur]].sock = NoFd /\ \A i \in DOMAIN vec : vec[i] \in Structs
        BY <1>3 DEF IsIdle, Inv, ListOK
    <2>4. Kept'
        BY <1>1, <2>2, <2>3 DEF Watched, Kept
    <2>5. \A f \in Fds : f # NoFd
        BY FdsNamed, Zenon
    <2>6. NobodyForgotten'
        BY <1>1, <2>2, <2>3, <2>5 DEF Watched, NobodyForgotten, Bound, IsOpen
    <2> QED
        BY <2>4, <2>6, ZenonT(60) DEF Watched
<1> QED
    BY <1>2, <1>3 DEF FreeStep

\* The event thread.
LEMMA WatchedEvent ==
    ASSUME ScansStop, Inv, Inv', Watched, EventNext
    PROVE  Watched'
<1>1. CASE EventIter
    <2>1. vec' = vec /\ rs' = rs /\ \E S : CloseFds(S)
        BY <1>1, ZenonT(60) DEF EventIter
    <2>2. \A f \in Fds : fdt'[f] # None => fdt'[f] = fdt[f] /\ reg'[f] = reg[f]
        BY <2>1, ClosedFds, ZenonT(60)
    <2> QED
        BY <2>1, <2>2, WatchedFrame, ZenonT(60)
<1>2. CASE FreeStep
    BY <1>2, WatchedFree, ZenonT(60)
<1>3. CASE EpollWait \/ BatchDone \/ AcceptEnd \/ ServeMore \/ \E e \in batch : DispatchListen(e)
    BY <1>3, WatchedFrame, ZenonT(60) DEF EpollWait, BatchDone, AcceptEnd, ServeMore, DispatchListen, kernel
<1>4. CASE \E c \in Conns : Accept(c)
    <2>1. vec' = vec /\ rs' = rs /\ \A f \in Fds : reg'[f].mask = "in" \/ (reg'[f] = reg[f] /\ fdt'[f] = fdt[f])
        BY <1>4 DEF Accept, Inv, KernelOK
    <2> QED
        BY <2>1, WatchedFrame, ZenonT(60)
<1>5. ASSUME NEW e \in batch, DispatchIn(e) PROVE Watched'
    <2>1. e.fd \in Fds /\ UNCHANGED <<fdt, reg>>
        BY <1>5, ZenonT(60) DEF DispatchIn, Inv, ThreadsOK, kernel
    <2>2. CASE FindRequest(e.fd) # {}
        <3> DEFINE r == vec[First(FindRequest(e.fd))]
        <3>1. vec' = vec /\ Finds(r, e.fd) /\ Binds(r, e.fd)
            BY <1>5, <2>2, Zenon DEF DispatchIn, Finds, Binds
        <3> HIDE DEF r
        <3>2. /\ r \in Structs /\ (\E i \in DOMAIN vec : vec[i] = r) /\ rs[r].sock \in {e.fd, NoFd}
              /\ \A q \in Structs : rs'[q].sock = IF q = r THEN e.fd ELSE rs[q].sock
            BY <2>1, <3>1, FoundSock
        <3> QED
            BY <2>1, <3>1, <3>2, WatchedBind, ZenonT(60)
    <2>3. CASE FindRequest(e.fd) = {}
        <3> DEFINE r == NewStruct
        <3>1. Links(r, e.fd) /\ r = NewStruct /\ Kept
            BY <1>5, <2>3, ZenonT(60) DEF DispatchIn, Links, Watched
        <3> HIDE DEF r
        <3>2. /\ r \in Structs /\ rs[r].sock = NoFd /\ (\E i \in DOMAIN vec' : vec'[i] = r)
              /\ \A i \in DOMAIN vec : i \in DOMAIN vec' /\ vec'[i] = vec[i]
              /\ \A q \in Structs : rs'[q].sock = IF q = r THEN e.fd ELSE rs[q].sock
            BY <2>1, <2>3, <3>1, LinkedSock
        <3> QED
            BY <2>1, <3>2, WatchedBind, ZenonT(60)
    <2> QED
        BY <2>2, <2>3, ZenonT(60)
<1>6. CASE ServeGone \/ ServeParse
    <2>1. vec' = vec /\ UNCHANGED <<fdt, reg>> /\ cur \in Structs
        BY <1>6, Zenon DEF ServeGone, ServeParse, kernel, Inv, ThreadsOK
    <2>2. CASE ServeGone
        <3>1. \A r \in Structs : rs'[r].sock = rs[r].sock
            BY <2>1, <2>2, ZenonT(60) DEF ServeGone, Inv, StructsOK
        <3> QED
            BY <2>1, <3>1, WatchedFrame, ZenonT(60)
    <2>3. CASE ServeParse
        <3>1. PICK x, y : rs' = [rs EXCEPT ![cur].req = x, ![cur].keepalive = y]
            BY <2>3, ZenonT(60) DEF ServeParse
        <3>2. \A r \in Structs : rs'[r].sock = rs[r].sock
            BY <2>1, <3>1, ZenonT(60) DEF Inv, StructsOK
        <3> QED
            BY <2>1, <3>2, WatchedFrame, ZenonT(60)
    <2> QED
        BY <1>6, <2>2, <2>3, ZenonT(60)
<1>7. CASE RespondHandler \/ EventSetOut
    <2>1. cur \in Structs /\ UNCHANGED <<vec, rs, fdt>>
        BY <1>7, ZenonT(60) DEF RespondHandler, EventSetOut, Inv, ThreadsOK
    <2>2. \A g \in Fds : g # rs[cur].sock => reg'[g] = reg[g]
        BY <1>7, ModifiedFds, ZenonT(60) DEF RespondHandler, EventSetOut
    <2> QED
        BY <2>1, <2>2, WatchedFrame, ZenonT(60)
<1>8. CASE RespondStatic
    <2>1. UNCHANGED rs \/ rs' = [rs EXCEPT ![cur].out = 1]
        BY <1>8, ZenonT(60) DEF RespondStatic
    <2>2. \A r \in Structs : rs'[r].sock = rs[r].sock
        BY <2>1, OutSet, ZenonT(60)
    <2> QED
        BY <1>8, <2>2, WatchedFrame DEF RespondStatic, kernel
<1>9. ASSUME NEW e \in batch, DispatchOut(e) PROVE Watched'
    <2>1. UNCHANGED rs \/ rs' = [rs EXCEPT ![vec[First(Bound(e.fd))]].out = 0]
        BY <1>9, ZenonT(60) DEF DispatchOut
    <2>2. \A r \in Structs : rs'[r].sock = rs[r].sock
        BY <2>1, OutSet, ZenonT(60)
    <2> QED
        BY <1>9, <2>2, WatchedFrame, ZenonT(60) DEF DispatchOut, kernel
<1>10. CASE EventEnd
    <2>1. vec' = vec /\ cur \in Structs
        BY <1>10 DEF EventEnd, Inv, ThreadsOK
    <2>2. UNCHANGED <<rs, fdt, reg>> \/ (CloseFds({rs[cur].sock}) /\ Clear(cur))
        BY <1>10, ZenonT(60) DEF EventEnd, kernel
    <2>3. CASE UNCHANGED <<rs, fdt, reg>>
        BY <2>1, <2>3, WatchedFrame, ZenonT(60)
    <2>4. CASE CloseFds({rs[cur].sock}) /\ Clear(cur)
        BY <2>1, <2>4, WatchedClear, ClosedFds, ZenonT(60)
    <2> QED
        BY <2>2, <2>3, <2>4
<1>11. CASE EventSetIn
    <2>1. vec' = vec /\ cur \in Structs /\ Clear(cur) /\ fdt' = fdt
        BY <1>11 DEF EventSetIn, Inv, ThreadsOK
    <2>2. EpollMod(rs[cur].sock, "in", ev.in)
        BY <1>11, ZenonT(60) DEF EventSetIn
    <2>3. \A g \in Fds : /\ g = rs[cur].sock /\ fdt[rs[cur].sock] # None => reg'[g].mask = "in"
                         /\ g # rs[cur].sock \/ fdt[rs[cur].sock] = None => reg'[g] = reg[g]
        BY <2>2, ModifiedFds, ZenonT(60)
    <2> QED
        BY <2>1, <2>3, WatchedClear, ZenonT(60)
<1>12. ASSUME NEW e \in batch, DispatchHup(e) PROVE Watched'
    <2>1. e.fd \in Fds /\ UNCHANGED <<fdt, reg, vec>>
        BY <1>12, ZenonT(60) DEF DispatchHup, Inv, ThreadsOK, kernel
    <2>2. CASE FindRequest(e.fd) # {}
        <3> DEFINE r == vec[First(FindRequest(e.fd))]
        <3>1. Finds(r, e.fd) /\ Binds(r, e.fd)
            BY <1>12, <2>2, ZenonT(60) DEF DispatchHup, Finds, Binds
        <3> HIDE DEF r
        <3>2. /\ r \in Structs /\ (\E i \in DOMAIN vec : vec[i] = r) /\ rs[r].sock \in {e.fd, NoFd}
              /\ \A q \in Structs : rs'[q].sock = IF q = r THEN e.fd ELSE rs[q].sock
            <4>0. PICK f : f = e.fd
                BY ZenonT(60)
            <4>1. f \in Fds /\ Finds(r, f) /\ Binds(r, f)
                BY <2>1, <3>1, <4>0, ZenonT(60)
            <4>2. /\ r \in Structs /\ (\E i \in DOMAIN vec : vec[i] = r)
                  /\ rs[r].sock = f \/ (rs[r].sock = NoFd /\ \A j \in DOMAIN vec : rs[vec[j]].sock # f)
                  /\ \A q \in Structs : /\ rs'[q].sock = IF q = r THEN f ELSE rs[q].sock
                                        /\ rs'[q].out = rs[q].out /\ rs'[q].req = rs[q].req
                                        /\ rs'[q].keepalive = rs[q].keepalive
                BY <4>1, FoundSock
            <4> QED
                BY <4>0, <4>2
        <3> QED
            BY <2>1, <3>2, WatchedBind, ZenonT(60)
    <2>3. CASE FindRequest(e.fd) = {}
        BY <1>12, <2>1, <2>3, WatchedFrame, ZenonT(60) DEF DispatchHup
    <2> QED
        BY <2>2, <2>3
<1>13. CASE HupCleanup
    <2>1. vec' = vec /\ cur \in Structs /\ Clear(cur) /\ CloseFds({rs[cur].sock})
        BY <1>13 DEF HupCleanup, Inv, ThreadsOK
    <2> QED
        BY <2>1, WatchedClear, ClosedFds, ZenonT(60)
<1> QED
    BY <1>1, <1>2, <1>3, <1>4, <1>5, <1>6, <1>7, <1>8, <1>9, <1>10, <1>11, <1>12, <1>13, ZenonT(60) DEF EventNext
=============================================================================
