---------------------------- MODULE WorkerSteps -----------------------------
(***************************************************************************)
(* The inductive invariants of the server core and proofs about its        *)
(* workers.  After the invariants comes what a change of the structures, of*)
(* the descriptors or of the threads does to them: the steps of all threads*)
(* are put together from these facts.  Then the steps of the workers: they *)
(* preserve Inv and Watched, whatever the environment does, and Isolated,  *)
(* where the setters of the epoll masks do not overlap and no client has   *)
(* reset its connection.                                                   *)
(***************************************************************************)
EXTENDS WorkerThreads, TLAPS

-----------------------------------------------------------------------------
(* The structures, the list, the descriptors and the threads, whatever the  *)
(* environment does.                                                        *)

\* Structures are records; one marked keep-alive has a socket.
StructsOK ==
    /\ rs = [r \in Structs |-> rs[r]]
    /\ \A r \in Structs :
           /\ DOMAIN rs[r] = {"sock", "keepalive", "out", "req"}
           /\ rs[r].sock \in Fds \cup {NoFd}
           /\ rs[r].keepalive => rs[r].sock \in Fds

\* The list links structures, each once.
ListOK ==
    /\ vec \in Seq(Structs)
    /\ \A i, j \in DOMAIN vec : vec[i] = vec[j] => i = j

\* An open descriptor is registered under some descriptor, its own or, after
\* an overlap of the setters, another one.
KernelOK ==
    /\ fdt \in [Fds -> Conns \cup {None}]
    /\ reg \in [Fds -> [mask : {"none", "in", "out"}, data : Fds \cup {NoFd}]]
    /\ \A f \in Fds : fdt[f] # None => reg[f].data \in Fds

\* Whoever is in a setter finds a descriptor in its static variable.
SetterOK ==
    /\ ev \in [in : Fds \cup {NoFd}, out : Fds \cup {NoFd}]
    /\ InSetter("set_in") => ev.in \in Fds
    /\ InSetter("set_out") => ev.out \in Fds

\* Threads at work have a structure, and events other than those of the
\* listening socket name a descriptor.
ThreadsOK ==
    /\ epc \in {"serve", "static", "handler", "end", "set_in", "set_out", "hup"} => cur \in Structs
    /\ epc = "free" => cur \in Nat \ {0}
    /\ \A e \in batch : e.ev # "listen" => e.fd \in Fds
    /\ wpc = [w \in Workers |-> wpc[w]] /\ wr = [w \in Workers |-> wr[w]]
    /\ \A w \in Workers : wpc[w] # "idle" => wr[w] \in Structs
    /\ wmutex \in Workers \cup {None}

Inv ==
    /\ StructsOK /\ ListOK /\ KernelOK /\ SetterOK /\ ThreadsOK
    /\ OneStructPerSocket /\ ListBounded

\* A scan of the list or of the descriptors stops at one it looks for.  A fact
\* of the naturals (FirstIn of ServerProofs), not of the state.
ScansStop == \A T \in SUBSET Nat : T # {} => First(T) \in T

\* When event_fetch_request finds no structure, there is memory for one more.
\* It follows from Inv by counting (ListHasRoom of ServerProofs).
HasRoom ==
    \A f \in Fds : FindRequest(f) = {} =>
        /\ Len(vec) < NFds
        /\ NewStruct \in Structs /\ \A i \in DOMAIN vec : vec[i] # NewStruct

-----------------------------------------------------------------------------
(* Who works on a connection and what its client is sent.                   *)

\* A structure that has a socket is in the list.
Kept == \A r \in Structs : rs[r].sock # NoFd => \E i \in DOMAIN vec : vec[i] = r

\* A connection is a record.
ConnTyped ==
    /\ conn = [c \in Conns |-> conn[c]]
    /\ \A c \in Conns : DOMAIN conn[c] = {"st", "phase", "half", "inb", "sent", "eof", "rst", "ka"}

\* It is open while it has a descriptor, of which it has one.
ConnsOK ==
    /\ \A c \in Conns : conn[c].sent \in Nat /\ conn[c].phase \in {"idle", "part", "wait"}
    /\ \A f \in Fds : fdt[f] # None => conn[fdt[f]].st = "open"
    /\ \A f, g \in Fds : fdt[f] = fdt[g] => f = g \/ fdt[f] = None

\* The hand-over counts, and a worker has a structure exactly while it is busy.
PoolOK ==
    /\ pending \in [Structs -> Nat]
    /\ wresp = [w \in Workers |-> wresp[w]]
    /\ \A w \in Workers : wr[w] = None <=> wpc[w] = "idle"
    /\ \A w \in Workers : wpc[w] \in {"idle", "run", "ready", "raised", "end", "set_in", "set_out"}

EventAt == {"serve", "static", "handler", "end", "set_in", "set_out"}

\* The sockets of the structures are open, under their own number in epoll.
SocksOpen ==
    /\ \A r \in Structs : rs[r].sock # NoFd => fdt[rs[r].sock] # None
    /\ \A f \in Fds : fdt[f] # None => reg[f].data = f

\* A structure is handed over once and taken by one worker, and no events are
\* on for its socket meanwhile.
HeldOnce ==
    /\ \A r \in Structs : pending[r] > 0 => pending[r] = 1 /\ \A w \in Workers : wr[w] # r
    /\ \A v, w \in Workers : wr[v] = wr[w] => v = w \/ wr[v] = None
    /\ \A r \in Structs : pending[r] > 0 => rs[r].sock # NoFd /\ reg[rs[r].sock].mask = "none"
    /\ \A w \in Workers : wr[w] # None => rs[wr[w]].sock # NoFd /\ reg[rs[wr[w]].sock].mask = "none"

\* The structure the event thread works on is not with a worker.
EventAlone ==
    /\ epc # "hup"
    /\ epc \in EventAt => rs[cur].sock # NoFd /\ reg[rs[cur].sock].mask # "none"

\* The events fetched with epoll_wait are still true when their turn comes.
EventsFresh ==
    /\ epc \in {"iter", "free", "wait"} => batch = {}
    /\ \A e \in batch : e.ev # "listen" =>
           /\ e.ev \in {"in", "out"} /\ fdt[e.fd] # None /\ reg[e.fd].mask = e.ev
           /\ epc \in EventAt => rs[cur].sock # e.fd
    /\ \A d, e \in batch : d.ev # "listen" /\ e.ev # "listen" /\ d.fd = e.fd => d = e

\* The static variable of a setter is that of the one thread inside.
SettersAlone ==
    /\ epc = "set_in" => ev.in = rs[cur].sock /\ \A w \in Workers : wpc[w] # "set_in"
    /\ epc = "set_out" => ev.out = rs[cur].sock /\ \A w \in Workers : wpc[w] # "set_out"
    /\ \A w \in Workers : wpc[w] = "set_in" =>
           ev.in = rs[wr[w]].sock /\ \A v \in Workers : wpc[v] = "set_in" => v = w
    /\ \A w \in Workers : wpc[w] = "set_out" =>
           ev.out = rs[wr[w]].sock /\ \A v \in Workers : wpc[v] = "set_out" => v = w

\* The responses so far are the client's own, and the next one is due when the
\* request has been read (Answering), begun when it is partly written.
InTurn(s, c) == s \in Seq(Conns \X Nat) /\ \A i \in DOMAIN s : s[i] = <<c, i>>
Due(c) == conn[c].phase = "wait" /\ conn[c].inb = <<>> /\ conn[c].sent = Len(log[c]) + 1
Begun(c) == conn[c].phase = "wait" /\ conn[c].inb = <<>> /\ conn[c].sent = Len(log[c])
Answering(r, id) == Due(fdt[rs[r].sock]) /\ id = <<fdt[rs[r].sock], conn[fdt[rs[r].sock]].sent>>

LogsOK ==
    /\ log = [c \in Conns |-> log[c]]
    /\ \A c \in Conns :
           /\ InTurn(log[c], c)
           /\ conn[c].st # "closed" =>
                  /\ conn[c].phase # "wait" => conn[c].inb = <<>> /\ conn[c].sent = Len(log[c])
                  /\ conn[c].inb # <<>> => /\ conn[c].sent = Len(log[c]) + 1
                                           /\ Head(conn[c].inb).id = <<c, conn[c].sent>>

Responses ==
    /\ epc \in {"static", "handler"} => Answering(cur, rs[cur].req)
    /\ \A r \in Structs : pending[r] > 0 => Answering(r, rs[r].req)
    /\ \A w \in Workers : wpc[w] \in {"run", "ready", "raised"} => Answering(wr[w], wresp[w])
    /\ \A r \in Structs : rs[r].out = 1 => rs[r].sock # NoFd /\ Begun(fdt[rs[r].sock])

NoReset == \A c \in Conns : ~conn[c].rst

Exclusive == SocksOpen /\ HeldOnce /\ EventAlone /\ EventsFresh /\ SettersAlone
InOrder == LogsOK /\ Responses
Isolated == ConnsOK /\ PoolOK /\ Exclusive /\ InOrder

\* A socket without read events has a structure that is in the list.
Watched == Kept /\ NobodyForgotten

\* What holds of every behaviour in which the setters do not overlap.
Guarded == Watched /\ ConnTyped /\ (NoReset => Isolated)

USE SMTT(60)    \* the SMT backend and its time limit, where a step names no other

-----------------------------------------------------------------------------
(* The structures, the list and the descriptors.                           *)

\* No descriptor is the absent one.
LEMMA FdsNamed == \A g \in Fds : g # NoFd
BY DEF Fds, NoFd

\* Nothing is pending where the count is zero.
LEMMA ZeroIsLeast == ~(0 > 0)
OBVIOUS

\* A part of the invariant whose variables a step leaves alone still holds.
LEMMA Frame ==
    ASSUME Inv
    PROVE  /\ UNCHANGED rs => StructsOK'
           /\ UNCHANGED vec => ListOK' /\ ListBounded'
           /\ UNCHANGED <<vec, rs>> => OneStructPerSocket'
           /\ UNCHANGED <<fdt, reg>> => KernelOK'
           /\ UNCHANGED <<ev, epc, wpc>> => SetterOK'
           /\ UNCHANGED <<epc, cur, batch, wpc, wr, wmutex>> => ThreadsOK'
BY Zenon DEF Inv, StructsOK, ListOK, ListBounded, OneStructPerSocket, KernelOK, SetterOK, InSetter, ThreadsOK

\* Structures that keep or give up their sockets stay one per socket.
LEMMA Released ==
    ASSUME Inv, vec' = vec, \A r \in Structs : rs'[r].sock \in {rs[r].sock, NoFd}
    PROVE  OneStructPerSocket'
<1>1. \A i \in DOMAIN vec : vec[i] \in Structs
    BY DEF Inv, ListOK
<1> QED
    BY <1>1 DEF Inv, OneStructPerSocket

\* http_cleanup: the structure is idle again, the rest as before.
LEMMA Cleared ==
    ASSUME Inv, NEW r, vec' = vec, Clear(r)
    PROVE  StructsOK' /\ OneStructPerSocket'
<1>1. StructsOK' /\ \A q \in Structs : rs'[q].sock \in {rs[q].sock, NoFd}
    BY Zenon DEF Inv, StructsOK, Clear, Idle
<1> QED
    BY <1>1, Released

\* event_find_request: the structure found is linked and is either the one
\* of the socket or an idle one, and the latter only if the socket has none.
LEMMA FindFound ==
    ASSUME ScansStop, ListOK, NEW f \in Fds, FindRequest(f) # {}
    PROVE  LET i == First(FindRequest(f))
           IN  /\ i \in DOMAIN vec /\ vec[i] \in Structs
               /\ \/ rs[vec[i]].sock = f
                  \/ rs[vec[i]].sock = NoFd /\ \A j \in DOMAIN vec : rs[vec[j]].sock # f
<1>1. FindRequest(f) \in SUBSET DOMAIN vec /\ DOMAIN vec \in SUBSET Nat
    BY DEF FindRequest, Bound, ListOK
<1>2. First(FindRequest(f)) \in FindRequest(f)
    BY <1>1 DEF ScansStop
<1>3. \A i \in DOMAIN vec : vec[i] \in Structs
    BY DEF ListOK
<1> HIDE DEF First
<1> QED
    BY <1>1, <1>2, <1>3, Zenon DEF FindRequest, Bound

\* Setting or clearing temp.writev_total concerns no socket.
LEMMA OutSet ==
    ASSUME Inv, NEW r, NEW n, UNCHANGED rs \/ rs' = [rs EXCEPT ![r].out = n]
    PROVE  StructsOK' /\ \A q \in Structs : rs'[q].sock = rs[q].sock
<1>1. CASE UNCHANGED rs
    BY <1>1 DEF Inv, StructsOK
<1>2. CASE rs' = [rs EXCEPT ![r].out = n]
    BY <1>2, Zenon DEF Inv, StructsOK
<1> QED
    BY <1>1, <1>2

\* close(2) and epoll_ctl keep the descriptor table in order.
LEMMA Closed ==
    ASSUME Inv, NEW S, CloseFds(S)
    PROVE  KernelOK'
BY Zenon DEF Inv, KernelOK, CloseFds, NoReg

LEMMA Modified ==
    ASSUME Inv, fdt' = fdt, NEW f, NEW d \in Fds, NEW m \in {"none", "in", "out"}, EpollMod(f, m, d)
    PROVE  KernelOK'
BY DEF Inv, KernelOK, EpollMod

-----------------------------------------------------------------------------
(* Nobody is forgotten.                                                    *)

\* Read events may only go off for a socket that a structure has.
LEMMA WatchedFrame ==
    ASSUME Inv, Watched, vec' = vec, \A r \in Structs : rs'[r].sock = rs[r].sock,
           \A f \in Fds : fdt'[f] # None /\ reg'[f].mask # "in" =>
               (fdt[f] # None /\ reg[f].mask # "in") \/ \E r \in Structs : rs[r].sock = f
    PROVE  Watched'
<1>1. Kept'
    BY DEF Watched, Kept
<1>2. \A f \in Fds : f # NoFd
    BY FdsNamed, Zenon
<1>3. \A i \in DOMAIN vec : vec[i] \in Structs
    BY DEF Inv, ListOK
<1>4. NobodyForgotten'
    BY <1>2, <1>3 DEF Watched, Kept, NobodyForgotten, Bound, IsOpen
<1> QED
    BY <1>1, <1>4 DEF Watched

\* A structure is cleared when its socket is closed or gets its read events back.
LEMMA WatchedClear ==
    ASSUME Inv, Watched, vec' = vec, NEW r \in Structs, Clear(r),
           \A f \in Fds : fdt'[f] # None /\ reg'[f].mask # "in" =>
               fdt[f] # None /\ reg[f].mask # "in" /\ f # rs[r].sock
    PROVE  Watched'
<1>1. \A q \in Structs : rs'[q].sock = IF q = r THEN NoFd ELSE rs[q].sock
    BY DEF Clear, Idle, Inv, StructsOK
<1>2. \A f \in Fds : f # NoFd
    BY FdsNamed, Zenon
<1>3. \A i \in DOMAIN vec : vec[i] \in Structs
    BY DEF Inv, ListOK
<1>4. Kept'
    BY <1>1 DEF Watched, Kept
<1>5. NobodyForgotten'
    BY <1>1, <1>2, <1>3 DEF Watched, NobodyForgotten, Bound, IsOpen
<1> QED
    BY <1>4, <1>5 DEF Watched

\* What event_find_request and event_fetch_request do to the structures.
Finds(r, f) == FindRequest(f) # {} /\ r = vec[First(FindRequest(f))]
Binds(r, f) == rs' = [rs EXCEPT ![r].sock = f]

Links(r, f) == rs' = [rs EXCEPT ![r] = [Idle EXCEPT !.sock = f]] /\ vec' = Append(vec, r)

LEMMA FoundSock ==
    ASSUME ScansStop, Inv, NEW f \in Fds, NEW r, Finds(r, f), Binds(r, f)
    PROVE  /\ r \in Structs /\ (\E i \in DOMAIN vec : vec[i] = r)
           /\ rs[r].sock = f \/ (rs[r].sock = NoFd /\ \A j \in DOMAIN vec : rs[vec[j]].sock # f)
           /\ \A q \in Structs : /\ rs'[q].sock = IF q = r THEN f ELSE rs[q].sock
                                 /\ rs'[q].out = rs[q].out /\ rs'[q].req = rs[q].req
                                 /\ rs'[q].keepalive = rs[q].keepalive
<1>1. /\ \E i \in DOMAIN vec : vec[i] = r
      /\ r \in Structs
      /\ rs[r].sock = f \/ (rs[r].sock = NoFd /\ \A j \in DOMAIN vec : rs[vec[j]].sock # f)
    BY FindFound DEF Inv, Finds
<1> QED
    BY <1>1 DEF Inv, StructsOK, Binds

LEMMA LinkedSock ==
    ASSUME Inv, Inv', Kept, NEW f \in Fds, FindRequest(f) = {}, NEW r, r = NewStruct, Links(r, f)
    PROVE  /\ r \in Structs /\ rs[r].sock = NoFd /\ (\A j \in DOMAIN vec : rs[vec[j]].sock # f)
           /\ \A q \in Structs : rs'[q].sock = IF q = r THEN f ELSE rs[q].sock
           /\ \A q \in Structs \ {r} : rs'[q] = rs[q]
           /\ rs'[r].out = 0
           /\ \E i \in DOMAIN vec' : vec'[i] = r
           /\ \A i \in DOMAIN vec : i \in DOMAIN vec' /\ vec'[i] = vec[i]
<1>1. r \in Structs /\ \A i \in DOMAIN vec : vec[i] # r
    BY DEF Inv, ListOK, Links
<1>2. rs[r].sock = NoFd
    BY <1>1 DEF Kept
<1>3. \A j \in DOMAIN vec : rs[vec[j]].sock # f
    BY DEF FindRequest, Bound
<1> DEFINE new == [Idle EXCEPT !.sock = f]
<1>4. new.sock = f /\ new.out = 0
    BY DEF Idle
<1> HIDE DEF new
<1>5. rs' = [q \in Structs |-> IF q = r THEN new ELSE rs[q]]
    BY ZenonT(60) DEF Inv, StructsOK, new, Links
<1>6. vec \in Seq(Structs) /\ Len(vec) \in Nat /\ DOMAIN vec = 1..Len(vec)
    BY DEF Inv, ListOK
<1>7. /\ DOMAIN vec' = 1..(Len(vec) + 1) /\ vec'[Len(vec) + 1] = r
      /\ \A i \in 1..Len(vec) : vec'[i] = vec[i]
    BY <1>1, <1>6 DEF Links
<1>8. /\ \A q \in Structs : rs'[q].sock = IF q = r THEN f ELSE rs[q].sock
      /\ \A q \in Structs \ {r} : rs'[q] = rs[q]
      /\ rs'[r].out = 0
    BY <1>1, <1>4, <1>5
<1>9. /\ \E i \in DOMAIN vec' : vec'[i] = r
      /\ \A i \in DOMAIN vec : i \in DOMAIN vec' /\ vec'[i] = vec[i]
    BY <1>6, <1>7
<1> QED
    BY <1>1, <1>2, <1>3, <1>8, <1>9

\* close(2) and epoll_ctl, descriptor by descriptor.
LEMMA ClosedFds ==
    ASSUME Inv, NEW S, CloseFds(S)
    PROVE  \A f \in Fds : /\ fdt'[f] = IF f \in S THEN None ELSE fdt[f]
                          /\ reg'[f] = IF f \in S THEN NoReg ELSE reg[f]
BY Zenon DEF CloseFds

LEMMA ModifiedFds ==
    ASSUME Inv, NEW f, NEW m, NEW d, EpollMod(f, m, d)
    PROVE  \A g \in Fds : /\ g = f /\ fdt[f] # None => reg'[g].mask = m /\ reg'[g].data = d
                          /\ g # f \/ fdt[f] = None => reg'[g] = reg[g]
<1>1. \A g \in Fds : g # NoFd
    BY FdsNamed, Zenon
<1> QED
    BY <1>1 DEF EpollMod, IsOpen

-----------------------------------------------------------------------------
(* Who works on a connection.                                              *)

\* The ranges of what threads and structures refer to; a socket has one structure.
Shapes ==
    /\ NoFd \notin Fds /\ None \notin Structs /\ None \notin Conns
    /\ \A r \in Structs : rs[r].sock \in Fds \cup {NoFd}
    /\ \A f \in Fds : fdt[f] \in Conns \cup {None}
    /\ \A w \in Workers : wr[w] \in Structs \cup {None}
    /\ epc \in EventAt => cur \in Structs
    /\ \A e \in batch : e.ev # "listen" => e.fd \in Fds
    /\ \A q, r \in Structs : rs[q].sock = rs[r].sock => q = r \/ rs[q].sock = NoFd

\* Closing descriptors closes their connections and touches no other.
LEMMA ClosedOwn ==
    ASSUME Inv, ConnTyped, Isolated, Shapes, NEW S \in SUBSET Fds, CloseFds(S), log' = log
    PROVE  /\ ConnsOK' /\ LogsOK'
           /\ \A f \in Fds \ S : /\ fdt'[f] = fdt[f] /\ reg'[f] = reg[f]
                                 /\ fdt[f] # None => conn'[fdt[f]] = conn[fdt[f]]
           /\ \A f \in S : fdt'[f] = None
<1>1. \A f \in Fds : /\ fdt'[f] = IF f \in S THEN None ELSE fdt[f]
                     /\ reg'[f] = IF f \in S THEN NoReg ELSE reg[f]
    BY ClosedFds
<1>2. \A c \in Conns :
          /\ (\A f \in S : fdt[f] # c) => conn'[c] = conn[c]
          /\ (\E f \in S : fdt[f] = c) =>
                 conn'[c].st = "closed" /\ conn'[c].phase = "idle" /\ conn'[c].sent = conn[c].sent
    BY ZenonT(60) DEF CloseFds, IsOpen, NoConn, ConnTyped, Shapes
<1>3. \A f \in Fds \ S : fdt[f] # None => conn'[fdt[f]] = conn[fdt[f]]
    BY <1>2 DEF Isolated, ConnsOK, Shapes
<1>4. ConnsOK'
    BY <1>1, <1>2, <1>3 DEF Isolated, ConnsOK, Shapes
<1>5. LogsOK'
    BY <1>2 DEF Isolated, InOrder, LogsOK
<1> QED
    BY <1>1, <1>3, <1>4, <1>5

\* A response appended to the log of its client when it is due.
LEMMA NextInTurn ==
    ASSUME NEW c \in Conns, NEW s, InTurn(s, c)
    PROVE  /\ Len(s) \in Nat
           /\ InTurn(Append(s, <<c, Len(s) + 1>>), c)
           /\ Len(Append(s, <<c, Len(s) + 1>>)) = Len(s) + 1
<1>1. s \in Seq(Conns \X Nat) /\ Len(s) \in Nat /\ DOMAIN s = 1..Len(s) /\ \A i \in 1..Len(s) : s[i] = <<c, i>>
    BY DEF InTurn
<1>2. <<c, Len(s) + 1>> \in Conns \X Nat
    BY <1>1
<1> DEFINE x == <<c, Len(s) + 1>>
<1>3. x \in Conns \X Nat /\ x = <<c, Len(s) + 1>>
    BY <1>2
<1> HIDE DEF x
<1>4. /\ Append(s, x) \in Seq(Conns \X Nat) /\ Len(Append(s, x)) = Len(s) + 1
      /\ DOMAIN Append(s, x) = 1..(Len(s) + 1)
      /\ \A i \in 1..Len(s) : Append(s, x)[i] = s[i]
      /\ Append(s, x)[Len(s) + 1] = x
    BY <1>1, <1>3
<1>5. \A i \in 1..(Len(s) + 1) : i \in 1..Len(s) \/ i = Len(s) + 1
    BY <1>1
<1>6. \A i \in DOMAIN Append(s, x) : Append(s, x)[i] = <<c, i>>
    BY <1>1, <1>3, <1>4, <1>5
<1> QED
    BY <1>1, <1>4, <1>6 DEF InTurn, x

LEMMA WrittenOwn ==
    ASSUME Inv, ConnTyped, Isolated, Shapes, NEW f \in Fds, fdt[f] # None, NEW id, NEW whole \in BOOLEAN,
           Written(f, id, whole), Due(fdt[f]), id = <<fdt[f], conn[fdt[f]].sent>>, fdt' = fdt
    PROVE  /\ ConnsOK' /\ LogsOK'
           /\ \A d \in Conns \ {fdt[f]} : conn'[d] = conn[d] /\ log'[d] = log[d]
           /\ ~whole => Begun(fdt[f])'
<1> DEFINE c == fdt[f]
<1>1. c \in Conns /\ InTurn(log[c], c)
    BY DEF Shapes, Isolated, InOrder, LogsOK
<1>2. /\ \A d \in Conns \ {c} : conn'[d] = conn[d] /\ log'[d] = log[d]
      /\ log' = [d \in Conns |-> log'[d]] /\ log'[c] = Append(log[c], id)
      /\ conn'[c].st = conn[c].st /\ conn'[c].inb = conn[c].inb /\ conn'[c].sent = conn[c].sent
      /\ conn'[c].phase = IF whole THEN "idle" ELSE conn[c].phase
    <2>1. conn' = [conn EXCEPT ![c].phase = IF whole THEN "idle" ELSE @] /\ log' = [log EXCEPT ![c] = Append(@, id)]
        BY DEF Written
    <2> HIDE DEF c
    <2>2. log' = [d \in Conns |-> log'[d]] /\ log'[c] = Append(log[c], id) /\ \A d \in Conns \ {c} : log'[d] = log[d]
        BY <1>1, <2>1, Zenon DEF Isolated, InOrder, LogsOK
    <2>3. \A d \in Conns \ {c} : conn'[d] = conn[d]
        BY <1>1, <2>1, Zenon DEF ConnTyped
    <2>4. conn'[c] = [conn[c] EXCEPT !.phase = IF whole THEN "idle" ELSE @]
        BY <1>1, <2>1, ZenonT(60) DEF ConnTyped
    <2> QED
        BY <1>1, <2>2, <2>3, <2>4 DEF ConnTyped
<1>3. id = <<c, Len(log[c]) + 1>> /\ conn[c].sent = Len(log[c]) + 1 /\ conn[c].inb = <<>> /\ conn[c].phase = "wait"
    BY DEF Due
<1>4. InTurn(log'[c], c) /\ Len(log'[c]) = Len(log[c]) + 1
    BY <1>1, <1>2, <1>3, NextInTurn
<1> HIDE DEF c
<1>5. ConnsOK'
    BY <1>2, ZenonT(60) DEF Isolated, ConnsOK, c, Shapes
<1>6. LogsOK'
    <2>1. \A d \in Conns \ {c} : conn'[d] = conn[d] /\ log'[d] = log[d]
        BY <1>2
    <2>2. conn'[c].inb = <<>> /\ conn'[c].sent = Len(log'[c]) /\ InTurn(log'[c], c)
        BY <1>2, <1>3, <1>4
    <2>3. ASSUME NEW d \in Conns
          PROVE  /\ InTurn(log'[d], d)
                 /\ conn'[d].st # "closed" =>
                        /\ conn'[d].phase # "wait" => conn'[d].inb = <<>> /\ conn'[d].sent = Len(log'[d])
                        /\ conn'[d].inb # <<>> => /\ conn'[d].sent = Len(log'[d]) + 1
                                                /\ Head(conn'[d].inb).id = <<d, conn'[d].sent>>
        BY <2>1, <2>2 DEF Isolated, InOrder, LogsOK
    <2> QED
        BY <1>2, <2>3 DEF LogsOK, InTurn
<1>7. ~whole => Begun(c)'
    BY <1>2, <1>3, <1>4 DEF Begun, c
<1> QED
    BY <1>2, <1>5, <1>6, <1>7 DEF c

\* The conditions under which the steps are looked at.
Quiet == Inv /\ Watched /\ ConnTyped /\ NoReset /\ Isolated /\ Shapes /\ ~MasksOverlap

-----------------------------------------------------------------------------
(* What the clients are sent.                                              *)

\* Whether the response of a structure is due or begun depends on the structure,
\* its socket, the connection and its log.
Same(r) ==
    /\ rs'[r].sock = rs[r].sock /\ rs'[r].out = rs[r].out /\ rs'[r].req = rs[r].req
    /\ rs[r].sock # NoFd =>
           LET c == fdt[rs[r].sock]
           IN  /\ fdt'[rs[r].sock] = c /\ log'[c] = log[c]
               /\ conn'[c].phase = conn[c].phase /\ conn'[c].inb = conn[c].inb /\ conn'[c].sent = conn[c].sent

LEMMA SameKept ==
    ASSUME NEW r, Same(r), rs[r].sock # NoFd
    PROVE  /\ \A id : Answering(r, id) => Answering(r, id)'
           /\ Begun(fdt[rs[r].sock]) => Begun(fdt[rs[r].sock])'
           /\ rs'[r].out = rs[r].out /\ rs'[r].req = rs[r].req /\ rs'[r].sock = rs[r].sock
<1>1. PICK c : c = fdt[rs[r].sock]
    OBVIOUS
<1>2. /\ rs'[r].out = rs[r].out /\ rs'[r].req = rs[r].req /\ rs'[r].sock = rs[r].sock
      /\ fdt'[rs'[r].sock] = c /\ log'[c] = log[c]
      /\ conn'[c].phase = conn[c].phase /\ conn'[c].inb = conn[c].inb /\ conn'[c].sent = conn[c].sent
    BY <1>1, ZenonT(60) DEF Same
<1>3. ASSUME NEW id, Answering(r, id) PROVE Answering(r, id)'
    <2>1. Due(c) /\ id = <<c, conn[c].sent>>
        BY <1>1, <1>3 DEF Answering
    <2>2. conn'[c].phase = "wait" /\ conn'[c].inb = <<>> /\ conn'[c].sent = Len(log'[c]) + 1 /\ id = <<c, conn'[c].sent>>
        BY <1>2, <2>1 DEF Due
    <2> QED
        BY <1>2, <2>2, ZenonT(60) DEF Answering, Due
<1>4. ASSUME Begun(c) PROVE Begun(fdt[rs[r].sock])'
    <2>1. conn'[c].phase = "wait" /\ conn'[c].inb = <<>> /\ conn'[c].sent = Len(log'[c])
        BY <1>2, <1>4, ZenonT(60) DEF Begun
    <2> QED
        BY <1>2, <2>1, ZenonT(60) DEF Begun
<1> QED
    BY <1>1, <1>2, <1>3, <1>4, ZenonT(60)

LEMMA ResponsesFrame ==
    ASSUME Quiet, NEW x, \A r \in Structs \ {x} : Same(r),
           x \in Structs => rs'[x].out # 1 \/ (rs'[x].sock # NoFd /\ Begun(fdt[rs[x].sock])'),
           \A r \in Structs : pending'[r] > 0 => (r # x /\ pending[r] > 0) \/ Answering(r, rs[r].req)',
           \A w \in Workers : wpc'[w] \in {"run", "ready", "raised"} =>
               /\ wr[w] # x /\ wpc[w] \in {"run", "ready", "raised"}
               /\ wr'[w] = wr[w] /\ wresp'[w] = wresp[w],
           epc' \in {"static", "handler"} =>
               (epc \in {"static", "handler"} /\ cur' = cur /\ cur # x) \/ Answering(cur, rs[cur].req)'
    PROVE  Responses'
<1>1. ASSUME NEW r \in Structs \ {x}, rs[r].sock # NoFd
      PROVE  /\ \A id : Answering(r, id) => Answering(r, id)'
             /\ Begun(fdt[rs[r].sock]) => Begun(fdt[rs[r].sock])'
             /\ rs'[r].out = rs[r].out /\ rs'[r].req = rs[r].req /\ rs'[r].sock = rs[r].sock
    BY <1>1, SameKept, ZenonT(60)
<1>2. epc' \in {"static", "handler"} => Answering(cur, rs[cur].req)'
    <2>1. SUFFICES ASSUME epc' \in {"static", "handler"}, epc \in {"static", "handler"}, cur' = cur, cur # x
                   PROVE  Answering(cur, rs[cur].req)'
        OBVIOUS
    <2>2. PICK r : r = cur
        OBVIOUS
    <2>3. r \in Structs \ {x} /\ rs[r].sock # NoFd /\ Answering(r, rs[r].req) /\ cur' = r
        BY <2>1, <2>2, ZenonT(60) DEF Quiet, Shapes, Isolated, Exclusive, EventAlone, EventAt, InOrder, Responses
    <2>4. PICK id : id = rs[r].req
        BY Zenon
    <2>5. Answering(r, id)' /\ rs'[r].req = id
        BY <1>1, <2>3, <2>4
    <2> QED
        BY <2>3, <2>5, ZenonT(60) DEF Answering, Due
<1>3. \A r \in Structs : pending'[r] > 0 => Answering(r, rs[r].req)'
    <2>1. SUFFICES ASSUME NEW r \in Structs, pending[r] > 0, r # x PROVE Answering(r, rs[r].req)'
        OBVIOUS
    <2>2. r # x /\ rs[r].sock # NoFd /\ Answering(r, rs[r].req)
        BY <2>1 DEF Quiet, Isolated, Exclusive, HeldOnce, InOrder, Responses
    <2>3. PICK id : id = rs[r].req
        OBVIOUS
    <2>4. Answering(r, id)' /\ rs'[r].req = id
        BY <1>1, <2>2, <2>3, ZenonT(60)
    <2> QED
        BY <2>4, ZenonT(60) DEF Answering, Due
<1>4. \A w \in Workers : wpc'[w] \in {"run", "ready", "raised"} => Answering(wr[w], wresp[w])'
    <2>1. SUFFICES ASSUME NEW w \in Workers, wpc'[w] \in {"run", "ready", "raised"} PROVE Answering(wr[w], wresp[w])'
        BY Zenon
    <2>2. PICK r, id : r = wr[w] /\ id = wresp[w]
        OBVIOUS
    <2>3. r \in Structs \ {x} /\ rs[r].sock # NoFd /\ Answering(r, id) /\ wr'[w] = r /\ wresp'[w] = id
        BY <2>1, <2>2 DEF Quiet, Shapes, Isolated, Exclusive, HeldOnce, PoolOK, InOrder, Responses
    <2>4. Answering(r, id)'
        BY <1>1, <2>3, ZenonT(60)
    <2> QED
        BY <2>3, <2>4, ZenonT(60) DEF Answering, Due
<1>5. \A r \in Structs : rs'[r].out = 1 => rs'[r].sock # NoFd /\ Begun(fdt[rs[r].sock])'
    <2>1. SUFFICES ASSUME NEW r \in Structs, r # x, rs'[r].out = 1 PROVE rs'[r].sock # NoFd /\ Begun(fdt[rs[r].sock])'
        BY Zenon
    <2>2. rs[r].sock # NoFd /\ Begun(fdt[rs[r].sock])
        BY <2>1, ZenonT(60) DEF Same, Quiet, Isolated, InOrder, Responses
    <2> QED
        BY <1>1, <2>1, <2>2, ZenonT(60)
<1> QED
    BY <1>2, <1>3, <1>4, <1>5 DEF Responses

LEMMA ResponsesAll ==
    ASSUME Quiet, UNCHANGED <<pending, wpc, wr, wresp>>, \A r \in Structs : Same(r),
           epc' \in {"static", "handler"} => epc \in {"static", "handler"} /\ cur' = cur
    PROVE  Responses'
<1>1. /\ None \notin Structs /\ \A w \in Workers : wpc[w] \in {"run", "ready", "raised"} => wr[w] # None
      /\ epc \in {"static", "handler"} => cur # None
    BY DEF Quiet, Shapes, Isolated, PoolOK, EventAt
<1>2. \A r \in Structs : r # None
    BY <1>1
<1> QED
    BY <1>1, <1>2, ResponsesFrame

\* A part of the invariant whose variables a step leaves alone.
LEMMA OwnFrame ==
    ASSUME Quiet
    PROVE  /\ UNCHANGED <<conn, fdt>> => ConnsOK'
           /\ UNCHANGED <<conn, log>> => LogsOK'
           /\ UNCHANGED <<pending, wpc, wr, wresp>> => PoolOK'
           /\ UNCHANGED <<fdt, reg, rs, pending, wpc, wr, epc, cur, batch, ev>> => Exclusive'
           /\ UNCHANGED <<conn, log, fdt, rs, pending, wpc, wr, wresp>> /\ epc' \notin {"static", "handler"}
                  => Responses'
           /\ UNCHANGED <<conn, log, fdt, rs, pending, wpc, wr, wresp, epc, cur>> => Responses'
<1>1. UNCHANGED <<conn, fdt>> => ConnsOK'
    BY DEF Quiet, Isolated, ConnsOK
<1>2. UNCHANGED <<conn, log>> => LogsOK'
    BY Zenon DEF Quiet, Isolated, InOrder, LogsOK, InTurn
<1>3. UNCHANGED <<pending, wpc, wr, wresp>> => PoolOK'
    BY ZenonT(60) DEF Quiet, Isolated, PoolOK
<1>4. UNCHANGED <<fdt, reg, rs, pending, wpc, wr, epc, cur, batch, ev>> => Exclusive'
    <2>1. SUFFICES ASSUME UNCHANGED <<fdt, reg, rs, pending, wpc, wr, epc, cur, batch, ev>> PROVE Exclusive'
        OBVIOUS
    <2>2. SocksOpen' /\ EventAlone' /\ EventsFresh'
        BY <2>1 DEF Quiet, Isolated, Exclusive, SocksOpen, EventAlone, EventsFresh, EventAt
    <2>3. HeldOnce'
        BY <2>1, ZenonT(60) DEF Quiet, Isolated, Exclusive, HeldOnce
    <2>4. SettersAlone'
        BY <2>1 DEF Quiet, Isolated, Exclusive, SettersAlone
    <2> QED
        BY <2>2, <2>3, <2>4 DEF Exclusive
<1>5. UNCHANGED <<conn, log, fdt, rs, pending, wpc, wr, wresp>> /\ epc' \notin {"static", "handler"} => Responses'
    BY ZenonT(60) DEF Quiet, Isolated, InOrder, Responses, Answering, Due, Begun
<1>6. UNCHANGED <<conn, log, fdt, rs, pending, wpc, wr, wresp, epc, cur>> => Responses'
    BY ZenonT(60) DEF Quiet, Isolated, InOrder, Responses, Answering, Due, Begun
<1> QED
    BY <1>1, <1>2, <1>3, <1>4, <1>5, <1>6

\* A step on the connection of one structure is the same to the others.
LEMMA SameOthers ==
    ASSUME Quiet, NEW x \in Structs, NEW f \in Fds, f = rs[x].sock,
           \A g \in Fds \ {f} : fdt[g] # None =>
               fdt'[g] = fdt[g] /\ conn'[fdt[g]] = conn[fdt[g]] /\ log'[fdt[g]] = log[fdt[g]],
           \A r \in Structs \ {x} : rs'[r].sock = rs[r].sock /\ rs'[r].out = rs[r].out /\ rs'[r].req = rs[r].req
    PROVE  \A r \in Structs \ {x} : Same(r)
<1>1. SUFFICES ASSUME NEW r \in Structs \ {x} PROVE Same(r)
    BY Zenon
<1>2. rs[r].sock # NoFd => rs[r].sock \in Fds \ {f} /\ fdt[rs[r].sock] # None
    BY ZenonT(60) DEF Quiet, Shapes, Isolated, Exclusive, SocksOpen
<1> QED
    BY <1>2, ZenonT(60) DEF Same

LEMMA SameOtherConns ==
    ASSUME Quiet, NEW x \in Structs, NEW f \in Fds, f = rs[x].sock, fdt[f] # None, UNCHANGED fdt,
           \A d \in Conns \ {fdt[f]} : conn'[d] = conn[d] /\ log'[d] = log[d],
           \A r \in Structs \ {x} : rs'[r].sock = rs[r].sock /\ rs'[r].out = rs[r].out /\ rs'[r].req = rs[r].req
    PROVE  \A r \in Structs \ {x} : Same(r)
<1>1. \A g \in Fds \ {f} : fdt[g] # None => fdt[g] \in Conns \ {fdt[f]}
    BY ZenonT(60) DEF Quiet, Shapes, Isolated, ConnsOK
<1> QED
    BY <1>1, SameOthers, ZenonT(60)

\* http_send of a response that is due, by the thread that has structure x: what
\* it does to the clients' side of the invariant.
LEMMA SentOwn ==
    ASSUME Quiet, NEW x \in Structs, NEW f \in Fds, f = rs[x].sock, fdt[f] # None, NEW whole \in BOOLEAN,
           Answering(x, <<fdt[f], conn[fdt[f]].sent>>), Written(f, <<fdt[f], conn[fdt[f]].sent>>, whole), UNCHANGED fdt,
           whole => UNCHANGED rs, ~whole => rs' = [rs EXCEPT ![x].out = 1]
    PROVE  /\ ConnsOK' /\ LogsOK'
           /\ \A r \in Structs : rs'[r].sock = rs[r].sock
           /\ \A r \in Structs \ {x} : Same(r)
           /\ rs'[x].out # 1 \/ (rs'[x].sock # NoFd /\ Begun(fdt[rs[x].sock])')
<1>1. Due(fdt[f])
    BY DEF Answering
<1>2. /\ ConnsOK' /\ LogsOK'
      /\ \A d \in Conns \ {fdt[f]} : conn'[d] = conn[d] /\ log'[d] = log[d]
      /\ ~whole => Begun(fdt[f])'
    BY <1>1, WrittenOwn DEF Quiet
<1>3. /\ \A r \in Structs : rs'[r].sock = rs[r].sock /\ rs'[r].req = rs[r].req
      /\ \A r \in Structs \ {x} : rs'[r].out = rs[r].out
      /\ whole => rs'[x].out = rs[x].out
    <2>1. CASE whole
        BY <2>1
    <2>2. CASE ~whole
        BY <2>2 DEF Quiet, Inv, StructsOK
    <2> QED
        BY <2>1, <2>2
<1>4. \A r \in Structs \ {x} : Same(r)
    BY <1>2, <1>3, SameOtherConns
<1>5. rs'[x].out # 1 \/ (rs'[x].sock # NoFd /\ Begun(fdt[rs[x].sock])')
    <2>1. CASE whole
        <3>1. ~Begun(fdt[f])
            <4>1. fdt[f] \in Conns /\ Len(log[fdt[f]]) \in Nat
                BY NextInTurn DEF Quiet, Shapes, Isolated, InOrder, LogsOK
            <4> QED
                BY <1>1, <4>1 DEF Begun, Due
        <3> QED
            BY <1>3, <2>1, <3>1 DEF Quiet, Isolated, InOrder, Responses
    <2>2. CASE ~whole
        <3>1. rs'[x].sock = f /\ f # NoFd
            BY <1>3 DEF Quiet, Shapes
        <3> QED
            BY <1>2, <2>2, <3>1, ZenonT(60) DEF Begun
    <2> QED
        BY <2>1, <2>2
<1> QED
    BY <1>2, <1>3, <1>4, <1>5

\* A structure let go of, its socket closed or its read events on again.
LEMMA ClearedOwn ==
    ASSUME Quiet, NEW x \in Structs, NEW f \in Fds, f = rs[x].sock, fdt[f] # None, Clear(x), UNCHANGED log,
           CloseFds({f}) \/ (EpollMod(f, "in", f) /\ UNCHANGED <<conn, fdt>>)
    PROVE  /\ ConnsOK' /\ LogsOK'
           /\ rs'[x].sock = NoFd /\ rs'[x].out # 1 /\ \A r \in Structs \ {x} : rs'[r].sock = rs[r].sock
           /\ \A g \in Fds \ {f} : fdt'[g] = fdt[g] /\ reg'[g] = reg[g]
           /\ fdt'[f] = None \/ (fdt'[f] = fdt[f] /\ reg'[f].data = f)
           /\ \A r \in Structs \ {x} : Same(r)
<1>1. (\A r \in Structs \ {x} : rs'[r] = rs[r]) /\ rs'[x].sock = NoFd /\ rs'[x].out = 0
    BY DEF Clear, Idle, Quiet, Inv, StructsOK
<1>2. CASE CloseFds({f})
    <2>1. {f} \in SUBSET Fds
        OBVIOUS
    <2>2. /\ ConnsOK' /\ LogsOK' /\ fdt'[f] = None
          /\ \A g \in Fds \ {f} : /\ fdt'[g] = fdt[g] /\ reg'[g] = reg[g]
                                  /\ fdt[g] # None => conn'[fdt[g]] = conn[fdt[g]]
        BY <1>2, <2>1, ClosedOwn DEF Quiet
    <2>3. \A r \in Structs \ {x} : Same(r)
        BY <1>1, <2>2, SameOthers, ZenonT(60)
    <2> QED
        BY <1>1, <2>2, <2>3
<1>3. CASE EpollMod(f, "in", f) /\ UNCHANGED <<conn, fdt>>
    <2>1. (\A g \in Fds \ {f} : reg'[g] = reg[g]) /\ reg'[f].data = f
        BY <1>3, Zenon DEF EpollMod, IsOpen, Quiet, Shapes
    <2>2. \A r \in Structs \ {x} : Same(r)
        BY <1>1, <1>3, SameOthers, ZenonT(60)
    <2> QED
        BY <1>1, <1>3, <2>1, <2>2, OwnFrame
<1> QED
    BY <1>2, <1>3, ZenonT(60)

-----------------------------------------------------------------------------
(* The workers: the structures, the list and the descriptors.              *)

\* A worker that moves on without touching socket or list.
LEMMA WorkerQuietStep ==
    ASSUME Inv, NEW w \in Workers,
           (\E r \in Structs : WorkerTake(w, r)) \/ WorkerReturn(w) \/ WorkerRaise(w) \/ WorkerDrop(w)
    PROVE  Inv'
<1>1. /\ UNCHANGED <<vec, rs, fdt, reg, ev, wmutex, epc, cur, batch>>
      /\ \E to \in {"idle", "run", "ready", "raised"} : wpc' = [wpc EXCEPT ![w] = to]
    BY DEF WorkerTake, WorkerReturn, WorkerRaise, WorkerDrop, At, kernel, event
<1>2. SetterOK'
    BY <1>1 DEF Inv, SetterOK, InSetter, ThreadsOK
<1>3. \/ \E r \in Structs : wr' = [wr EXCEPT ![w] = r]
      \/ wpc' = [wpc EXCEPT ![w] = "idle"] /\ wr' = [wr EXCEPT ![w] = None]
      \/ wpc[w] = "run" /\ UNCHANGED wr
    BY DEF WorkerTake, WorkerReturn, WorkerRaise, WorkerDrop, At, Finish, Pool!Take, Pool!Finish
<1>4. ThreadsOK'
    BY <1>1, <1>3, Zenon DEF Inv, ThreadsOK
<1> QED
    BY <1>1, <1>2, <1>4, Frame DEF Inv

\* http_send in a worker.
LEMMA WorkerSendStep ==
    ASSUME Inv, NEW w \in Workers, WorkerSend(w)
    PROVE  Inv'
<1> DEFINE f == rs[wr[w]].sock
<1>1. wr[w] \in Structs /\ f \in Fds \cup {NoFd}
    BY DEF WorkerSend, Inv, ThreadsOK, StructsOK
<1>2. /\ UNCHANGED <<vec, fdt, reg, epc, cur, batch, wr>> /\ wmutex' = w /\ wpc[w] # "idle"
      /\ UNCHANGED rs \/ rs' = [rs EXCEPT ![wr[w]].out = 1]
      /\ \/ wpc' = [wpc EXCEPT ![w] = "end"] /\ UNCHANGED ev
         \/ wpc' = [wpc EXCEPT ![w] = "set_out"] /\ ev' = [ev EXCEPT !.out = f] /\ Works(f)
    BY Zenon DEF WorkerSend, At, kernel, event
<1>3. StructsOK' /\ \A q \in Structs : rs'[q].sock = rs[q].sock
    BY <1>2, OutSet
<1>4. SetterOK'
    BY <1>1, <1>2 DEF Inv, SetterOK, InSetter, ThreadsOK, Works
<1>5. ThreadsOK'
    BY <1>1, <1>2 DEF Inv, ThreadsOK
<1> QED
    BY <1>2, <1>3, <1>4, <1>5, Frame, Released DEF Inv

\* end_request and http_cleanup in a worker.
LEMMA WorkerEndStep ==
    ASSUME Inv, NEW w \in Workers, WorkerEnd(w)
    PROVE  Inv'
<1> DEFINE r == wr[w]
<1>1. CASE wpc[w] = "end" /\ rs[r].keepalive
    <2>1. r \in Structs /\ rs[r].sock \in Fds
        BY <1>1 DEF Inv, ThreadsOK, StructsOK
    <2>2. /\ UNCHANGED <<vec, rs, fdt, reg, epc, cur, batch, wr, wmutex>>
          /\ wpc' = [wpc EXCEPT ![w] = "set_in"] /\ ev' = [ev EXCEPT !.in = rs[r].sock]
        BY <1>1, Zenon DEF WorkerEnd, At, kernel, event
    <2>3. SetterOK' /\ ThreadsOK'
        BY <1>1, <2>1, <2>2 DEF Inv, SetterOK, InSetter, ThreadsOK
    <2> QED
        BY <2>2, <2>3, Frame DEF Inv
<1>2. CASE wpc[w] = "end" /\ ~rs[r].keepalive
    <2>1. /\ UNCHANGED <<vec, ev, epc, cur, batch>> /\ wmutex' = None
          /\ wpc' = [wpc EXCEPT ![w] = "idle"] /\ wr' = [wr EXCEPT ![w] = None]
          /\ CloseFds({rs[r].sock}) /\ Clear(r)
        BY <1>2, ZenonT(60) DEF WorkerEnd, At, Finish, Pool!Finish, event
    <2>2. SetterOK' /\ ThreadsOK'
        BY <2>1, Zenon DEF Inv, SetterOK, InSetter, ThreadsOK
    <2>3. KernelOK' /\ StructsOK' /\ OneStructPerSocket'
        BY <2>1, Closed, Cleared
    <2> QED
        BY <2>1, <2>2, <2>3, Frame DEF Inv
<1> QED
    BY <1>1, <1>2 DEF WorkerEnd, At

\* The two setters in a worker.
LEMMA WorkerSetStep ==
    ASSUME Inv, NEW w \in Workers, WorkerSetIn(w) \/ WorkerSetOut(w)
    PROVE  Inv'
<1>1. /\ UNCHANGED <<vec, ev, epc, cur, batch>> /\ wmutex' = None
      /\ wpc' = [wpc EXCEPT ![w] = "idle"] /\ wr' = [wr EXCEPT ![w] = None]
    BY DEF WorkerSetIn, WorkerSetOut, At, Finish, Pool!Finish, event
<1>2. SetterOK' /\ ThreadsOK'
    BY <1>1, ZenonT(60) DEF Inv, SetterOK, InSetter, ThreadsOK
<1>3. CASE WorkerSetIn(w)
    <2>1. ev.in \in Fds
        BY <1>3, Zenon DEF WorkerSetIn, At, Inv, SetterOK, InSetter
    <2>2. KernelOK' /\ StructsOK' /\ OneStructPerSocket'
        BY <1>1, <1>3, <2>1, Modified, Cleared DEF WorkerSetIn
    <2> QED
        BY <1>1, <1>2, <2>2, Frame DEF Inv
<1>4. CASE WorkerSetOut(w)
    <2>1. ev.out \in Fds
        BY <1>4, ZenonT(60) DEF WorkerSetOut, At, Inv, SetterOK, InSetter
    <2>2. KernelOK' /\ UNCHANGED rs
        BY <1>4, <2>1, Modified DEF WorkerSetOut
    <2> QED
        BY <1>1, <1>2, <2>2, Frame DEF Inv
<1> QED
    BY <1>3, <1>4, ZenonT(60)

\* A worker keeps the structures, the list and the descriptors in order.
LEMMA WorkerInv ==
    ASSUME Inv, NEW w \in Workers, WorkerNext(w)
    PROVE  Inv'
BY WorkerQuietStep, WorkerSendStep, WorkerEndStep, WorkerSetStep DEF WorkerNext

-----------------------------------------------------------------------------
(* The workers: nobody is forgotten.                                       *)

\* The workers.
LEMMA WatchedWorker ==
    ASSUME Inv, Watched, NEW w \in Workers, WorkerNext(w)
    PROVE  Watched'
<1>1. CASE (\E r \in Structs : WorkerTake(w, r)) \/ WorkerReturn(w) \/ WorkerRaise(w) \/ WorkerDrop(w)
    BY <1>1, WatchedFrame DEF WorkerTake, WorkerReturn, WorkerRaise, WorkerDrop, kernel
<1>2. CASE WorkerSend(w)
    <2>1. UNCHANGED rs \/ rs' = [rs EXCEPT ![wr[w]].out = 1]
        BY <1>2, ZenonT(60) DEF WorkerSend
    <2>2. \A r \in Structs : rs'[r].sock = rs[r].sock
        BY <2>1, OutSet, ZenonT(60)
    <2> QED
        BY <1>2, <2>2, WatchedFrame DEF WorkerSend, kernel
<1>3. CASE WorkerEnd(w) \/ WorkerSetIn(w)
    <2>1. vec' = vec /\ wr[w] \in Structs
        BY <1>3 DEF WorkerEnd, WorkerSetIn, At, Inv, ThreadsOK
    <2>2. \/ UNCHANGED <<rs, fdt, reg>>
          \/ CloseFds({rs[wr[w]].sock}) /\ Clear(wr[w])
          \/ EpollMod(rs[wr[w]].sock, "in", ev.in) /\ fdt' = fdt /\ Clear(wr[w])
        BY <1>3 DEF WorkerEnd, WorkerSetIn, kernel
    <2>3. CASE UNCHANGED <<rs, fdt, reg>>
        BY <2>1, <2>3, WatchedFrame
    <2>4. CASE CloseFds({rs[wr[w]].sock}) /\ Clear(wr[w])
        BY <2>1, <2>4, WatchedClear, ClosedFds
    <2>5. CASE EpollMod(rs[wr[w]].sock, "in", ev.in) /\ fdt' = fdt /\ Clear(wr[w])
        BY <2>1, <2>5, WatchedClear, ModifiedFds
    <2> QED
        BY <2>2, <2>3, <2>4, <2>5
<1>4. CASE WorkerSetOut(w)
    <2>1. wr[w] \in Structs /\ UNCHANGED <<vec, rs, fdt>>
        BY <1>4 DEF WorkerSetOut, At, Inv, ThreadsOK
    <2>2. \A g \in Fds : g # rs[wr[w]].sock => reg'[g] = reg[g]
        BY <1>4, ModifiedFds DEF WorkerSetOut
    <2> QED
        BY <2>1, <2>2, WatchedFrame
<1> QED
    BY <1>1, <1>2, <1>3, <1>4, ZenonT(60) DEF WorkerNext

-----------------------------------------------------------------------------
(* The workers: who works on a connection and what its client is sent.     *)

\* A worker goes from one place to the next with its structure.
LEMMA WorkerMove ==
    ASSUME Quiet, NEW w \in Workers, NEW to, UNCHANGED <<fdt, reg, pending, wr, epc, cur, batch>>,
           \A r \in Structs : rs'[r].sock = rs[r].sock,
           wpc[w] \in {"run", "ready", "raised", "end"}, wpc' = [wpc EXCEPT ![w] = to],
           \/ to \in {"ready", "raised", "end"} /\ UNCHANGED ev
           \/ to = "set_in" /\ ~InSetter("set_in") /\ ev' = [ev EXCEPT !.in = rs[wr[w]].sock]
           \/ to = "set_out" /\ ~InSetter("set_out") /\ ev' = [ev EXCEPT !.out = rs[wr[w]].sock]
    PROVE  Exclusive' /\ (UNCHANGED wresp => PoolOK')
<1>1. \A v \in Workers : wpc'[v] = IF v = w THEN to ELSE wpc[v]
    BY DEF Quiet, Inv, ThreadsOK
<1>2. SocksOpen'
    BY DEF Quiet, Isolated, Exclusive, SocksOpen
<1>3. HeldOnce'
    BY DEF Quiet, Isolated, Exclusive, HeldOnce, Shapes
<1>4. EventAlone'
    BY DEF Quiet, Isolated, Exclusive, EventAlone, Shapes
<1>5. EventsFresh'
    BY DEF Quiet, Isolated, Exclusive, EventsFresh, Shapes
<1>6. /\ to = "set_in" => ev'.in = rs[wr[w]].sock /\ ev'.out = ev.out
      /\ to = "set_out" => ev'.out = rs[wr[w]].sock /\ ev'.in = ev.in
      /\ to \notin {"set_in", "set_out"} => ev' = ev
    BY DEF Quiet, Inv, SetterOK
<1>7. \A v \in Workers : wpc[v] # "idle" => wr[v] \in Structs
    BY DEF Quiet, Inv, ThreadsOK
<1>8. SettersAlone'
    BY <1>1, <1>6, <1>7 DEF Quiet, Isolated, Exclusive, SettersAlone, InSetter, Shapes, EventAt
<1>9. UNCHANGED wresp => PoolOK'
    BY <1>1 DEF Quiet, Isolated, PoolOK
<1> QED
    BY <1>2, <1>3, <1>4, <1>5, <1>8, <1>9 DEF Exclusive

\* Setters that go on with the descriptor they were given stay alone.
LEMMA SettersFrame ==
    ASSUME SettersAlone, UNCHANGED ev,
           epc' \in {"set_in", "set_out"} => epc' = epc /\ cur' = cur /\ rs'[cur].sock = rs[cur].sock,
           \A v \in Workers : wpc'[v] \in {"set_in", "set_out"} =>
               wpc'[v] = wpc[v] /\ wr'[v] = wr[v] /\ rs'[wr[v]].sock = rs[wr[v]].sock
    PROVE  SettersAlone'
<1>1. /\ epc' = "set_in" => ev'.in = rs'[cur'].sock /\ \A v \in Workers : wpc'[v] # "set_in"
      /\ epc' = "set_out" => ev'.out = rs'[cur'].sock /\ \A v \in Workers : wpc'[v] # "set_out"
    BY ZenonT(60) DEF SettersAlone
<1>2. \A v \in Workers : wpc'[v] = "set_in" =>
          ev'.in = rs'[wr'[v]].sock /\ \A u \in Workers : wpc'[u] = "set_in" => u = v
    BY ZenonT(60) DEF SettersAlone
<1>3. \A v \in Workers : wpc'[v] = "set_out" =>
          ev'.out = rs'[wr'[v]].sock /\ \A u \in Workers : wpc'[u] = "set_out" => u = v
    BY ZenonT(60) DEF SettersAlone
<1> QED
    BY <1>1, <1>2, <1>3, ZenonT(60) DEF SettersAlone

\* A worker lets go of its structure and of the socket.
LEMMA WorkerLeaves ==
    ASSUME Quiet, NEW w \in Workers, UNCHANGED <<pending, epc, cur, batch, ev>>, wpc[w] # "idle",
           wpc' = [wpc EXCEPT ![w] = "idle"], wr' = [wr EXCEPT ![w] = None],
           \A r \in Structs \ {wr[w]} : rs'[r].sock = rs[r].sock,
           \A g \in Fds \ {rs[wr[w]].sock} : fdt'[g] = fdt[g] /\ reg'[g] = reg[g],
           \/ rs'[wr[w]].sock = NoFd /\ fdt'[rs[wr[w]].sock] = None
           \/ /\ rs'[wr[w]].sock \in {rs[wr[w]].sock, NoFd} /\ fdt'[rs[wr[w]].sock] = fdt[rs[wr[w]].sock]
              /\ reg'[rs[wr[w]].sock].data = rs[wr[w]].sock
    PROVE  Exclusive' /\ (wresp' = [wresp EXCEPT ![w] = <<>>] => PoolOK')
<1>a. PICK x : x = wr[w]
    BY ZenonT(60)
<1>b. PICK f : f = rs[x].sock
    BY ZenonT(60)
<1>1. x \in Structs /\ f \in Fds /\ reg[f].mask = "none" /\ \A r \in Structs : r # x => rs[r].sock # f
    <2>1. x \in Structs /\ x # None
        BY <1>a DEF Quiet, Isolated, PoolOK, Shapes
    <2>2. f # NoFd /\ reg[f].mask = "none"
        BY <1>a, <1>b, <2>1, ZenonT(60) DEF Quiet, Isolated, Exclusive, HeldOnce
    <2> QED
        BY <1>b, <2>1, <2>2, ZenonT(60) DEF Quiet, Shapes
<1>2. pending[x] = 0 /\ \A v \in Workers : v # w => wr[v] # x
    <2>1. pending[x] \in Nat /\ ~(pending[x] > 0)
        BY <1>1, <1>a, ZenonT(60) DEF Quiet, Isolated, Exclusive, HeldOnce, PoolOK
    <2> QED
        BY <1>1, <1>a, <2>1 DEF Quiet, Isolated, Exclusive, HeldOnce, Shapes
<1>3. epc \in EventAt => cur \in Structs /\ cur # x
    BY <1>1, <1>b, ZenonT(60) DEF Quiet, Isolated, Exclusive, EventAlone, Shapes
<1>4. \A v \in Workers : /\ wpc'[v] = IF v = w THEN "idle" ELSE wpc[v]
                         /\ wr'[v] = IF v = w THEN None ELSE wr[v]
    BY ZenonT(60) DEF Quiet, Inv, ThreadsOK
<1>5. /\ \A r \in Structs \ {x} : rs'[r].sock = rs[r].sock
      /\ \A g \in Fds \ {f} : fdt'[g] = fdt[g] /\ reg'[g] = reg[g]
      /\ \/ rs'[x].sock = NoFd /\ fdt'[f] = None
         \/ rs'[x].sock \in {f, NoFd} /\ fdt'[f] = fdt[f] /\ reg'[f].data = f
    BY <1>a, <1>b, ZenonT(60)
<1>6. SocksOpen'
    <2>1. SocksOpen /\ Shapes
        BY ZenonT(60) DEF Quiet, Isolated, Exclusive
    <2>2. ASSUME NEW g \in Fds, fdt'[g] # None PROVE reg'[g].data = g
        <3>1. CASE g = f
            BY <1>5, <2>2, <3>1, ZenonT(60)
        <3>2. CASE g # f
            BY <1>5, <2>1, <2>2, <3>2, ZenonT(60) DEF SocksOpen
        <3> QED
            BY <3>1, <3>2, ZenonT(60)
    <2>3. ASSUME NEW r \in Structs, rs'[r].sock # NoFd PROVE fdt'[rs'[r].sock] # None
        <3>1. CASE r = x
            <4>1. rs'[x].sock = f /\ fdt'[f] = fdt[f] /\ rs[x].sock # NoFd
                BY <1>5, <1>b, <2>3, <3>1, ZenonT(60)
            <4>2. fdt[f] # None
                BY <1>1, <1>b, <2>1, <4>1, ZenonT(60) DEF SocksOpen
            <4> QED
                BY <3>1, <4>1, <4>2, ZenonT(60)
        <3>2. CASE r # x
            <4>1. rs'[r].sock = rs[r].sock /\ rs[r].sock # NoFd /\ fdt[rs[r].sock] # None
                BY <1>5, <2>1, <2>3, <3>2, ZenonT(60) DEF SocksOpen
            <4>2. rs[r].sock \in Fds /\ rs[r].sock # f
                BY <1>1, <1>b, <2>1, <3>2, <4>1, ZenonT(60) DEF Shapes
            <4> QED
                BY <1>5, <4>1, <4>2, ZenonT(60)
        <3> QED
            BY <3>1, <3>2, ZenonT(60)
    <2> QED
        BY <2>2, <2>3, ZenonT(60) DEF SocksOpen
<1>7. HeldOnce'
    <2>1. \A r \in Structs : r # x => rs'[r].sock = rs[r].sock /\ (rs[r].sock # NoFd => reg'[rs[r].sock] = reg[rs[r].sock])
        BY <1>1, <1>5, ZenonT(60) DEF Quiet, Shapes
    <2>2. \A r \in Structs : pending'[r] > 0 => r # x
        BY <1>2, ZeroIsLeast, ZenonT(60)
    <2>3. \A v \in Workers : wr'[v] # None => v # w /\ wr[v] # None /\ wr[v] # x /\ wr'[v] = wr[v] /\ wr[v] \in Structs
        BY <1>2, <1>4, ZenonT(60) DEF Quiet, Shapes
    <2>4. /\ \A r \in Structs : pending'[r] > 0 => rs'[r].sock # NoFd /\ reg'[rs'[r].sock].mask = "none"
          /\ \A v \in Workers : wr'[v] # None => rs'[wr'[v]].sock # NoFd /\ reg'[rs'[wr'[v]].sock].mask = "none"
        <3>1. \A r \in Structs : pending'[r] > 0 => rs'[r].sock # NoFd /\ reg'[rs'[r].sock].mask = "none"
            <4>1. UNCHANGED pending /\ HeldOnce
                BY ZenonT(60) DEF Quiet, Isolated, Exclusive
            <4>2. SUFFICES ASSUME NEW r \in Structs, pending'[r] > 0
                           PROVE  rs'[r].sock # NoFd /\ reg'[rs'[r].sock].mask = "none"
                BY ZenonT(60)
            <4>3. rs[r].sock # NoFd /\ reg[rs[r].sock].mask = "none"
                BY <4>1, <4>2, ZenonT(60) DEF HeldOnce
            <4> QED
                BY <2>1, <2>2, <4>2, <4>3, ZenonT(60)
        <3>2. ASSUME NEW v \in Workers, wr'[v] # None
              PROVE  rs'[wr'[v]].sock # NoFd /\ reg'[rs'[wr'[v]].sock].mask = "none"
            <4>1. PICK r \in Structs : r = wr[v] /\ wr'[v] = r /\ r # x /\ r # None
                BY <2>3, <3>2, ZenonT(60)
            <4>2. rs[r].sock # NoFd /\ reg[rs[r].sock].mask = "none"
                BY <4>1, ZenonT(60) DEF Quiet, Isolated, Exclusive, HeldOnce
            <4> QED
                BY <2>1, <4>1, <4>2, ZenonT(60)
        <3> QED
            BY <3>1, <3>2, ZenonT(60)
    <2>5. /\ \A r \in Structs : pending'[r] > 0 => pending'[r] = 1 /\ \A v \in Workers : wr'[v] # r
          /\ \A u, v \in Workers : wr'[u] = wr'[v] => u = v \/ wr'[u] = None
        BY <2>3, <1>4 DEF Quiet, Isolated, Exclusive, HeldOnce, Shapes
    <2> QED
        BY <2>4, <2>5, Zenon DEF HeldOnce
<1>8. EventAlone'
    BY <1>1, <1>3, <1>5, ZenonT(60) DEF Quiet, Isolated, Exclusive, EventAlone, Shapes
<1>9. EventsFresh'
    BY <1>1, <1>3, <1>5 DEF Quiet, Isolated, Exclusive, EventsFresh, Shapes
<1>10. \A v \in Workers : wpc[v] # "idle" => wr[v] \in Structs
    BY ZenonT(60) DEF Quiet, Inv, ThreadsOK
<1>11. SettersAlone'
    <2>1. \A v \in Workers : wpc'[v] \in {"set_in", "set_out"} =>
              wpc'[v] = wpc[v] /\ wr'[v] = wr[v] /\ rs'[wr[v]].sock = rs[wr[v]].sock
        <3>0. wpc'[w] = "idle" /\ \A v \in Workers : v # w => wpc'[v] = wpc[v]
            BY <1>4, ZenonT(60)
        <3>1. \A v \in Workers : wpc'[v] \in {"set_in", "set_out"} => v # w /\ wpc'[v] = wpc[v]
            BY <3>0, ZenonT(60)
        <3>2. \A v \in Workers : v # w /\ wpc[v] # "idle" => wr[v] \in Structs \ {x} /\ wr'[v] = wr[v]
            BY <1>2, <1>4, <1>10, ZenonT(60)
        <3> QED
            BY <1>5, <3>1, <3>2, ZenonT(60)
    <2>2. epc \in {"set_in", "set_out"} => rs'[cur].sock = rs[cur].sock
        BY <1>3, <1>5, ZenonT(60) DEF EventAt
    <2>3. SettersAlone /\ UNCHANGED <<ev, epc, cur>>
        BY ZenonT(60) DEF Quiet, Isolated, Exclusive
    <2> QED
        BY <2>1, <2>2, <2>3, SettersFrame, ZenonT(60)
<1>12. wresp' = [wresp EXCEPT ![w] = <<>>] => PoolOK'
    <2>1. \A v \in Workers : /\ wr'[v] = None <=> wpc'[v] = "idle"
                             /\ wpc'[v] \in {"idle", "run", "ready", "raised", "end", "set_in", "set_out"}
        BY <1>4 DEF Quiet, Isolated, PoolOK
    <2>2. wresp' = [wresp EXCEPT ![w] = <<>>] => wresp' = [v \in Workers |-> wresp'[v]]
        BY Zenon DEF Quiet, Isolated, PoolOK
    <2> QED
        BY <2>1, <2>2, ZenonT(60) DEF Quiet, Isolated, PoolOK
<1> QED
    BY <1>6, <1>7, <1>8, <1>9, <1>11, <1>12, ZenonT(60) DEF Exclusive

\* The same for a worker.
WorkerHas(w, x, f, c) ==
    /\ x = wr[w] /\ x \in Structs /\ f = rs[x].sock /\ f \in Fds /\ f # NoFd /\ c = fdt[f] /\ c \in Conns /\ c # None
    /\ reg[f].mask = "none" /\ \A r \in Structs : r # x => rs[r].sock # f
    /\ pending[x] = 0 /\ \A v \in Workers : v # w => wr[v] # x
    /\ epc \in EventAt => cur # x

LEMMA WorkerHasOne ==
    ASSUME Quiet, NEW w \in Workers, wpc[w] # "idle"
    PROVE  \E x, f, c : WorkerHas(w, x, f, c)
<1>1. PICK x, f, c : x = wr[w] /\ f = rs[x].sock /\ c = fdt[f]
    BY ZenonT(60)
<1>2. x \in Structs /\ x # None
    BY <1>1 DEF Quiet, Isolated, PoolOK, Shapes
<1>3. f # NoFd /\ reg[f].mask = "none"
    BY <1>1, <1>2, ZenonT(60) DEF Quiet, Isolated, Exclusive, HeldOnce
<1>4. f \in Fds /\ c # None /\ c \in Conns
    BY <1>1, <1>2, <1>3 DEF Quiet, Shapes, Isolated, Exclusive, SocksOpen
<1>5. \A r \in Structs : r # x => rs[r].sock # f
    BY <1>1, <1>2, <1>3 DEF Quiet, Shapes
<1>6. pending[x] \in Nat /\ ~(pending[x] > 0)
    BY <1>1, <1>2 DEF Quiet, Isolated, Exclusive, HeldOnce, PoolOK
<1>7. \A v \in Workers : v # w => wr[v] # x
    BY <1>1, <1>2 DEF Quiet, Isolated, Exclusive, HeldOnce
<1>8. epc \in EventAt => cur # x
    BY <1>1, <1>3 DEF Quiet, Isolated, Exclusive, EventAlone
<1>9. pending[x] = 0
    BY <1>6
<1>10. WorkerHas(w, x, f, c)
    BY <1>1, <1>2, <1>3, <1>4, <1>5, <1>7, <1>8, <1>9, ZenonT(60) DEF WorkerHas
<1> QED
    BY <1>10, ZenonT(60)

LEMMA WorkerTakeOwn ==
    ASSUME Quiet, NEW w \in Workers, NEW r \in Structs, WorkerTake(w, r)
    PROVE  Isolated'
<1>1. UNCHANGED <<conn, log, fdt, reg, ev, rs, epc, cur, batch>>
    BY ZenonT(60) DEF WorkerTake, envVars, kernel, event
<1>2. PICK id : id = rs[r].req
    OBVIOUS
<1>3. /\ wpc[w] = "idle" /\ wpc' = [wpc EXCEPT ![w] = "run"] /\ pending[r] > 0 /\ wr[w] = None
      /\ pending' = [pending EXCEPT ![r] = pending[r] - 1] /\ wr' = [wr EXCEPT ![w] = r]
      /\ wresp' = [wresp EXCEPT ![w] = id]
    BY <1>2, ZenonT(60) DEF WorkerTake, At, Pool!Take
<1>4. /\ pending[r] = 1 /\ (\A v \in Workers : wr[v] # r) /\ rs[r].sock # NoFd /\ reg[rs[r].sock].mask = "none"
      /\ r # None
    BY <1>3, ZenonT(60) DEF Quiet, Isolated, Exclusive, HeldOnce, Shapes
<1>5. /\ pending' \in [Structs -> Nat] /\ \A q \in Structs : pending'[q] = IF q = r THEN 0 ELSE pending[q]
    BY <1>3, <1>4 DEF Quiet, Isolated, PoolOK
<1>6. \A v \in Workers : /\ wpc'[v] = IF v = w THEN "run" ELSE wpc[v]
                         /\ wr'[v] = IF v = w THEN r ELSE wr[v]
    BY <1>3, ZenonT(60) DEF Quiet, Inv, ThreadsOK
<1>7. wresp' = [v \in Workers |-> wresp'[v]] /\ \A v \in Workers : wresp'[v] = IF v = w THEN id ELSE wresp[v]
    BY <1>3, ZenonT(60) DEF Quiet, Isolated, PoolOK
<1>8. PoolOK'
    <2>1. \A v \in Workers : /\ wr'[v] = None <=> wpc'[v] = "idle"
                             /\ wpc'[v] \in {"idle", "run", "ready", "raised", "end", "set_in", "set_out"}
        BY <1>4, <1>6 DEF Quiet, Isolated, PoolOK
    <2> QED
        BY <1>5, <1>7, <2>1 DEF PoolOK
<1>9. SocksOpen' /\ EventAlone' /\ EventsFresh'
    BY <1>1, ZenonT(60) DEF Quiet, Isolated, Exclusive, SocksOpen, EventAlone, EventsFresh, EventAt
<1>10. HeldOnce'
    <2>1. ASSUME NEW q \in Structs, pending'[q] > 0
          PROVE  /\ pending'[q] = 1 /\ \A v \in Workers : wr'[v] # q
                 /\ rs'[q].sock # NoFd /\ reg'[rs'[q].sock].mask = "none"
        <3>1. q # r
            BY <1>5, <2>1, ZeroIsLeast, ZenonT(60)
        <3>2. pending'[q] = pending[q] /\ pending[q] > 0
            BY <1>5, <2>1, <3>1, ZenonT(60)
        <3>3. pending[q] = 1 /\ (\A v \in Workers : wr[v] # q) /\ rs[q].sock # NoFd /\ reg[rs[q].sock].mask = "none"
            BY <3>2, ZenonT(60) DEF Quiet, Isolated, Exclusive, HeldOnce
        <3> QED
            BY <1>1, <1>6, <3>1, <3>2, <3>3, ZenonT(60)
    <2>2. ASSUME NEW v \in Workers, wr'[v] # None
          PROVE  rs'[wr'[v]].sock # NoFd /\ reg'[rs'[wr'[v]].sock].mask = "none"
        <3>1. CASE v = w
            BY <1>1, <1>4, <1>6, <3>1, ZenonT(60)
        <3>2. CASE v # w
            BY <1>1, <1>6, <2>2, <3>2, ZenonT(60) DEF Quiet, Isolated, Exclusive, HeldOnce
        <3> QED
            BY <3>1, <3>2, Zenon
    <2>3. \A u, v \in Workers : wr'[u] = wr'[v] => u = v \/ wr'[u] = None
        <3>1. /\ \A u, v \in Workers : wr[u] = wr[v] => u = v \/ wr[u] = None
              /\ \A v \in Workers : wr[v] # r
            BY <1>4, ZenonT(60) DEF Quiet, Isolated, Exclusive, HeldOnce
        <3> QED
            BY <1>6, <3>1, ZenonT(60)
    <2> QED
        BY <2>1, <2>2, <2>3, ZenonT(60) DEF HeldOnce
<1>11. SettersAlone'
    <2>1. SettersAlone
        BY ZenonT(60) DEF Quiet, Isolated, Exclusive
    <2>2. \A v \in Workers : wpc'[v] \in {"set_in", "set_out"} => v # w
        BY <1>6, ZenonT(60)
    <2>3. \A v \in Workers : wpc'[v] \in {"set_in", "set_out"} => wpc'[v] = wpc[v] /\ wr'[v] = wr[v]
        BY <1>6, <2>2, ZenonT(60)
    <2> QED
        BY <1>1, <2>1, <2>3, SettersFrame, ZenonT(60)
<1>12. Responses'
    <2>1. \A q \in Structs : \A i : Answering(q, i) => Answering(q, i)'
        BY <1>1, ZenonT(60) DEF Answering, Due
    <2>2. Answering(r, id)
        BY <1>2, <1>3, ZenonT(60) DEF Quiet, Isolated, InOrder, Responses
    <2>3. ASSUME NEW v \in Workers, wpc'[v] \in {"run", "ready", "raised"} PROVE Answering(wr[v], wresp[v])'
        <3>1. PICK q, i : q = wr'[v] /\ i = wresp'[v]
            BY Zenon
        <3>2. q \in Structs /\ Answering(q, i)
            <4>1. CASE v = w
                BY <1>6, <1>7, <2>2, <3>1, <4>1
            <4>2. CASE v # w
                <5>1. wpc[v] \in {"run", "ready", "raised"} /\ q = wr[v] /\ i = wresp[v]
                    BY <1>6, <1>7, <2>3, <3>1, <4>2
                <5> QED
                    BY <5>1 DEF Quiet, Inv, ThreadsOK, Isolated, InOrder, Responses
            <4> QED
                BY <4>1, <4>2
        <3>3. Answering(q, i)'
            BY <2>1, <3>2
        <3> QED
            BY <3>1, <3>3, ZenonT(60) DEF Answering, Due
    <2>4. \A q \in Structs : pending'[q] > 0 => Answering(q, rs[q].req)'
        <3>1. \A q \in Structs : pending'[q] > 0 => pending[q] > 0
            BY <1>5
        <3> QED
            BY <1>1, <3>1, ZenonT(60) DEF Quiet, Isolated, InOrder, Responses, Answering, Due
    <2>5. /\ epc' \in {"static", "handler"} => Answering(cur, rs[cur].req)'
          /\ \A q \in Structs : rs'[q].out = 1 => rs'[q].sock # NoFd /\ Begun(fdt[rs[q].sock])'
        BY <1>1, ZenonT(60) DEF Quiet, Isolated, InOrder, Responses, Answering, Due, Begun
    <2> QED
        BY <2>3, <2>4, <2>5, ZenonT(60) DEF Responses
<1> QED
    BY <1>1, <1>8, <1>9, <1>10, <1>11, <1>12, OwnFrame DEF Isolated, Exclusive, InOrder

\* Inside a setter the static epoll_event holds the worker's socket, so what a
\* worker still has to send is its own structure's.
LEMMA WorkerQuietOwn ==
    ASSUME Quiet, NEW w \in Workers, WorkerReturn(w) \/ WorkerRaise(w) \/ WorkerDrop(w)
    PROVE  Isolated'
<1>1. UNCHANGED <<conn, log, fdt, reg, ev, rs, epc, cur, batch>>
    BY ZenonT(60) DEF WorkerReturn, WorkerRaise, WorkerDrop, envVars, kernel, event
<1>2. wpc[w] \in {"run", "ready"} /\ wpc[w] # "idle"
    BY ZenonT(60) DEF WorkerReturn, WorkerRaise, WorkerDrop, At
<1>3. PICK x, f, c : WorkerHas(w, x, f, c)
    BY <1>2, WorkerHasOne
<1>4. rs[wr[w]].sock # NoFd
    BY <1>3, ZenonT(60) DEF WorkerHas
<1>5. PICK to \in {"ready", "raised"} :
          wpc[w] = "run" /\ wpc' = [wpc EXCEPT ![w] = to] /\ UNCHANGED <<pending, wr, wresp>>
    BY <1>4, ZenonT(60) DEF WorkerReturn, WorkerRaise, WorkerDrop, At
<1>6. Exclusive' /\ PoolOK'
    <2>1. UNCHANGED <<fdt, reg, pending, wr, epc, cur, batch>> /\ UNCHANGED wresp
        BY <1>1, <1>5
    <2>2. \A r \in Structs : rs'[r].sock = rs[r].sock
        BY <1>1
    <2>3. wpc[w] \in {"run", "ready", "raised", "end"} /\ to \in {"ready", "raised", "end"} /\ UNCHANGED ev
        BY <1>1, <1>5
    <2> QED
        BY <1>5, <2>1, <2>2, <2>3, WorkerMove, ZenonT(60)
<1>7. \A v \in Workers : wpc'[v] \in {"run", "ready", "raised"} => wpc[v] \in {"run", "ready", "raised"}
    BY <1>5 DEF Quiet, Inv, ThreadsOK
<1>8. Responses'
    BY <1>1, <1>5, <1>7, ZenonT(60) DEF Quiet, Isolated, InOrder, Responses, Answering, Due, Begun
<1> QED
    BY <1>1, <1>6, <1>8, OwnFrame DEF Isolated, InOrder

\* http_send under wmutex: the response is due, and is the client's.
LEMMA WorkerSendOwn ==
    ASSUME Quiet, NEW w \in Workers, WorkerSend(w)
    PROVE  Isolated'
<1>1. wpc[w] \in {"ready", "raised"} /\ wpc[w] # "idle"
    BY DEF WorkerSend
<1>2. PICK x, f, c : WorkerHas(w, x, f, c)
    BY <1>1, WorkerHasOne
<1>3. /\ x = wr[w] /\ x \in Structs /\ f \in Fds /\ f # NoFd /\ f = rs[x].sock /\ c = fdt[f] /\ c # None /\ c \in Conns
      /\ pending[x] = 0 /\ (\A v \in Workers : v # w => wr[v] # x)
      /\ epc \in EventAt => cur # x
    BY <1>2 DEF WorkerHas
<1>4. UNCHANGED <<fdt, reg, pending, wr, wresp, epc, cur, batch>>
    BY ZenonT(60) DEF WorkerSend, kernel, event
<1>5. PICK id : id = wresp[w]
    OBVIOUS
<1>6. Answering(x, id)
    BY <1>1, <1>3, <1>5, ZenonT(60) DEF Quiet, Isolated, InOrder, Responses
<1>7. id = <<c, conn[c].sent>>
    BY <1>3, <1>6, ZenonT(60) DEF Answering
<1>8. Works(f)
    BY <1>3, ZenonT(60) DEF Works, Quiet, NoReset
<1>9. PICK whole \in BOOLEAN :
          /\ Written(f, id, whole)
          /\ whole => wpc' = [wpc EXCEPT ![w] = "end"] /\ UNCHANGED <<ev, rs>>
          /\ ~whole => /\ wpc' = [wpc EXCEPT ![w] = "set_out"] /\ MayEnter("set_out")
                       /\ ev' = [ev EXCEPT !.out = f] /\ rs' = [rs EXCEPT ![x].out = 1]
    <2>1. \/ Written(f, id, TRUE) /\ wpc' = [wpc EXCEPT ![w] = "end"] /\ UNCHANGED <<ev, rs>>
          \/ /\ Written(f, id, FALSE) /\ MayEnter("set_out") /\ ev' = [ev EXCEPT !.out = f]
             /\ rs' = [rs EXCEPT ![x].out = 1] /\ wpc' = [wpc EXCEPT ![w] = "set_out"]
        BY <1>3, <1>5, <1>8, ZenonT(60) DEF WorkerSend, At
    <2> QED
        BY <2>1, ZenonT(60)
<1>10. /\ ConnsOK' /\ LogsOK'
       /\ \A r \in Structs : rs'[r].sock = rs[r].sock
       /\ \A r \in Structs \ {x} : Same(r)
       /\ rs'[x].out # 1 \/ (rs'[x].sock # NoFd /\ Begun(fdt[rs[x].sock])')
    <2>1. whole => UNCHANGED rs
        BY <1>9
    <2>2. ~whole => rs' = [rs EXCEPT ![x].out = 1]
        BY <1>9
    <2>3. id = <<fdt[f], conn[fdt[f]].sent>>
        BY <1>3, <1>7, ZenonT(60)
    <2>4. Answering(x, <<fdt[f], conn[fdt[f]].sent>>) /\ Written(f, <<fdt[f], conn[fdt[f]].sent>>, whole)
        BY <1>6, <1>9, <2>3, ZenonT(60)
    <2>5. fdt[f] # None /\ UNCHANGED fdt
        BY <1>3, <1>4
    <2> QED
        BY <1>3, <2>1, <2>2, <2>4, <2>5, SentOwn, ZenonT(60)
<1>11. PICK to \in {"end", "set_out"} : /\ wpc' = [wpc EXCEPT ![w] = to] /\ (to = "end" => UNCHANGED ev)
                                        /\ to = "set_out" => ~InSetter("set_out") /\ ev' = [ev EXCEPT !.out = f]
    BY <1>9, ZenonT(60) DEF MayEnter, Quiet
<1>12. Exclusive' /\ PoolOK'
    <2>1. wpc[w] \in {"run", "ready", "raised", "end"}
        BY <1>1
    <2>2. \/ to \in {"ready", "raised", "end"} /\ UNCHANGED ev
          \/ to = "set_out" /\ ~InSetter("set_out") /\ ev' = [ev EXCEPT !.out = rs[wr[w]].sock]
        BY <1>3, <1>11
    <2>3. UNCHANGED <<fdt, reg, pending, wr, epc, cur, batch>> /\ UNCHANGED wresp
        BY <1>4
    <2> QED
        BY <1>10, <1>11, <2>1, <2>2, <2>3, WorkerMove, ZenonT(60)
<1>13. \A v \in Workers : wpc'[v] \in {"run", "ready", "raised"} =>
           wr[v] # x /\ wpc[v] \in {"run", "ready", "raised"}
    BY <1>3, <1>11, ZenonT(60) DEF Quiet, Inv, ThreadsOK
<1>14. Responses'
    BY <1>3, <1>4, <1>10, <1>13, ResponsesFrame DEF EventAt
<1> QED
    BY <1>10, <1>12, <1>14, ZenonT(60) DEF Isolated, InOrder

\* The end of a request in a worker: the structure and the descriptor it leaves
\* are those it held.
LEMMA WorkerEndOwn ==
    ASSUME Quiet, NEW w \in Workers, WorkerEnd(w) \/ WorkerSetIn(w) \/ WorkerSetOut(w)
    PROVE  Isolated'
<1>1. wpc[w] \in {"end", "set_in", "set_out"} /\ wpc[w] # "idle"
    BY DEF WorkerEnd, WorkerSetIn, WorkerSetOut, At
<1>2. PICK x, f, c : WorkerHas(w, x, f, c)
    BY <1>1, WorkerHasOne
<1>3. /\ x = wr[w] /\ x \in Structs /\ f \in Fds /\ f # NoFd /\ f = rs[x].sock /\ fdt[f] # None
      /\ pending[x] = 0 /\ (\A v \in Workers : v # w => wr[v] # x)
      /\ epc \in EventAt => cur # x
    BY <1>2, ZenonT(60) DEF WorkerHas
<1>4. UNCHANGED <<log, pending, epc, cur, batch>>
    BY ZenonT(60) DEF WorkerEnd, WorkerSetIn, WorkerSetOut, Finish, Pool!Finish, envVars, event
<1>5. (wpc[w] = "set_out" => ev.out = f) /\ (wpc[w] = "set_in" => ev.in = f)
    BY <1>3, ZenonT(60) DEF Quiet, Isolated, Exclusive, SettersAlone
<1>6. \/ /\ wpc[w] = "end" /\ UNCHANGED <<conn, fdt, reg, rs, wr, wresp>> /\ wpc' = [wpc EXCEPT ![w] = "set_in"]
         /\ ev' = [ev EXCEPT !.in = f] /\ MayEnter("set_in")
      \/ /\ wpc' = [wpc EXCEPT ![w] = "idle"] /\ wr' = [wr EXCEPT ![w] = None]
         /\ wresp' = [wresp EXCEPT ![w] = <<>>] /\ UNCHANGED ev
         /\ \/ CloseFds({f}) /\ Clear(x)
            \/ EpollMod(f, "in", f) /\ Clear(x) /\ UNCHANGED <<conn, fdt>>
            \/ EpollMod(f, "out", f) /\ UNCHANGED <<conn, fdt, rs>>
    BY <1>3, <1>5, ZenonT(60) DEF WorkerEnd, WorkerSetIn, WorkerSetOut, At, Finish, Pool!Finish, envVars, kernel
<1>7. CASE /\ wpc[w] = "end" /\ UNCHANGED <<conn, fdt, reg, rs, wr, wresp>> /\ wpc' = [wpc EXCEPT ![w] = "set_in"]
           /\ ev' = [ev EXCEPT !.in = f] /\ MayEnter("set_in")
    <2>1. ~InSetter("set_in") /\ ev' = [ev EXCEPT !.in = rs[wr[w]].sock]
        BY <1>3, <1>7 DEF MayEnter, Quiet
    <2>2. PICK to : to = "set_in"
        OBVIOUS
    <2>3. Exclusive' /\ PoolOK'
        <3>1. UNCHANGED <<fdt, reg, pending, wr, epc, cur, batch>> /\ UNCHANGED wresp
            BY <1>4, <1>7
        <3>2. \A r \in Structs : rs'[r].sock = rs[r].sock
            BY <1>7
        <3>3. wpc[w] \in {"run", "ready", "raised", "end"} /\ wpc' = [wpc EXCEPT ![w] = to]
            BY <1>7, <2>2
        <3> QED
            BY <2>1, <2>2, <3>1, <3>2, <3>3, WorkerMove, ZenonT(60)
    <2>4. \A v \in Workers : wpc'[v] \in {"run", "ready", "raised"} => wpc[v] \in {"run", "ready", "raised"}
        BY <1>7 DEF Quiet, Inv, ThreadsOK
    <2>5. Responses'
        BY <1>4, <1>7, <2>4, ZenonT(60) DEF Quiet, Isolated, InOrder, Responses, Answering, Due, Begun
    <2> QED
        BY <1>4, <1>7, <2>3, <2>5, OwnFrame DEF Isolated, InOrder
<1>8. CASE /\ wpc' = [wpc EXCEPT ![w] = "idle"] /\ wr' = [wr EXCEPT ![w] = None]
           /\ wresp' = [wresp EXCEPT ![w] = <<>>] /\ UNCHANGED ev
           /\ \/ CloseFds({f}) /\ Clear(x)
              \/ EpollMod(f, "in", f) /\ Clear(x) /\ UNCHANGED <<conn, fdt>>
              \/ EpollMod(f, "out", f) /\ UNCHANGED <<conn, fdt, rs>>
    <2>1. \A v \in Workers : wpc'[v] \in {"run", "ready", "raised"} =>
              wr[v] # x /\ wpc[v] \in {"run", "ready", "raised"} /\ wr'[v] = wr[v] /\ wresp'[v] = wresp[v]
        <3>1. \A v \in Workers : wpc'[v] = IF v = w THEN "idle" ELSE wpc[v]
            BY <1>8, ZenonT(60) DEF Quiet, Inv, ThreadsOK
        <3>2. \A v \in Workers : v # w => wr'[v] = wr[v] /\ wresp'[v] = wresp[v]
            BY <1>8, ZenonT(60) DEF Quiet, Inv, ThreadsOK, Isolated, PoolOK
        <3> QED
            BY <1>3, <3>1, <3>2, ZenonT(60)
    <2>2. \A r \in Structs : pending'[r] > 0 => r # x /\ pending[r] > 0
        BY <1>3, <1>4, ZeroIsLeast, ZenonT(60)
    <2>3. epc' \in {"static", "handler"} => epc \in {"static", "handler"} /\ cur' = cur /\ cur # x
        BY <1>3, <1>4, ZenonT(60) DEF EventAt
    <2>4. CASE EpollMod(f, "out", f) /\ UNCHANGED <<conn, fdt, rs>>
        <3>1. (\A g \in Fds \ {f} : reg'[g] = reg[g]) /\ reg'[f].data = f
            BY <1>3, <2>4, ZenonT(60) DEF EpollMod, IsOpen
        <3>2. /\ \A g \in Fds \ {rs[wr[w]].sock} : fdt'[g] = fdt[g] /\ reg'[g] = reg[g]
              /\ rs'[wr[w]].sock \in {rs[wr[w]].sock, NoFd} /\ fdt'[rs[wr[w]].sock] = fdt[rs[wr[w]].sock]
              /\ reg'[rs[wr[w]].sock].data = rs[wr[w]].sock
            BY <1>3, <2>4, <3>1, ZenonT(60)
        <3>3. Exclusive' /\ PoolOK'
            <4>1. \A r \in Structs \ {wr[w]} : rs'[r].sock = rs[r].sock
                BY <2>4
            <4>2. UNCHANGED <<pending, epc, cur, batch, ev>>
                BY <1>4, <1>8, ZenonT(60)
            <4> QED
                BY <1>1, <1>8, <3>2, <4>1, <4>2, WorkerLeaves, ZenonT(60)
        <3>4. Responses'
            <4>1. \A r \in Structs : Same(r)
                BY <1>4, <2>4, ZenonT(60) DEF Same
            <4>2. rs'[x].out # 1 \/ (rs'[x].sock # NoFd /\ Begun(fdt[rs[x].sock])')
                BY <1>3, <1>4, <2>4, ZenonT(60) DEF Quiet, Isolated, InOrder, Responses, Begun
            <4> QED
                BY <2>1, <2>2, <2>3, <4>1, <4>2, ResponsesFrame, ZenonT(60)
        <3> QED
            BY <1>4, <2>4, <3>3, <3>4, OwnFrame DEF Isolated, InOrder
    <2>5. CASE Clear(x) /\ (CloseFds({f}) \/ (EpollMod(f, "in", f) /\ UNCHANGED <<conn, fdt>>))
        <3>1. /\ ConnsOK' /\ LogsOK'
              /\ rs'[x].sock = NoFd /\ rs'[x].out # 1 /\ \A r \in Structs \ {x} : rs'[r].sock = rs[r].sock
              /\ \A g \in Fds \ {f} : fdt'[g] = fdt[g] /\ reg'[g] = reg[g]
              /\ fdt'[f] = None \/ (fdt'[f] = fdt[f] /\ reg'[f].data = f)
              /\ \A r \in Structs \ {x} : Same(r)
            <4>1. x \in Structs /\ f \in Fds /\ f = rs[x].sock /\ fdt[f] # None /\ UNCHANGED log
                BY <1>3, <1>4, ZenonT(60)
            <4> QED
                BY <2>5, <4>1, ClearedOwn, ZenonT(60)
        <3>2. /\ \A r \in Structs \ {wr[w]} : rs'[r].sock = rs[r].sock
              /\ \A g \in Fds \ {rs[wr[w]].sock} : fdt'[g] = fdt[g] /\ reg'[g] = reg[g]
              /\ \/ rs'[wr[w]].sock = NoFd /\ fdt'[rs[wr[w]].sock] = None
                 \/ /\ rs'[wr[w]].sock \in {rs[wr[w]].sock, NoFd} /\ fdt'[rs[wr[w]].sock] = fdt[rs[wr[w]].sock]
                    /\ reg'[rs[wr[w]].sock].data = rs[wr[w]].sock
            BY <1>3, <3>1, ZenonT(60)
        <3>3. Exclusive' /\ PoolOK'
            <4>1. UNCHANGED <<pending, epc, cur, batch, ev>>
                BY <1>4, <1>8
            <4> QED
                BY <1>1, <1>8, <3>2, <4>1, WorkerLeaves, ZenonT(60)
        <3>4. Responses'
            BY <2>1, <2>2, <2>3, <3>1, ResponsesFrame, ZenonT(60)
        <3> QED
            BY <3>1, <3>3, <3>4, ZenonT(60) DEF Isolated, InOrder
    <2> QED
        BY <1>8, <2>4, <2>5
<1> QED
    BY <1>6, <1>7, <1>8

\* The same for a worker.
LEMMA WorkerOwn ==
    ASSUME Quiet, NEW w \in Workers, WorkerNext(w)
    PROVE  Isolated'
BY WorkerTakeOwn, WorkerQuietOwn, WorkerSendOwn, WorkerEndOwn DEF WorkerNext
=============================================================================
