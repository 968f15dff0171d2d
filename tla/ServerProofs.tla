---------------------------- MODULE ServerProofs ----------------------------
(***************************************************************************)
(* Proofs about Server, for every number of descriptors, structures and    *)
(* threads and every choice of the environment (resets, overlaps of the    *)
(* epoll setters, partial reads and writes included, except where a theorem*)
(* assumes otherwise).                                                     *)
(***************************************************************************)
EXTENDS Server, EventSteps, FiniteSetTheorems, WellFoundedInduction

USE SMTT(60)    \* the SMT backend and its time limit, where a step names no other

-----------------------------------------------------------------------------
(* The searches of the list.                                               *)

\* A non-empty set of naturals has a least element: what a scan finds first.
LEMMA FirstIn ==
    ASSUME NEW T \in SUBSET Nat, T # {}
    PROVE  First(T) \in T
<1> DEFINE R == OpToRel(<, Nat)
<1>1. PICK x \in T : \A y \in T : ~(<<y, x>> \in R)
    BY NatLessThanWellFounded, WFMin, Zenon
<1>2. ASSUME NEW y \in T PROVE x <= y
    <2>1. x \in Nat /\ y \in Nat /\ ~(<<y, x>> \in R)
        BY <1>1, Zenon
    <2>2. y < x => <<y, x>> \in R
        BY <2>1, ZenonT(60) DEF OpToRel
    <2> HIDE DEF R
    <2> QED
        BY <2>1, <2>2
<1> QED
    BY <1>2, Zenon DEF First

\* The interval of the descriptors and of the structures is finite.
LEMMA UpTo ==
    ASSUME NEW n \in Nat
    PROVE  IsFiniteSet(1..n) /\ Cardinality(1..n) = n
BY FS_Interval

\* When event_fetch_request finds nothing, every structure is at work on a
\* descriptor of its own other than f: there are fewer than NFds.
LEMMA FindNothing ==
    ASSUME StructsOK, ListOK, OneStructPerSocket, NEW f \in Fds, FindRequest(f) = {}
    PROVE  Len(vec) < NFds
<1> DEFINE g == [i \in 1..Len(vec) |-> rs[vec[i]].sock]
<1>1. DOMAIN vec = 1..Len(vec) /\ Len(vec) \in Nat /\ \A i \in 1..Len(vec) : vec[i] \in Structs
    BY DEF ListOK
<1>2. \A i \in 1..Len(vec) : rs[vec[i]].sock \in Fds \ {f}
    BY <1>1, ZenonT(60) DEF FindRequest, Bound, StructsOK
<1>3. \A i, j \in 1..Len(vec) : rs[vec[i]].sock = rs[vec[j]].sock => i = j
    BY <1>1, <1>2 DEF OneStructPerSocket, NoFd, Fds
<1>4. g \in Injection(1..Len(vec), Fds \ {f})
    BY <1>2, <1>3, ZenonT(60) DEF Injection, IsInjective
<1>5. NFds \in Nat
    BY ServerAssumption, ZenonT(60)
<1>6. IsFiniteSet(Fds) /\ Cardinality(Fds) = NFds
    BY <1>5, UpTo, ZenonT(60) DEF Fds
<1>7. IsFiniteSet(Fds \ {f}) /\ Cardinality(Fds \ {f}) = NFds - 1
    BY <1>6, FS_RemoveElement, ZenonT(60)
<1>8. Cardinality(1..Len(vec)) <= Cardinality(Fds \ {f})
    BY <1>4, <1>7, FS_Injection, ZenonT(60)
<1>9. Cardinality(1..Len(vec)) = Len(vec)
    BY <1>1, UpTo, ZenonT(60)
<1> QED
    BY <1>1, <1>5, <1>7, <1>8, <1>9

\* Then there is memory for one more, and it is not linked yet.
LEMMA NewStructFresh ==
    ASSUME ListOK, Len(vec) < NFds
    PROVE  NewStruct \in Structs /\ \A i \in DOMAIN vec : vec[i] # NewStruct
<1> DEFINE U == {r \in Structs : \A i \in DOMAIN vec : vec[i] # r}
           at == [r \in Structs |-> CHOOSE i \in 1..Len(vec) : vec[i] = r]
<1>1. DOMAIN vec = 1..Len(vec) /\ Len(vec) \in Nat
    BY DEF ListOK
<1>2. Prealloc \in Nat /\ NFds \in Nat /\ Structs = 1..(Prealloc + NFds)
    BY ServerAssumption DEF Structs
<1>3. ASSUME U = {} PROVE FALSE
    <2>1. \A r \in Structs : \E i \in 1..Len(vec) : vec[i] = r
        BY <1>1, <1>3, ZenonT(60)
    <2>2. \A r \in Structs : at[r] \in 1..Len(vec) /\ vec[at[r]] = r
        BY <2>1, ZenonT(60)
    <2>3. at \in Injection(Structs, 1..Len(vec))
        BY <2>2, ZenonT(60) DEF Injection, IsInjective
    <2> HIDE DEF at, U
    <2>4. IsFiniteSet(1..Len(vec)) /\ Cardinality(1..Len(vec)) = Len(vec)
        BY <1>1, UpTo, ZenonT(60)
    <2>5. Cardinality(Structs) <= Len(vec)
        BY <2>3, <2>4, FS_Injection
    <2>6. Cardinality(Structs) = Prealloc + NFds
        BY <1>2, UpTo
    <2> QED
        BY <1>1, <1>2, <2>5, <2>6
<1>4. U \in SUBSET Nat
    BY <1>2
<1>5. First(U) \in U
    BY <1>3, <1>4, FirstIn, Zenon
<1> QED
    BY <1>5 DEF NewStruct

\* event_fetch_request allocates only where there is room.
LEMMA ListHasRoom ==
    ASSUME Inv
    PROVE  HasRoom
BY FindNothing, NewStructFresh, ZenonT(60) DEF Inv, HasRoom

-----------------------------------------------------------------------------
(* The structures, the list and the descriptors.                           *)

coreVars == <<rs, vec, fdt, reg, ev, epc, cur, batch, wpc, wr, wmutex>>

LEMMA ClientStep ==
    ASSUME Inv, UNCHANGED coreVars
    PROVE  Inv'
BY Frame, ZenonT(60) DEF coreVars, Inv

LEMMA InitInv == Init => Inv
<1> SUFFICES ASSUME Init PROVE Inv
    OBVIOUS
<1>1. Prealloc \in Nat /\ NFds \in Nat
    BY ServerAssumption, ZenonT(60)
<1>2. vec \in Seq(Structs) /\ Len(vec) = Prealloc /\ DOMAIN vec = 1..Prealloc /\ \A i \in DOMAIN vec : vec[i] = i
    BY <1>1 DEF Init, Structs
<1>3. StructsOK /\ KernelOK /\ SetterOK /\ ThreadsOK
    BY DEF Init, StructsOK, KernelOK, SetterOK, InSetter, ThreadsOK, Idle, NoReg, Pool!Init
<1>4. ListOK /\ ListBounded
    BY <1>1, <1>2 DEF ListOK, ListBounded
<1>5. OneStructPerSocket
    BY <1>1, <1>2 DEF Init, Idle, OneStructPerSocket, Structs
<1> QED
    BY <1>3, <1>4, <1>5, ZenonT(60) DEF Inv

LEMMA NextInv ==
    ASSUME Inv, [Next]_vars
    PROVE  Inv'
<1>1. CASE ClientNext
    <2>1. UNCHANGED coreVars
        BY <1>1, Zenon DEF ClientNext, Connect, SendPart, HalfClose, Reset, SendRequest, Tick, ClientOnly,
                    coreVars, kernel, event, work
    <2> QED
        BY <2>1, ClientStep, ZenonT(60)
<1>2. CASE EventNext
    BY <1>2, FirstIn, ListHasRoom, EventInv, ZenonT(60) DEF ScansStop
<1>3. CASE \E w \in Workers : WorkerNext(w)
    BY <1>3, WorkerInv, ZenonT(60)
<1>4. CASE UNCHANGED vars
    BY <1>4, ClientStep, ZenonT(60) DEF vars, coreVars
<1> QED
    BY <1>1, <1>2, <1>3, <1>4, ZenonT(60) DEF Next

\* The invariant holds of every behaviour, fair or not.
THEOREM ServerInv == Spec => []Inv
<1>1. Inv /\ [Next]_vars => Inv'
    BY NextInv, ZenonT(60)
<1> QED
    BY InitInv, <1>1, PTL DEF Spec

\* Type correctness of the server core: descriptors, registrations, list,
\* sockets of the structures and the holder of wmutex.
THEOREM ServerTypeOK == Spec => []TypeOK
<1>1. Inv => TypeOK
    BY DEF Inv, KernelOK, ListOK, StructsOK, ThreadsOK, TypeOK
<1> QED
    BY ServerInv, <1>1, PTL

\* However clients reset connections and threads interleave, no two request
\* structures work on one socket: the searches by socket are unambiguous.
THEOREM ServerOneStruct == Spec => []OneStructPerSocket
<1>1. Inv => OneStructPerSocket
    BY ZenonT(60) DEF Inv
<1> QED
    BY ServerInv, <1>1, PTL

\* The list of structures never outgrows both the preallocated structures
\* and the descriptors the process may open.
THEOREM ServerListBounded == Spec => []ListBounded
<1>1. Inv => ListBounded
    BY DEF Inv
<1> QED
    BY ServerInv, <1>1, PTL

-----------------------------------------------------------------------------
(* Nobody is forgotten.                                                    *)

LEMMA WatchedNext ==
    ASSUME ScansStop, Inv, Inv', Watched, [Next]_vars
    PROVE  Watched'
<1>1. CASE ClientNext \/ UNCHANGED vars
    <2>1. UNCHANGED <<vec, rs, fdt, reg>>
        BY <1>1, Zenon DEF ClientNext, Connect, SendPart, HalfClose, Reset, SendRequest, Tick, ClientOnly, kernel, vars
    <2> QED
        BY <2>1, WatchedFrame, ZenonT(60)
<1> QED
    BY <1>1, WatchedEvent, WatchedWorker, ZenonT(60) DEF Next

\* However clients reset connections, threads interleave and the setters of the
\* masks overlap: a socket whose read events are off has a structure in the list
\* that will turn them on again or close it (set_epollin_event_mask,
\* disable_events_for_socket, end_request).
THEOREM ServerNobodyForgotten == Spec => []NobodyForgotten
<1>1. Init => Watched
    BY DEF Init, Idle, NoReg, Watched, Kept, NobodyForgotten, IsOpen
<1>2. Inv /\ Inv' /\ Watched /\ [Next]_vars => Watched'
    BY FirstIn, WatchedNext, ZenonT(60) DEF ScansStop
<1>3. Watched => NobodyForgotten
    BY ZenonT(60) DEF Watched
<1> QED
    BY <1>1, <1>2, <1>3, ServerInv, PTL DEF Spec

-----------------------------------------------------------------------------
(* Who works on a connection and what its client is sent.                  *)

LEMMA ShapesHold ==
    ASSUME Inv, Watched, PoolOK
    PROVE  Shapes
<1>1. NoFd \notin Fds /\ None \notin Structs /\ None \notin Conns
    BY ServerAssumption DEF NoFd, Fds, Structs
<1>2. \A q, r \in Structs : rs[q].sock = rs[r].sock => q = r \/ rs[q].sock = NoFd
    BY DEF Watched, Kept, Inv, OneStructPerSocket
<1>3. \A w \in Workers : wr[w] \in Structs \cup {None}
    BY DEF PoolOK, Inv, ThreadsOK
<1> QED
    BY <1>1, <1>2, <1>3, ZenonT(60) DEF Shapes, Inv, StructsOK, KernelOK, ThreadsOK, EventAt

RstKept == \A c \in Conns : Reset(c) \/ conn'[c].rst = conn[c].rst

LEMMA ConnStep ==
    ASSUME ConnTyped, [Next]_vars
    PROVE  ConnTyped' /\ RstKept
<1>1. CASE UNCHANGED conn
    BY <1>1, ZenonT(60) DEF ConnTyped, RstKept
<1>2. ASSUME NEW S, CloseFds(S) PROVE ConnTyped' /\ RstKept
    BY <1>2, ZenonT(60) DEF CloseFds, NoConn, ConnTyped, RstKept
<1>3. ASSUME NEW f, NEW id, NEW whole, Written(f, id, whole)
      PROVE  ConnTyped' /\ RstKept
    BY <1>3, ZenonT(60) DEF Written, ConnTyped, RstKept
<1>4. CASE ClientNext
    <2>1. ASSUME NEW c \in Conns, Connect(c) \/ SendPart(c) \/ HalfClose(c) PROVE ConnTyped' /\ RstKept
        <3>1. CASE Connect(c)
            BY <3>1, ZenonT(60) DEF Connect, ConnTyped, RstKept
        <3>2. CASE SendPart(c)
            BY <3>2, ZenonT(60) DEF SendPart, ConnTyped, RstKept
        <3>3. CASE HalfClose(c)
            BY <3>3, ZenonT(60) DEF HalfClose, ConnTyped, RstKept
        <3> QED
            BY <2>1, <3>1, <3>2, <3>3, ZenonT(60)
    <2>2. ASSUME NEW c \in Conns, Reset(c) PROVE ConnTyped' /\ RstKept
        <3>1. ConnTyped' /\ \A d \in Conns \ {c} : conn'[d].rst = conn[d].rst
            BY <2>2, ZenonT(60) DEF Reset, ConnTyped
        <3> QED
            BY <2>2, <3>1, ZenonT(60) DEF RstKept
    <2>3. ASSUME NEW c \in Conns, NEW k \in Kinds, SendRequest(c, k) PROVE ConnTyped' /\ RstKept
        BY <2>3, ZenonT(60) DEF SendRequest, ConnTyped, RstKept
    <2> QED
        BY <1>1, <1>4, <2>1, <2>2, <2>3, ZenonT(60) DEF ClientNext, Tick, envVars
<1>5. CASE \E c \in Conns : Accept(c)
    BY <1>5 DEF Accept, ConnTyped, RstKept
<1>6. CASE ServeMore
    BY <1>6, Zenon DEF ServeMore, ConnTyped, RstKept
<1>7. CASE ServeParse
    BY <1>7, ZenonT(60) DEF ServeParse, ConnTyped, RstKept
<1>8. CASE \E e \in batch : DispatchOut(e)
    BY <1>1, <1>8 DEF DispatchOut, ConnTyped, RstKept
<1>9. CASE EventIter \/ EventEnd \/ HupCleanup \/ RespondStatic
    BY <1>1, <1>2, <1>3, <1>9, ZenonT(60) DEF EventIter, EventEnd, HupCleanup, RespondStatic
<1>10. CASE FreeStep \/ EpollWait \/ BatchDone \/ AcceptEnd \/ ServeGone \/ RespondHandler \/ EventSetOut \/ EventSetIn
    BY <1>1, <1>10, ZenonT(60) DEF FreeStep, EpollWait, BatchDone, AcceptEnd, ServeGone, RespondHandler, EventSetOut, EventSetIn, envVars
<1>11. CASE \E e \in batch : DispatchListen(e) \/ DispatchIn(e) \/ DispatchHup(e)
    BY <1>1, <1>11, ZenonT(60) DEF DispatchListen, DispatchIn, DispatchHup, envVars
<1>12. CASE \E w \in Workers : WorkerSend(w) \/ WorkerEnd(w)
    BY <1>1, <1>2, <1>3, <1>12, ZenonT(60) DEF WorkerSend, WorkerEnd, envVars
<1>13. CASE \E w \in Workers : \/ \E r \in Structs : WorkerTake(w, r)
                               \/ WorkerReturn(w) \/ WorkerRaise(w) \/ WorkerDrop(w) \/ WorkerSetIn(w) \/ WorkerSetOut(w)
    BY <1>1, <1>13, ZenonT(60) DEF WorkerTake, WorkerReturn, WorkerRaise, WorkerDrop, WorkerSetIn, WorkerSetOut, envVars
<1>14. CASE EventNext
    BY <1>5, <1>6, <1>7, <1>8, <1>9, <1>10, <1>11, <1>14, ZenonT(60) DEF EventNext
<1>15. CASE \E w \in Workers : WorkerNext(w)
    BY <1>12, <1>13, <1>15, ZenonT(60) DEF WorkerNext
<1> QED
    BY <1>1, <1>4, <1>14, <1>15, ZenonT(60) DEF Next, vars

LEMMA ClientOwn ==
    ASSUME Quiet, NoReset', ClientNext
    PROVE  Isolated'
<1>1. UNCHANGED <<fdt, reg, ev, vec, rs, pending, epc, cur, batch, wpc, wr, wresp, log>>
    BY ZenonT(60) DEF ClientNext, Connect, SendPart, HalfClose, Reset, SendRequest, Tick, ClientOnly, envVars, kernel, event, work
<1>2. Exclusive' /\ PoolOK'
    BY <1>1, OwnFrame, ZenonT(60)
<1> DEFINE
        \* what the client of c did: connect, send a part, send the rest, stop sending
        Acted(c) ==
            /\ \A d \in Conns \ {c} : conn'[d] = conn[d]
            /\ \/ /\ conn[c].st = "none" /\ conn'[c].st = "backlog"
                  /\ conn'[c].phase = conn[c].phase /\ conn'[c].inb = conn[c].inb /\ conn'[c].sent = conn[c].sent
               \/ /\ conn'[c].st = conn[c].st /\ conn[c].phase # "wait" /\ conn'[c].phase = "part"
                  /\ conn'[c].inb = conn[c].inb /\ conn'[c].sent = conn[c].sent
               \/ /\ conn'[c].st = conn[c].st /\ conn[c].st # "closed"
                  /\ conn[c].phase # "wait" /\ conn'[c].phase = "wait"
                  /\ conn'[c].sent = conn[c].sent + 1 /\ conn'[c].inb # <<>>
                  /\ Head(conn'[c].inb).id = <<c, conn[c].sent + 1>>
               \/ /\ conn'[c].st = conn[c].st /\ conn'[c].phase = conn[c].phase
                  /\ conn'[c].inb = conn[c].inb /\ conn'[c].sent = conn[c].sent
<1>3. UNCHANGED conn \/ \E c \in Conns : Acted(c)
    <2>1. ASSUME NEW c \in Conns, Connect(c) \/ SendPart(c) \/ HalfClose(c) PROVE Acted(c)
        BY <2>1, ZenonT(60) DEF Connect, SendPart, HalfClose, Sends, Quiet, ConnTyped
    <2>2. ASSUME NEW c \in Conns, NEW k \in Kinds, SendRequest(c, k) PROVE Acted(c)
        <3>1. PICK m : m.id = <<c, conn[c].sent + 1>> /\ conn' = [conn EXCEPT ![c].phase = "wait", ![c].half = FALSE,
                            ![c].sent = @ + 1, ![c].inb = <<m>>]
            <4>1. [kind |-> k.kind, ka |-> k.ka, id |-> <<c, conn[c].sent + 1>>].id = <<c, conn[c].sent + 1>>
                OBVIOUS
            <4> QED
                BY <2>2, <4>1, ZenonT(60) DEF SendRequest
        <3>2. Head(<<m>>) = m /\ <<m>> # <<>>
            OBVIOUS
        <3> QED
            BY <2>2, <3>1, <3>2 DEF SendRequest, Sends, Quiet, ConnTyped
    <2>3. ASSUME NEW c \in Conns, Reset(c) PROVE FALSE
        BY <2>3 DEF Reset, NoReset, Quiet, ConnTyped
    <2>4. CASE Tick
        BY <2>4 DEF Tick, envVars
    <2> QED
        BY <2>1, <2>2, <2>3, <2>4, ZenonT(60) DEF ClientNext
<1>4. CASE UNCHANGED conn
    BY <1>1, <1>2, <1>4, OwnFrame, ZenonT(60) DEF Isolated, InOrder
<1>5. ASSUME NEW c \in Conns, Acted(c) PROVE Isolated'
    <2>1. ConnsOK'
        BY <1>1, <1>5 DEF Quiet, Isolated, ConnsOK, Shapes
    <2>2. LogsOK'
        <3>1. ASSUME NEW d \in Conns
              PROVE  /\ InTurn(log'[d], d)
                     /\ conn'[d].st # "closed" =>
                            /\ conn'[d].phase # "wait" => conn'[d].inb = <<>> /\ conn'[d].sent = Len(log'[d])
                            /\ conn'[d].inb # <<>> => /\ conn'[d].sent = Len(log'[d]) + 1
                                                    /\ Head(conn'[d].inb).id = <<d, conn'[d].sent>>
            <4>1. CASE d # c
                BY <1>1, <1>5, <4>1, ZenonT(60) DEF Quiet, Isolated, InOrder, LogsOK
            <4>2. CASE d = c
                BY <1>1, <1>5, <4>2, ZenonT(60) DEF Quiet, Isolated, InOrder, LogsOK
            <4> QED
                BY <4>1, <4>2, ZenonT(60)
        <3> QED
            BY <1>1, <3>1, Zenon DEF LogsOK, InTurn, Quiet, Isolated, InOrder
    <2>3. Responses'
        <3>1. PICK x \in Structs \cup {None} :
                  /\ \A r \in Structs : rs[r].sock # NoFd /\ fdt[rs[r].sock] = c => r = x
                  /\ x \in Structs => rs[x].sock # NoFd /\ fdt[rs[x].sock] = c
            <4>1. CASE \E r \in Structs : rs[r].sock # NoFd /\ fdt[rs[r].sock] = c
                BY <4>1 DEF Quiet, Shapes, Isolated, ConnsOK
            <4>2. CASE ~\E r \in Structs : rs[r].sock # NoFd /\ fdt[rs[r].sock] = c
                BY <4>2, ZenonT(60) DEF Quiet, Shapes
            <4> QED
                BY <4>1, <4>2, ZenonT(60)
        <3>2. /\ \A r \in Structs : rs'[r] = rs[r]
              /\ \A f \in Fds : fdt'[f] = fdt[f]
              /\ \A d \in Conns \ {c} : conn'[d] = conn[d]
              /\ log' = log
            BY <1>1, <1>5, ZenonT(60)
        <3>3. CASE conn'[c].phase = conn[c].phase /\ conn'[c].inb = conn[c].inb /\ conn'[c].sent = conn[c].sent
            <4>1. \A r \in Structs : Same(r)
                BY <3>2, <3>3, ZenonT(60) DEF Same, Quiet, Shapes, Isolated, Exclusive, SocksOpen
            <4> QED
                BY <1>1, <4>1, ResponsesAll, ZenonT(60)
        <3>4. CASE conn[c].phase # "wait"
            <4>1. \A r \in Structs \ {x} : Same(r)
                BY <3>1, <3>2, ZenonT(60) DEF Same, Quiet, Shapes, Isolated, Exclusive, SocksOpen
            <4>2. /\ x \in Structs => rs[x].out # 1 /\ ~(pending[x] > 0)
                  /\ \A w \in Workers : wpc[w] \in {"run", "ready", "raised"} => wr[w] # x
                  /\ epc \in {"static", "handler"} => cur # x
                <5>1. x \in Structs => ~Begun(fdt[rs[x].sock]) /\ \A id : ~Answering(x, id)
                    BY <3>1, <3>4, ZenonT(60) DEF Begun, Answering, Due
                <5>2. \A w \in Workers : wpc[w] \in {"run", "ready", "raised"} => wr[w] \in Structs
                    BY DEF Quiet, Inv, ThreadsOK
                <5> QED
                    BY <5>1, <5>2 DEF Quiet, Isolated, InOrder, Responses, EventAt, Shapes
            <4> QED
                BY <1>1, <3>2, <4>1, <4>2, ResponsesFrame, ZenonT(60)
        <3> QED
            BY <1>5, <3>3, <3>4, ZenonT(60)
    <2> QED
        BY <1>2, <2>1, <2>2, <2>3, ZenonT(60) DEF Isolated, InOrder
<1> QED
    BY <1>3, <1>4, <1>5, ZenonT(60)

LEMMA IsolatedNext ==
    ASSUME ScansStop, Quiet, Inv', NoReset', [Next]_vars
    PROVE  Isolated'
<1>1. CASE UNCHANGED vars
    <2>1. UNCHANGED <<conn, log, fdt, reg, ev, rs, pending, wpc, wr, wresp, epc, cur, batch>>
        BY <1>1, ZenonT(60) DEF vars, envVars, kernel, event, work
    <2>2. Responses'
        BY <2>1, ZenonT(60) DEF Quiet, Isolated, InOrder, Responses, Answering, Due, Begun
    <2> QED
        BY <2>1, <2>2, OwnFrame, ZenonT(60) DEF Isolated, InOrder
<1>2. CASE ClientNext
    BY <1>2, ClientOwn, ZenonT(60)
<1>3. CASE EventNext
    BY <1>3, EventOwn, ZenonT(60)
<1>4. CASE \E w \in Workers : WorkerNext(w)
    BY <1>4, WorkerOwn, ZenonT(60)
<1> QED
    BY <1>1, <1>2, <1>3, <1>4, ZenonT(60) DEF Next

LEMMA IsolatedInit == ASSUME Init PROVE ConnTyped /\ Watched /\ Isolated
<1>1. ConnTyped /\ Watched
    BY ZenonT(60) DEF Init, NoConn, ConnTyped, Idle, NoReg, Watched, Kept, NobodyForgotten, IsOpen
<1>2. ConnsOK /\ PoolOK /\ Exclusive
    <2>1. /\ epc = "iter" /\ batch = {} /\ pending = [r \in Structs |-> 0]
          /\ \A f \in Fds : fdt[f] = None
          /\ \A r \in Structs : rs[r].sock = NoFd
          /\ \A w \in Workers : wpc[w] = "idle" /\ wr[w] = None
          /\ wresp = [w \in Workers |-> <<>>]
        BY ZenonT(60) DEF Init, Pool!Init, Idle, Structs
    <2>2. \A c \in Conns : conn[c].sent = 0 /\ conn[c].phase = "idle"
        BY ZenonT(60) DEF Init, NoConn
    <2>3. ConnsOK /\ PoolOK
        BY <2>1, <2>2 DEF ConnsOK, PoolOK
    <2> QED
        BY <2>1, <2>3 DEF Exclusive, SocksOpen, HeldOnce, EventAlone, EventsFresh, SettersAlone, EventAt
<1>3. \A c \in Conns : log[c] = <<>> /\ conn[c].inb = <<>> /\ conn[c].sent = 0
    BY ZenonT(60) DEF Init, NoConn
<1>4. LogsOK
    BY <1>3 DEF Init, LogsOK, InTurn
<1>5. Responses
    <2>1. /\ epc = "iter" /\ pending = [r \in Structs |-> 0]
          /\ \A r \in Structs : rs[r].out = 0
          /\ \A w \in Workers : wpc[w] = "idle"
        BY ZenonT(60) DEF Init, Pool!Init, Idle, Structs
    <2> QED
        BY <2>1 DEF Responses
<1> QED
    BY <1>1, <1>2, <1>4, <1>5, ZenonT(60) DEF Isolated, InOrder

LEMMA GuardedNext ==
    ASSUME ~MasksOverlap, ScansStop, Inv, Inv', Guarded, [Next]_vars
    PROVE  Guarded'
<1>1. Watched' /\ ConnTyped'
    BY WatchedNext, ConnStep, ZenonT(60) DEF Guarded
<1>2. NoReset' => NoReset
    <2>1. ASSUME NEW c \in Conns, Reset(c) PROVE ~conn[c].rst
        BY <2>1, ZenonT(60) DEF Reset
    <2> QED
        BY <2>1, ConnStep, ZenonT(60) DEF NoReset, RstKept, Guarded
<1>3. NoReset' => Isolated'
    <2>1. SUFFICES ASSUME NoReset' PROVE Isolated'
        OBVIOUS
    <2>2. Quiet
        BY <1>2, <2>1, ShapesHold, ZenonT(60) DEF Quiet, Isolated, Guarded
    <2> QED
        BY <2>1, <2>2, IsolatedNext, ZenonT(60)
<1> QED
    BY <1>1, <1>3, ZenonT(60) DEF Guarded

\* Isolation holds of every behaviour whose setters do not overlap.
LEMMA GuardedAlways ==
    ASSUME ~MasksOverlap
    PROVE  Spec => [](Inv /\ Guarded)
<1>1. Init => Guarded
    BY IsolatedInit, ZenonT(60) DEF Guarded
<1>2. ScansStop
    BY FirstIn, ZenonT(60) DEF ScansStop
<1>3. Inv /\ Inv' /\ Guarded /\ [Next]_vars => Guarded'
    BY <1>2, GuardedNext, ZenonT(60)
<1> QED
    BY <1>1, <1>3, ServerInv, PTL DEF Spec

\* HeldExclusively: as long as no client has reset its connection, a request
\* structure given to the workers by http_response is with one of them at most,
\* is not freed by event_iter and keeps its socket.  The setters of the epoll
\* masks must not overlap: their static epoll_event is not protected.
THEOREM ServerHeldExclusively ==
    ASSUME ~MasksOverlap
    PROVE  Spec => []HeldExclusively
<1>1. Inv /\ Guarded => HeldExclusively
    <2>1. SUFFICES ASSUME Inv, Watched, NoReset, Isolated, NEW r \in Structs
                   PROVE  /\ pending[r] + Cardinality({w \in Workers : wr[w] = r}) <= 1
                          /\ r \in Held => (\E i \in DOMAIN vec : vec[i] = r) /\ rs[r].sock # NoFd
        BY ZenonT(60) DEF HeldExclusively, NoReset, Guarded
    <2>2. r # None
        BY <2>1, ShapesHold, ZenonT(60) DEF Isolated, Shapes
    <2>3. r \in Held => rs[r].sock # NoFd
        BY <2>1 DEF Held, Isolated, Exclusive, HeldOnce
    <2>4. r \in Held => \E i \in DOMAIN vec : vec[i] = r
        BY <2>1, <2>3, ZenonT(60) DEF Watched, Kept
    <2>5. pending[r] \in Nat
        BY <2>1, ZenonT(60) DEF Isolated, PoolOK
    <2>6. CASE \A w \in Workers : wr[w] # r
        <3>1. {w \in Workers : wr[w] = r} = {}
            BY <2>6, ZenonT(60)
        <3>2. Cardinality({w \in Workers : wr[w] = r}) = 0
            BY <3>1, FS_EmptySet, ZenonT(60)
        <3>3. pending[r] <= 1
            BY <2>1, <2>5 DEF Isolated, Exclusive, HeldOnce
        <3> QED
            BY <2>3, <2>4, <2>5, <3>2, <3>3
    <2>7. CASE \E w \in Workers : wr[w] = r
        <3>1. PICK w \in Workers : wr[w] = r
            BY <2>7, ZenonT(60)
        <3>2. {v \in Workers : wr[v] = r} = {w}
            BY <2>1, <2>2, <3>1, ZenonT(60) DEF Isolated, Exclusive, HeldOnce
        <3>3. Cardinality({v \in Workers : wr[v] = r}) = 1
            BY <3>2, FS_Singleton, ZenonT(60)
        <3>4. pending[r] = 0
            BY <2>1, <2>5, <3>1 DEF Isolated, Exclusive, HeldOnce
        <3> QED
            BY <2>3, <2>4, <3>3, <3>4
    <2> QED
        BY <2>6, <2>7, ZenonT(60)
<1> QED
    BY <1>1, GuardedAlways, PTL

\* OwnResponses while no client has reset its connection, whatever the workers,
\* the timeouts, the partial writes and the reuse of descriptors: what
\* http_send writes to a connection are the responses to that client's requests,
\* in the order of the requests, once each.
THEOREM ServerOwnResponses ==
    ASSUME ~MasksOverlap
    PROVE  Spec => [](NoReset => OwnResponses)
<1>1. Guarded => (NoReset => OwnResponses)
    BY DEF Guarded, Isolated, InOrder, LogsOK, InTurn, OwnResponses
<1> QED
    BY <1>1, GuardedAlways, PTL

\* Where clients do not reset their connections at all, always.
THEOREM ServerOwnResponsesAlways ==
    ASSUME ~MasksOverlap, MaxResets = 0
    PROVE  Spec => []OwnResponses
<1>1. Init => ConnTyped /\ NoReset
    <2>1. SUFFICES ASSUME Init PROVE ConnTyped /\ NoReset
        OBVIOUS
    <2>2. NoReset
        BY <2>1, ZenonT(60) DEF Init, NoConn, NoReset
    <2> QED
        BY <2>1, <2>2, IsolatedInit, ZenonT(60)
<1>2. ConnTyped /\ NoReset /\ [Next]_vars => (ConnTyped /\ NoReset)'
    <2>1. SUFFICES ASSUME ConnTyped, NoReset, [Next]_vars PROVE NoReset'
        BY ConnStep, ZenonT(60)
    <2>2. {d \in Conns : conn[d].rst} = {}
        BY <2>1, ZenonT(60) DEF NoReset
    <2>3. Cardinality({d \in Conns : conn[d].rst}) = 0
        BY <2>2, FS_EmptySet, ZenonT(60)
    <2>4. \A c \in Conns : ~Reset(c)
        BY <2>3 DEF Reset
    <2> QED
        BY <2>1, <2>4, ConnStep, ZenonT(60) DEF NoReset, RstKept
<1> QED
    BY <1>1, <1>2, ServerOwnResponses, PTL DEF Spec

=============================================================================
