----------------------------- MODULE SelectLoop -----------------------------
(***************************************************************************)
(* The event loop for systems that have select but neither epoll nor       *)
(* kqueue: a list of sockets with a mask each, edited by the event thread  *)
(* and by the workers.  Each operation on the list is one step here (the   *)
(* lock is only tried, and an operation goes on without it; overlaps of    *)
(* two operations are left out).  A worker's close of a socket and its     *)
(* removal from the list are two steps, as in http_cleanup.                *)
(***************************************************************************)
EXTENDS Integers, Sequences, FiniteSets, FiniteSetsExt

CONSTANTS
    SelFds,         \* descriptors the kernel hands out, the smallest first
    SelMax,         \* SELECT_MAX_CONNECTIONS
    SelWorkers,
    SelConns        \* bound on connections, for TLC

\* Descriptors are numbered from 1, 0 being none.
ASSUME SelAssumption ==
    /\ IsFiniteSet(SelFds) /\ SelFds = 1..Cardinality(SelFds)
    /\ IsFiniteSet(SelWorkers) /\ SelMax \in Nat

VARIABLES
    socklist,       \* socklist and sockmask: a sequence of [fd, mask]
    maxfd_plus_one,
    sock,           \* the kernel's view: "closed", "quiet", "data", or "out" (blocked write)
    spc,            \* "scan", "select", "accept" or "dispatch"
    fdsets,         \* rfds, wfds and exfds
    si,             \* the index of the dispatch loop
    swork,          \* what each worker does: [pc, fd]; fd = 0 once r->sock is -1
    backlog, arrived,
    sreused         \* history: descriptors reopened between a worker's close and removal, or not listed

selVars == <<socklist, maxfd_plus_one, sock, spc, fdsets, si, swork, backlog, arrived, sreused>>

NoSets == [r |-> {}, w |-> {}, x |-> {}]
SelInit ==
    /\ socklist = <<>> /\ maxfd_plus_one = 1
    /\ sock = [f \in SelFds |-> "closed"]
    /\ spc = "scan" /\ fdsets = NoSets /\ si = 1
    /\ swork = [w \in SelWorkers |-> [pc |-> "idle", fd |-> 0]]
    /\ backlog = 0 /\ arrived = 0 /\ sreused = {}

ListedFds(l) == {l[i].fd : i \in 1..Len(l)}
recalc_maxfd_plus_one(l) == 1 + Max({0} \cup ListedFds(l))

RemoveIndex(l, i) ==                  \* the last entry takes the place of entry i
    LET n == Len(l) IN SubSeq(IF i < n THEN [l EXCEPT ![i] = l[n]] ELSE l, 1, n - 1)
PlacesOf(l, fd) == {i \in 1..Len(l) : l[i].fd = fd}
_add(l, fd) == IF Len(l) >= SelMax THEN l ELSE Append(l, [fd |-> fd, mask |-> "read"])
DelFrom(l, fd) == IF PlacesOf(l, fd) = {} THEN l ELSE RemoveIndex(l, Min(PlacesOf(l, fd)))
set_select_event_mask(l, fd, m) == IF PlacesOf(l, fd) = {} THEN l ELSE [l EXCEPT ![Min(PlacesOf(l, fd))].mask = m]

PurgedOnce(l, closed) ==              \* mutant: the entry moved into the gap is not looked at
    LET at == {i \in 1..Len(l) : l[i].fd \in closed} IN IF at = {} THEN l ELSE RemoveIndex(l, Min(at))
\* The loop that drops closed descriptors: after k rounds, the list and the
\* entry it looks at next.
Purged(l, closed) ==
    LET round[k \in 0..Len(l)] ==
            IF k = 0 THEN [list |-> l, i |-> 1]
            ELSE LET r == round[k - 1]
                 IN  IF r.list[r.i].fd \in closed THEN [list |-> RemoveIndex(r.list, r.i), i |-> r.i]
                     ELSE [list |-> r.list, i |-> r.i + 1]
    IN  round[Len(l)].list

List(l) == socklist' = l /\ maxfd_plus_one' = recalc_maxfd_plus_one(l)

-----------------------------------------------------------------------------
HeldBy(f) == {w \in SelWorkers : swork[w] = [pc |-> "run", fd |-> f]}

\* event_iter, which closes connections whose keep-alive time is over and
\* leaves them on the list, and the scan, which drops closed descriptors.
SelScan ==
    /\ spc = "scan"
    /\ \E idle \in SUBSET {f \in SelFds : sock[f] \in {"quiet", "data"} /\ HeldBy(f) = {}} :
        LET l == Purged(socklist, idle \cup {f \in SelFds : sock[f] = "closed"})
            with(m) == {l[i].fd : i \in {j \in 1..Len(l) : l[j].mask = m}}
        IN  /\ List(l)
            /\ fdsets' = [r |-> with("read"), w |-> with("write"), x |-> ListedFds(l)]
            /\ sock' = [f \in SelFds |-> IF f \in idle THEN "closed" ELSE sock[f]]
    /\ spc' = "select"
    /\ UNCHANGED <<si, swork, backlog, arrived, sreused>>

\* select: the descriptors that are ready, or an error when one is closed.
\* Descriptors at or above maxfd_plus_one are not looked at.
SelSelect ==
    /\ spc = "select"
    /\ \E w \in SUBSET {f \in fdsets.w : sock[f] = "out"}, x \in SUBSET fdsets.x :
        LET seen(S) == {f \in S : f < maxfd_plus_one}
            ready == [r |-> seen({f \in fdsets.r : sock[f] = "data"}), w |-> seen(w), x |-> seen(x)]
        IN  /\ Cardinality(x) <= 1
            /\ \/ /\ \E f \in fdsets.x : sock[f] = "closed"
                  /\ spc' = "scan" /\ UNCHANGED fdsets
               \/ /\ \A f \in fdsets.x : sock[f] # "closed"
                  /\ fdsets' = ready
                  /\ spc' = IF backlog > 0 THEN "accept" ELSE IF ready = NoSets THEN "scan" ELSE "dispatch"
    /\ si' = 1
    /\ UNCHANGED <<socklist, maxfd_plus_one, sock, swork, backlog, arrived, sreused>>

SelAccept ==
    /\ spc = "accept"
    /\ LET free == {f \in SelFds : sock[f] = "closed"}
           fd == Min(free)
       IN  \/ /\ backlog > 0 /\ free # {}
              /\ List(_add(socklist, fd))
              /\ sock' = [sock EXCEPT ![fd] = "quiet"]
              /\ backlog' = backlog - 1
              /\ sreused' = IF Len(socklist) >= SelMax \/ \E w \in SelWorkers : swork[w] = [pc |-> "del", fd |-> fd]
                            THEN sreused \cup {fd} ELSE sreused
              /\ UNCHANGED spc
           \/ /\ backlog = 0 \/ free = {}
              /\ spc' = "dispatch"
              /\ UNCHANGED <<socklist, maxfd_plus_one, sock, backlog, sreused>>
    /\ UNCHANGED <<fdsets, si, swork, arrived>>

-----------------------------------------------------------------------------
(* What serving a socket may come to: the answer is out and the connection *)
(* is closed or kept, it is blocked, more is awaited, or a worker has it.  *)

\* http_cleanup by the event thread without keep-alive.
CleanupClose(fd) ==
    /\ List(DelFrom(socklist, fd))
    /\ sock' = [sock EXCEPT ![fd] = "closed"]
    /\ swork' = [w \in SelWorkers |-> IF swork[w] = [pc |-> "run", fd |-> fd] THEN [pc |-> "run", fd |-> 0] ELSE swork[w]]
    /\ UNCHANGED sreused
Mask(fd, m, to) ==
    /\ socklist' = set_select_event_mask(socklist, fd, m)
    /\ sock' = [sock EXCEPT ![fd] = to]
    /\ UNCHANGED <<maxfd_plus_one, swork, sreused>>
HandOver(fd) ==
    \E w \in SelWorkers :
        /\ swork[w].pc = "idle"
        /\ socklist' = set_select_event_mask(socklist, fd, "none")
        /\ swork' = [swork EXCEPT ![w] = [pc |-> "run", fd |-> fd]]
        /\ sock' = [sock EXCEPT ![fd] = "quiet"]
        /\ UNCHANGED <<maxfd_plus_one, sreused>>

DispatchStep(fd) ==
    CASE fd \in fdsets.x \/ (fd \in fdsets.r /\ sock[fd] = "closed") -> CleanupClose(fd)
      [] fd \notin fdsets.x /\ fd \in fdsets.r /\ sock[fd] # "closed" ->
            CleanupClose(fd) \/ Mask(fd, "read", "quiet") \/ Mask(fd, "write", "out") \/ HandOver(fd)
      [] fd \notin fdsets.x \cup fdsets.r /\ fd \in fdsets.w /\ sock[fd] = "out" ->
            CleanupClose(fd) \/ Mask(fd, "read", "quiet") \/ Mask(fd, "write", "out")
      [] OTHER -> UNCHANGED <<socklist, maxfd_plus_one, sock, swork, sreused>>

SelDispatch ==
    /\ spc = "dispatch" /\ si <= Len(socklist)
    /\ DispatchStep(socklist[si].fd)
    /\ si' = si + 1
    /\ UNCHANGED <<spc, fdsets, backlog, arrived>>

SelRound ==
    /\ spc = "dispatch" /\ si > Len(socklist)
    /\ spc' = "scan"
    /\ UNCHANGED <<socklist, maxfd_plus_one, sock, fdsets, si, swork, backlog, arrived, sreused>>

-----------------------------------------------------------------------------
(* A worker ends a request: it keeps the connection, waits for the rest to *)
(* go out, or closes the socket and then takes it off the list.            *)
SelWorkerMask(w) ==
    /\ swork[w].pc = "run" /\ swork[w].fd # 0
    /\ \E m \in {"read", "write"} :
        /\ socklist' = set_select_event_mask(socklist, swork[w].fd, m)
        /\ sock' = [sock EXCEPT ![swork[w].fd] = IF m = "write" THEN "out" ELSE @]
    /\ swork' = [swork EXCEPT ![w] = [pc |-> "idle", fd |-> 0]]
    /\ UNCHANGED <<maxfd_plus_one, spc, fdsets, si, backlog, arrived, sreused>>

SelWorkerClose(w) ==
    /\ swork[w].pc = "run"
    /\ IF swork[w].fd = 0
       THEN swork' = [swork EXCEPT ![w].pc = "idle"] /\ UNCHANGED sock
       ELSE /\ swork' = [swork EXCEPT ![w].pc = "del"]
            /\ sock' = [sock EXCEPT ![swork[w].fd] = "closed"]
    /\ UNCHANGED <<socklist, maxfd_plus_one, spc, fdsets, si, backlog, arrived, sreused>>

SelWorkerDel(w) ==
    /\ swork[w].pc = "del"
    /\ List(DelFrom(socklist, swork[w].fd))
    /\ swork' = [swork EXCEPT ![w] = [pc |-> "idle", fd |-> 0]]
    /\ UNCHANGED <<sock, spc, fdsets, si, backlog, arrived, sreused>>

\* Clients connect, send, and hang up (which makes the socket readable).
SelArrive ==
    /\ arrived < SelConns
    /\ arrived' = arrived + 1 /\ backlog' = backlog + 1
    /\ UNCHANGED <<socklist, maxfd_plus_one, sock, spc, fdsets, si, swork, sreused>>
SelData(f) ==
    /\ sock[f] = "quiet"
    /\ sock' = [sock EXCEPT ![f] = "data"]
    /\ UNCHANGED <<socklist, maxfd_plus_one, spc, fdsets, si, swork, backlog, arrived, sreused>>

SelLoop == SelScan \/ SelSelect \/ SelAccept \/ SelDispatch \/ SelRound
SelNext ==
    \/ SelLoop \/ SelArrive
    \/ \E f \in SelFds : SelData(f)
    \/ \E w \in SelWorkers : SelWorkerMask(w) \/ SelWorkerClose(w) \/ SelWorkerDel(w)
SelSpec == SelInit /\ [][SelNext]_selVars

-----------------------------------------------------------------------------
\* Every open connection is listed once, with a mask unless a worker has it,
\* unless its descriptor was reopened while a worker that had closed it had
\* still to remove it, or the list was full.
AllListed ==
    \A f \in SelFds : sock[f] # "closed" /\ f \notin sreused =>
        \E i \in PlacesOf(socklist, f) :
            /\ PlacesOf(socklist, f) = {i}
            /\ (socklist[i].mask = "none") <=> (HeldBy(f) # {})
            /\ sock[f] = "out" => socklist[i].mask = "write"

\* select looks at every listed descriptor: maxfd_plus_one is above them all
\* whatever the event thread and the workers add and remove.
MaxFdCovers == \A f \in ListedFds(socklist) : f < maxfd_plus_one

\* A closed descriptor is on the list only until the worker that has closed it
\* takes it off: everybody else closes and removes in one go, and the scan that
\* drops closed descriptors misses none.
ClosedOnlyByWorkers ==
    \A f \in ListedFds(socklist) : sock[f] = "closed" => \E w \in SelWorkers : swork[w] = [pc |-> "del", fd |-> f]

\* The select loop's lists: every watched socket is listed once and below maxfd,
\* and only the worker that holds a socket leaves it there closed.
SelectSound == AllListed /\ MaxFdCovers /\ ClosedOnlyByWorkers

=============================================================================
