----------------------------- MODULE KqueueLoop -----------------------------
(***************************************************************************)
(* The event loop for systems with kqueue.  A filter for reading and one   *)
(* for writing are registered independently: turning one on leaves the     *)
(* other alone, and only a close removes them.  A batch of events is taken *)
(* from the kernel and then handled one by one.                            *)
(***************************************************************************)
EXTENDS Integers, Sequences, FiniteSets, Functions

CONSTANTS
    KqFds,          \* descriptors
    KqBatch,        \* prealloc_request_structures: the size of a batch
    KqConns         \* bound on connections, for TLC

ASSUME KqAssumption == IsFiniteSet(KqFds) /\ KqFds \subseteq Nat \ {0}

VARIABLES
    kconn,          \* the connection a descriptor belongs to, 0 when closed
    kread, kwrite,  \* are the filters enabled?
    kreq,           \* the request structure of a descriptor: "none", "served", "worker", "blocked"
    kdata,          \* is there something to read?
    kbatch,         \* the events still to be handled: [fd, filter, conn]
    kbacklog, knext,
    kblocked,       \* history: connections with a write that was blocked
    kended,         \* history: connections whose request was ended while a worker had it
    kstray          \* history: connections whose event was handled for a later connection

kqVars == <<kconn, kread, kwrite, kreq, kdata, kbatch, kbacklog, knext, kblocked, kended, kstray>>

KqInit ==
    /\ kconn = [f \in KqFds |-> 0] /\ kread = [f \in KqFds |-> FALSE] /\ kwrite = [f \in KqFds |-> FALSE]
    /\ kreq = [f \in KqFds |-> "none"] /\ kdata = [f \in KqFds |-> FALSE]
    /\ kbatch = <<>> /\ kbacklog = 0 /\ knext = 1
    /\ kblocked = {} /\ kended = {} /\ kstray = {}

-----------------------------------------------------------------------------
(* What can become of the request of descriptor f.  Closing it takes its   *)
(* filters out of the kernel.                                              *)
KqClose(f) ==
    /\ kconn' = [kconn EXCEPT ![f] = 0] /\ kread' = [kread EXCEPT ![f] = FALSE]
    /\ kwrite' = [kwrite EXCEPT ![f] = FALSE] /\ kreq' = [kreq EXCEPT ![f] = "none"]
    /\ UNCHANGED kblocked
KqKeep(f) ==                          \* http_cleanup with keep-alive: set_read_mask
    /\ kread' = [kread EXCEPT ![f] = TRUE] /\ kreq' = [kreq EXCEPT ![f] = "none"]
    /\ UNCHANGED <<kconn, kwrite, kblocked>>
KqBlock(f) ==                         \* http_send could not write all: set_write_mask
    /\ kwrite' = [kwrite EXCEPT ![f] = TRUE] /\ kreq' = [kreq EXCEPT ![f] = "blocked"]
    /\ kblocked' = kblocked \cup {kconn[f]}
    /\ UNCHANGED <<kconn, kread>>
KqHandOverEnabled(f) ==               \* mutant: events are not disabled
    /\ kreq' = [kreq EXCEPT ![f] = "worker"]
    /\ UNCHANGED <<kconn, kread, kwrite, kblocked>>
KqHandOver(f) ==                      \* disable_events_for_socket, then the queue
    /\ kread' = [kread EXCEPT ![f] = FALSE] /\ kreq' = [kreq EXCEPT ![f] = "worker"]
    /\ UNCHANGED <<kconn, kwrite, kblocked>>
KqMore(f) ==                          \* more of the request is awaited
    /\ kreq' = [kreq EXCEPT ![f] = "served"]
    /\ UNCHANGED <<kconn, kread, kwrite, kblocked>>
KqNothing == UNCHANGED <<kconn, kread, kwrite, kreq, kblocked>>

\* events_out_data: only a structure that holds the descriptor is looked at;
\* one without unsent data is ended, whoever is working on it.
KqOut(f) ==
    CASE kreq[f] = "none" -> KqNothing
      [] kreq[f] = "blocked" -> KqClose(f) \/ KqKeep(f) \/ KqNothing
      [] kreq[f] \in {"worker", "served"} -> KqClose(f) \/ KqKeep(f)

\* http_serve_client for descriptor f, after event_fetch_request.  For a
\* request a worker has, what is received is ignored, or ends the connection.
KqServe(f) ==
    IF kreq[f] = "worker" THEN KqClose(f) \/ KqNothing
    ELSE KqClose(f) \/ KqKeep(f) \/ KqBlock(f) \/ KqHandOver(f) \/ KqMore(f)

-----------------------------------------------------------------------------
\* kevent: a batch of what is ready, in any order.
KqWait ==
    /\ kbatch = <<>>
    /\ LET ready == {[fd |-> f, filter |-> "read", conn |-> kconn[f]] : f \in {g \in KqFds : kread[g] /\ kdata[g]}}
                    \cup {[fd |-> f, filter |-> "write", conn |-> kconn[f]] : f \in {g \in KqFds : kwrite[g]}}
                    \cup (IF kbacklog > 0 THEN {[fd |-> 0, filter |-> "read", conn |-> 0]} ELSE {})
       IN  \E S \in (SUBSET ready) \ {{}} :
               Cardinality(S) <= KqBatch /\ kbatch' \in Bijection(1..Cardinality(S), S)
    /\ UNCHANGED <<kconn, kread, kwrite, kreq, kdata, kbacklog, knext, kblocked, kended, kstray>>

KqRegister(took) == kread' = [f \in KqFds |-> f \in took \/ kread[f]] /\ UNCHANGED kwrite

\* The accept loop: every waiting connection for which there is a descriptor.
KqAccept ==
    /\ kbatch # <<>> /\ Head(kbatch).fd = 0
    /\ LET free == {f \in KqFds : kconn[f] = 0}
           n == IF kbacklog < Cardinality(free) THEN kbacklog ELSE Cardinality(free)
           took == {f \in free : Cardinality({g \in free : g < f}) < n}
       IN  /\ kconn' = [f \in KqFds |-> IF f \in took THEN knext + Cardinality({g \in took : g < f}) ELSE kconn[f]]
           /\ KqRegister(took)
           /\ knext' = knext + n
           /\ kbacklog' = kbacklog - n
    /\ kbatch' = Tail(kbatch)
    /\ UNCHANGED <<kreq, kdata, kblocked, kended, kstray>>

KqEvent ==
    /\ kbatch # <<>> /\ Head(kbatch).fd # 0
    /\ LET e == Head(kbatch)
           f == e.fd
       IN  /\ \/ e.filter = "read" /\ kconn[f] # 0 /\ KqServe(f)
              \/ e.filter = "read" /\ KqClose(f)          \* EV_EOF, or nothing can be read
              \/ e.filter = "write" /\ KqOut(f)
              \/ e.filter = "write" /\ KqClose(f)         \* EV_EOF
           /\ kdata' = [kdata EXCEPT ![f] = @ /\ e.filter # "read" /\ kconn'[f] # 0]
           /\ kended' = IF kreq[f] = "worker" THEN kended \cup {kconn[f]} ELSE kended
           /\ kstray' = IF kconn[f] \notin {0, e.conn} THEN kstray \cup {e.conn} ELSE kstray
    /\ kbatch' = Tail(kbatch)
    /\ UNCHANGED <<kbacklog, knext>>

\* A worker ends the request it holds.
KqWorker(f) ==
    /\ kreq[f] = "worker"
    /\ KqClose(f) \/ KqKeep(f) \/ KqBlock(f)
    /\ kdata' = [kdata EXCEPT ![f] = @ /\ kconn'[f] # 0]
    /\ UNCHANGED <<kbatch, kbacklog, knext, kended, kstray>>

KqArrive ==
    /\ knext + kbacklog <= KqConns
    /\ kbacklog' = kbacklog + 1
    /\ UNCHANGED <<kconn, kread, kwrite, kreq, kdata, kbatch, knext, kblocked, kended, kstray>>
KqData(f) ==
    /\ kconn[f] # 0 /\ ~kdata[f]
    /\ kdata' = [kdata EXCEPT ![f] = TRUE]
    /\ UNCHANGED <<kconn, kread, kwrite, kreq, kbatch, kbacklog, knext, kblocked, kended, kstray>>

KqNext == KqWait \/ KqAccept \/ KqEvent \/ KqArrive \/ \E f \in KqFds : KqWorker(f) \/ KqData(f)
KqSpec == KqInit /\ [][KqNext]_kqVars

-----------------------------------------------------------------------------
\* The event thread ends a request a worker has only on a connection with a
\* write that was blocked earlier: its write filter is still enabled.
WorkersAloneUnlessBlocked == kended \subseteq kblocked

\* An event of a batch is handled for a later connection with the same
\* descriptor only if the earlier one had such a write filter.
StrayOnlyIfBlocked == kstray \subseteq kblocked

\* A socket handed to a worker raises no event unless its worker's write blocked,
\* and a stray write filter is left behind only then.
KqueueSound == WorkersAloneUnlessBlocked /\ StrayOnlyIfBlocked

=============================================================================
