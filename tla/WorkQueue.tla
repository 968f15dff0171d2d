----------------------------- MODULE WorkQueue ------------------------------
(***************************************************************************)
(* The hand-over of requests from the event thread to the worker threads   *)
(* (core_http.c) over the pointer stack pqueue_t (common_functions.c): the *)
(* semaphore wsem counts the entries, the spin lock spin_queue_atomic      *)
(* protects the stack.  http_terminate stops the workers by pushing one    *)
(* NULL for each.  It runs in the event thread when the worker process     *)
(* restarts itself (event_iter), or inside a signal handler that has       *)
(* interrupted whichever thread the kernel chose (setup_signals(quit)).    *)
(***************************************************************************)
EXTENDS Integers, Sequences, FiniteSets

CONSTANTS
    Requests,       \* request structures handlers are run for
    Workers,        \* the worker threads, config.worker_threads of them
    Reserved,       \* reserved_len of wr_queue
    MaxWaiting,     \* bound: requests that wait in the queue at a time
    Null,           \* the NULL that tells a worker to exit
    None

ASSUME QueueAssumption ==
    /\ Reserved \in Nat /\ MaxWaiting \in Nat
    /\ IsFiniteSet(Workers)
    /\ Null \notin Requests /\ None \notin Requests /\ Null # None
    /\ "event" \notin Workers /\ "quit" \notin Workers /\ None \notin Workers
    /\ None \notin {"event", "quit"}

\* The longest queue pqueue_fetch supports.  With more entries it shrinks the
\* array below the entry it is about to return; nothing in the code rules that
\* out, so what follows is about loads that stay within the limit.
ASSUME LoadAssumption == MaxWaiting + Cardinality(Workers) <= Reserved + 1

VARIABLES
    queue,      \* wr_queue->data[0 .. cur_len - 1]
    alen,       \* the number of elements wr_queue->data has room for
    sem,        \* the value of wsem
    spin,       \* the thread that holds spin_queue_atomic, or None
    ppc,        \* where the two producers, event thread and http_terminate, are
    pitem,      \* what each producer is about to push
    wpc,        \* where each worker is
    wr,         \* r of each worker: the request it runs, or None
    qpc,        \* where http_terminate is
    qhost,      \* the thread it runs in (and which does nothing else), or None
    qleft       \* its loop counter, counting down

qvars == <<queue, alen, sem>>
pvars == <<ppc, pitem>>
wvars == <<wpc, wr>>
tvars == <<qpc, qhost, qleft>>
vars == <<qvars, spin, pvars, wvars, tvars>>

NWorkers == Cardinality(Workers)
Producers == {"event", "quit"}
Threads == {"event"} \cup Workers

\* A thread runs until the process exits, unless http_terminate has taken it.
Runs(t) == qpc # "exited" /\ qhost # t

\* http_prepare_once: an empty queue, no tokens, threads created.
Init ==
    /\ queue = <<>> /\ alen = Reserved /\ sem = 0 /\ spin = None
    /\ ppc = [p \in Producers |-> "idle"]
    /\ pitem = [p \in Producers |-> None]
    /\ wpc = [w \in Workers |-> "init"]
    /\ wr = [w \in Workers |-> None]
    /\ qpc = "none" /\ qhost = None /\ qleft = 0

-----------------------------------------------------------------------------
(* Pushing: pthread_spin_lock; pqueue_push; pthread_spin_unlock; sem_post. *)

Acquire(t) == spin = None /\ spin' = t
Release == spin' = None

PushLock(p, item) ==
    /\ ppc[p] = "idle"
    /\ Acquire(p)
    /\ ppc' = [ppc EXCEPT ![p] = "locked"]
    /\ pitem' = [pitem EXCEPT ![p] = item]

\* pqueue_push makes the array exactly as long as the queue once it is longer
\* than reserved_len.
PushUnlockLateGrow(p) ==       \* mutant: the array grows one push too late
    /\ ppc[p] = "locked"
    /\ queue' = Append(queue, pitem[p])
    /\ alen' = IF Len(queue) > Reserved THEN Len(queue) + 1 ELSE alen
    /\ Release
    /\ ppc' = [ppc EXCEPT ![p] = "post"]
    /\ UNCHANGED <<sem, pitem, wvars, tvars>>
PushUnlock(p) ==
    /\ ppc[p] = "locked"
    /\ queue' = Append(queue, pitem[p])
    /\ alen' = IF Len(queue) + 1 > Reserved THEN Len(queue) + 1 ELSE alen
    /\ Release
    /\ ppc' = [ppc EXCEPT ![p] = "post"]
    /\ UNCHANGED <<sem, pitem, wvars, tvars>>

PushPost(p) ==
    /\ ppc[p] = "post"
    /\ sem' = sem + 1
    /\ ppc' = [ppc EXCEPT ![p] = "idle"]
    /\ pitem' = [pitem EXCEPT ![p] = None]
    /\ UNCHANGED <<queue, alen, spin, wvars>>

\* http_response hands r to the workers.
Submit(r) ==
    /\ Runs("event") /\ Len(queue) < MaxWaiting
    /\ PushLock("event", r)
    /\ UNCHANGED <<qvars, wvars, tvars>>
SubmitUnlock == Runs("event") /\ PushUnlock("event")
SubmitNoPost ==                \* mutant: sem_post is forgotten
    /\ Runs("event") /\ ppc["event"] = "post"
    /\ ppc' = [ppc EXCEPT !["event"] = "idle"]
    /\ pitem' = [pitem EXCEPT !["event"] = None]
    /\ UNCHANGED <<qvars, spin, wvars, tvars>>
SubmitPost == Runs("event") /\ PushPost("event") /\ UNCHANGED tvars

-----------------------------------------------------------------------------
(* The worker thread, http_pass_to_handlers_routine.                       *)

Step(w, from, to) ==
    /\ Runs(w)
    /\ wpc[w] = from
    /\ wpc' = [wpc EXCEPT ![w] = to]
    /\ UNCHANGED <<pvars, tvars>>

\* Thread start: per-thread initialisation under the spin lock.
InitLock(w) == Step(w, "init", "initializing") /\ Acquire(w) /\ UNCHANGED <<qvars, wr>>
InitUnlock(w) == Step(w, "initializing", "wait") /\ Release /\ UNCHANGED <<qvars, wr>>

SemWaitInterrupted(w) ==       \* mutant: goes on although sem_wait got no token
    /\ Step(w, "wait", "lock")
    /\ sem' = IF sem > 0 THEN sem - 1 ELSE sem
    /\ UNCHANGED <<queue, alen, spin, wr>>
SemWait(w) ==
    /\ Step(w, "wait", "lock")
    /\ sem > 0
    /\ sem' = sem - 1
    /\ UNCHANGED <<queue, alen, spin, wr>>

FetchNoLock(w) ==              \* mutant: the queue is read without the lock
    Step(w, "lock", "locked") /\ UNCHANGED <<qvars, spin, wr>>
FetchLock(w) == Step(w, "lock", "locked") /\ Acquire(w) /\ UNCHANGED <<qvars, wr>>

FetchPeek(w) ==                \* mutant: cur_len is not lowered
    LET r == queue[Len(queue)]
    IN  /\ Step(w, "locked", IF r = Null THEN "exit" ELSE "run")
        /\ wr' = [wr EXCEPT ![w] = IF r = Null THEN None ELSE r]
        /\ Release
        /\ UNCHANGED qvars
\* pqueue_fetch and the test of r: cur_len is lowered first, and the array is
\* shrunk to it when it still exceeds reserved_len, before data[cur_len] is read.
FetchUnlock(w) ==
    LET n == Len(queue) - 1
        r == queue[Len(queue)]
    IN  /\ Step(w, "locked", IF r = Null THEN "exit" ELSE "run")
        /\ queue' = SubSeq(queue, 1, n)
        /\ alen' = IF n > Reserved THEN n ELSE alen
        /\ wr' = [wr EXCEPT ![w] = IF r = Null THEN None ELSE r]
        /\ Release
        /\ UNCHANGED sem

\* The handler has run and its response has been dealt with.
Handled(w) ==
    /\ Step(w, "run", "wait")
    /\ wr' = [wr EXCEPT ![w] = None]
    /\ UNCHANGED <<qvars, spin>>

\* After NULL: tpl_destroy under the spin lock, then the thread ends.
ExitLock(w) == Step(w, "exit", "destroying") /\ Acquire(w) /\ UNCHANGED <<qvars, wr>>
ExitUnlock(w) == Step(w, "destroying", "done") /\ Release /\ UNCHANGED <<qvars, wr>>

-----------------------------------------------------------------------------
(* quit_ex and http_terminate.                                             *)

\* quit_ex begins, once (already_in_quit), in thread t: at any point in a signal
\* handler, or in event_iter, where the event thread is idle.
Quit(t) ==
    /\ qpc = "none"
    /\ t \in Workers => wpc[t] # "done"
    /\ qpc' = "push" /\ qhost' = t /\ qleft' = NWorkers
    /\ UNCHANGED <<qvars, spin, pvars, wvars>>

StopLock ==
    /\ qpc = "push" /\ qleft > 0
    /\ PushLock("quit", Null)
    /\ UNCHANGED <<qvars, wvars, tvars>>
StopUnlock == qpc = "push" /\ PushUnlock("quit")
StopPost ==
    /\ PushPost("quit")
    /\ qleft' = IF qleft = 1 THEN NWorkers ELSE qleft - 1
    /\ qpc' = IF qleft = 1 THEN "join" ELSE "push"
    /\ UNCHANGED qhost

JoinNoCount ==                 \* mutant: the loop over the threads does not advance
    qpc = "join" /\ UNCHANGED vars
\* pthread_timedjoin_np: the thread has ended or two seconds have passed.
Join ==
    /\ qpc = "join"
    /\ qleft' = qleft - 1
    /\ qpc' = IF qleft = 1 THEN "exited" ELSE "join"
    /\ UNCHANGED <<qvars, spin, pvars, wvars, qhost>>

Exited == qpc = "exited" /\ UNCHANGED vars

-----------------------------------------------------------------------------
EventNext == (\E r \in Requests : Submit(r)) \/ SubmitUnlock \/ SubmitPost

WorkerNext(w) ==
    \/ InitLock(w) \/ InitUnlock(w)
    \/ SemWait(w) \/ FetchLock(w) \/ FetchUnlock(w) \/ Handled(w)
    \/ ExitLock(w) \/ ExitUnlock(w)

QuitNext == StopLock \/ StopUnlock \/ StopPost \/ Join

Next ==
    \/ EventNext
    \/ \E w \in Workers : WorkerNext(w)
    \/ \E t \in Threads : Quit(t)
    \/ QuitNext
    \/ Exited

Spec == Init /\ [][Next]_vars

\* Threads are scheduled, handlers return, and a thread that spins gets a lock
\* that is free again and again.  Nothing makes requests or signals arrive.
FairSpec ==
    /\ Spec
    /\ WF_vars(SubmitUnlock \/ SubmitPost)
    /\ \A w \in Workers : WF_vars(WorkerNext(w))
    /\ \A w \in Workers : SF_vars(InitLock(w) \/ FetchLock(w) \/ ExitLock(w))
    /\ WF_vars(QuitNext) /\ SF_vars(StopLock)

-----------------------------------------------------------------------------
(* Properties.                                                             *)

InFetch == {w \in Workers : wpc[w] \in {"lock", "locked"}}
InPost == {p \in Producers : ppc[p] = "post"}

TypeOK ==
    /\ queue \in Seq(Requests \cup {Null}) /\ alen \in Nat /\ sem \in Nat
    /\ spin \in Threads \cup {"quit", None}
    /\ ppc \in [Producers -> {"idle", "locked", "post"}]
    /\ pitem \in [Producers -> Requests \cup {Null, None}]
    /\ wpc \in [Workers -> {"init", "initializing", "wait", "lock", "locked", "run",
                            "exit", "destroying", "done"}]
    /\ wr \in [Workers -> Requests \cup {None}]
    /\ qpc \in {"none", "push", "join", "exited"}
    /\ qhost \in Threads \cup {None} /\ qleft \in 0..NWorkers

\* spin_queue_atomic does its job: a thread between lock and unlock holds it,
\* so no two threads are in the queue, the templates or the start-up code.
QueueExclusive ==
    /\ \A p \in Producers : ppc[p] = "locked" <=> spin = p
    /\ \A w \in Workers :
           wpc[w] \in {"initializing", "locked", "destroying"} <=> spin = w

\* Every entry of the queue is matched by a semaphore token, by a worker that
\* took the token and has not fetched yet, or by a producer that has pushed
\* and not posted yet: no token without an entry, no entry without a token.
TokensMatch == Len(queue) = sem + Cardinality(InFetch) + Cardinality(InPost)

\* pqueue_fetch finds the queue non-empty and, for loads within LoadAssumption,
\* reads inside the array, which it may itself just have shrunk.
FetchInBounds ==
    \A w \in Workers : wpc[w] = "locked" =>
        LET n == Len(queue) - 1
        IN  n >= 0 /\ n < (IF n > Reserved THEN n ELSE alen)

\* Hand-over as the other components see it: each push is taken exactly once.
Pool == INSTANCE TaskPool
            WITH pending <- [r \in Requests |-> Cardinality({i \in DOMAIN queue : queue[i] = r})],
                 running <- wr
IsTaskPool == Pool!Spec

\* When the event thread stops handing over, the workers empty the queue and
\* it stays empty, unless the process is told to quit.
DrainsWhenQuiet ==
    (<>[](ppc["event"] = "idle")) => (<>[](queue = <<>>) \/ <>(qpc # "none"))

\* Once quit_ex has begun, in a thread that does not hold spin_queue_atomic, the
\* process gets to exit(), whatever the other threads are doing.
QuitUnlessHeld == (qpc # "none" /\ spin # qhost) ~> (qpc = "exited")

\* http_terminate's comments: it terminates the worker threads and gives each
\* "some time".  Once quit_ex has begun the process gets to exit().
QuitCompletes == (qpc # "none") ~> (qpc = "exited")

=============================================================================
