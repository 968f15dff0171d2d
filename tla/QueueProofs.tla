---------------------------- MODULE QueueProofs -----------------------------
(***************************************************************************)
(* Proofs about handing requests to worker threads, for any number of      *)
(* workers and requests, with or without signals (WorkQueue), and about the*)
(* kqueue loop that watches the sockets they hold, for any number of       *)
(* descriptors, any size of a batch and any number of connections          *)
(* (KqueueLoop).                                                           *)
(***************************************************************************)
EXTENDS WorkQueue, KqueueLoop, FiniteSetTheorems, SequenceTheorems, TLAPS

USE SMTT(60)    \* the SMT backend and its time limit, where a step names no other

-----------------------------------------------------------------------------
(* WorkQueue: its invariant.                                                *)

\* The NULLs http_terminate has pushed so far.
Pushed ==
    IF qpc = "none" THEN 0
    ELSE IF qpc = "push" THEN (NWorkers - qleft) + (IF ppc["quit"] = "post" THEN 1 ELSE 0)
    ELSE NWorkers

\* How long the queue and its array are, and where http_terminate pushes.
Bounds ==
    /\ Reserved <= alen /\ Len(queue) <= alen
    /\ ppc["event"] = "locked" => Len(queue) < MaxWaiting
    /\ Len(queue) <= MaxWaiting + Pushed
    /\ ppc["quit"] # "idle" => qpc = "push" /\ qleft >= 1
    /\ qpc = "join" => qleft >= 1

\* A producer in its critical section has something to push.
ItemsOK == \A p \in Producers : ppc[p] = "locked" => pitem[p] \in Requests \cup {Null}

Inv == TypeOK /\ QueueExclusive /\ TokensMatch /\ ItemsOK /\ Bounds

-----------------------------------------------------------------------------
(* Sets of threads.                                                        *)

\* There are finitely many threads, so the sums in TokensMatch are numbers.
LEMMA Finite ==
    /\ NWorkers \in Nat
    /\ IsFiniteSet(InFetch) /\ Cardinality(InFetch) \in Nat
    /\ IsFiniteSet(InPost) /\ Cardinality(InPost) \in Nat
<1>1. IsFiniteSet(Workers)
    BY QueueAssumption
<1>2. IsFiniteSet(Producers)
    <2>1. Producers = {"event"} \cup {"quit"}
        BY DEF Producers
    <2>2. IsFiniteSet({"event"}) /\ IsFiniteSet({"quit"})
        BY FS_Singleton
    <2> QED
        BY <2>1, <2>2, FS_Union, Zenon
<1>3. IsFiniteSet(InFetch) /\ IsFiniteSet(InPost)
    BY <1>1, <1>2, FS_Subset DEF InFetch, InPost
<1> QED
    BY <1>1, <1>3, FS_CardinalityType DEF NWorkers

\* A worker with a token that has not fetched yet finds an entry.
LEMMA NonEmpty ==
    ASSUME Inv, NEW w \in Workers, wpc[w] \in {"lock", "locked"}
    PROVE  Len(queue) >= 1
<1>1. w \in InFetch
    BY DEF InFetch
<1>2. Cardinality(InFetch) # 0
    BY <1>1, Finite, FS_EmptySet
<1> QED
    BY <1>2, Finite DEF Inv, TokensMatch, TypeOK

\* Facts about the threads' names.
LEMMA Names ==
    /\ "event" \in Producers /\ "quit" \in Producers /\ \A p \in Producers : p \in {"event", "quit"}
    /\ None \notin Producers /\ None \notin Workers
    /\ \A p \in Producers : p \notin Workers
    /\ Null # None /\ None \notin Requests
BY QueueAssumption DEF Producers

-----------------------------------------------------------------------------
(* Producers.                                                              *)

\* Lock: only the spin lock, the place and the item change.
LEMMA PushLockStep ==
    ASSUME Inv, NEW p \in Producers, NEW item \in Requests \cup {Null}, PushLock(p, item),
           UNCHANGED <<qvars, wvars, tvars>>,
           p = "event" => Len(queue) < MaxWaiting,
           p = "quit" => qpc = "push" /\ qleft >= 1
    PROVE  Inv'
<1> USE Names
<1>1. TypeOK'
    BY DEF Inv, TypeOK, PushLock, Acquire, qvars, wvars, tvars, Threads, NWorkers, Producers
<1>2. QueueExclusive'
    BY DEF Inv, TypeOK, QueueExclusive, PushLock, Acquire, wvars
<1>3. TokensMatch'
    <2>1. InFetch' = InFetch
        BY DEF InFetch, wvars
    <2>2. InPost' = InPost
        BY DEF InPost, PushLock, Inv, TypeOK
    <2> QED
        BY <2>1, <2>2 DEF Inv, TokensMatch, qvars
<1>4. ItemsOK'
    BY DEF Inv, TypeOK, ItemsOK, PushLock
<1>5. Bounds'
    <2>1. Pushed' = Pushed
        BY DEF Pushed, PushLock, tvars, NWorkers, Inv, TypeOK
    <2> QED
        BY <2>1 DEF Bounds, PushLock, qvars, tvars, Inv, TypeOK
<1> QED
    BY <1>1, <1>2, <1>3, <1>4, <1>5 DEF Inv

\* pqueue_push and unlock: one entry more, to be posted.
LEMMA PushUnlockStep ==
    ASSUME Inv, NEW p \in Producers, PushUnlock(p)
    PROVE  Inv'
<1> USE Names
<1>1. /\ pitem[p] \in Requests \cup {Null} /\ queue' = Append(queue, pitem[p])
      /\ queue' \in Seq(Requests \cup {Null}) /\ Len(queue') = Len(queue) + 1 /\ Len(queue) \in Nat
    BY DEF Inv, ItemsOK, PushUnlock, TypeOK
<1>2. TypeOK'
    BY <1>1 DEF Inv, TypeOK, PushUnlock, Release, wvars, tvars, NWorkers, Producers, Threads
<1>3. QueueExclusive'
    BY DEF Inv, TypeOK, QueueExclusive, PushUnlock, Release, wvars
<1>4. TokensMatch'
    <2>1. InFetch' = InFetch
        BY DEF InFetch, PushUnlock, wvars
    <2>2. InPost' = InPost \cup {p} /\ p \notin InPost
        BY DEF InPost, PushUnlock, Inv, TypeOK
    <2>3. Cardinality(InPost') = Cardinality(InPost) + 1
        BY <2>2, Finite, FS_AddElement, Zenon
    <2> QED
        BY <1>1, <2>1, <2>3, Finite DEF Inv, TokensMatch, PushUnlock, TypeOK
<1>5. ItemsOK'
    BY DEF Inv, TypeOK, ItemsOK, PushUnlock
<1>6. Bounds'
    <2>1. CASE p = "event"
        <3>1. Pushed' = Pushed /\ Pushed \in Nat
            BY <2>1, Finite DEF Pushed, PushUnlock, tvars, NWorkers, Inv, TypeOK
        <3> QED
            BY <1>1, <2>1, <3>1, QueueAssumption DEF Bounds, PushUnlock, tvars, Inv, TypeOK
    <2>2. CASE p = "quit"
        <3>1. qpc = "push" /\ qleft >= 1 /\ Pushed' = Pushed + 1 /\ Pushed \in Nat
            BY <2>2, Finite DEF Pushed, PushUnlock, tvars, NWorkers, Inv, TypeOK, Bounds
        <3>2. ppc'["event"] # "locked"
            BY <2>2 DEF PushUnlock, Inv, TypeOK, QueueExclusive
        <3> QED
            BY <1>1, <2>2, <3>1, <3>2, QueueAssumption DEF Bounds, PushUnlock, tvars, Inv, TypeOK
    <2> QED
        BY <2>1, <2>2
<1> QED
    BY <1>2, <1>3, <1>4, <1>5, <1>6 DEF Inv

\* sem_post: the entry gets its token.
LEMMA PostStep ==
    ASSUME Inv, NEW p \in Producers, PushPost(p), IF p = "event" THEN UNCHANGED tvars ELSE StopPost
    PROVE  Inv'
<1> USE Names
<1>1. /\ qpc' \in {"push", "join", "none", "exited"} /\ qleft' \in 0..NWorkers /\ UNCHANGED qhost
      /\ p = "quit" => qpc = "push" /\ qleft >= 1 /\ qleft' >= 1 /\ qpc' \in {"push", "join"}
    BY Finite DEF Inv, TypeOK, Bounds, StopPost, tvars, NWorkers, Producers, PushPost
<1>2. TypeOK'
    BY <1>1 DEF Inv, TypeOK, PushPost, wvars, NWorkers, Producers, Threads
<1>3. QueueExclusive'
    BY DEF Inv, TypeOK, QueueExclusive, PushPost, wvars
<1>4. TokensMatch'
    <2>1. InFetch' = InFetch
        BY DEF InFetch, PushPost, wvars
    <2>2. InPost' = InPost \ {p} /\ p \in InPost
        BY DEF InPost, PushPost, Inv, TypeOK
    <2>3. Cardinality(InPost') = Cardinality(InPost) - 1
        BY <2>2, Finite, FS_RemoveElement, Zenon
    <2> QED
        BY <2>1, <2>3, Finite DEF Inv, TokensMatch, PushPost, TypeOK
<1>5. ItemsOK'
    BY DEF Inv, TypeOK, ItemsOK, PushPost
<1>6. Bounds'
    <2>1. CASE p = "event"
        <3>1. Pushed' = Pushed
            BY <2>1 DEF Pushed, PushPost, tvars, NWorkers, Inv, TypeOK
        <3> QED
            BY <2>1, <3>1 DEF Bounds, PushPost, tvars, Inv, TypeOK
    <2>2. CASE p = "quit"
        <3>1. Pushed' = Pushed
            BY <1>1, <2>2, Finite DEF Pushed, PushPost, StopPost, NWorkers, Inv, TypeOK
        <3> QED
            BY <1>1, <2>2, <3>1 DEF Bounds, PushPost, StopPost, Inv, TypeOK
    <2> QED
        BY <2>1, <2>2
<1> QED
    BY <1>2, <1>3, <1>4, <1>5, <1>6 DEF Inv

-----------------------------------------------------------------------------
(* Workers.                                                                *)

\* Taking the lock, giving it back and running a handler leave the queue alone.
LEMMA WorkerLockStep ==
    ASSUME Inv, NEW w \in Workers,
           InitLock(w) \/ InitUnlock(w) \/ FetchLock(w) \/ Handled(w) \/ ExitLock(w) \/ ExitUnlock(w)
    PROVE  Inv'
<1> USE Names
<1> USE DEF InitLock, InitUnlock, FetchLock, Handled, ExitLock, ExitUnlock, Step, Acquire, Release, qvars, pvars, tvars
<1>1. TypeOK'
    BY DEF Inv, TypeOK, Threads, NWorkers
<1>2. QueueExclusive'
    BY DEF Inv, TypeOK, QueueExclusive
<1>3. TokensMatch'
    <2>1. InFetch' = InFetch
        BY DEF InFetch, Inv, TypeOK
    <2>2. InPost' = InPost
        BY DEF InPost
    <2> QED
        BY <2>1, <2>2 DEF Inv, TokensMatch
<1>4. ItemsOK' /\ Bounds'
    BY DEF Inv, ItemsOK, Bounds, Pushed, NWorkers
<1> QED
    BY <1>1, <1>2, <1>3, <1>4 DEF Inv

\* sem_wait: a token becomes the right to fetch.
LEMMA SemWaitStep ==
    ASSUME Inv, NEW w \in Workers, SemWait(w)
    PROVE  Inv'
<1> USE Names
<1>1. TypeOK'
    BY DEF Inv, TypeOK, SemWait, Step, pvars, tvars, NWorkers
<1>2. QueueExclusive'
    BY DEF Inv, TypeOK, QueueExclusive, SemWait, Step, pvars
<1>3. TokensMatch'
    <2>1. InFetch' = InFetch \cup {w} /\ w \notin InFetch
        BY DEF InFetch, Inv, TypeOK, SemWait, Step
    <2>2. Cardinality(InFetch') = Cardinality(InFetch) + 1
        BY <2>1, Finite, FS_AddElement, Zenon
    <2>3. InPost' = InPost
        BY DEF InPost, SemWait, Step, pvars
    <2> QED
        BY <2>2, <2>3, Finite DEF Inv, TokensMatch, SemWait, TypeOK
<1>4. ItemsOK' /\ Bounds'
    BY DEF Inv, ItemsOK, Bounds, Pushed, NWorkers, SemWait, Step, pvars, tvars
<1> QED
    BY <1>1, <1>2, <1>3, <1>4 DEF Inv

\* pqueue_fetch and unlock: the entry the right was for is gone.
LEMMA FetchUnlockStep ==
    ASSUME Inv, NEW w \in Workers, FetchUnlock(w)
    PROVE  Inv'
<1> USE Names
<1> DEFINE n == Len(queue) - 1
           r == queue[Len(queue)]
<1>1. wpc[w] = "locked" /\ spin = w /\ Len(queue) >= 1 /\ Len(queue) \in Nat
    BY NonEmpty DEF FetchUnlock, Step, Inv, QueueExclusive, TypeOK
<1>2. r \in Requests \cup {Null}
    BY <1>1, ElementOfSeq DEF Inv, TypeOK
<1>3. queue' = SubSeq(queue, 1, n) /\ n \in 0..Len(queue)
    BY <1>1 DEF FetchUnlock
<1>4. queue' \in Seq(Requests \cup {Null}) /\ Len(queue') = n
    <2>1. queue \in Seq(Requests \cup {Null})
        BY <1>1 DEF Inv, TypeOK
    <2>2. n \in 0..Len(queue)
        BY <1>3
    <2> HIDE DEF n
    <2>3. SubSeq(queue, 1, n) \in Seq(Requests \cup {Null})
          /\ Len(SubSeq(queue, 1, n)) = IF 1 <= n THEN n - 1 + 1 ELSE 0
        BY <2>1, <2>2, SubSeqProperties
    <2> QED
        BY <1>3, <2>2, <2>3
<1>5. /\ alen' = IF n > Reserved THEN n ELSE alen
      /\ wr' = [wr EXCEPT ![w] = IF r = Null THEN None ELSE r]
      /\ wpc' = [wpc EXCEPT ![w] = IF r = Null THEN "exit" ELSE "run"]
      /\ spin' = None /\ UNCHANGED <<sem, ppc, pitem, qpc, qhost, qleft>>
    BY DEF FetchUnlock, Step, Release, pvars, tvars
<1> HIDE DEF n, r
<1>6. n \in Nat /\ n = Len(queue) - 1
    BY <1>1 DEF n
<1>7. TypeOK'
    BY <1>2, <1>4, <1>5, <1>6 DEF Inv, TypeOK, NWorkers
<1>8. QueueExclusive'
    BY <1>1, <1>5 DEF Inv, TypeOK, QueueExclusive
<1>9. TokensMatch'
    <2>1. InFetch' = InFetch \ {w} /\ w \in InFetch
        BY <1>1, <1>5 DEF InFetch, Inv, TypeOK
    <2>2. Cardinality(InFetch') = Cardinality(InFetch) - 1
        BY <2>1, Finite, FS_RemoveElement, Zenon
    <2>3. InPost' = InPost
        BY <1>5 DEF InPost
    <2> QED
        BY <1>1, <1>4, <1>5, <1>6, <2>2, <2>3, Finite DEF Inv, TokensMatch, TypeOK
<1>10. ItemsOK'
    BY <1>5 DEF Inv, ItemsOK
<1>11. Bounds'
    <2>1. Pushed' = Pushed /\ Pushed \in Nat
        BY <1>5, Finite DEF Pushed, NWorkers, Inv, TypeOK
    <2> QED
        BY <1>1, <1>4, <1>5, <1>6, <2>1, QueueAssumption DEF Inv, Bounds, TypeOK
<1> QED
    BY <1>7, <1>8, <1>9, <1>10, <1>11 DEF Inv

-----------------------------------------------------------------------------
(* Quitting, and all together.                                             *)

\* quit_ex begins, and http_terminate waits for the threads.
LEMMA QuitStep ==
    ASSUME Inv, (\E t \in Threads : Quit(t)) \/ Join
    PROVE  Inv'
<1>1. UNCHANGED <<qvars, spin, pvars, wvars>>
    BY DEF Quit, Join
<1>2. qpc' \in {"push", "join", "exited"} /\ qhost' \in Threads \cup {None} /\ qleft' \in 0..NWorkers
    BY Finite DEF Quit, Join, Inv, TypeOK, Bounds, NWorkers
<1>3. TypeOK'
    BY <1>1, <1>2 DEF Inv, TypeOK, qvars, pvars, wvars, NWorkers
<1>4. QueueExclusive' /\ ItemsOK'
    BY <1>1 DEF Inv, QueueExclusive, ItemsOK, pvars, wvars
<1>5. TokensMatch'
    BY <1>1 DEF Inv, TokensMatch, InFetch, InPost, qvars, pvars, wvars
<1>6. Bounds'
    <2>1. ppc["quit"] = "idle"
        BY DEF Quit, Join, Inv, Bounds
    <2>2. Pushed' = Pushed /\ (qpc' = "join" => qleft' >= 1)
        BY <1>1, <2>1, Finite DEF Quit, Join, Pushed, pvars, Inv, TypeOK, Bounds, NWorkers
    <2> QED
        BY <1>1, <2>1, <2>2 DEF Inv, Bounds, qvars, pvars
<1> QED
    BY <1>3, <1>4, <1>5, <1>6 DEF Inv

LEMMA InitInv == Init => Inv
<1> SUFFICES ASSUME Init PROVE Inv
    OBVIOUS
<1>1. TypeOK
    <2>1. queue \in Seq(Requests \cup {Null}) /\ alen \in Nat /\ sem \in Nat
        BY QueueAssumption DEF Init
    <2>2. /\ ppc \in [Producers -> {"idle", "locked", "post"}]
          /\ pitem \in [Producers -> Requests \cup {Null, None}]
          /\ wr \in [Workers -> Requests \cup {None}]
        BY DEF Init
    <2>3. wpc = [w \in Workers |-> "init"] /\ qleft \in 0..NWorkers
        BY Finite DEF Init
    <2> QED
        BY <2>1, <2>2, <2>3 DEF Init, TypeOK
<1>2. QueueExclusive /\ ItemsOK
    BY Names DEF Init, QueueExclusive, ItemsOK
<1>3. TokensMatch
    <2>1. InFetch = {} /\ InPost = {}
        BY DEF Init, InFetch, InPost
    <2> QED
        BY <2>1, FS_EmptySet DEF Init, TokensMatch
<1>4. Bounds
    BY Names, QueueAssumption DEF Init, Bounds, Pushed
<1> QED
    BY <1>1, <1>2, <1>3, <1>4 DEF Inv

LEMMA NextInv ==
    ASSUME Inv, [Next]_vars
    PROVE  Inv'
<1> USE Names
<1>1. ASSUME NEW r \in Requests, Submit(r) PROVE Inv'
    BY <1>1, PushLockStep DEF Submit
<1>2. CASE SubmitUnlock \/ StopUnlock
    BY <1>2, PushUnlockStep DEF SubmitUnlock, StopUnlock
<1>3. CASE SubmitPost
    BY <1>3, PostStep DEF SubmitPost
<1>4. CASE StopPost
    BY <1>4, PostStep DEF StopPost
<1>5. CASE StopLock
    <2>1. qleft >= 1 /\ qpc = "push"
        BY <1>5 DEF StopLock, Inv, TypeOK
    <2> QED
        BY <1>5, <2>1, PushLockStep DEF StopLock
<1>6. ASSUME NEW w \in Workers, WorkerNext(w) PROVE Inv'
    BY <1>6, WorkerLockStep, SemWaitStep, FetchUnlockStep DEF WorkerNext
<1>7. CASE (\E t \in Threads : Quit(t)) \/ Join
    BY <1>7, QuitStep
<1>8. CASE UNCHANGED vars
    BY <1>8 DEF vars, qvars, pvars, wvars, tvars, Inv, TypeOK, QueueExclusive, TokensMatch, InFetch, InPost,
                ItemsOK, Bounds, Pushed
<1> QED
    BY <1>1, <1>2, <1>3, <1>4, <1>5, <1>6, <1>7, <1>8 DEF Next, EventNext, QuitNext, Exited

-----------------------------------------------------------------------------
\* The inductive invariant of the hand-over holds in every behaviour,
\* wherever signals interrupt threads.
THEOREM QueueInv == Spec => []Inv
<1>1. Inv /\ [Next]_vars => Inv'
    BY NextInv
<1> QED
    BY InitInv, <1>1, PTL DEF Spec

\* Type correctness of the queue, the semaphore, the lock and the threads.
THEOREM QueueTypeOK == Spec => []TypeOK
<1>1. Inv => TypeOK
    BY DEF Inv
<1> QED
    BY QueueInv, <1>1, PTL

\* spin_queue_atomic excludes: whoever is between lock and unlock holds it.
THEOREM QueueLocked == Spec => []QueueExclusive
<1>1. Inv => QueueExclusive
    BY DEF Inv
<1> QED
    BY QueueInv, <1>1, PTL

\* Semaphore tokens, fetches and posts under way account for every entry.
THEOREM QueueTokens == Spec => []TokensMatch
<1>1. Inv => TokensMatch
    BY DEF Inv
<1> QED
    BY QueueInv, <1>1, PTL

\* pqueue_fetch never finds the queue empty and reads inside the array, for
\* every load within LoadAssumption.
THEOREM QueueFetches == Spec => []FetchInBounds
<1>1. Inv => FetchInBounds
    <2> SUFFICES ASSUME Inv, NEW w \in Workers, wpc[w] = "locked"
                 PROVE  LET n == Len(queue) - 1
                        IN  n >= 0 /\ n < (IF n > Reserved THEN n ELSE alen)
        BY DEF FetchInBounds
    <2>1. Len(queue) >= 1 /\ Len(queue) \in Nat
        BY NonEmpty DEF Inv, TypeOK
    <2>2. Pushed \in Nat /\ Pushed <= NWorkers
        BY Finite DEF Inv, TypeOK, Bounds, Pushed
    <2>3. Len(queue) <= Reserved + 1
        BY <2>1, <2>2, Finite, QueueAssumption, LoadAssumption DEF Inv, Bounds, NWorkers
    <2> QED
        BY <2>1, <2>3, QueueAssumption DEF Inv, Bounds, TypeOK
<1> QED
    BY QueueInv, <1>1, PTL

-----------------------------------------------------------------------------
(* The hand-over as a task pool.                                           *)

\* A worker has a request exactly while it runs the handler.
HasOne == \A w \in Workers : wr[w] # None <=> wpc[w] = "run"

LEMMA HasOneNext ==
    ASSUME Inv, HasOne, [Next]_vars
    PROVE  HasOne'
<1> USE Names
<1>1. ASSUME NEW w \in Workers, NEW to, NEW x, wpc' = [wpc EXCEPT ![w] = to], wr' = [wr EXCEPT ![w] = x],
             x # None <=> to = "run"
      PROVE  HasOne'
    BY <1>1 DEF HasOne, Inv, TypeOK
<1>2. CASE UNCHANGED wvars
    BY <1>2 DEF HasOne, wvars
<1>3. ASSUME NEW w \in Workers, WorkerNext(w) PROVE HasOne'
    <2>1. CASE Handled(w)
        BY <1>1, <2>1, Zenon DEF Handled, Step
    <2>2. CASE FetchUnlock(w)
        <3>1. PICK r : r = queue[Len(queue)]
            OBVIOUS
        <3>2. r \in Requests \cup {Null}
            <4>1. Len(queue) \in 1..Len(queue)
                BY <2>2, NonEmpty DEF FetchUnlock, Step, Inv, TypeOK
            <4> QED
                BY <3>1, <4>1, ElementOfSeq DEF Inv, TypeOK
        <3>3. /\ wpc' = [wpc EXCEPT ![w] = IF r = Null THEN "exit" ELSE "run"]
              /\ wr' = [wr EXCEPT ![w] = IF r = Null THEN None ELSE r]
            BY <2>2, <3>1, Zenon DEF FetchUnlock, Step
        <3>4. CASE r = Null
            BY <1>1, <3>3, <3>4, Zenon
        <3>5. CASE r # Null
            <4>1. r # None
                BY <3>2, <3>5
            <4> QED
                BY <1>1, <3>3, <3>5, <4>1, Zenon
        <3> QED
            BY <3>4, <3>5
    <2>3. CASE InitLock(w) \/ InitUnlock(w) \/ SemWait(w) \/ FetchLock(w) \/ ExitLock(w) \/ ExitUnlock(w)
        <3>1. PICK to : wpc' = [wpc EXCEPT ![w] = to] /\ to # "run" /\ wpc[w] # "run" /\ wr' = wr
            BY <2>3 DEF InitLock, InitUnlock, SemWait, FetchLock, ExitLock, ExitUnlock, Step
        <3> QED
            BY <3>1 DEF HasOne, Inv, TypeOK
    <2> QED
        BY <1>3, <2>1, <2>2, <2>3 DEF WorkerNext
<1>4. CASE EventNext \/ (\E t \in Threads : Quit(t)) \/ QuitNext \/ Exited \/ UNCHANGED vars
    <2>1. UNCHANGED wvars
        BY <1>4, Zenon DEF EventNext, Submit, SubmitUnlock, SubmitPost, PushUnlock, PushPost, Quit, QuitNext,
            StopLock, StopUnlock, StopPost, Join, Exited, vars
    <2> QED
        BY <1>2, <2>1
<1> QED
    BY <1>3, <1>4 DEF Next

\* Where an item is in a queue, and how often.
Places(q, r) == {i \in DOMAIN q : q[i] = r}
Waiting(q) == [r \in Requests |-> Cardinality(Places(q, r))]

LEMMA WaitingType ==
    ASSUME NEW q \in Seq(Requests \cup {Null}), NEW r
    PROVE  IsFiniteSet(Places(q, r)) /\ Cardinality(Places(q, r)) \in Nat
<1>1. IsFiniteSet(1..Len(q))
    BY FS_Interval, LenProperties
<1>2. Places(q, r) \subseteq 1..Len(q)
    BY LenProperties DEF Places
<1> QED
    BY <1>1, <1>2, FS_Subset, FS_CardinalityType

\* An item more at the end counts once, for itself.
LEMMA WaitingMore ==
    ASSUME NEW q \in Seq(Requests \cup {Null}), NEW s \in Seq(Requests \cup {Null}), NEW x,
           Len(s) = Len(q) + 1, \A i \in 1..Len(q) : s[i] = q[i], s[Len(q) + 1] = x
    PROVE  /\ x \in Requests => Waiting(s) = [Waiting(q) EXCEPT ![x] = Waiting(q)[x] + 1]
           /\ x \notin Requests => Waiting(s) = Waiting(q)
<1>1. PICK n \in Nat : n = Len(q) /\ DOMAIN q = 1..n /\ DOMAIN s = 1..(n + 1)
    BY LenProperties
<1>2. \A r \in Requests : r # x => Places(s, r) = Places(q, r)
    BY <1>1 DEF Places
<1>3. x \in Requests => Cardinality(Places(s, x)) = Cardinality(Places(q, x)) + 1
    <2>1. Places(s, x) = Places(q, x) \cup {n + 1} /\ n + 1 \notin Places(q, x)
        BY <1>1 DEF Places
    <2>2. PICK A, m : A = Places(q, x) /\ m = n + 1
        BY Zenon
    <2>3. IsFiniteSet(A) /\ m \notin A
        BY <2>1, <2>2, WaitingType, Zenon
    <2>4. Cardinality(A \cup {m}) = Cardinality(A) + 1
        BY <2>3, FS_AddElement, ZenonT(60)
    <2> QED
        BY <2>1, <2>2, <2>4, Zenon
<1> QED
    BY <1>2, <1>3, Zenon DEF Waiting

\* What one step of the hand-over is to those who use it.
LEMMA PoolStep ==
    ASSUME Inv, HasOne, [Next]_vars
    PROVE  \/ \E r \in Requests : Waiting(queue)' = [Waiting(queue) EXCEPT ![r] = Waiting(queue)[r] + 1] /\ wr' = wr
           \/ \E w \in Workers : wr[w] # None /\ wr' = [wr EXCEPT ![w] = None] /\ Waiting(queue)' = Waiting(queue)
           \/ \E w \in Workers, r \in Requests :
                  /\ wr[w] = None /\ Waiting(queue)[r] > 0
                  /\ Waiting(queue)' = [Waiting(queue) EXCEPT ![r] = Waiting(queue)[r] - 1]
                  /\ wr' = [wr EXCEPT ![w] = r]
           \/ Waiting(queue)' = Waiting(queue) /\ wr' = wr
<1> USE Names
<1>1. queue \in Seq(Requests \cup {Null})
    BY DEF Inv, TypeOK
<1>2. ASSUME NEW p \in Producers, PushUnlock(p)
      PROVE  /\ wr' = wr
             /\ \/ \E r \in Requests : Waiting(queue)' = [Waiting(queue) EXCEPT ![r] = Waiting(queue)[r] + 1]
                \/ Waiting(queue)' = Waiting(queue)
    <2>1. PICK x : x = pitem[p]
        OBVIOUS
    <2>2. x \in Requests \cup {Null} /\ queue' = Append(queue, x) /\ wr' = wr
        BY <1>2, <2>1 DEF Inv, ItemsOK, PushUnlock, wvars
    <2>3. PICK s : s = Append(queue, x)
        BY Zenon
    <2>4. /\ s \in Seq(Requests \cup {Null}) /\ Len(s) = Len(queue) + 1
          /\ \A i \in 1..Len(queue) : s[i] = queue[i]
          /\ s[Len(queue) + 1] = x
        BY <1>1, <2>2, <2>3, AppendProperties
    <2>5. /\ x \in Requests => Waiting(s) = [Waiting(queue) EXCEPT ![x] = Waiting(queue)[x] + 1]
          /\ x \notin Requests => Waiting(s) = Waiting(queue)
        BY <1>1, <2>4, WaitingMore
    <2>6. Waiting(queue)' = Waiting(s)
        BY <2>2, <2>3 DEF Waiting, Places
    <2> QED
        BY <2>2, <2>5, <2>6, Zenon
<1>3. ASSUME NEW w \in Workers, FetchUnlock(w)
      PROVE  \/ \E r \in Requests :
                    /\ wr[w] = None /\ Waiting(queue)[r] > 0
                    /\ Waiting(queue)' = [Waiting(queue) EXCEPT ![r] = Waiting(queue)[r] - 1]
                    /\ wr' = [wr EXCEPT ![w] = r]
             \/ Waiting(queue)' = Waiting(queue) /\ wr' = wr
    <2>1. PICK n, x : n = Len(queue) - 1 /\ x = queue[Len(queue)]
        OBVIOUS
    <2>2. n \in Nat /\ Len(queue) = n + 1 /\ wpc[w] = "locked"
        BY <1>3, <2>1, NonEmpty DEF FetchUnlock, Step, Inv, TypeOK
    <2>3. x \in Requests \cup {Null}
        BY <1>1, <2>1, <2>2, ElementOfSeq
    <2>4. queue' = SubSeq(queue, 1, n) /\ wr' = [wr EXCEPT ![w] = IF x = Null THEN None ELSE x]
        BY <1>3, <2>1 DEF FetchUnlock
    <2>5. wr[w] = None /\ Null \notin Requests
        BY <2>2, QueueAssumption DEF HasOne
    <2>6. PICK s : s = SubSeq(queue, 1, n)
        BY Zenon
    <2>7. s \in Seq(Requests \cup {Null}) /\ Len(s) = n /\ \A i \in 1..n : s[i] = queue[i]
        <3>1. \A i \in 1..n : queue[i] \in Requests \cup {Null}
            BY <1>1, <2>2, ElementOfSeq
        <3> QED
            BY <2>2, <2>6, <3>1, SubSeqProperties
    <2>8. /\ x \in Requests => Waiting(queue) = [Waiting(s) EXCEPT ![x] = Waiting(s)[x] + 1]
          /\ x \notin Requests => Waiting(queue) = Waiting(s)
        <3>1. Len(queue) = Len(s) + 1 /\ (\A i \in 1..Len(s) : queue[i] = s[i]) /\ queue[Len(s) + 1] = x
            BY <2>1, <2>2, <2>7
        <3> QED
            BY <1>1, <2>7, <3>1, WaitingMore
    <2>9. Waiting(queue)' = Waiting(s)
        BY <2>4, <2>6 DEF Waiting, Places
    <2>10. CASE x \in Requests
        <3>1. PICK P, Q : P = Waiting(s) /\ Q = Waiting(queue)
            OBVIOUS
        <3>2. P = [r \in Requests |-> P[r]] /\ P[x] \in Nat /\ Q = [P EXCEPT ![x] = P[x] + 1]
            BY <2>7, <2>8, <2>10, <3>1, WaitingType DEF Waiting
        <3>3. Q[x] > 0 /\ P = [Q EXCEPT ![x] = Q[x] - 1]
            BY <2>10, <3>2
        <3>4. wr' = [wr EXCEPT ![w] = x]
            BY <2>4, <2>5, <2>10, Zenon
        <3> QED
            BY <2>5, <2>9, <2>10, <3>1, <3>3, <3>4, ZenonT(60)
    <2>11. CASE x = Null
        <3>1. wr' = wr
            BY <2>4, <2>5, <2>11 DEF Inv, TypeOK
        <3> QED
            BY <2>5, <2>8, <2>9, <2>11, <3>1
    <2> QED
        BY <2>3, <2>10, <2>11
<1>4. ASSUME NEW w \in Workers, Handled(w)
      PROVE  wr[w] # None /\ wr' = [wr EXCEPT ![w] = None] /\ Waiting(queue)' = Waiting(queue)
    BY <1>4 DEF Handled, Step, HasOne, qvars, Waiting, Places
<1>5. ASSUME queue' = queue PROVE Waiting(queue)' = Waiting(queue)
    BY <1>5 DEF Waiting, Places
<1>6. CASE SubmitUnlock \/ StopUnlock
    BY <1>2, <1>6, Zenon DEF SubmitUnlock, StopUnlock
<1>7. CASE \E w \in Workers : FetchUnlock(w) \/ Handled(w)
    BY <1>3, <1>4, <1>7, Zenon
<1>8. CASE UNCHANGED <<queue, wr>>
    BY <1>5, <1>8
<1>9. \/ SubmitUnlock \/ StopUnlock \/ \E w \in Workers : FetchUnlock(w) \/ Handled(w)
      \/ UNCHANGED <<queue, wr>>
    BY Zenon DEF Next, vars, EventNext, Submit, SubmitPost, PushPost, WorkerNext, InitLock, InitUnlock, SemWait, FetchLock,
        ExitLock, ExitUnlock, Quit, QuitNext, StopLock, StopPost, Join, Exited, qvars, wvars
<1> QED
    BY <1>6, <1>7, <1>8, <1>9

\* The hand-over implements a task pool: whatever the threads and the quitting
\* process do in between, a request that is pushed is taken by one worker, once,
\* and nothing else is.
THEOREM QueueRefines == Spec => IsTaskPool
<1>1. Init => Pool!Init
    <2> SUFFICES ASSUME Init PROVE Pool!Init
        OBVIOUS
    <2>1. \A r \in Requests : Cardinality({i \in DOMAIN queue : queue[i] = r}) = 0
        <3>1. \A r \in Requests : {i \in DOMAIN queue : queue[i] = r} = {}
            BY DEF Init
        <3> QED
            BY <3>1, FS_EmptySet
    <2> QED
        BY <2>1 DEF Init, Pool!Init
<1>2. Init => HasOne
    BY DEF Init, HasOne
<1>3. Inv /\ HasOne /\ [Next]_vars => HasOne'
    BY HasOneNext
<1>4. Inv /\ HasOne /\ [Next]_vars => [Pool!Next]_(Pool!vars)
    <2> SUFFICES ASSUME Inv, HasOne, [Next]_vars PROVE [Pool!Next]_(Pool!vars)
        OBVIOUS
    <2> QED
        BY PoolStep, ZenonT(60) DEF Pool!Next, Pool!vars, Pool!Submit, Pool!Take, Pool!Finish, Waiting, Places
<1> QED
    BY <1>1, <1>2, <1>3, <1>4, QueueInv, PTL DEF Spec, IsTaskPool, Pool!Spec

-----------------------------------------------------------------------------
(* KqueueLoop: its invariant.                                              *)

KqEv == [fd : KqFds \cup {0}, filter : {"read", "write"}, conn : Nat]

KqTyped ==
    /\ kconn \in [KqFds -> Nat] /\ kreq \in [KqFds -> {"none", "served", "worker", "blocked"}]
    /\ kread \in [KqFds -> BOOLEAN] /\ kwrite \in [KqFds -> BOOLEAN]
    /\ knext \in Nat \ {0} /\ kbacklog \in Nat
    /\ kbatch \in Seq(KqEv)

\* A closed descriptor has neither filters nor a request; a write filter is
\* left by a blocked write; reading is off while a worker has the request.
KqSocket(f) ==
    /\ kconn[f] = 0 => ~kread[f] /\ ~kwrite[f] /\ kreq[f] = "none"
    /\ kwrite[f] => kconn[f] \in kblocked
    /\ kreq[f] = "worker" => ~kread[f]
KqSockets == \A f \in KqFds : KqSocket(f)

\* An event that waits in the batch: a worker does not have what is to be
\* read, and the descriptor is still that of the connection, or its write
\* was blocked.
KqEventOK(e) ==
    e.fd # 0 =>
        /\ e.conn # 0
        /\ e.filter = "write" => e.conn \in kblocked /\ (kreq[e.fd] = "worker" => kconn[e.fd] \in kblocked)
        /\ e.filter = "read" => kreq[e.fd] # "worker" /\ (kconn[e.fd] # e.conn => e.conn \in kblocked)

\* Two events of one descriptor: the first of them has not been handled.
KqPairOK(d, e) ==
    /\ d.fd = e.fd => d.filter # e.filter
    /\ d.fd = e.fd /\ d.fd # 0 => kconn[d.fd] = d.conn
KqEvents ==
    /\ \A i \in 1..Len(kbatch) : KqEventOK(kbatch[i])
    /\ \A i, j \in 1..Len(kbatch) : i # j => KqPairOK(kbatch[i], kbatch[j])

KqInv == KqTyped /\ KqSockets /\ KqEvents /\ KqueueSound

LEMMA KqInvInit == KqInit => KqInv
<1> SUFFICES ASSUME KqInit PROVE KqInv
    OBVIOUS
<1>1. KqTyped
    <2>1. <<>> \in Seq(KqEv)
        BY EmptySeq
    <2> QED
        BY <2>1 DEF KqInit, KqTyped
<1>2. KqSockets
    BY DEF KqInit, KqSockets, KqSocket
<1>3. KqEvents
    <2>1. Len(kbatch) = 0
        BY DEF KqInit
    <2> QED
        BY <2>1 DEF KqEvents
<1>4. KqueueSound
    BY Zenon DEF KqInit, KqueueSound, WorkersAloneUnlessBlocked, StrayOnlyIfBlocked
<1> QED
    BY <1>1, <1>2, <1>3, <1>4 DEF KqInv

-----------------------------------------------------------------------------
(* Batches.                                                                *)

LEMMA KqTail ==
    ASSUME KqTyped, kbatch # <<>>, kbatch' = Tail(kbatch)
    PROVE  /\ kbatch' \in Seq(KqEv) /\ Head(kbatch) = kbatch[1] /\ kbatch[1] \in KqEv
           /\ 1 \in 1..Len(kbatch)
           /\ \A i \in 1..Len(kbatch') : i + 1 \in 1..Len(kbatch) /\ i + 1 # 1 /\ kbatch'[i] = kbatch[i + 1]
<1>1. PICK q : q = kbatch /\ q \in Seq(KqEv) /\ q # <<>>
    BY Zenon DEF KqTyped
<1>2. Tail(q) \in Seq(KqEv) /\ Len(q) \in Nat /\ Len(q) > 0 /\ Len(Tail(q)) = Len(q) - 1
      /\ \A i \in 1..Len(Tail(q)) : Tail(q)[i] = q[i + 1]
    BY <1>1, HeadTailProperties
<1>3. Head(q) = q[1] /\ q[1] \in KqEv
    BY <1>1, <1>2
<1>4. 1 \in 1..Len(q) /\ \A i \in 1..Len(Tail(q)) : i + 1 \in 1..Len(q) /\ i + 1 # 1
    BY <1>2
<1> QED
    BY <1>1, <1>2, <1>3, <1>4, Zenon

\* A step that changes only what belongs to descriptor f.
KqOthers(f) ==
    /\ \A g \in KqFds : g # f => kconn'[g] = kconn[g] /\ kreq'[g] = kreq[g] /\ kread'[g] = kread[g] /\ kwrite'[g] = kwrite[g]
    /\ kblocked \subseteq kblocked'

LEMMA KqSocketsStep ==
    ASSUME KqSockets, NEW f \in KqFds, KqOthers(f), KqSocket(f)'
    PROVE  KqSockets'
<1>1. ASSUME NEW g \in KqFds, g # f PROVE KqSocket(g)'
    <2>1. /\ kconn'[g] = kconn[g] /\ kreq'[g] = kreq[g] /\ kread'[g] = kread[g] /\ kwrite'[g] = kwrite[g]
          /\ kblocked \subseteq kblocked'
        BY <1>1, Zenon DEF KqOthers
    <2> QED
        BY <1>1, <2>1, Zenon DEF KqSockets, KqSocket
<1> QED
    BY <1>1, Zenon DEF KqSockets

\* The events of other descriptors are as good as they were.
LEMMA KqOtherEvents ==
    ASSUME NEW f \in KqFds, KqOthers(f), NEW e \in KqEv, e.fd # f, KqEventOK(e)
    PROVE  KqEventOK(e)'
<1>0. e.fd \in KqFds \cup {0}
    BY DEF KqEv
<1>1. CASE e.fd = 0
    BY <1>1, Zenon DEF KqEventOK
<1>2. CASE e.fd # 0
    <2>1. kconn'[e.fd] = kconn[e.fd] /\ kreq'[e.fd] = kreq[e.fd] /\ kblocked \subseteq kblocked'
        BY <1>0, <1>2, Zenon DEF KqOthers
    <2> QED
        BY <2>1, Zenon DEF KqEventOK
<1> QED
    BY <1>1, <1>2

LEMMA KqOtherPairs ==
    ASSUME NEW f \in KqFds, KqOthers(f), NEW d \in KqEv, NEW e \in KqEv, d.fd # f, KqPairOK(d, e)
    PROVE  KqPairOK(d, e)'
<1>0. d.fd \in KqFds \cup {0}
    BY DEF KqEv
<1>1. d.fd # 0 => kconn'[d.fd] = kconn[d.fd]
    BY <1>0, Zenon DEF KqOthers
<1> QED
    BY <1>1, Zenon DEF KqPairOK

-----------------------------------------------------------------------------
(* What can become of one request.                                         *)

LEMMA KqOutcomes ==
    ASSUME KqTyped, KqSockets, NEW f \in KqFds,
           \/ KqClose(f)
           \/ KqNothing
           \/ kconn[f] # 0 /\ (KqKeep(f) \/ KqBlock(f) \/ KqHandOver(f) \/ KqMore(f))
    PROVE  /\ kconn' \in [KqFds -> Nat] /\ kreq' \in [KqFds -> {"none", "served", "worker", "blocked"}]
           /\ kread' \in [KqFds -> BOOLEAN] /\ kwrite' \in [KqFds -> BOOLEAN]
           /\ KqOthers(f) /\ KqSocket(f)'
           /\ kreq'[f] = "worker" => kconn'[f] = kconn[f] /\ (KqHandOver(f) \/ KqNothing)
<1>0. kconn \in [KqFds -> Nat] /\ kread \in [KqFds -> BOOLEAN] /\ kwrite \in [KqFds -> BOOLEAN]
      /\ kreq \in [KqFds -> {"none", "served", "worker", "blocked"}] /\ KqSocket(f)
    BY Zenon DEF KqTyped, KqSockets
<1>1. CASE KqClose(f)
    BY <1>0, <1>1 DEF KqClose, KqOthers, KqSocket
<1>2. CASE KqNothing
    <2>1. kconn' = kconn /\ kread' = kread /\ kwrite' = kwrite /\ kreq' = kreq /\ kblocked' = kblocked
        BY <1>2, Zenon DEF KqNothing
    <2>2. KqOthers(f)
        BY <2>1, Zenon DEF KqOthers
    <2>3. KqSocket(f)'
        BY <1>0, <2>1, Zenon DEF KqSocket
    <2> QED
        BY <1>0, <1>2, <2>1, <2>2, <2>3, Zenon
<1>3. CASE kconn[f] # 0 /\ KqKeep(f)
    BY <1>0, <1>3 DEF KqKeep, KqOthers, KqSocket
<1>4. CASE kconn[f] # 0 /\ KqBlock(f)
    BY <1>0, <1>4 DEF KqBlock, KqOthers, KqSocket
<1>5. CASE kconn[f] # 0 /\ KqHandOver(f)
    BY <1>0, <1>5 DEF KqHandOver, KqOthers, KqSocket
<1>6. CASE kconn[f] # 0 /\ KqMore(f)
    BY <1>0, <1>6 DEF KqMore, KqOthers, KqSocket
<1> QED
    BY <1>1, <1>2, <1>3, <1>4, <1>5, <1>6, ZenonT(60)

\* A worker ends its request: nothing in the batch is to be read from its
\* descriptor.
LEMMA KqWorkerStep ==
    ASSUME KqInv, NEW f \in KqFds, KqWorker(f)
    PROVE  KqInv'
<1>0. KqTyped /\ KqSockets /\ KqEvents /\ KqueueSound
    BY DEF KqInv
<1>1. kreq[f] = "worker" /\ kbatch' = kbatch /\ kbacklog' = kbacklog /\ knext' = knext /\ kended' = kended /\ kstray' = kstray
    BY Zenon DEF KqWorker
<1>2. kconn[f] # 0 /\ (KqClose(f) \/ KqKeep(f) \/ KqBlock(f))
    <2>1. KqClose(f) \/ KqKeep(f) \/ KqBlock(f)
        BY ZenonT(60) DEF KqWorker
    <2>2. kconn[f] # 0
        BY <1>0, <1>1 DEF KqSockets, KqSocket
    <2> QED
        BY <2>1, <2>2, Zenon
<1>3. /\ kconn' \in [KqFds -> Nat] /\ kreq' \in [KqFds -> {"none", "served", "worker", "blocked"}]
      /\ kread' \in [KqFds -> BOOLEAN] /\ kwrite' \in [KqFds -> BOOLEAN]
      /\ KqOthers(f) /\ KqSocket(f)'
    BY <1>0, <1>2, KqOutcomes, ZenonT(60)
<1>4. kreq'[f] # "worker"
    <2>1. f \in DOMAIN kreq
        BY <1>0 DEF KqTyped
    <2>2. kreq' = [kreq EXCEPT ![f] = "none"] \/ kreq' = [kreq EXCEPT ![f] = "blocked"]
        BY <1>2, Zenon DEF KqClose, KqKeep, KqBlock
    <2> QED
        BY <2>1, <2>2
<1>5. KqTyped'
    BY <1>0, <1>1, <1>3, Zenon DEF KqTyped, KqEv
<1>6. KqSockets'
    BY <1>0, <1>3, KqSocketsStep, ZenonT(60)
<1>7. \A i \in 1..Len(kbatch) : kbatch[i] \in KqEv /\ KqEventOK(kbatch[i])
    <2>1. kbatch \in Seq(KqEv)
        BY <1>0, Zenon DEF KqTyped
    <2>2. \A i \in 1..Len(kbatch) : kbatch[i] \in KqEv
        BY <2>1
    <2> QED
        BY <1>0, <2>2, Zenon DEF KqEvents
<1>8. \A i \in 1..Len(kbatch) : kbatch[i].fd = f => kbatch[i].filter = "write"
    <2>1. ASSUME NEW e \in KqEv, KqEventOK(e), e.fd = f PROVE e.filter = "write"
        BY <1>1, <2>1, KqAssumption DEF KqEv, KqEventOK
    <2> QED
        BY <1>7, <2>1, Zenon
<1>9. ASSUME NEW i \in 1..Len(kbatch) PROVE KqEventOK(kbatch[i])'
    <2>1. PICK e \in KqEv : e = kbatch[i] /\ KqEventOK(e) /\ (e.fd = f => e.filter = "write")
        BY <1>7, <1>8, <1>9, Zenon
    <2>2. CASE e.fd # f
        <3>1. KqEventOK(e)'
            BY <1>3, <2>1, <2>2, KqOtherEvents, ZenonT(60)
        <3> QED
            BY <1>1, <2>1, <3>1, Zenon DEF KqEventOK
    <2>3. CASE e.fd = f
        <3>1. e.filter = "write" /\ e.filter # "read" /\ kblocked \subseteq kblocked'
            BY <1>3, <2>1, <2>3 DEF KqOthers
        <3> QED
            BY <1>1, <1>4, <2>1, <2>3, <3>1, ZenonT(60) DEF KqEventOK
    <2> QED
        BY <2>2, <2>3
<1>10. ASSUME NEW i \in 1..Len(kbatch), NEW j \in 1..Len(kbatch), i # j PROVE KqPairOK(kbatch[i], kbatch[j])'
    <2>1. PICK d \in KqEv, e \in KqEv : d = kbatch[i] /\ e = kbatch[j]
        BY <1>7, <1>10, Zenon
    <2>2. KqPairOK(d, e)
        BY <1>0, <1>10, <2>1, Zenon DEF KqEvents
    <2>3. d.fd # f \/ ~(d.fd = e.fd)
        BY <1>8, <1>10, <2>1, <2>2, Zenon DEF KqPairOK
    <2>4. CASE d.fd # f
        <3>1. KqPairOK(d, e)'
            BY <1>3, <2>2, <2>4, KqOtherPairs, ZenonT(60)
        <3> QED
            BY <1>1, <2>1, <3>1, Zenon DEF KqPairOK
    <2>5. CASE ~(d.fd = e.fd)
        BY <1>1, <2>1, <2>5, Zenon DEF KqPairOK
    <2> QED
        BY <2>3, <2>4, <2>5
<1>11. KqEvents'
    BY <1>1, <1>9, <1>10, Zenon DEF KqEvents
<1>12. KqueueSound'
    <2>1. kblocked \subseteq kblocked'
        BY <1>3, Zenon DEF KqOthers
    <2> QED
        BY <1>0, <1>1, <2>1, Zenon DEF KqueueSound, WorkersAloneUnlessBlocked, StrayOnlyIfBlocked
<1> QED
    BY <1>5, <1>6, <1>11, <1>12, Zenon DEF KqInv

\* The event thread handles the first event of the batch, on descriptor f.
LEMMA KqEventStep ==
    ASSUME KqInv, KqEvent
    PROVE  KqInv'
<1>0. KqTyped /\ KqSockets /\ KqEvents /\ KqueueSound
    BY DEF KqInv
<1>1. PICK h, f : h = Head(kbatch) /\ f = h.fd
    BY Zenon
<1>2. /\ kbatch # <<>> /\ f # 0 /\ kbatch' = Tail(kbatch) /\ kbacklog' = kbacklog /\ knext' = knext
      /\ kended' = IF kreq[f] = "worker" THEN kended \cup {kconn[f]} ELSE kended
      /\ kstray' = IF kconn[f] \notin {0, h.conn} THEN kstray \cup {h.conn} ELSE kstray
      /\ \/ h.filter = "read" /\ kconn[f] # 0 /\ KqServe(f)
         \/ KqClose(f)
         \/ h.filter = "write" /\ KqOut(f)
    BY <1>1, Zenon DEF KqEvent
<1>3. /\ kbatch' \in Seq(KqEv) /\ Head(kbatch) = kbatch[1] /\ kbatch[1] \in KqEv
      /\ 1 \in 1..Len(kbatch)
      /\ \A i \in 1..Len(kbatch') : i + 1 \in 1..Len(kbatch) /\ i + 1 # 1 /\ kbatch'[i] = kbatch[i + 1]
    BY <1>0, <1>2, KqTail, ZenonT(60)
<1>4. h \in KqEv /\ f \in KqFds /\ KqEventOK(h)
    <2>1. h \in KqEv /\ KqEventOK(h)
        BY <1>0, <1>1, <1>3, ZenonT(60) DEF KqEvents
    <2>2. f \in KqFds
        BY <1>1, <1>2, <2>1 DEF KqEv
    <2> QED
        BY <2>1, <2>2, Zenon
\* The outcomes.
<1>5. \/ KqClose(f)
      \/ KqNothing /\ kreq[f] # "worker"
      \/ kconn[f] # 0 /\ (KqKeep(f) \/ KqBlock(f) \/ (KqHandOver(f) /\ h.filter = "read") \/ KqMore(f))
    <2>1. CASE KqClose(f)
        BY <2>1
    <2>2. CASE h.filter = "read" /\ kconn[f] # 0 /\ KqServe(f)
        <3>1. kreq[f] # "worker"
            BY <1>1, <1>2, <1>4, <2>2, ZenonT(60) DEF KqEventOK
        <3> QED
            BY <2>2, <3>1, Zenon DEF KqServe
    <2>3. CASE h.filter = "write" /\ KqOut(f)
        <3>1. kreq[f] \in {"none", "served", "worker", "blocked"} /\ (kconn[f] = 0 => kreq[f] = "none")
            BY <1>0, <1>4 DEF KqTyped, KqSockets, KqSocket
        <3>2. CASE kreq[f] = "none"
            <4>1. KqNothing
                BY <2>3, <3>2 DEF KqOut
            <4>2. kreq[f] # "worker"
                BY <3>2
            <4> QED
                BY <4>1, <4>2, Zenon
        <3>3. CASE kreq[f] = "blocked"
            <4>1. KqClose(f) \/ KqKeep(f) \/ KqNothing
                BY <2>3, <3>3 DEF KqOut
            <4>2. kreq[f] # "worker" /\ kconn[f] # 0
                BY <3>1, <3>3
            <4> QED
                BY <4>1, <4>2, Zenon
        <3>4. CASE kreq[f] \in {"worker", "served"}
            <4>1. KqClose(f) \/ KqKeep(f)
                <5>1. ~(kreq[f] = "none") /\ ~(kreq[f] = "blocked") /\ kreq[f] \in {"worker", "served"}
                    BY <3>4
                <5> QED
                    BY <2>3, <5>1, Zenon DEF KqOut
            <4>2. kconn[f] # 0
                BY <3>1, <3>4
            <4> QED
                BY <4>1, <4>2, Zenon
        <3> QED
            BY <3>1, <3>2, <3>3, <3>4
    <2> QED
        BY <1>2, <2>1, <2>2, <2>3, ZenonT(60)
<1>6. /\ kconn' \in [KqFds -> Nat] /\ kreq' \in [KqFds -> {"none", "served", "worker", "blocked"}]
      /\ kread' \in [KqFds -> BOOLEAN] /\ kwrite' \in [KqFds -> BOOLEAN]
      /\ KqOthers(f) /\ KqSocket(f)'
      /\ kreq'[f] = "worker" => kconn'[f] = kconn[f]
    BY <1>0, <1>4, <1>5, KqOutcomes, ZenonT(60)
<1>7. h.filter = "write" => kreq'[f] # "worker"
    <2>0. f \in DOMAIN kreq
        BY <1>0, <1>4 DEF KqTyped
    <2>1. \/ kreq' = [kreq EXCEPT ![f] = "none"] \/ kreq' = [kreq EXCEPT ![f] = "blocked"] \/ kreq' = [kreq EXCEPT ![f] = "served"]
          \/ kreq' = kreq /\ kreq[f] # "worker"
          \/ h.filter = "read"
        BY <1>5, Zenon DEF KqClose, KqKeep, KqBlock, KqMore, KqNothing
    <2> QED
        BY <2>0, <2>1
<1>8. KqTyped'
    BY <1>0, <1>2, <1>3, <1>6, Zenon DEF KqTyped, KqEv
<1>9. KqSockets'
    BY <1>0, <1>4, <1>6, KqSocketsStep, ZenonT(60)
\* The events that stay: those of f have the other filter.
<1>10. ASSUME NEW i \in 1..Len(kbatch')
       PROVE  /\ kbatch'[i] \in KqEv /\ KqEventOK(kbatch'[i])
              /\ kbatch'[i].fd = f => h.filter # kbatch'[i].filter /\ kconn[f] = h.conn /\ kconn[f] = kbatch'[i].conn
    <2>1. PICK k : k = i + 1 /\ k \in 1..Len(kbatch) /\ k # 1 /\ kbatch'[i] = kbatch[k]
        BY <1>3, <1>10, Zenon
    <2>2. kbatch[k] \in KqEv
        <3>1. kbatch \in Seq(KqEv)
            BY <1>0, Zenon DEF KqTyped
        <3> QED
            BY <2>1, <3>1
    <2>3. KqEventOK(kbatch[k]) /\ KqPairOK(h, kbatch[k]) /\ KqPairOK(kbatch[k], h)
        BY <1>0, <1>1, <1>3, <2>1, Zenon DEF KqEvents
    <2> QED
        BY <1>1, <1>2, <2>1, <2>2, <2>3, ZenonT(60) DEF KqPairOK
<1>11. ASSUME NEW i \in 1..Len(kbatch') PROVE KqEventOK(kbatch[i])'
    <2>1. PICK e \in KqEv : e = kbatch'[i] /\ KqEventOK(e) /\ (e.fd = f => h.filter # e.filter /\ kconn[f] = h.conn /\ kconn[f] = e.conn)
        BY <1>10, <1>11, Zenon
    <2>2. CASE e.fd # f
        <3>1. KqEventOK(e)'
            BY <1>4, <1>6, <2>1, <2>2, KqOtherEvents, ZenonT(60)
        <3> QED
            BY <2>1, <3>1, Zenon DEF KqEventOK
    <2>3. CASE e.fd = f
        <3>1. kblocked \subseteq kblocked'
            BY <1>6, Zenon DEF KqOthers
        <3>2. CASE e.filter = "write"
            <4>1. e.filter # "read"
                BY <3>2
            <4>2. e.conn # 0 /\ e.conn \in kblocked /\ kconn[f] \in kblocked
                BY <1>2, <2>1, <2>3, <3>2, Zenon DEF KqEventOK
            <4> QED
                BY <1>6, <2>1, <2>3, <3>1, <4>1, <4>2, ZenonT(60) DEF KqEventOK
        <3>3. CASE e.filter = "read"
            <4>1. h.filter = "write" /\ e.filter # "write"
                BY <1>4, <2>1, <2>3, <3>3 DEF KqEv
            <4>2. e.conn # 0 /\ h.conn \in kblocked /\ e.conn \in kblocked
                BY <1>1, <1>2, <1>4, <2>1, <2>3, <4>1, ZenonT(60) DEF KqEventOK
            <4> QED
                BY <1>7, <2>1, <2>3, <3>1, <4>1, <4>2, ZenonT(60) DEF KqEventOK
        <3> QED
            BY <3>2, <3>3 DEF KqEv
    <2> QED
        BY <2>2, <2>3
<1>12. ASSUME NEW i \in 1..Len(kbatch'), NEW j \in 1..Len(kbatch'), i # j PROVE KqPairOK(kbatch[i], kbatch[j])'
    <2>1. PICK d \in KqEv, e \in KqEv :
             /\ d = kbatch'[i] /\ e = kbatch'[j]
             /\ d.fd = f => h.filter # d.filter
             /\ e.fd = f => h.filter # e.filter
        BY <1>10, <1>12, Zenon
    <2>2. KqPairOK(d, e)
        <3>1. i + 1 \in 1..Len(kbatch) /\ j + 1 \in 1..Len(kbatch) /\ d = kbatch[i + 1] /\ e = kbatch[j + 1]
            BY <1>3, <1>12, <2>1, Zenon
        <3>2. i + 1 # j + 1
            BY <1>12
        <3> QED
            BY <1>0, <3>1, <3>2, Zenon DEF KqEvents
    <2>3. d.fd # f \/ ~(d.fd = e.fd)
        <3>1. h.filter \in {"read", "write"} /\ d.filter \in {"read", "write"} /\ e.filter \in {"read", "write"}
            BY <1>4, <2>1 DEF KqEv
        <3>2. d.fd = e.fd => d.filter # e.filter
            BY <2>2, Zenon DEF KqPairOK
        <3> QED
            BY <2>1, <3>1, <3>2
    <2>4. CASE d.fd # f
        <3>1. KqPairOK(d, e)'
            BY <1>4, <1>6, <2>2, <2>4, KqOtherPairs, ZenonT(60)
        <3> QED
            BY <2>1, <3>1, Zenon DEF KqPairOK
    <2>5. CASE ~(d.fd = e.fd)
        BY <2>1, <2>5, Zenon DEF KqPairOK
    <2> QED
        BY <2>3, <2>4, <2>5
<1>13. KqEvents'
    BY <1>11, <1>12, Zenon DEF KqEvents
<1>14. KqueueSound'
    <2>1. kblocked \subseteq kblocked'
        BY <1>6, Zenon DEF KqOthers
    <2>2. h.filter \in {"read", "write"}
        BY <1>4 DEF KqEv
    <2>3. kreq[f] = "worker" => kconn[f] \in kblocked
        BY <1>1, <1>2, <1>4, <2>2, Zenon DEF KqEventOK
    <2>4. kconn[f] \notin {0, h.conn} => h.conn \in kblocked
        BY <1>1, <1>2, <1>4, <2>2, Zenon DEF KqEventOK
    <2>5. kended' \subseteq kended \cup {kconn[f]} /\ (kreq[f] # "worker" => kended' = kended)
        BY <1>2, Zenon
    <2>6. kstray' \subseteq kstray \cup {h.conn} /\ (~(kconn[f] \notin {0, h.conn}) => kstray' = kstray)
        BY <1>2, Zenon
    <2>7. kended \subseteq kblocked /\ kstray \subseteq kblocked
        BY <1>0, Zenon DEF KqueueSound, WorkersAloneUnlessBlocked, StrayOnlyIfBlocked
    <2>8. kended' \subseteq kblocked'
        BY <2>1, <2>3, <2>5, <2>7, Zenon
    <2>9. kstray' \subseteq kblocked'
        BY <2>1, <2>4, <2>6, <2>7, ZenonT(60)
    <2> QED
        BY <2>8, <2>9, Zenon DEF KqueueSound, WorkersAloneUnlessBlocked, StrayOnlyIfBlocked
<1> QED
    BY <1>8, <1>9, <1>13, <1>14, Zenon DEF KqInv

\* The accept loop: the descriptors it takes were closed, so the events that
\* wait for them are those of connections that had a blocked write.
LEMMA KqAcceptStep ==
    ASSUME KqInv, KqAccept
    PROVE  KqInv'
<1>0. KqTyped /\ KqSockets /\ KqEvents /\ KqueueSound
    BY DEF KqInv
<1>1. PICK free : free = {f \in KqFds : kconn[f] = 0}
    BY Zenon
<1>2. PICK n : n = IF kbacklog < Cardinality(free) THEN kbacklog ELSE Cardinality(free)
    BY Zenon
<1>3. PICK took : took = {f \in free : Cardinality({g \in free : g < f}) < n}
    BY Zenon
<1>4. /\ kbatch # <<>> /\ kbatch' = Tail(kbatch)
      /\ kconn' = [f \in KqFds |-> IF f \in took THEN knext + Cardinality({g \in took : g < f}) ELSE kconn[f]]
      /\ kread' = [f \in KqFds |-> f \in took \/ kread[f]] /\ kwrite' = kwrite
      /\ knext' = knext + n /\ kbacklog' = kbacklog - n
      /\ kreq' = kreq /\ kblocked' = kblocked /\ kended' = kended /\ kstray' = kstray
    BY <1>1, <1>2, <1>3, ZenonT(60) DEF KqAccept, KqRegister
<1>5. n \in Nat /\ kbacklog - n \in Nat
    <2>1. IsFiniteSet(free)
        <3>1. free \subseteq KqFds
            BY <1>1, Zenon
        <3> QED
            BY <3>1, KqAssumption, FS_Subset, Zenon
    <2>2. Cardinality(free) \in Nat
        BY <2>1, FS_CardinalityType, Zenon
    <2>3. kbacklog \in Nat
        BY <1>0, Zenon DEF KqTyped
    <2> QED
        BY <1>2, <2>2, <2>3
<1>6. \A f \in took : f \in KqFds /\ kconn[f] = 0
    BY <1>1, <1>3, Zenon
<1>7. \A f \in took : kconn'[f] \in Nat /\ kconn'[f] # 0
    <2>1. ASSUME NEW f \in took PROVE kconn'[f] \in Nat /\ kconn'[f] # 0
        <3>1. PICK m : m = Cardinality({g \in took : g < f})
            BY Zenon
        <3>2. m \in Nat
            <4>1. {g \in took : g < f} \subseteq KqFds
                BY <1>6, Zenon
            <4>2. IsFiniteSet({g \in took : g < f})
                BY <4>1, KqAssumption, FS_Subset, Zenon
            <4> QED
                BY <3>1, <4>2, FS_CardinalityType, Zenon
        <3>3. kconn'[f] = knext + m
            BY <1>4, <1>6, <2>1, <3>1, Zenon
        <3>4. knext \in Nat \ {0}
            BY <1>0, Zenon DEF KqTyped
        <3> QED
            BY <3>2, <3>3, <3>4
    <2> QED
        BY <2>1, Zenon
<1>8. \A f \in KqFds : f \notin took => kconn'[f] = kconn[f] /\ (kread'[f] <=> kread[f])
    BY <1>4, Zenon
<1>9. /\ kbatch' \in Seq(KqEv) /\ Head(kbatch) = kbatch[1] /\ kbatch[1] \in KqEv
      /\ 1 \in 1..Len(kbatch)
      /\ \A i \in 1..Len(kbatch') : i + 1 \in 1..Len(kbatch) /\ i + 1 # 1 /\ kbatch'[i] = kbatch[i + 1]
    BY <1>0, <1>4, KqTail, ZenonT(60)
<1>10. KqTyped'
    <2>1. kconn' \in [KqFds -> Nat]
        <3>1. \A f \in KqFds : kconn'[f] \in Nat
            BY <1>0, <1>7, <1>8, Zenon DEF KqTyped
        <3>2. kconn' = [f \in KqFds |-> kconn'[f]]
            BY <1>4, Zenon
        <3> QED
            BY <3>1, <3>2, Zenon
    <2>2. kread' \in [KqFds -> BOOLEAN]
        <3>1. \A f \in KqFds : (f \in took \/ kread[f]) \in BOOLEAN
            BY Zenon
        <3> QED
            BY <1>4, <3>1, Zenon
    <2>3. knext' \in Nat \ {0} /\ kbacklog' \in Nat
        <3>1. knext \in Nat \ {0}
            BY <1>0, Zenon DEF KqTyped
        <3>2. knext' = knext + n /\ kbacklog' = kbacklog - n
            BY <1>4, Zenon
        <3> QED
            BY <1>5, <3>1, <3>2
    <2> QED
        BY <1>0, <1>4, <1>9, <2>1, <2>2, <2>3, ZenonT(60) DEF KqTyped, KqEv
<1>11. KqSockets'
    <2>1. ASSUME NEW f \in KqFds PROVE KqSocket(f)'
        <3>1. KqSocket(f)
            BY <1>0, Zenon DEF KqSockets
        <3>2. CASE f \in took
            <4>1. kconn[f] = 0 /\ kconn'[f] # 0
                BY <1>6, <1>7, <3>2, Zenon
            <4>2. ~kwrite[f] /\ kreq[f] = "none"
                BY <3>1, <4>1, Zenon DEF KqSocket
            <4>3. kreq[f] # "worker"
                BY <4>2
            <4> QED
                BY <1>4, <4>1, <4>2, <4>3, Zenon DEF KqSocket
        <3>3. CASE f \notin took
            BY <1>4, <1>8, <3>1, <3>3, Zenon DEF KqSocket
        <3> QED
            BY <3>2, <3>3
    <2> QED
        BY <2>1, Zenon DEF KqSockets
<1>12. \A i \in 1..Len(kbatch') : kbatch'[i] \in KqEv /\ KqEventOK(kbatch'[i])
    <2>1. kbatch \in Seq(KqEv)
        BY <1>0, Zenon DEF KqTyped
    <2>2. \A i \in 1..Len(kbatch) : kbatch[i] \in KqEv
        BY <2>1
    <2> QED
        BY <1>0, <1>9, <2>2, Zenon DEF KqEvents
<1>13. ASSUME NEW i \in 1..Len(kbatch') PROVE KqEventOK(kbatch[i])'
    <2>1. PICK e \in KqEv : e = kbatch'[i] /\ KqEventOK(e)
        BY <1>12, <1>13, Zenon
    <2>2. e.fd \in KqFds \cup {0}
        BY <2>1 DEF KqEv
    <2>3. CASE e.fd \in took
        <3>1. e.fd \in KqFds /\ kconn[e.fd] = 0
            BY <1>6, <2>3, ZenonT(60)
        <3>2. kreq[e.fd] # "worker"
            BY <1>0, <3>1 DEF KqSockets, KqSocket
        <3> QED
            BY <1>4, <2>1, <3>1, <3>2, Zenon DEF KqEventOK
    <2>4. CASE e.fd \notin took
        BY <1>4, <1>8, <2>1, <2>2, <2>4, Zenon DEF KqEventOK
    <2> QED
        BY <2>3, <2>4
<1>14. ASSUME NEW i \in 1..Len(kbatch'), NEW j \in 1..Len(kbatch'), i # j PROVE KqPairOK(kbatch[i], kbatch[j])'
    <2>1. PICK d \in KqEv, e \in KqEv : d = kbatch'[i] /\ e = kbatch'[j] /\ KqEventOK(d)
        BY <1>12, <1>14, ZenonT(60)
    <2>2. KqPairOK(d, e)
        <3>1. i + 1 \in 1..Len(kbatch) /\ j + 1 \in 1..Len(kbatch) /\ d = kbatch[i + 1] /\ e = kbatch[j + 1]
            BY <1>9, <1>14, <2>1, Zenon
        <3>2. i + 1 # j + 1
            BY <1>14
        <3> QED
            BY <1>0, <3>1, <3>2, Zenon DEF KqEvents
    <2>3. d.fd = e.fd /\ d.fd # 0 => kconn'[d.fd] = d.conn
        <3>1. d.fd \in KqFds \cup {0}
            BY <2>1 DEF KqEv
        <3>2. ASSUME d.fd = e.fd, d.fd # 0 PROVE kconn'[d.fd] = d.conn
            <4>1. kconn[d.fd] = d.conn /\ d.conn # 0
                BY <2>1, <2>2, <3>2, Zenon DEF KqEventOK, KqPairOK
            <4>2. d.fd \in KqFds /\ d.fd \notin took
                BY <1>6, <3>1, <3>2, <4>1, ZenonT(60)
            <4> QED
                BY <1>8, <4>1, <4>2, Zenon
        <3> QED
            BY <3>2, ZenonT(60)
    <2> QED
        BY <2>1, <2>2, <2>3, Zenon DEF KqPairOK
<1>15. KqEvents'
    BY <1>13, <1>14, Zenon DEF KqEvents
<1>16. KqueueSound'
    BY <1>0, <1>4, Zenon DEF KqueueSound, WorkersAloneUnlessBlocked, StrayOnlyIfBlocked
<1> QED
    BY <1>10, <1>11, <1>15, <1>16, Zenon DEF KqInv

LEMMA KqFiltersFinite ==
    ASSUME NEW D, IsFiniteSet(D), NEW p
    PROVE  IsFiniteSet({[fd |-> g, filter |-> p, conn |-> kconn[g]] : g \in D})
<1>1. PICK T : T = {[fd |-> g, filter |-> p, conn |-> kconn[g]] : g \in D}
    BY Zenon
<1>2. PICK m : m = [g \in D |-> [fd |-> g, filter |-> p, conn |-> kconn[g]]]
    BY Zenon
<1>3. m \in [D -> T] /\ \A t \in T : \E g \in D : m[g] = t
    BY <1>1, <1>2, Zenon
<1>4. m \in Surjection(D, T)
    BY <1>3, Zenon DEF Surjection
<1> QED
    BY <1>1, <1>4, FS_Surjection, Zenon

\* The kernel reports what is ready now: of an enabled filter, so of the
\* connection that has the descriptor.
LEMMA KqWaitStep ==
    ASSUME KqInv, KqWait
    PROVE  KqInv'
<1>0. KqTyped /\ KqSockets /\ KqEvents /\ KqueueSound
    BY DEF KqInv
<1>1. /\ kconn' = kconn /\ kread' = kread /\ kwrite' = kwrite /\ kreq' = kreq /\ kbacklog' = kbacklog /\ knext' = knext
      /\ kblocked' = kblocked /\ kended' = kended /\ kstray' = kstray
    BY Zenon DEF KqWait
<1>2. PICK R : R = {[fd |-> f, filter |-> "read", conn |-> kconn[f]] : f \in {g \in KqFds : kread[g] /\ kdata[g]}}
    BY Zenon
<1>3. PICK W : W = {[fd |-> f, filter |-> "write", conn |-> kconn[f]] : f \in {g \in KqFds : kwrite[g]}}
    BY Zenon
<1>4. PICK A : A = IF kbacklog > 0 THEN {[fd |-> 0, filter |-> "read", conn |-> 0]} ELSE {}
    BY Zenon
<1>5. PICK S \in SUBSET (R \cup W \cup A) : kbatch' \in Bijection(1..Cardinality(S), S)
    BY <1>2, <1>3, <1>4, ZenonT(60) DEF KqWait
<1>6. \A e \in S :
        \/ e.fd \in KqFds /\ e = [fd |-> e.fd, filter |-> "read", conn |-> kconn[e.fd]] /\ kread[e.fd]
        \/ e.fd \in KqFds /\ e = [fd |-> e.fd, filter |-> "write", conn |-> kconn[e.fd]] /\ kwrite[e.fd]
        \/ e = [fd |-> 0, filter |-> "read", conn |-> 0]
    <2>1. ASSUME NEW e \in R PROVE e.fd \in KqFds /\ e = [fd |-> e.fd, filter |-> "read", conn |-> kconn[e.fd]] /\ kread[e.fd]
        <3>1. PICK g \in KqFds : kread[g] /\ e = [fd |-> g, filter |-> "read", conn |-> kconn[g]]
            BY <1>2, <2>1, Zenon
        <3>2. e = [fd |-> g, filter |-> "read", conn |-> kconn[g]]
            BY <3>1, Zenon
        <3>3. e.fd = g
            BY <3>2
        <3> QED
            BY <3>1, <3>3, Zenon
    <2>2. ASSUME NEW e \in W PROVE e.fd \in KqFds /\ e = [fd |-> e.fd, filter |-> "write", conn |-> kconn[e.fd]] /\ kwrite[e.fd]
        <3>1. PICK g \in KqFds : kwrite[g] /\ e = [fd |-> g, filter |-> "write", conn |-> kconn[g]]
            BY <1>3, <2>2, Zenon
        <3>2. e = [fd |-> g, filter |-> "write", conn |-> kconn[g]]
            BY <3>1, Zenon
        <3>3. e.fd = g
            BY <3>2
        <3> QED
            BY <3>1, <3>3, Zenon
    <2>3. ASSUME NEW e \in A PROVE e = [fd |-> 0, filter |-> "read", conn |-> 0]
        BY <1>4, <2>3, Zenon
    <2> QED
        BY <1>5, <2>1, <2>2, <2>3, Zenon
<1>7. Cardinality(S) \in Nat
    <2>1. IsFiniteSet({g \in KqFds : kread[g] /\ kdata[g]}) /\ IsFiniteSet({g \in KqFds : kwrite[g]})
        <3>1. {g \in KqFds : kread[g] /\ kdata[g]} \subseteq KqFds /\ {g \in KqFds : kwrite[g]} \subseteq KqFds
            BY Zenon
        <3> QED
            BY <3>1, KqAssumption, FS_Subset, Zenon
    <2>2. IsFiniteSet(R)
        BY <1>2, <2>1, KqFiltersFinite, Zenon
    <2>3. IsFiniteSet(W)
        BY <1>3, <2>1, KqFiltersFinite, Zenon
    <2>4. IsFiniteSet(A)
        BY <1>4, FS_Singleton, FS_EmptySet, Zenon
    <2>5. IsFiniteSet((R \cup W) \cup A)
        BY <2>2, <2>3, <2>4, FS_Union, Zenon
    <2>6. IsFiniteSet(S)
        BY <1>5, <2>5, FS_Subset, Zenon
    <2> QED
        BY <2>6, FS_CardinalityType, Zenon
<1>8. PICK n \in Nat : /\ kbatch' \in [1..n -> S]
                       /\ \A i, j \in 1..n : i # j => kbatch'[i] # kbatch'[j]
    BY <1>5, <1>7, Zenon DEF Bijection, Injection, IsInjective
<1>9. S \subseteq KqEv
    <2>1. kconn \in [KqFds -> Nat]
        BY <1>0, Zenon DEF KqTyped
    <2> QED
        BY <1>6, <2>1 DEF KqEv
<1>10. kbatch' \in Seq(KqEv) /\ Len(kbatch') = n
    <2>1. kbatch' \in Seq(S) /\ Len(kbatch') = n
        BY <1>8
    <2> QED
        BY <1>8, <1>9, <2>1
<1>11. KqTyped' /\ KqSockets' /\ KqueueSound'
    <2>1. KqTyped'
        BY <1>0, <1>1, <1>10, Zenon DEF KqTyped, KqEv
    <2>2. KqSockets' /\ KqueueSound'
        BY <1>0, <1>1, Zenon DEF KqSockets, KqSocket, KqueueSound, WorkersAloneUnlessBlocked, StrayOnlyIfBlocked
    <2> QED
        BY <2>1, <2>2, Zenon
<1>12. \A i \in 1..Len(kbatch') : kbatch'[i] \in S
    BY <1>8, <1>10
<1>13. ASSUME NEW i \in 1..Len(kbatch') PROVE KqEventOK(kbatch[i])'
    <2>1. PICK e \in S : e = kbatch'[i]
        BY <1>12, <1>13, Zenon
    <2>2. SUFFICES ASSUME e.fd # 0
                   PROVE  /\ e.conn # 0
                          /\ e.filter = "write" => e.conn \in kblocked /\ (kreq[e.fd] = "worker" => kconn[e.fd] \in kblocked)
                          /\ e.filter = "read" => kreq[e.fd] # "worker" /\ (kconn[e.fd] # e.conn => e.conn \in kblocked)
        BY <1>1, <2>1, Zenon DEF KqEventOK
    <2>3. PICK f : f = e.fd /\ f # 0
        BY <2>2, Zenon
    <2>4. \/ f \in KqFds /\ e.filter = "read" /\ e.conn = kconn[f] /\ kread[f]
          \/ f \in KqFds /\ e.filter = "write" /\ e.conn = kconn[f] /\ kwrite[f]
        <3>1. CASE e = [fd |-> 0, filter |-> "read", conn |-> 0]
            BY <2>3, <3>1
        <3>2. CASE e.fd \in KqFds /\ e = [fd |-> e.fd, filter |-> "read", conn |-> kconn[e.fd]] /\ kread[e.fd]
            <4>1. e = [fd |-> f, filter |-> "read", conn |-> kconn[f]]
                BY <2>3, <3>2, Zenon
            <4>2. e.filter = "read" /\ e.conn = kconn[f]
                BY <4>1
            <4> QED
                BY <2>3, <3>2, <4>2, Zenon
        <3>3. CASE e.fd \in KqFds /\ e = [fd |-> e.fd, filter |-> "write", conn |-> kconn[e.fd]] /\ kwrite[e.fd]
            <4>1. e = [fd |-> f, filter |-> "write", conn |-> kconn[f]]
                BY <2>3, <3>3, ZenonT(60)
            <4>2. e.filter = "write" /\ e.conn = kconn[f]
                BY <4>1
            <4> QED
                BY <2>3, <3>3, <4>2, Zenon
        <3> QED
            BY <1>6, <3>1, <3>2, <3>3, ZenonT(60)
    <2>5. CASE f \in KqFds /\ e.filter = "read" /\ e.conn = kconn[f] /\ kread[f]
        <3>1. kconn[f] # 0 /\ kreq[f] # "worker"
            BY <1>0, <2>5, Zenon DEF KqSockets, KqSocket
        <3>2. e.filter # "write"
            BY <2>5
        <3> QED
            BY <2>3, <2>5, <3>1, <3>2, Zenon
    <2>6. CASE f \in KqFds /\ e.filter = "write" /\ e.conn = kconn[f] /\ kwrite[f]
        <3>1. kconn[f] # 0 /\ kconn[f] \in kblocked
            BY <1>0, <2>6, Zenon DEF KqSockets, KqSocket
        <3>2. e.filter # "read"
            BY <2>6
        <3> QED
            BY <2>3, <2>6, <3>1, <3>2, Zenon
    <2> QED
        BY <2>4, <2>5, <2>6, Zenon
<1>14. ASSUME NEW i \in 1..Len(kbatch'), NEW j \in 1..Len(kbatch'), i # j PROVE KqPairOK(kbatch[i], kbatch[j])'
    <2>1. PICK d \in S, e \in S : d = kbatch'[i] /\ e = kbatch'[j] /\ d # e
        BY <1>8, <1>10, <1>12, <1>14, Zenon
    <2>2. \A x \in S : x = [fd |-> x.fd, filter |-> x.filter, conn |-> IF x.fd = 0 THEN 0 ELSE kconn[x.fd]]
        <3>1. SUFFICES ASSUME NEW x \in S PROVE x = [fd |-> x.fd, filter |-> x.filter, conn |-> IF x.fd = 0 THEN 0 ELSE kconn[x.fd]]
            BY Zenon
        <3>2. CASE x = [fd |-> 0, filter |-> "read", conn |-> 0]
            BY <3>2
        <3>3. CASE x.fd \in KqFds /\ x = [fd |-> x.fd, filter |-> "read", conn |-> kconn[x.fd]]
            <4>1. x.fd # 0
                BY <3>3, KqAssumption
            <4>2. x.filter = "read"
                BY <3>3
            <4> QED
                BY <3>3, <4>1, <4>2, ZenonT(60)
        <3>4. CASE x.fd \in KqFds /\ x = [fd |-> x.fd, filter |-> "write", conn |-> kconn[x.fd]]
            <4>1. x.fd # 0
                BY <3>4, KqAssumption
            <4>2. x.filter = "write"
                BY <3>4
            <4> QED
                BY <3>4, <4>1, <4>2, Zenon
        <3> QED
            BY <1>6, <3>1, <3>2, <3>3, <3>4, ZenonT(60)
    <2>3. d.fd = e.fd => d.filter # e.filter
        BY <2>1, <2>2, Zenon
    <2>4. d.fd # 0 => kconn[d.fd] = d.conn
        <3>1. d = [fd |-> d.fd, filter |-> d.filter, conn |-> IF d.fd = 0 THEN 0 ELSE kconn[d.fd]]
            BY <2>1, <2>2, Zenon
        <3> QED
            BY <3>1
    <2> QED
        BY <1>1, <2>1, <2>3, <2>4, Zenon DEF KqPairOK
<1>15. KqEvents'
    BY <1>13, <1>14, Zenon DEF KqEvents
<1> QED
    BY <1>11, <1>15, Zenon DEF KqInv

LEMMA KqInvNext ==
    ASSUME KqInv, KqNext \/ UNCHANGED kqVars
    PROVE  KqInv'
<1>0. KqTyped /\ KqSockets /\ KqEvents /\ KqueueSound
    BY DEF KqInv
<1>1. ASSUME kconn' = kconn, kread' = kread, kwrite' = kwrite, kreq' = kreq, knext' = knext, kbacklog' \in Nat,
             kbatch' = kbatch, kblocked' = kblocked, kended' = kended, kstray' = kstray
      PROVE  KqInv'
    <2>1. KqTyped'
        BY <1>0, <1>1, Zenon DEF KqTyped, KqEv
    <2>2. KqSockets' /\ KqueueSound'
        BY <1>0, <1>1, Zenon DEF KqSockets, KqSocket, KqueueSound, WorkersAloneUnlessBlocked, StrayOnlyIfBlocked
    <2>3. KqEvents'
        BY <1>0, <1>1, ZenonT(60) DEF KqEvents, KqEventOK, KqPairOK
    <2> QED
        BY <2>1, <2>2, <2>3, Zenon DEF KqInv
<1>2. kbacklog \in Nat
    BY <1>0, Zenon DEF KqTyped
<1>3. CASE UNCHANGED kqVars
    BY <1>1, <1>2, <1>3, Zenon DEF kqVars
<1>4. CASE KqArrive
    <2>1. kbacklog' = kbacklog + 1
        BY <1>4, Zenon DEF KqArrive
    <2>2. kbacklog' \in Nat
        BY <1>2, <2>1
    <2> QED
        BY <1>1, <1>4, <2>2, Zenon DEF KqArrive
<1>5. ASSUME NEW f \in KqFds, KqData(f) PROVE KqInv'
    BY <1>1, <1>2, <1>5, Zenon DEF KqData
<1> QED
    BY <1>3, <1>4, <1>5, KqWaitStep, KqAcceptStep, KqEventStep, KqWorkerStep, ZenonT(60) DEF KqNext

\* Whatever the order of events, workers and new connections: the event thread
\* ends a request a worker has, or takes an event for a later connection with
\* the same descriptor, only where a write was blocked before and its filter
\* stayed enabled (event_wrapper_kqueue.c).
THEOREM KqueueKeepsOwners == KqSpec => []KqueueSound
<1>1. KqInv /\ [KqNext]_kqVars => KqInv'
    BY KqInvNext, Zenon
<1>2. KqInv => KqueueSound
    BY DEF KqInv
<1> QED
    BY <1>1, <1>2, KqInvInit, PTL DEF KqSpec

=============================================================================
