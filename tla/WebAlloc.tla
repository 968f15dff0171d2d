------------------------------ MODULE WebAlloc ------------------------------
(***************************************************************************)
(* A worker's list of the blocks its handlers have allocated: gc_malloc,   *)
(* gc_free and gc_realloc, the collection after a handler returns, and the *)
(* exceptions (web_raise) that leave a handler without one.                *)
(***************************************************************************)
EXTENDS Integers, Sequences, FiniteSets

CONSTANTS
    Addresses,      \* addresses the allocator gives
    MaxHandlers,    \* bound: handlers run
    MaxList         \* bound: length of the list

ASSUME WebAllocAssumption == IsFiniteSet(Addresses)

VARIABLES
    alist,      \* alloc_list: elements [ptr, free]
    aheap,      \* blocks in use
    abusy,      \* a handler is running
    araised,    \* the last handler ended by web_raise
    amoved,     \* history: gc_realloc has moved a block
    atwice,     \* a block that was not in use has been freed
    acount
allocVars == <<alist, aheap, abusy, araised, amoved, atwice, acount>>

WebAllocInit ==
    /\ alist = <<>> /\ aheap = {} /\ abusy = FALSE /\ araised = FALSE /\ amoved = FALSE
    /\ atwice = FALSE /\ acount = 0

\* web_setup_global_buffer and the call of the handler.
HandlerStarts ==
    /\ ~abusy /\ acount < MaxHandlers
    /\ abusy' = TRUE /\ araised' = FALSE /\ acount' = acount + 1
    /\ UNCHANGED <<alist, aheap, amoved, atwice>>

\* web_allocator_malloc; without memory it raises 500.
web_allocator_malloc ==
    /\ abusy /\ Len(alist) < MaxList
    /\ IF aheap = Addresses THEN abusy' = FALSE /\ araised' = TRUE /\ UNCHANGED <<alist, aheap>>
       ELSE \E p \in Addresses \ aheap :
               /\ alist' = Append(alist, [ptr |-> p, free |-> FALSE]) /\ aheap' = aheap \cup {p}
               /\ UNCHANGED <<abusy, araised>>
    /\ UNCHANGED <<amoved, atwice, acount>>

Listed(p) == {i \in 1..Len(alist) : alist[i].ptr = p /\ ~alist[i].free}

\* web_allocator_free: the first entry of that block that is not free; a
\* block that is not listed is left alone.
web_allocator_free ==
    /\ abusy
    /\ \E p \in Addresses :
          /\ Listed(p) # {}
          /\ alist' = [alist EXCEPT ![CHOOSE i \in Listed(p) : \A j \in Listed(p) : i <= j].free = TRUE]
          /\ aheap' = aheap \ {p} /\ atwice' = (atwice \/ p \notin aheap)
    /\ UNCHANGED <<abusy, araised, amoved, acount>>

\* gc_realloc: the list is not told where the block has gone.
gc_realloc ==
    /\ abusy
    /\ \E p \in aheap, q \in Addresses \ aheap : aheap' = (aheap \ {p}) \cup {q}
    /\ amoved' = TRUE
    /\ UNCHANGED <<alist, abusy, araised, atwice, acount>>

\* The handler returns: web_allocator_garbage_collect.
PendingUpToFreed ==                   \* mutant: the loop ends at a block the handler has freed
    {i \in 1..Len(alist) : \A j \in 1..i : ~alist[j].free}
Pending == {i \in 1..Len(alist) : ~alist[i].free}
HandlerReturns ==
    /\ abusy /\ abusy' = FALSE
    /\ LET ps == [i \in Pending |-> alist[i].ptr]
       IN  /\ aheap' = aheap \ {ps[i] : i \in Pending}
           /\ atwice' = (atwice \/ \E i \in Pending : ps[i] \notin aheap \/ \E j \in Pending : j # i /\ ps[j] = ps[i])
    /\ alist' = <<>>
    /\ UNCHANGED <<araised, amoved, acount>>

\* web_raise: the worker answers with an error and waits for the next request.
web_raise ==
    /\ abusy /\ abusy' = FALSE /\ araised' = TRUE
    /\ UNCHANGED <<alist, aheap, amoved, atwice, acount>>

WebAllocNext ==
    HandlerStarts \/ web_allocator_malloc \/ web_allocator_free \/ gc_realloc \/ HandlerReturns \/ web_raise

WebAllocSpec == WebAllocInit /\ [][WebAllocNext]_allocVars

-----------------------------------------------------------------------------
\* No block is freed twice, however handlers mix gc_free, returns and
\* exceptions, unless gc_realloc has moved one.
FreedOnce == ~amoved => ~atwice

\* A worker that waits after a handler has returned holds no block of any
\* handler, those of handlers that raised before it included; blocks outlive
\* their handler only by an exception, and stay listed.
HandlersCollected ==
    ~amoved =>
        /\ ~abusy /\ ~araised => aheap = {}
        /\ aheap = {alist[i].ptr : i \in {j \in 1..Len(alist) : ~alist[j].free}}

\* The per-request heap: nothing is freed twice, all of it is freed at the end.
HeapOwned == FreedOnce /\ HandlersCollected

=============================================================================
