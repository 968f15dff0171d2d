------------------------------ MODULE FragPool ------------------------------
(***************************************************************************)
(* frag_pool_t of common_functions.c: a growable array of slots, each a    *)
(* heap block and a "free" flag.  The server keeps three of them: the      *)
(* keep-alive sockets, the request-rate clients and the sockets of the     *)
(* simultaneous-request limiter.                                           *)
(*                                                                         *)
(* A pool is a record [e, cur_len, reserved_len]; e is the slot array (its *)
(* length is real_len, indices are one higher than in C) and a slot is a   *)
(* record [data, free].  In this module data is the block's identity, the  *)
(* pointer frag_pool_alloc hands out; the modules that use a pool for its  *)
(* contents put the contents there.                                        *)
(***************************************************************************)
EXTENDS Integers, Sequences, FiniteSets

CONSTANTS
    Blocks,     \* identities of heap blocks
    Reserved    \* reserved_len, fixed when the pool is created

ASSUME ReservedAssumption == Reserved \in Nat

VARIABLES
    pool,       \* the frag_pool_t
    heap        \* blocks malloc has handed to the pool and not got back

vars == <<pool, heap>>

Slot == [data : Blocks, free : BOOLEAN]
Pool == [e : Seq(Slot), cur_len : Nat, reserved_len : {Reserved}]

-----------------------------------------------------------------------------
(* The operations as functions of a pool, shared with the pool's users.    *)

Used(p) == {i \in DOMAIN p.e : ~p.e[i].free}
Free(p) == DOMAIN p.e \ Used(p)

\* The slot frag_pool_alloc picks: the first free one, or a new last one.
AllocIndex(p) ==
    IF Free(p) = {} THEN Len(p.e) + 1
    ELSE CHOOSE i \in Free(p) : \A j \in Free(p) : i <= j

\* block is what malloc returns if the array has to grow.
frag_pool_alloc(p, block) ==
    [p EXCEPT
        !.cur_len = @ + 1,
        !.e = IF Free(p) = {} THEN Append(@, [data |-> block, free |-> FALSE])
              ELSE [@ EXCEPT ![AllocIndex(p)].free = FALSE]]

\* How many slots _frag_try_internal_pool_free leaves when slot i has just
\* become free: a last slot beyond the reserved ones goes, and with it every
\* free slot before it, down to the first slot in use or the reserved part.
TrimmedLenAnySlot(p, i) ==     \* mutant: the "last slot" test is missing
    IF i > p.reserved_len THEN i - 1 ELSE Len(p.e)
TrimmedLen(p, i) ==
    IF i > p.reserved_len /\ i = Len(p.e)
    THEN CHOOSE n \in p.reserved_len..Len(p.e) :
             /\ \A j \in (n + 1)..Len(p.e) : p.e[j].free
             /\ n = p.reserved_len \/ ~p.e[n].free
    ELSE Len(p.e)

frag_pool_free_alt(p, i) ==
    IF p.e[i].free THEN p
    ELSE LET q == [p EXCEPT !.cur_len = @ - 1, !.e = [@ EXCEPT ![i].free = TRUE]]
         IN  [q EXCEPT !.e = SubSeq(@, 1, TrimmedLen(q, i))]

BlocksOf(p) == {p.e[i].data : i \in DOMAIN p.e}
HandedOut(p) == {p.e[i].data : i \in Used(p)}

-----------------------------------------------------------------------------
(* frag_pool_create: reserved_len distinct blocks, all free.               *)
Init ==
    /\ heap \in SUBSET Blocks
    /\ pool \in [e : [1..Reserved -> [data : heap, free : {TRUE}]],
                 cur_len : {0}, reserved_len : {Reserved}]
    /\ BlocksOf(pool) = heap
    /\ \A i, j \in 1..Reserved : pool.e[i].data = pool.e[j].data => i = j

\* frag_pool_alloc finds a free slot.
AllocSlot ==
    /\ Free(pool) # {}
    /\ pool' = frag_pool_alloc(pool, pool.e[AllocIndex(pool)].data)
    /\ UNCHANGED heap

\* frag_pool_alloc finds none and grows the array by a block from malloc.
AllocGrow ==
    /\ Free(pool) = {}
    /\ \E b \in Blocks \ heap : /\ pool' = frag_pool_alloc(pool, b)
                                /\ heap' = heap \cup {b}

\* A caller frees a slot by its index, as remove_keepalive_socket, the
\* limiters and event_iter do.  Trimmed blocks go back to malloc.
FreeAltDropsLast(i) ==         \* mutant: the last block goes to malloc, not to the trim
    /\ pool' = frag_pool_free_alt(pool, i)
    /\ heap' = heap \ {pool.e[Len(pool.e)].data}
FreeAlt(i) ==
    /\ pool' = frag_pool_free_alt(pool, i)
    /\ heap' = heap \ (BlocksOf(pool) \ BlocksOf(pool'))

\* A caller frees the block it was given: frag_pool_free looks for the used
\* slot that holds it, and does nothing when there is none.
FreePtr(b) ==
    LET hit == {i \in Used(pool) : pool.e[i].data = b}
    IN  IF hit = {} THEN UNCHANGED vars
        ELSE FreeAlt(CHOOSE i \in hit : \A j \in hit : i <= j)

Next ==
    \/ AllocSlot
    \/ AllocGrow
    \/ \E i \in DOMAIN pool.e : FreeAlt(i)
    \/ \E b \in Blocks : FreePtr(b)

Spec == Init /\ [][Next]_vars

-----------------------------------------------------------------------------
(* Properties.                                                             *)

\* The pool is well typed and its reserved slots are never given back: the
\* array never gets shorter than reserved_len (frag_pool_create's res_len).
TypeOK ==
    /\ pool \in Pool
    /\ heap \subseteq Blocks
    /\ Len(pool.e) >= Reserved

\* cur_len counts the slots in use, whatever the order of allocations and of
\* repeated frees; it can therefore not wrap below zero.
CountExact == pool.cur_len = Cardinality(Used(pool))

\* After every operation the array ends with a slot in use, or has its
\* reserved length: freeing slots in any order gives back all it can.
Trimmed == Len(pool.e) > Reserved => ~pool.e[Len(pool.e)].free

\* The slots hold different blocks, and exactly the blocks malloc handed out:
\* growing and trimming lose no block, share none and free none twice.
BlocksExact ==
    /\ heap = BlocksOf(pool)
    /\ \A i, j \in DOMAIN pool.e : pool.e[i].data = pool.e[j].data => i = j

\* _frag_try_internal_pool_free as written: slot i, real_len len.  The two are
\* equal in every call that does not return at once.
TrimByRecursion(p, i, len) ==
    LET trim[k \in 1..Len(p.e)] ==
            IF k <= p.reserved_len THEN k
            ELSE IF k > 1 /\ p.e[k - 1].free THEN trim[k - 1]
            ELSE k - 1
    IN  IF i # len THEN len ELSE trim[i]

\* The length TrimmedLen chooses is the one the recursion of
\* _frag_try_internal_pool_free stops at, whichever slot becomes free.
TrimIsRecursion ==
    \A i \in Used(pool) :
        LET q == [pool EXCEPT !.e[i].free = TRUE]
        IN  TrimmedLen(q, i) = TrimByRecursion(q, i, Len(q.e))

\* The pool's bookkeeping as a whole: the count, the trimmed end and the blocks
\* are exact after every allocation and free, and trimming in one step is what
\* frag_pool_free's recursion does.
PoolSound == CountExact /\ Trimmed /\ BlocksExact /\ TrimIsRecursion

\* The inductive invariant: the four together (none is inductive alone).
Inv == TypeOK /\ CountExact /\ Trimmed /\ BlocksExact

\* Callers see an allocator that never gives one block to two of them and
\* never returns to the heap a block that one of them holds.
Allocator == INSTANCE BlockAllocator
                 WITH allocated <- HandedOut(pool), mapped <- heap
IsAllocator == Allocator!Spec

=============================================================================
