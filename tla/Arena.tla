------------------------------- MODULE Arena --------------------------------
(***************************************************************************)
(* One arena of src/libs/jemalloc/jemalloc.c, the allocator under the       *)
(* server's own pools: chunks cut into page runs, runs of small regions kept *)
(* in bins, large allocations of whole pages.  An arena is a record a:       *)
(*   chunks   the mapped chunks of the arena (slots of the address space)    *)
(*   map      per chunk and page: v, the size or run address kept in the     *)
(*            upper bits, and the flags in the lower bits                    *)
(*   ndirty, nd, dirtyc   dirty pages per chunk and in all, chunks_dirty     *)
(*   avail    runs_avail, first pages of free runs                           *)
(*   spare    the unused chunk kept back, or NoChunk                         *)
(*   runs     headers of the small runs in use: bin, free regions, minelm    *)
(*   bins     runcur and the tree of other non-full runs                     *)
(*   used     stats.allocated_small + allocated_large, in units of Weight    *)
(*   blank    per page: its bytes are surely all zero; pages handed out       *)
(*            without zeroing count as written                               *)
(* Every change is made under the arena's lock, so an operation is a step;   *)
(* what is read before the lock is taken is a step of its own.  The trees    *)
(* are sets here, RbTree models them.                                        *)
(***************************************************************************)
EXTENDS Integers, Sequences, FiniteSets, FiniteSetsExt, TLC

CONSTANTS Slots,          \* addresses a chunk can be mapped at, 1..n
          LastPage,       \* pages of a chunk are 0..LastPage
          HeaderPages,    \* arena_chunk_header_npages
          DirtyMax,       \* opt_dirty_max
          BinInfo,        \* per bin: pages of a run, regions in it
          PageCounts,     \* large sizes asked for, in pages
          ElmBits,        \* bits of one regs_mask element
          Mallocers,      \* threads that use the arena
          Resizers,       \* those of them that also resize
          MaxLive         \* bound on live allocations

VARIABLES arena,          \* the record described above
          live,           \* history: allocations handed out and not freed
          call,           \* per thread, the call it is in
          calloc_zero     \* history: every zeroed allocation was all zero

arenaVars == <<arena, live, call, calloc_zero>>

Pages == 0..LastPage
Usable == HeaderPages..LastPage
arena_maxclass == LastPage - HeaderPages + 1
NoChunk == 0
NoRun == <<0, 0>>
IdleCall == [op |-> "none"]

\* A pointer is chunk, page and region; whole pages have region -1.
NULL == <<0, 0, 0>>
PageOf(a, ptr) == a.map[ptr[1]][ptr[2]]
RunAt(a, ptr) == <<ptr[1], PageOf(a, ptr).v>>

Address(run) == run[1] * (LastPage + 1) + run[2]
Lowest(runs) == CHOOSE r \in runs : \A s \in runs : Address(r) <= Address(s)

Flag(page, flag) == flag \in page.flags
FreePage(page) == ~Flag(page, "alloc")

\* A free run carries its size in its first and in its last page; what the
\* pages between them still hold is never read and kept as 0.
WithEnds(map, p, n) ==
    [i \in Pages |-> IF i \in {p, p + n - 1} THEN [map[i] EXCEPT !.v = n]
                     ELSE IF i \in p..(p + n - 1) THEN [map[i] EXCEPT !.v = 0] ELSE map[i]]

Unmapped == [p \in Pages |-> [v |-> 0, flags |-> {}]]

(***************************************************************************)
(* Runs of pages.                                                            *)
(***************************************************************************)

arena_chunk_init(a, c) ==
    LET fresh == [p \in Pages |-> [v |-> 0, flags |-> IF p < HeaderPages THEN {} ELSE {"zeroed"}]]
    IN [a EXCEPT !.chunks = @ \cup {c},
                 !.map[c] = WithEnds(fresh, HeaderPages, arena_maxclass),
                 !.blank[c] = [p \in Pages |-> p >= HeaderPages],
                 !.ndirty[c] = 0,
                 !.avail = @ \cup {<<c, HeaderPages>>}]

arena_run_split(a, c, p, need, large, zero) ==
    LET map == a.map[c]
        total == map[p].v
        rem == total - need
        taken == p..(p + need - 1)
        cleaned == Cardinality({i \in taken : Flag(map[i], "dirty")})
        left == IF rem > 0 THEN WithEnds(map, p + need, rem) ELSE map
        page(i) == IF large THEN [v |-> IF i = p THEN need ELSE 0, flags |-> {"large", "alloc"}]
                   ELSE [v |-> p, flags |-> {"alloc"}]
    IN [a EXCEPT !.map[c] = [i \in Pages |-> IF i \in taken THEN page(i) ELSE left[i]],
                 !.blank[c] = [i \in Pages |-> IF i \in taken THEN zero /\ (@[i] \/ ~Flag(map[i], "zeroed"))
                                               ELSE @[i]],
                 !.ndirty[c] = @ - cleaned,
                 !.nd = @ - cleaned,
                 !.avail = (@ \ {<<c, p>>}) \cup (IF rem > 0 THEN {<<c, p + need>>} ELSE {}),
                 !.dirtyc = IF cleaned > 0 /\ a.ndirty[c] = cleaned THEN @ \ {c} ELSE @]

\* An unused chunk becomes the spare; the spare before it is unmapped.
arena_chunk_dealloc(a, c) ==
    LET s == a.spare
        dropped == IF s = NoChunk THEN a
                   ELSE [a EXCEPT !.chunks = @ \ {s}, !.map[s] = Unmapped,
                                  !.blank[s] = [p \in Pages |-> FALSE],
                                  !.dirtyc = @ \ {s}, !.nd = @ - a.ndirty[s], !.ndirty[s] = 0]
    IN [dropped EXCEPT !.avail = @ \ {<<c, HeaderPages>>}, !.spare = c]

\* Runs of at least n pages that are free; the lowest of the best fits.
Fitting(a, n) == {r \in a.avail : a.map[r[1]][r[2]].v >= n}
BestFit(a, n) ==
    LET size(r) == a.map[r[1]][r[2]].v
        best == Min({size(r) : r \in Fitting(a, n)})
    IN Lowest({r \in a.avail : size(r) = best})

\* The outcomes of a run allocation: the arena and the run, NoRun when no
\* chunk can be mapped.
arena_run_alloc(a, n, large, zero) ==
    LET fit == BestFit(a, n)
        unspared == [a EXCEPT !.spare = NoChunk, !.avail = @ \cup {<<a.spare, HeaderPages>>}]
        cut(b, c) == <<arena_run_split(b, c, HeaderPages, n, large, zero), <<c, HeaderPages>>>>
    IN IF Fitting(a, n) # {}
       THEN {<<arena_run_split(a, fit[1], fit[2], n, large, zero), fit>>}
       ELSE IF a.spare # NoChunk THEN {cut(unspared, a.spare)}
       ELSE {<<a, NoRun>>} \cup {cut(arena_chunk_init(a, c), c) : c \in Slots \ a.chunks}

\* Purging starts at the top of the highest dirty chunk, one block of dirty
\* pages at a time, until half the limit is left.
TopDirtyBlock(map) ==
    LET top == Max({i \in Usable : Flag(map[i], "dirty")})
    IN {i \in Usable : i <= top /\ \A j \in i..top : Flag(map[j], "dirty")}

Undirtied(map, block) ==
    [i \in Pages |-> IF i \in block THEN [map[i] EXCEPT !.flags = @ \ {"dirty"}] ELSE map[i]]

RECURSIVE arena_purge(_)
arena_purge(a) ==
    LET c == Max(a.dirtyc)
        block == TopDirtyBlock(a.map[c])
        n == Cardinality(block)
    IN IF a.nd <= DirtyMax \div 2 THEN a
       ELSE arena_purge([a EXCEPT !.map[c] = Undirtied(@, block),
                                  !.ndirty[c] = @ - n,
                                  !.nd = @ - n,
                                  !.dirtyc = IF a.ndirty[c] = n THEN @ \ {c} ELSE @])

\* The pages of a run that ends: dirty ones start over, the others keep what
\* else their bits hold.
Released(map, p, n, dirty) ==
    [i \in Pages |-> IF i \notin p..(p + n - 1) THEN map[i]
                     ELSE IF dirty THEN [v |-> 0, flags |-> {"dirty"}]
                     ELSE [map[i] EXCEPT !.flags = @ \ {"large", "alloc"}]]

\* Is the run free that starts (ends) at page i?
FreeAt(map, i) == i \in Usable /\ FreePage(map[i])

\* mutant: a free run below is not joined.
CoalescedForward(map, p, n) ==
    LET fwd == IF FreeAt(map, p + n) THEN map[p + n].v ELSE 0
    IN [p |-> p, gone |-> IF fwd > 0 THEN {p + n} ELSE {}, map |-> WithEnds(map, p, n + fwd)]

\* The run joined with the free runs after and before it, and the first pages
\* of those, which leave runs_avail.
Coalesced(map, p, n) ==
    LET fwd == IF FreeAt(map, p + n) THEN map[p + n].v ELSE 0
        bwd == IF FreeAt(map, p - 1) THEN map[p - 1].v ELSE 0
    IN [p |-> p - bwd,
        gone |-> (IF fwd > 0 THEN {p + n} ELSE {}) \cup (IF bwd > 0 THEN {p - bwd} ELSE {}),
        map |-> WithEnds(WithEnds(map, p, n + fwd), p - bwd, n + fwd + bwd)]

arena_run_dalloc(a, c, p, dirty) ==
    LET n == IF Flag(a.map[c][p], "large") THEN a.map[c][p].v ELSE BinInfo[a.runs[<<c, p>>].bin].pages
        released == WithEnds(Released(a.map[c], p, n, dirty), p, n)
        whole == Coalesced(released, p, n)
        joined == [a EXCEPT !.map[c] = whole.map,
                            !.ndirty[c] = IF dirty THEN @ + n ELSE @,
                            !.nd = IF dirty THEN @ + n ELSE @,
                            !.dirtyc = IF dirty THEN @ \cup {c} ELSE @,
                            !.avail = (@ \ {<<c, i>> : i \in whole.gone}) \cup {<<c, whole.p>>}]
        first == joined.map[c][HeaderPages]
        kept == IF FreePage(first) /\ first.v = arena_maxclass THEN arena_chunk_dealloc(joined, c) ELSE joined
    IN IF kept.nd > DirtyMax THEN arena_purge(kept) ELSE kept

Large(n) == [v |-> n, flags |-> {"large", "alloc"}]

arena_run_trim_head(a, c, p, old, new) ==
    arena_run_dalloc([a EXCEPT !.map[c][p] = Large(old - new), !.map[c][p + old - new] = Large(new)],
                     c, p, FALSE)

arena_run_trim_tail(a, c, p, old, new, dirty) ==
    arena_run_dalloc([a EXCEPT !.map[c][p] = Large(new), !.map[c][p + new] = Large(old - new)],
                     c, p + new, dirty)

(***************************************************************************)
(* Small regions: a bin allocates from runcur, then from the lowest other    *)
(* non-full run, then from a new run.                                        *)
(***************************************************************************)

NewRun(b) == [bin |-> b, mask |-> 0..(BinInfo[b].nregs - 1), minelm |-> 0, nfree |-> BinInfo[b].nregs]

\* The outcomes of looking for a run with room: the arena and the run.
arena_bin_nonfull_run_get(a, b) ==
    LET tree == a.bins[b].runs
        lowest == Lowest(tree)
        fresh(o) == IF o[2] = NoRun THEN o
                    ELSE <<[o[1] EXCEPT !.runs = (o[2] :> NewRun(b)) @@ @], o[2]>>
    IN IF tree # {} THEN {<<[a EXCEPT !.bins[b].runs = @ \ {lowest}], lowest>>}
       ELSE {fresh(o) : o \in arena_run_alloc(a, BinInfo[b].pages, FALSE, FALSE)}

\* The first free region of the first mask element, from minelm on, that has
\* one; minelm moves there.
arena_run_reg_alloc(run) ==
    LET i == Min({j \in run.mask : j \div ElmBits >= run.minelm})
    IN [run EXCEPT !.mask = @ \ {i}, !.minelm = i \div ElmBits, !.nfree = @ - 1]

arena_bin_malloc_easy(a, run) ==
    LET old == a.runs[run]
        new == arena_run_reg_alloc(old)
        i == CHOOSE j \in old.mask : j \notin new.mask
        page == run[2] + (i * BinInfo[old.bin].pages) \div BinInfo[old.bin].nregs
    IN [a |-> [a EXCEPT !.runs[run] = new], ptr |-> <<run[1], page, i>>]

arena_bin_malloc_hard(a, b) ==
    {IF o[2] = NoRun THEN [a |-> [o[1] EXCEPT !.bins[b].runcur = NoRun], ptr |-> NULL]
     ELSE arena_bin_malloc_easy([o[1] EXCEPT !.bins[b].runcur = o[2]], o[2])
        : o \in arena_bin_nonfull_run_get(a, b)}

\* What an allocation counts for in the statistics: bins and pages.
Weight(need) == IF need.small THEN need.bin ELSE 10 * need.pages

InStats(outcomes, need) ==
    {IF o.ptr = NULL THEN o ELSE [o EXCEPT !.a.used = @ + Weight(need)] : o \in outcomes}

arena_malloc_small(a, b) ==
    LET run == a.bins[b].runcur
    IN IF run # NoRun /\ a.runs[run].nfree > 0 THEN {arena_bin_malloc_easy(a, run)}
       ELSE arena_bin_malloc_hard(a, b)

arena_malloc_large(a, n, zero) ==
    {[a |-> o[1], ptr |-> IF o[2] = NoRun THEN NULL ELSE <<o[2][1], o[2][2], -1>>]
        : o \in arena_run_alloc(a, n, TRUE, zero)}

arena_malloc(a, need, zero) ==
    InStats(IF need.small THEN arena_malloc_small(a, need.bin)
            ELSE arena_malloc_large(a, need.pages, zero), need)

\* Whole pages aligned to more than a page: an over-size run is trimmed.
PallocSize(n, align) == IF n >= align THEN n + align - 1 ELSE 2 * align - 1

PallocTrim(o, n, align, size) ==
    LET c == o[2][1]  p == o[2][2]
        offset == p % align
        lead == IF offset = 0 THEN 0 ELSE align - offset
        headed == IF lead = 0 THEN o[1] ELSE arena_run_trim_head(o[1], c, p, size, size - lead)
        trail == size - lead - n
        tailed == IF trail = 0 THEN headed ELSE arena_run_trim_tail(headed, c, p + lead, n + trail, n, FALSE)
    IN IF o[2] = NoRun THEN [a |-> o[1], ptr |-> NULL]
       ELSE [a |-> tailed, ptr |-> <<c, p + lead, -1>>]

arena_palloc(a, n, align) ==
    LET size == PallocSize(n, align)
    IN InStats({PallocTrim(o, n, align, size) : o \in arena_run_alloc(a, size, TRUE, FALSE)},
               [small |-> FALSE, pages |-> n])

(***************************************************************************)
(* Freeing and resizing.                                                     *)
(***************************************************************************)

arena_run_reg_dalloc(run, i) ==
    [run EXCEPT !.mask = @ \cup {i}, !.minelm = Min({@, i \div ElmBits}), !.nfree = @ + 1]

Except(f, x) == [y \in DOMAIN f \ {x} |-> f[y]]

\* A run that has just become non-full is made current if it is the lower
\* one; a current run with room goes into the tree.
BinWith(bin, run, runs) ==
    IF bin.runcur = NoRun THEN [bin EXCEPT !.runcur = run]
    ELSE IF Address(run) < Address(bin.runcur)
    THEN [runcur |-> run, runs |-> IF runs[bin.runcur].nfree > 0 THEN bin.runs \cup {bin.runcur} ELSE bin.runs]
    ELSE [bin EXCEPT !.runs = @ \cup {run}]

arena_dalloc_small(a, ptr) ==
    LET run == RunAt(a, ptr)
        b == a.runs[run].bin
        hdr == arena_run_reg_dalloc(a.runs[run], ptr[3])
        back == [a EXCEPT !.runs[run] = hdr, !.used = @ - Weight([small |-> TRUE, bin |-> b])]
        unlinked == IF run = a.bins[b].runcur THEN [back EXCEPT !.bins[b].runcur = NoRun]
                    ELSE IF BinInfo[b].nregs # 1 THEN [back EXCEPT !.bins[b].runs = @ \ {run}]
                    ELSE back
    IN IF hdr.nfree = BinInfo[b].nregs
       THEN [arena_run_dalloc(unlinked, run[1], run[2], TRUE) EXCEPT !.runs = Except(@, run)]
       ELSE IF hdr.nfree = 1 /\ run # a.bins[b].runcur
       THEN [back EXCEPT !.bins[b] = BinWith(@, run, back.runs)]
       ELSE back

arena_dalloc_large(a, ptr) ==
    arena_run_dalloc([a EXCEPT !.used = @ - 10 * PageOf(a, ptr).v], ptr[1], ptr[2], TRUE)

arena_ralloc_large_shrink(a, ptr, n, old) ==
    [arena_run_trim_tail(a, ptr[1], ptr[2], old, n, TRUE) EXCEPT !.used = @ - 10 * (old - n)]

CanGrow(a, ptr, n, old) ==
    LET next == ptr[2] + old  map == a.map[ptr[1]]
    IN next <= LastPage /\ FreePage(map[next]) /\ map[next].v >= n - old

arena_ralloc_large_grow(a, ptr, n, old) ==
    LET c == ptr[1]  p == ptr[2]
        split == arena_run_split(a, c, p + old, n - old, TRUE, FALSE)
    IN [split EXCEPT !.map[c][p] = Large(n), !.map[c][p + old] = Large(0), !.used = @ + 10 * (n - old)]

\* The size class read from the map, without the lock.
arena_salloc(a, ptr) ==
    IF Flag(PageOf(a, ptr), "large") THEN [small |-> FALSE, pages |-> PageOf(a, ptr).v]
    ELSE [small |-> TRUE, bin |-> a.runs[RunAt(a, ptr)].bin]

(***************************************************************************)
(* The arena in use by several threads.  The caller writes what it is given. *)
(***************************************************************************)

Needs == {[small |-> TRUE, bin |-> b] : b \in DOMAIN BinInfo}
            \cup {[small |-> FALSE, pages |-> n] : n \in PageCounts}

\* The pages an allocation lies on: those of its run, if it is small.
Extent(a, x) ==
    LET c == x.ptr[1]  p == x.ptr[2]  first == RunAt(a, x.ptr)[2]
    IN IF x.need.small THEN {<<c, i>> : i \in first..(first + BinInfo[x.need.bin].pages - 1)}
       ELSE {<<c, i>> : i \in p..(p + x.need.pages - 1)}

Written(a, x) ==
    LET on == Extent(a, x)
    IN [a EXCEPT !.blank = [c \in Slots |-> [p \in Pages |-> @[c][p] /\ <<c, p>> \notin on]]]

InUse == live \cup {call[t].x : t \in {u \in Mallocers : call[u].op # "none"}}
Ready(t) == call[t].op = "none"

arena_new ==
    [chunks |-> {}, map |-> [c \in Slots |-> Unmapped], blank |-> [c \in Slots |-> [p \in Pages |-> FALSE]],
     ndirty |-> [c \in Slots |-> 0], nd |-> 0, dirtyc |-> {}, avail |-> {}, spare |-> NoChunk,
     runs |-> <<>>, bins |-> [b \in DOMAIN BinInfo |-> [runcur |-> NoRun, runs |-> {}]], used |-> 0]

ArenaInit ==
    /\ arena = arena_new
    /\ live = {}
    /\ call = [t \in Mallocers |-> IdleCall]
    /\ calloc_zero = TRUE

Handed(o, x) ==
    /\ arena' = IF o.ptr = NULL THEN o.a ELSE Written(o.a, x)
    /\ live' = IF o.ptr = NULL THEN live ELSE live \cup {x}

Malloc(t, need, zero) ==
    /\ Ready(t) /\ Cardinality(InUse) < MaxLive
    /\ \E o \in arena_malloc(arena, need, zero) :
        LET x == [ptr |-> o.ptr, need |-> need, align |-> 1]
        IN /\ Handed(o, x)
           /\ calloc_zero' = (calloc_zero /\
                (zero /\ o.ptr # NULL /\ ~need.small => \A e \in Extent(o.a, x) : o.a.blank[e[1]][e[2]]))
    /\ UNCHANGED call

Palloc(t, n, align) ==
    /\ Ready(t) /\ Cardinality(InUse) < MaxLive
    /\ PallocSize(n, align) <= arena_maxclass
    /\ \E o \in arena_palloc(arena, n, align) :
        Handed(o, [ptr |-> o.ptr, need |-> [small |-> FALSE, pages |-> n], align |-> align])
    /\ UNCHANGED <<call, calloc_zero>>

\* arena_dalloc looks at the page's bits before it takes the lock.
Dalloc(t, x) ==
    /\ call' = [call EXCEPT ![t] = [op |-> "dalloc", x |-> x, large |-> Flag(PageOf(arena, x.ptr), "large")]]
    /\ live' = live \ {x}
    /\ UNCHANGED <<arena, calloc_zero>>

FreeCall(t) == Ready(t) /\ \E x \in live : Dalloc(t, x)

DallocLocked(t) ==
    /\ call[t].op = "dalloc"
    /\ arena' = IF call[t].large THEN arena_dalloc_large(arena, call[t].x.ptr)
                ELSE arena_dalloc_small(arena, call[t].x.ptr)
    /\ call' = [call EXCEPT ![t] = IdleCall]
    /\ UNCHANGED <<live, calloc_zero>>

\* iralloc reads the old size before anything is locked.
RallocCall(t, need) ==
    /\ Ready(t) /\ t \in Resizers
    /\ \E x \in live :
        /\ call' = [call EXCEPT ![t] = [op |-> "ralloc", x |-> x, need |-> need,
                                        old |-> arena_salloc(arena, x.ptr)]]
        /\ live' = live \ {x}
    /\ UNCHANGED <<arena, calloc_zero>>

Returned(t, x) == live' = live \cup {x} /\ call' = [call EXCEPT ![t] = IdleCall]

\* In place if the class stays, or if whole pages can be cut off or added.
RallocSame(t) ==
    /\ call[t].op = "ralloc" /\ call[t].old = call[t].need
    /\ Returned(t, call[t].x)
    /\ UNCHANGED <<arena, calloc_zero>>

LargeToLarge(cl) == cl.op = "ralloc" /\ ~cl.old.small /\ ~cl.need.small

Resized(t) == [ptr |-> call[t].x.ptr, need |-> call[t].need, align |-> 1]

RallocShrink(t) ==
    /\ LargeToLarge(call[t]) /\ call[t].need.pages < call[t].old.pages
    /\ arena' = arena_ralloc_large_shrink(arena, call[t].x.ptr, call[t].need.pages, call[t].old.pages)
    /\ Returned(t, Resized(t))
    /\ UNCHANGED calloc_zero

RallocGrow(t) ==
    /\ LargeToLarge(call[t]) /\ call[t].need.pages > call[t].old.pages
    /\ LET cl == call[t]
       IN /\ CanGrow(arena, cl.x.ptr, cl.need.pages, cl.old.pages)
          /\ arena' = arena_ralloc_large_grow(arena, cl.x.ptr, cl.need.pages, cl.old.pages)
    /\ Returned(t, Resized(t))
    /\ UNCHANGED calloc_zero

RallocNoRoom(t) ==
    /\ call[t].op = "ralloc" /\ call[t].old # call[t].need
    /\ LargeToLarge(call[t]) => /\ call[t].need.pages > call[t].old.pages
                                /\ ~CanGrow(arena, call[t].x.ptr, call[t].need.pages, call[t].old.pages)
    /\ call' = [call EXCEPT ![t].op = "move"]
    /\ UNCHANGED <<arena, live, calloc_zero>>

\* Otherwise a new allocation, a copy and a free of the old one; without room
\* the old one stays with the caller.
RallocMove(t) ==
    LET cl == call[t]
    IN /\ cl.op = "move"
       /\ \E o \in arena_malloc(arena, cl.need, FALSE) :
            IF o.ptr = NULL THEN arena' = o.a /\ Returned(t, cl.x)
            ELSE /\ Handed(o, [ptr |-> o.ptr, need |-> cl.need, align |-> 1])
                 /\ call' = [call EXCEPT ![t].op = "copied"]
       /\ UNCHANGED calloc_zero

RallocFreePage(t) == call[t].op = "copied" /\ Dalloc(t, call[t].x)

ArenaNext ==
    \E t \in Mallocers :
        \/ \E need \in Needs, zero \in BOOLEAN : Malloc(t, need, zero)
        \/ \E n \in PageCounts : Palloc(t, n, 2)
        \/ FreeCall(t) \/ DallocLocked(t)
        \/ \E need \in Needs : RallocCall(t, need)
        \/ RallocSame(t) \/ RallocShrink(t) \/ RallocGrow(t) \/ RallocNoRoom(t)
        \/ RallocMove(t) \/ RallocFreePage(t)

ArenaSpec == ArenaInit /\ [][ArenaNext]_arenaVars

(***************************************************************************)
(* Properties.                                                               *)
(***************************************************************************)

SameRun(a, x, y) == x.need.small /\ y.need.small /\ RunAt(a, x.ptr) = RunAt(a, y.ptr)

\* Live allocations never share a byte, whatever was trimmed, grown, joined or
\* reused before: two regions of a run differ, all else lies on other pages;
\* none lies on a chunk's header, and an aligned one is aligned.
AllocationsApart ==
    /\ \A x, y \in InUse : x # y =>
        IF SameRun(arena, x, y) THEN x.ptr[3] # y.ptr[3]
        ELSE Extent(arena, x) \cap Extent(arena, y) = {}
    /\ \A x \in InUse : x.ptr[2] >= HeaderPages /\ x.ptr[2] % x.align = 0

\* The pages marked allocated are exactly those of live allocations: a freed,
\* trimmed or moved allocation leaves no page behind, and none in use is free.
PagesOwned ==
    UNION {Extent(arena, x) : x \in InUse} =
        {<<c, p>> \in arena.chunks \X Usable : ~FreePage(arena.map[c][p])}

\* First pages of the maximal free runs of a chunk.
FreeRuns(c) == {p \in Usable : FreeAt(arena.map[c], p) /\ ~FreeAt(arena.map[c], p - 1)}
RunEnd(c, p) == Min({q \in p..LastPage : q = LastPage \/ ~FreeAt(arena.map[c], q + 1)})

\* runs_avail lists exactly the maximal free runs outside the spare chunk, each
\* with its true length at both ends: no two free neighbours stay apart, and
\* best fit never sees a wrong size.
RunsAvailExact ==
    /\ arena.avail = UNION {{<<c, p>> : p \in FreeRuns(c)} : c \in arena.chunks \ {arena.spare}}
    /\ \A c \in arena.chunks : \A p \in FreeRuns(c) :
        LET n == RunEnd(c, p) - p + 1
        IN arena.map[c][p].v = n /\ arena.map[c][p + n - 1].v = n
    /\ arena.spare # NoChunk => FreeRuns(arena.spare) = {HeaderPages}
    /\ arena.spare # NoChunk => RunEnd(arena.spare, HeaderPages) = LastPage

DirtyPages(c) == {p \in Pages : Flag(arena.map[c][p], "dirty")}

\* Dirty pages are counted exactly, per chunk and in all, over splits, joins,
\* purges and unmapped chunks; chunks_dirty lists exactly the chunks that have
\* some, and after every operation no more than opt_dirty_max are left.
DirtyExact ==
    /\ \A c \in Slots : arena.ndirty[c] = Cardinality(DirtyPages(c))
    /\ arena.nd = MapThenSumSet(LAMBDA c : arena.ndirty[c], Slots)
    /\ arena.dirtyc = {c \in Slots : arena.ndirty[c] > 0}
    /\ arena.nd <= DirtyMax

NonFull(b) == {r \in DOMAIN arena.runs : arena.runs[r].bin = b /\ arena.runs[r].nfree > 0}

\* Every run of a bin with a free region can be found again, as the current
\* run or in the tree and never both; its count and mask agree with the live
\* regions, it is not empty, and no free region lies before minelm.
BinsExact ==
    /\ \A b \in DOMAIN BinInfo :
        /\ NonFull(b) = arena.bins[b].runs \cup ({arena.bins[b].runcur} \cap NonFull(b))
        /\ arena.bins[b].runcur \notin arena.bins[b].runs
    /\ \A r \in DOMAIN arena.runs :
        LET run == arena.runs[r]
            regions == {x.ptr[3] : x \in {y \in InUse : y.need.small /\ RunAt(arena, y.ptr) = r}}
        IN /\ run.mask = (0..(BinInfo[run.bin].nregs - 1)) \ regions
           /\ run.nfree = Cardinality(run.mask) /\ regions # {}
           /\ \A i \in run.mask : i \div ElmBits >= run.minelm

\* A free page marked as zeroed holds only zero bytes, so that calloc, which
\* clears only the others, returns zeroed pages.
ZeroedTrue ==
    /\ \A c \in arena.chunks : \A p \in Usable :
        Flag(arena.map[c][p], "zeroed") => FreePage(arena.map[c][p]) /\ arena.blank[c][p]
    /\ calloc_zero

\* The statistics' allocated bytes are those of the live allocations.
StatsExact == arena.used = MapThenSumSet(LAMBDA x : Weight(x.need), InUse)

\* What a thread read from the page map without the lock is still true when it
\* acts on it, whatever the other threads did to the pages around.
ReadStaysTrue ==
    \A t \in Mallocers :
        /\ call[t].op = "dalloc" => call[t].large = Flag(PageOf(arena, call[t].x.ptr), "large")
        /\ call[t].op \in {"ralloc", "move"} => call[t].old = arena_salloc(arena, call[t].x.ptr)

\* What callers rely on: an allocation is theirs alone, lies on pages marked as
\* allocated, is zeroed if that was asked for, and is freed as what it is.
AllocationsExact == AllocationsApart /\ PagesOwned /\ ZeroedTrue /\ ReadStaysTrue

\* What the arena relies on: its trees, lists and counts agree with the pages.
AccountsExact == RunsAvailExact /\ DirtyExact /\ BinsExact /\ StatsExact

=============================================================================
