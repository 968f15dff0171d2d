----------------------------- MODULE HugeAlloc -----------------------------
(***************************************************************************)
(* Chunks, huge allocations and the nodes that track them (jemalloc.c).      *)
(* Addresses are counted in units, ChunkUnits to a chunk; the kernel places  *)
(* a mapping where it likes, so a first mapping may not start at a chunk     *)
(* boundary.  State:                                                         *)
(*   vm        the mapped units                                              *)
(*   rtree     the addresses registered in chunk_rtree                       *)
(*   huge      the extent nodes in the tree of huge allocations              *)
(*   base      base_nodes, and base_next_addr and base_past_addr in nodes    *)
(*   hstats    curchunks, huge_allocated                                     *)
(*   job       what each thread is doing: the request and its locals         *)
(*   held      the program's pointers                                        *)
(* Locks held over a whole step are part of that step: base_mtx, huge_mtx    *)
(* and the lock of the rtree are each taken and released inside one action.  *)
(* The counters of stats_chunks have no lock of their own; an action updates *)
(* them at once.                                                             *)
(***************************************************************************)
EXTENDS Integers, Sequences, FiniteSets, FiniteSetsExt

CONSTANTS Threads, ChunkUnits,
          AddressSpace,          \* units of address space
          Places,         \* where the kernel may put a mapping nobody placed
          Requests,       \* [Threads -> set of [op, size, align]], in units
          Pagefile,       \* opt_pagefile
          BaseNodes,      \* extent nodes in the base pages of one mapping
          MaxHeld,        \* bound on allocations of the program
          MaxPallocs      \* bound on aligned allocations

VARIABLES vm, rtree, huge, base, hstats, job, held

hugeVars == <<vm, rtree, huge, base, hstats, job, held>>

Units(at, n) == at..(at + n - 1)
ChunkOffset(at) == at % ChunkUnits
Resting == [pc |-> "rest"]

-----------------------------------------------------------------------------
(* External: the kernel.                                                     *)

\* mmap without a hint: anywhere there is room, or it fails.
MapAnywhere(n) == {at \in Places : at + n <= AddressSpace /\ Units(at, n) \cap vm = {}}

\* pages_map(addr, n, pfd): a mapping elsewhere is undone.
CanMapAt(at, n) == at + n <= AddressSpace /\ Units(at, n) \cap vm = {}

-----------------------------------------------------------------------------
(* The allocator's own memory.                                               *)

\* base_alloc of a node when base_nodes is empty.  base_pages_alloc_mmap says it
\* succeeded also when it did not, and the node is then cut past the mapping.
BaseAlloc(mapped) ==
    LET full == base.next + 1 > base.past
        at == IF full /\ mapped THEN base.regions * 100 ELSE base.next
    IN [node |-> at,
        base |-> [base EXCEPT !.next = at + 1,
                              !.past = IF full /\ mapped THEN at + BaseNodes ELSE @,
                              !.regions = IF full /\ mapped THEN @ + 1 ELSE @,
                              !.short = @ \/ (full /\ ~mapped)]]

\* base_node_alloc.
NodeAlloc(mapped) ==
    IF base.nodes # <<>> THEN [node |-> Head(base.nodes), base |-> [base EXCEPT !.nodes = Tail(@)]]
    ELSE BaseAlloc(mapped)

\* base_node_dealloc.
NodeDealloc(node) == base' = [base EXCEPT !.nodes = <<node>> \o @]

-----------------------------------------------------------------------------
(* Requests of the program.  A job goes through the steps named by pc; what  *)
(* it is for: "malloc", "palloc" or "ralloc".                                *)

Set(t, new) == job' = [job EXCEPT ![t] = new]
Go(t, pc) == Set(t, [job[t] EXCEPT !.pc = pc])

\* The size huge_palloc maps to find an aligned range in.
OversizeFor(size, align) == IF size >= align THEN size + align - ChunkUnits ELSE 2 * align - ChunkUnits

\* huge_malloc and huge_palloc up to the node.  With a page file huge_palloc
\* makes it now, and when that fails the node is lost.  (When the base pages
\* themselves have no page file the caller gets NULL and nothing has changed.)
Begin(t) ==
    /\ job[t].pc = "rest"
    /\ Cardinality(held) < MaxHeld
    /\ \E r \in Requests[t], mapped \in BOOLEAN :
        LET n == NodeAlloc(mapped)
        IN /\ r.op \in {"malloc", "palloc"}
           /\ r.op = "palloc" => base.leaked + hstats.pallocs < MaxPallocs
           /\ \/ /\ base' = n.base
                 /\ hstats' = [hstats EXCEPT !.pallocs = IF r.op = "palloc" THEN @ + 1 ELSE @]
                 /\ Set(t, [pc |-> "map", op |-> r.op, node |-> n.node, size |-> r.size, align |-> r.align, at |-> 0, over |-> 0,
                         want |-> IF r.op = "palloc" THEN OversizeFor(r.size, r.align) ELSE r.size, old |-> {}])
              \/ /\ Pagefile /\ r.op = "palloc"
                 /\ base' = [n.base EXCEPT !.leaked = @ + 1]
                 /\ UNCHANGED <<hstats, job>>
    /\ UNCHANGED <<vm, rtree, huge, held>>

\* huge_ralloc: another number of chunks means a new allocation.
huge_ralloc(t) ==
    /\ job[t].pc = "rest"
    /\ \E r \in Requests[t], h \in held, mapped \in BOOLEAN :
        LET n == NodeAlloc(mapped)
        IN /\ r.op = "ralloc" /\ r.size # h.size
           /\ base' = n.base
           /\ Set(t, [pc |-> "map", op |-> "malloc", node |-> n.node, size |-> r.size, align |-> ChunkUnits, at |-> 0, over |-> 0,
                      want |-> r.size, old |-> {h}])
           /\ held' = held \ {h}
    /\ UNCHANGED <<vm, rtree, huge, hstats>>

\* chunk_alloc_mmap fails: the node goes back, the caller gets NULL and a
\* reallocation keeps what it had.
GiveUp(t) ==
    /\ NodeDealloc(job[t].node)
    /\ Set(t, Resting)
    /\ held' = held \cup job[t].old
    /\ UNCHANGED <<vm, rtree, huge, hstats>>

\* Its first mapping, anywhere (or the page file of a huge_malloc fails).
MapFirst(t) ==
    /\ job[t].pc = "map"
    /\ \/ GiveUp(t)
       \/ \E at \in MapAnywhere(job[t].want) :
            /\ vm' = vm \cup Units(at, job[t].want)
            /\ Set(t, [job[t] EXCEPT !.at = at, !.pc = IF ChunkOffset(at) = 0 THEN "register" ELSE "unmap"])
            /\ UNCHANGED <<rtree, huge, base, hstats, held>>

\* Not at a chunk boundary: unmap, and ask for the next one.
UnmapFirst(t) ==
    /\ job[t].pc = "unmap"
    /\ vm' = vm \ Units(job[t].at, job[t].want)
    /\ Set(t, [job[t] EXCEPT !.at = @ + job[t].want - ChunkOffset(@), !.pc = "place"])
    /\ UNCHANGED <<rtree, huge, base, hstats, held>>

\* pages_map at a chosen address; when it fails, map a chunk more than wanted.
PlaceAt(t) ==
    /\ job[t].pc = "place"
    /\ \/ /\ CanMapAt(job[t].at, job[t].want)
          /\ vm' = vm \cup Units(job[t].at, job[t].want)
          /\ Go(t, "register")
       \/ Go(t, "oversize") /\ UNCHANGED vm
    /\ UNCHANGED <<rtree, huge, base, hstats, held>>

MapOversize(t) ==
    /\ job[t].pc = "oversize"
    /\ \/ GiveUp(t)
       \/ \E at \in MapAnywhere(job[t].want + ChunkUnits) :
            /\ vm' = vm \cup Units(at, job[t].want + ChunkUnits)
            /\ Set(t, [job[t] EXCEPT !.at = at, !.pc = "undo"])
            /\ UNCHANGED <<rtree, huge, base, hstats, held>>

UnmapOversize(t) ==
    LET at == job[t].at
    IN /\ job[t].pc = "undo"
       /\ vm' = vm \ Units(at, job[t].want + ChunkUnits)
       /\ Set(t, [job[t] EXCEPT !.at = IF ChunkOffset(at) = 0 THEN at ELSE at + ChunkUnits - ChunkOffset(at), !.pc = "place"])
       /\ UNCHANGED <<rtree, huge, base, hstats, held>>

\* The rest of chunk_alloc: the counters and chunk_rtree.
Register(t) ==
    /\ job[t].pc = "register"
    /\ rtree' = rtree \cup {job[t].at}
    /\ hstats' = [hstats EXCEPT !.curchunks = @ + job[t].want \div ChunkUnits]
    /\ Go(t, IF job[t].op = "palloc" THEN "shrink" ELSE "insert")
    /\ UNCHANGED <<vm, huge, base, held>>

\* With a page file chunk_rtree may have no room to grow: chunk_alloc counts the
\* chunks back, unmaps them and fails.
RegisterFails(t) ==
    /\ job[t].pc = "register" /\ Pagefile
    /\ vm' = vm \ Units(job[t].at, job[t].want)
    /\ Go(t, "refused")
    /\ UNCHANGED <<rtree, huge, base, hstats, held>>
RequestRefused(t) == job[t].pc = "refused" /\ GiveUp(t)

\* huge_palloc gives the large mapping back (chunk_dealloc, in two steps) and
\* maps the part of it that starts offset further on.
ShrinkClear(t) ==
    /\ job[t].pc = "shrink"
    /\ rtree' = rtree \ {job[t].at}
    /\ hstats' = [hstats EXCEPT !.curchunks = @ - job[t].want \div ChunkUnits]
    /\ Go(t, "shrunk")
    /\ UNCHANGED <<vm, huge, base, held>>
ShrinkUnmap(t) ==
    /\ job[t].pc = "shrunk"
    /\ vm' = vm \ Units(job[t].at, job[t].want)
    /\ Set(t, [job[t] EXCEPT !.over = job[t].at, !.at = @ + (@ % job[t].align), !.pc = "aligned"])
    /\ UNCHANGED <<rtree, huge, base, hstats, held>>
MapAligned(t) ==
    /\ job[t].pc = "aligned"
    /\ \/ /\ CanMapAt(job[t].at, job[t].size)
          /\ vm' = vm \cup Units(job[t].at, job[t].size)
          /\ Go(t, "insert")
       \/ Go(t, "map") /\ UNCHANGED vm
    /\ UNCHANGED <<rtree, huge, base, hstats, held>>

\* The node enters the tree and the caller gets the pointer; a reallocation goes
\* on to free the old one.
Insert(t) ==
    LET j == job[t]
        p == [at |-> j.at, size |-> j.size, align |-> j.align, op |-> j.op, over |-> j.over]
    IN /\ j.pc = "insert"
       /\ huge' = huge \cup {[at |-> j.at, size |-> j.size, node |-> j.node]}
       /\ hstats' = [hstats EXCEPT !.allocated = @ + j.size]
       /\ held' = held \cup {p}
       /\ IF j.old = {} THEN Set(t, Resting) ELSE \E h \in j.old : Set(t, [pc |-> "free", at |-> h.at, op |-> h.op])
       /\ UNCHANGED <<vm, rtree, base>>

-----------------------------------------------------------------------------
\* free of a huge pointer.
huge_dalloc(t) ==
    /\ job[t].pc = "rest"
    /\ \E h \in held : /\ Set(t, [pc |-> "free", at |-> h.at, op |-> h.op])
                       /\ held' = held \ {h}
    /\ UNCHANGED <<vm, rtree, huge, base, hstats>>

Extract(t) ==
    /\ job[t].pc = "free"
    /\ \E n \in huge :
        /\ n.at = job[t].at
        /\ huge' = huge \ {n}
        /\ hstats' = [hstats EXCEPT !.allocated = @ - n.size]
        /\ Set(t, [pc |-> "clear", at |-> n.at, size |-> n.size, node |-> n.node, op |-> job[t].op])
    /\ UNCHANGED <<vm, rtree, base, held>>

\* chunk_dealloc: the counter and chunk_rtree, then the memory.
Clear(t) ==
    /\ job[t].pc = "clear"
    /\ rtree' = rtree \ {job[t].at}
    /\ hstats' = [hstats EXCEPT !.curchunks = @ - job[t].size \div ChunkUnits,
                                !.uncounted = IF job[t].op = "palloc" THEN @ + job[t].size \div ChunkUnits ELSE @]
    /\ Go(t, "unmapped")
    /\ UNCHANGED <<vm, huge, base, held>>
Unmap(t) ==
    /\ job[t].pc = "unmapped"
    /\ vm' = vm \ Units(job[t].at, job[t].size)
    /\ Go(t, "node")
    /\ UNCHANGED <<rtree, huge, base, hstats, held>>
FreeNode(t) ==
    /\ job[t].pc = "node"
    /\ NodeDealloc(job[t].node)
    /\ Set(t, Resting)
    /\ UNCHANGED <<vm, rtree, huge, hstats, held>>

HugeInit ==
    /\ vm = {} /\ rtree = {} /\ huge = {} /\ held = {}
    /\ base = [nodes |-> <<>>, next |-> 0, past |-> BaseNodes, regions |-> 1, short |-> FALSE, leaked |-> 0]
    /\ hstats = [curchunks |-> 0, allocated |-> 0, uncounted |-> 0, pallocs |-> 0]
    /\ job = [t \in Threads |-> Resting]

HugeNext == \E t \in Threads :
    \/ Begin(t) \/ huge_ralloc(t) \/ MapFirst(t) \/ UnmapFirst(t) \/ PlaceAt(t) \/ MapOversize(t) \/ UnmapOversize(t)
    \/ Register(t) \/ RegisterFails(t) \/ RequestRefused(t) \/ ShrinkClear(t) \/ ShrinkUnmap(t) \/ MapAligned(t) \/ Insert(t)
    \/ huge_dalloc(t) \/ Extract(t) \/ Clear(t) \/ Unmap(t) \/ FreeNode(t)

-----------------------------------------------------------------------------
\* The ranges in use: those of the tree, and those a thread has mapped for a
\* request or is about to give back.
JobRange(j) ==
    CASE j.pc \in {"unmap", "register", "shrink", "shrunk"} -> {[at |-> j.at, size |-> j.want]}
      [] j.pc = "undo" -> {[at |-> j.at, size |-> j.want + ChunkUnits]}
      [] j.pc \in {"insert", "clear", "unmapped"} -> {[at |-> j.at, size |-> j.size]}
      [] OTHER -> {}
TreeRanges == {[at |-> n.at, size |-> n.size] : n \in huge}
Busy == {t \in Threads : JobRange(job[t]) # {}}

\* Every range in use is mapped and no two share a unit, whichever threads map,
\* unmap and retry at the same time; and nothing else stays mapped: a mapping
\* made on the way to an aligned one is always given back.
RangesApart ==
    /\ \A r, q \in TreeRanges : r # q => Units(r.at, r.size) \cap Units(q.at, q.size) = {}
    /\ \A t \in Busy, r \in TreeRanges : \A j \in JobRange(job[t]) : Units(r.at, r.size) \cap Units(j.at, j.size) = {}
    /\ \A t, u \in Busy : t # u =>
          \A j \in JobRange(job[t]), k \in JobRange(job[u]) : Units(j.at, j.size) \cap Units(k.at, k.size) = {}
    /\ vm = UNION {Units(r.at, r.size) : r \in TreeRanges \cup UNION {JobRange(job[t]) : t \in Threads}}

\* A pointer of the program is in the tree with its size, at a chunk boundary,
\* and an aligned one is aligned when the large mapping began at a multiple of
\* the alignment or half way between two (over + offset elsewhere is not).
PointersTracked ==
    \A h \in held :
        /\ \E n \in huge : n.at = h.at /\ n.size = h.size
        /\ ChunkOffset(h.at) = 0
        /\ h.op = "palloc" /\ h.over % h.align \in {0, h.align \div 2} => h.at % h.align = 0

\* chunk_rtree names only memory that is mapped and in use: a chunk leaves it
\* before the memory goes back to the kernel.  Every pointer of huge_malloc and
\* huge_ralloc is in it (those of huge_palloc never are).
RegisteredLive ==
    /\ \A a \in rtree : \E r \in TreeRanges \cup UNION {JobRange(job[t]) : t \in Threads} : r.at = a
    /\ \A h \in held : h.at \in rtree <=> h.op # "palloc"

\* No extent node has two uses: in the free list, in the tree or with a thread;
\* and as long as the base pages could be mapped it lies inside them.
NodesApart ==
    LET working == {t \in Threads : "node" \in DOMAIN job[t]}
    IN /\ ~base.short => \A n \in huge : n.node % 100 < BaseNodes
       /\ \A i, k \in DOMAIN base.nodes : base.nodes[i] = base.nodes[k] => i = k
       /\ \A n, m \in huge : n.node = m.node => n = m
       /\ \A n \in huge : n.node \notin {base.nodes[i] : i \in DOMAIN base.nodes}
       /\ \A t \in working : /\ job[t].node \notin {base.nodes[i] : i \in DOMAIN base.nodes}
                            /\ \A n \in huge : n.node # job[t].node
                            /\ \A u \in working : job[u].node = job[t].node => u = t

\* huge_allocated is the sum of the tree; curchunks counts the chunks mapped by
\* chunk_alloc, less those of every huge_palloc that was freed: it did not add
\* them.
HugeCounts ==
    LET counted == {t \in Threads : \/ job[t].pc = "shrink"
                                    \/ job[t].pc \in {"insert", "clear"} /\ job[t].op # "palloc"}
        inTree == {n \in huge : \/ \E h \in held : h.at = n.at /\ h.op # "palloc"
                                \/ \E t \in Threads : job[t].pc = "free" /\ job[t].at = n.at /\ job[t].op # "palloc"
                                \/ \E t \in Threads : "old" \in DOMAIN job[t] /\ \E h \in job[t].old : h.at = n.at /\ h.op # "palloc"}
        Chunks(j) == (IF j.pc = "shrink" THEN j.want ELSE j.size) \div ChunkUnits
    IN /\ hstats.allocated = MapThenSumSet(LAMBDA n : n.size, huge)
       /\ hstats.curchunks + hstats.uncounted =
              MapThenSumSet(LAMBDA n : n.size \div ChunkUnits, inTree) + MapThenSumSet(LAMBDA t : Chunks(job[t]), counted)

\* What the huge allocations of jemalloc.c promise, taken together.
HugeSound == RangesApart /\ PointersTracked /\ RegisteredLive /\ NodesApart /\ HugeCounts
=============================================================================
