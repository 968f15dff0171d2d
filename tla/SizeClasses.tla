---------------------------- MODULE SizeClasses ----------------------------
(***************************************************************************)
(* The arithmetic of jemalloc.c: the run-time options and what they set, the *)
(* size classes and the layout of their runs, the number of a region from    *)
(* its address, the sizes of aligned and cleared allocations, and the paths  *)
(* of the tree that knows the chunks.                                        *)
(***************************************************************************)
EXTENDS Integers, Sequences, SequencesExt, FiniteSets, FiniteSetsExt

CONSTANT SizeCases

VARIABLE sizecase

Ceil(x, unit) == ((x + unit - 1) \div unit) * unit
Log2(x) == CHOOSE n \in 0..30 : 2^n = x
pow2_ceil(x) == Min({2^n : n \in {m \in 0..20 : 2^m >= x}})

\* ffs of a power of two, or of zero.
ffs(x) == IF x = 0 THEN 0 ELSE Log2(x) + 1

QUANTUM_2POW_MIN == 4
TINY_MIN_2POW == 1
RUN_MAX_SMALL == 2^15
RUN_MAX_OVRHD == 61
RUN_MAX_OVRHD_RELAX == 6144
MaskBits == 32                                     \* bits of an element of regs_mask
HeaderSize(nelms) == 24 + 4 * (nelms - 1)          \* arena_run_t
ChunkHeader(npages) == 56 + 24 * (npages - 1)      \* arena_chunk_t

-----------------------------------------------------------------------------
(* malloc_init_hard: the options.                                            *)

Defaults == [quantum |-> QUANTUM_2POW_MIN, smallmax |-> 9, chunk |-> 20, dirty |-> 1024, narenas |-> 0]

\* One letter of the options, for pages of 2^page bytes.
Option(o, c, page) ==
    CASE c = "q" -> [o EXCEPT !.quantum = IF @ > QUANTUM_2POW_MIN THEN @ - 1 ELSE @]
      [] c = "Q" -> [o EXCEPT !.quantum = IF @ < page - 1 THEN @ + 1 ELSE @]
      [] c = "s" -> [o EXCEPT !.smallmax = IF @ > QUANTUM_2POW_MIN THEN @ - 1 ELSE @]
      [] c = "S" -> [o EXCEPT !.smallmax = IF @ < page - 1 THEN @ + 1 ELSE @]
      [] c = "k" -> [o EXCEPT !.chunk = IF @ > page + 1 THEN @ - 1 ELSE @]
      [] c = "K" -> [o EXCEPT !.chunk = IF @ + 1 < 64 THEN @ + 1 ELSE @]
      [] c = "f" -> [o EXCEPT !.dirty = @ \div 2]
      [] c = "F" -> [o EXCEPT !.dirty = IF @ = 0 THEN 1 ELSE 2 * @]
      [] c = "n" -> [o EXCEPT !.narenas = @ - 1]
      [] c = "N" -> [o EXCEPT !.narenas = @ + 1]
      [] OTHER -> o

\* A count before a letter repeats it.
RepeatOption(o, x, page) == FoldLeft(LAMBDA acc, i : Option(acc, x.letter, page), o, [i \in 1..x.times |-> i])
Options(opts, page) == FoldLeft(LAMBDA acc, x : RepeatOption(acc, x, page), Defaults, opts)

\* The settings made of them.
SettingsOf(o, page) ==
    LET q == o.quantum
        s == IF o.smallmax < q THEN q ELSE o.smallmax
        npages == 2^(o.chunk - page)
        header == Ceil(ChunkHeader(npages), 2^page) \div 2^page
        shifted == IF o.narenas >= 0 THEN 2^o.narenas ELSE 0
        most == 2^o.chunk \div 8
    IN [page |-> page, quantum |-> q, small_max |-> 2^s, smallmax |-> s,
        bin_maxclass |-> 2^page \div 2,
        ntbins |-> q - TINY_MIN_2POW,
        nqbins |-> 2^s \div 2^q,
        nsbins |-> page - s - 1,
        small_min |-> IF q - TINY_MIN_2POW > 0 THEN 2^q \div 2 + 1 ELSE 1,
        arena_maxclass |-> 2^o.chunk - header * 2^page,
        narenas |-> CASE shifted = 0 -> 1 [] shifted > most -> most [] OTHER -> shifted]
Settings(opts, page) == SettingsOf(Options(opts, page), page)

-----------------------------------------------------------------------------
(* arena_new: the bins.                                                      *)

\* The do-while of arena_bin_run_size_calc: regions are dropped until the
\* header fits before the first one.
MaskElms(nregs) == nregs \div MaskBits + (IF nregs % MaskBits # 0 THEN 1 ELSE 0)
Fits(run, reg, nregs) == HeaderSize(MaskElms(nregs)) <= run - nregs * reg
Laid(run, reg, n) == [run_size |-> run, reg_size |-> reg, nregs |-> n, nelms |-> MaskElms(n), reg0 |-> run - n * reg]

Layout(run, reg) == Laid(run, reg, Max({n \in 0..((run - HeaderSize(1)) \div reg) : Fits(run, reg, n)}))

\* The expansion loop: a page more as long as the header weighs too much.
RECURSIVE Expanded(_, _)
Expanded(st, good) ==
    LET try == Layout(good.run_size + 2^st.page, good.reg_size)
    IN IF /\ try.run_size <= st.arena_maxclass
          /\ try.run_size <= RUN_MAX_SMALL
          /\ RUN_MAX_OVRHD * (good.reg_size * 8) > RUN_MAX_OVRHD_RELAX
          /\ try.reg0 * 2^12 > RUN_MAX_OVRHD * try.run_size
       THEN Expanded(st, try) ELSE good
arena_bin_run_size_calc(st, reg, min_run_size) == Expanded(st, Layout(min_run_size, reg))

RegSize(st, i) ==
    CASE i < st.ntbins -> 2^(TINY_MIN_2POW + i)
      [] i \in st.ntbins..(st.ntbins + st.nqbins - 1) -> 2^st.quantum * (i - st.ntbins + 1)
      [] OTHER -> st.small_max * 2^(i - (st.ntbins + st.nqbins) + 1)

\* Each bin starts from the run size of the one before; bin i is at i + 1.
Bins(st) ==
    FoldLeft(LAMBDA acc, k :
                Append(acc, arena_bin_run_size_calc(st, RegSize(st, k - 1),
                                                    IF acc = <<>> THEN 2^st.page ELSE Last(acc).run_size)),
             <<>>, [k \in 1..(st.ntbins + st.nqbins + st.nsbins) |-> k])

-----------------------------------------------------------------------------
(* Sizes and regions.                                                        *)

\* mutant: a size is not rounded up to the quantum.
BinIndexDown(st, size) ==
    CASE size < st.small_min -> ffs(pow2_ceil(size) \div 2^(TINY_MIN_2POW + 1))
      [] size >= st.small_min /\ size <= st.small_max -> st.ntbins + Max({size \div 2^st.quantum, 1}) - 1
      [] OTHER -> st.ntbins + st.nqbins + ffs(pow2_ceil(size) \div 2^st.smallmax) - 2

\* arena_malloc_small: the bin of a size up to bin_maxclass.
BinIndex(st, size) ==
    CASE size < st.small_min -> ffs(pow2_ceil(size) \div 2^(TINY_MIN_2POW + 1))
      [] size >= st.small_min /\ size <= st.small_max -> st.ntbins + Ceil(size, 2^st.quantum) \div 2^st.quantum - 1
      [] OTHER -> st.ntbins + st.nqbins + ffs(pow2_ceil(size) \div 2^st.smallmax) - 2

\* arena_ralloc: whether the object stays where it is; the old size is that of
\* its class.
InPlace(st, size, oldsize) ==
    CASE size < st.small_min ->
            /\ oldsize < st.small_min
            /\ ffs(pow2_ceil(size) \div 2^(TINY_MIN_2POW + 1)) = ffs(pow2_ceil(oldsize) \div 2^(TINY_MIN_2POW + 1))
      [] size >= st.small_min /\ size <= st.small_max ->
            /\ oldsize >= st.small_min /\ oldsize <= st.small_max
            /\ Ceil(size, 2^st.quantum) = Ceil(oldsize, 2^st.quantum)
      [] OTHER -> /\ oldsize > st.small_max /\ oldsize <= st.bin_maxclass
                  /\ pow2_ceil(size) = pow2_ceil(oldsize)

\* arena_run_reg_dalloc: the number of the region diff bytes behind the first,
\* by a shift, by the inverse of the size or by division.
SizeInv(size) == (2^21 \div size) + 1
RegInd(size, diff) ==
    CASE size \in {2^n : n \in 0..20} -> diff \div size
      [] size \notin {2^n : n \in 0..20} /\ size <= 29 * 16 + 2 -> (SizeInv((size \div 16) * 16) * diff) \div 2^21
      [] OTHER -> diff \div size

-----------------------------------------------------------------------------
(* memalign and calloc, in a size_t of st.bits bits.                         *)

Wrap(x, bits) == x % 2^bits
CeilWrap(x, unit, bits) == Wrap((Wrap(x + unit - 1, bits) \div unit) * unit, bits)

\* ipalloc: who serves the request, with what size, or nobody.
ipalloc(st, alignment, size) ==
    LET bits == st.bits
        page == 2^st.page
        ceil == CeilWrap(size, alignment, bits)
        align == Ceil(alignment, page)
        pages == CeilWrap(size, page, bits)
        run == IF pages >= align THEN Wrap(pages + align - page, bits) ELSE Wrap(2 * align - page, bits)
        chunks == CeilWrap(pages, 2^st.chunk, bits)
    IN CASE ceil < size -> [by |-> "nobody"]
         [] ceil >= size /\ (ceil <= page \/ (alignment <= page /\ ceil <= st.arena_maxclass)) ->
               [by |-> IF ceil <= page \div 2 THEN "bin" ELSE "pages", size |-> ceil]
         [] ceil >= size /\ ~(ceil <= page \/ (alignment <= page /\ ceil <= st.arena_maxclass)) ->
               CASE pages < size \/ Wrap(pages + align, bits) < pages -> [by |-> "nobody"]
                 [] ~(pages < size \/ Wrap(pages + align, bits) < pages) /\ run <= st.arena_maxclass ->
                       [by |-> "arena_palloc", size |-> pages, align |-> align, run |-> run]
                 [] OTHER -> IF align <= 2^st.chunk
                             THEN (IF chunks = 0 THEN [by |-> "nobody"] ELSE [by |-> "huge_malloc", size |-> chunks])
                             ELSE [by |-> "huge_palloc", size |-> chunks]

\* arena_palloc: where in the run the aligned part starts, for a run at page at.
Lead(at, align) == IF at % align = 0 THEN 0 ELSE align - (at % align)

\* calloc: the size asked for, 0 when it returns NULL.
HalfUsed(x, bits) == x >= 2^(bits \div 2)
CallocSize(num, size, bits) ==
    LET product == Wrap(num * size, bits)
    IN IF product # 0 /\ (HalfUsed(num, bits) \/ HalfUsed(size, bits)) /\ product \div size # num THEN 0 ELSE product

-----------------------------------------------------------------------------
(* chunk_rtree.                                                              *)

\* malloc_rtree_new: the bits of each level.
LevelBits(bits, perLevel) ==
    LET height == Ceil(bits, perLevel) \div perLevel
    IN [i \in 1..height |-> IF i = 1 /\ perLevel * height > bits THEN bits % perLevel ELSE perLevel]

\* malloc_rtree_get and malloc_rtree_set: the index at each level for a key of
\* ptrBits bits.
Path(key, levels, ptrBits) ==
    [i \in DOMAIN levels |->
        LET lshift == FoldLeft(LAMBDA acc, b : acc + b, 0, SubSeq(levels, 1, i - 1))
        IN Wrap(key * 2^lshift, ptrBits) \div 2^(ptrBits - levels[i])]

SizeInit == sizecase \in SizeCases
SizeNext == UNCHANGED sizecase

-----------------------------------------------------------------------------
\* Whatever the options: the header of a run fits before its regions, the
\* regions end with the run, the mask has a bit for each; a size is served by
\* the smallest class that holds it, and is reallocated in place exactly when
\* the class stays the same.
ClassesExact ==
    sizecase.kind = "options" =>
        \A st \in {Settings(sizecase.opts, sizecase.page)} : \A bins \in {Bins(st)} :
        LET sizes == {b.reg_size : b \in Range(bins)}
        IN /\ \A b \in Range(bins) :
                /\ b.nregs >= 1
                /\ b.reg0 + b.nregs * b.reg_size = b.run_size
                /\ HeaderSize(b.nelms) <= b.reg0
                /\ b.nelms * MaskBits >= b.nregs
                /\ b.run_size <= st.arena_maxclass
           /\ \A size \in 1..st.bin_maxclass :
                LET class == Min({r \in sizes : r >= size})
                IN /\ bins[BinIndex(st, size) + 1].reg_size = class
                   /\ \A old \in sizes : InPlace(st, size, old) <=> old = class
           /\ st.narenas >= 1

\* A freed region is counted back into the bit it was taken from: the quick
\* division gives its number for every region of every bin.  A region of a size
\* that is a multiple of some power of two is aligned to it, as ipalloc relies
\* on.
RegionsExact ==
    sizecase.kind = "options" =>
        \A b \in Range(Bins(Settings(sizecase.opts, sizecase.page))) :
            /\ \A r \in 0..(b.nregs - 1) : RegInd(b.reg_size, r * b.reg_size) = r
            /\ \A n \in 1..(sizecase.page - 1) : b.reg_size % 2^n = 0 => b.reg0 % 2^n = 0

\* An aligned allocation gets at least the bytes asked for, at the alignment
\* asked for, or nothing because the sum does not fit a size_t.
AlignedExact ==
    sizecase.kind = "align" =>
        LET st == sizecase
            a == sizecase.alignment
        IN \A size \in 1..(2^st.bits - 1) :
              LET r == ipalloc(st, a, size)
              IN CASE r.by = "nobody" -> size + a + 2^st.chunk > 2^st.bits
                   [] r.by = "bin" -> r.size >= size /\ r.size % a = 0
                   [] r.by = "pages" -> r.size >= size /\ a <= 2^st.page
                   [] r.by = "arena_palloc" ->
                         /\ r.size >= size
                         /\ \A at \in 0..(2^(st.chunk - st.page) - 1) :
                               LET p == at * 2^st.page
                               IN (p + Lead(p, r.align)) % a = 0 /\ Lead(p, r.align) + r.size <= r.run
                   [] r.by = "huge_malloc" -> r.size >= size /\ a <= 2^st.chunk
                   [] r.by = "huge_palloc" -> r.size >= size /\ r.size + a <= 2^st.bits

\* calloc never allocates less than num * size bytes: a product that does not
\* fit is refused.
CallocExact ==
    sizecase.kind = "calloc" =>
        \A size \in 0..(2^sizecase.bits - 1) :
            CallocSize(sizecase.num, size, sizecase.bits) \in
                (IF sizecase.num * size < 2^sizecase.bits THEN {sizecase.num * size} ELSE {0})

\* Two chunks never share a place in chunk_rtree.
PathsApart ==
    sizecase.kind = "rtree" =>
        LET n == sizecase.bits - sizecase.chunk
            levels == LevelBits(n, sizecase.perLevel)
            keys == {k * 2^sizecase.chunk : k \in 0..(2^n - 1)}
        IN \A k \in keys : /\ \A i \in DOMAIN levels : Path(k, levels, sizecase.bits)[i] < 2^levels[i]
                           /\ Path(k, levels, sizecase.bits) = Path(sizecase.key, levels, sizecase.bits) => k = sizecase.key

\* The arithmetic of the allocator, taken together.
SizesExact == ClassesExact /\ RegionsExact /\ AlignedExact /\ CallocExact /\ PathsApart
=============================================================================
