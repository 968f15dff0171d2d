---------------------------- MODULE MemoryProofs ----------------------------
(***************************************************************************)
(* Proofs about who owns memory, for any numbers of blocks and handlers:   *)
(* the fragmented pool (FragPool) and the heap of page handlers (WebAlloc).*)
(***************************************************************************)
EXTENDS FragPool, WebAlloc, FiniteSetTheorems, TLAPS

USE SMTT(60)    \* the SMT backend and its time limit, where a step names no other

-----------------------------------------------------------------------------
(* FragPool: the slots of the pool.                                        *)

\* Arrays that grow by one at the end, are cut off, or are given whole.
LEMMA GrownByOne ==
    ASSUME NEW S, NEW s \in Seq(S), NEW x \in S
    PROVE  /\ Append(s, x) \in Seq(S) /\ Len(Append(s, x)) = Len(s) + 1 /\ Append(s, x)[Len(s) + 1] = x
           /\ \A j \in DOMAIN s : Append(s, x)[j] = s[j]
OBVIOUS

LEMMA CutOff ==
    ASSUME NEW S, NEW s \in Seq(S), NEW m \in Int, 1 <= m + 1, m <= Len(s)
    PROVE  SubSeq(s, 1, m) \in Seq(S) /\ Len(SubSeq(s, 1, m)) = m /\ \A j \in 1..m : SubSeq(s, 1, m)[j] = s[j]
OBVIOUS

LEMMA GivenWhole ==
    ASSUME NEW S, NEW n \in Nat, NEW s, s = [i \in 1..n |-> s[i]], \A i \in 1..n : s[i] \in S
    PROVE  s \in Seq(S) /\ Len(s) = n /\ DOMAIN s = 1..n
OBVIOUS

\* A non-empty set of naturals has a least element: what a scan from the
\* start of the slot array finds.
LEMMA NatMin ==
    ASSUME NEW T \in SUBSET Nat, T # {}
    PROVE  \E x \in T : \A y \in T : x <= y
<1> DEFINE R == OpToRel(<, Nat)
<1>1. IsWellFoundedOn(R, Nat)
    BY NatLessThanWellFounded, Zenon
<1>2. PICK x \in T : \A y \in T : ~(<<y, x>> \in R)
    BY <1>1, WFMin, Zenon
<1>3. ASSUME NEW y \in T PROVE x <= y
    <2>1. x \in Nat /\ y \in Nat
        OBVIOUS
    <2>2. y < x => <<y, x>> \in R
        BY <2>1 DEF OpToRel
    <2>3. ~(<<y, x>> \in R)
        BY <1>2, Zenon
    <2> HIDE DEF R
    <2> QED
        BY <2>1, <2>2, <2>3
<1> QED
    BY <1>3

\* ... and one bounded from above has a greatest element.
LEMMA NatMax ==
    ASSUME NEW T \in SUBSET Nat, T # {}, NEW n \in Nat, \A x \in T : x <= n
    PROVE  \E x \in T : \A y \in T : y <= x
<1> DEFINE U == {n - x : x \in T}
<1>1. U \in SUBSET Nat /\ U # {}
    <2>1. \A x \in T : n - x \in Nat
        OBVIOUS
    <2> QED
        BY <2>1, Zenon
<1>2. PICK u \in U : \A v \in U : u <= v
    BY <1>1, NatMin, Zenon
<1>3. PICK x \in T : u = n - x
    OBVIOUS
<1>4. \A y \in T : n - x <= n - y
    BY <1>2, <1>3
<1> QED
    BY <1>3, <1>4

\* The scan of frag_pool_alloc stops at a free slot when there is one.
LEMMA AllocIndexFree ==
    ASSUME NEW p \in Pool, Free(p) # {}
    PROVE  AllocIndex(p) \in Free(p)
<1>1. Free(p) \in SUBSET Nat
    BY DEF Free, Pool, Slot
<1>2. \E i \in Free(p) : \A j \in Free(p) : i <= j
    BY <1>1, NatMin
<1> QED
    BY <1>2 DEF AllocIndex

\* Setting a slot's flag keeps it a slot and keeps its block.
LEMMA SetFlag ==
    ASSUME NEW s \in Slot, NEW v \in BOOLEAN
    PROVE  LET t == [s EXCEPT !.free = v]
           IN  t \in Slot /\ t.data = s.data /\ t.free = v
<1>1. s = [data |-> s.data, free |-> s.free] /\ s.data \in Blocks
    BY DEF Slot
<1>2. [s EXCEPT !.free = v] = [data |-> s.data, free |-> v]
    BY <1>1
<1> QED
    BY <1>1, <1>2 DEF Slot

\* A record with the three fields of a pool is a pool.
LEMMA PoolRecord ==
    ASSUME NEW e \in Seq(Slot), NEW n \in Nat
    PROVE  [e |-> e, cur_len |-> n, reserved_len |-> Reserved] \in Pool
BY DEF Pool

\* frag_pool_alloc on a pool with a free slot: that slot changes hands and
\* nothing else does.
LEMMA AllocSlotLemma ==
    ASSUME NEW p \in Pool, Free(p) # {}, NEW b
    PROVE  LET q == frag_pool_alloc(p, b)
               k == AllocIndex(p)
           IN  /\ q \in Pool
               /\ k \in DOMAIN p.e /\ p.e[k].free
               /\ Len(q.e) = Len(p.e)
               /\ q.cur_len = p.cur_len + 1
               /\ \A j \in DOMAIN p.e : /\ q.e[j].data = p.e[j].data
                                       /\ q.e[j].free = (p.e[j].free /\ j # k)
<1> DEFINE k == AllocIndex(p)
           q == frag_pool_alloc(p, b)
<1>1. k \in DOMAIN p.e /\ p.e[k].free
    BY AllocIndexFree DEF Free, Used
<1>2. q = [p EXCEPT !.cur_len = @ + 1, !.e = [@ EXCEPT ![k].free = FALSE]]
    BY Zenon DEF frag_pool_alloc
<1>3. p.e \in Seq(Slot) /\ p.cur_len \in Nat /\ p.reserved_len = Reserved
    BY DEF Pool
<1> HIDE DEF k, q
<1>4. /\ q.e = [p.e EXCEPT ![k].free = FALSE]
      /\ q.cur_len = p.cur_len + 1
      /\ q.reserved_len = Reserved
      /\ q = [e |-> [p.e EXCEPT ![k].free = FALSE], cur_len |-> p.cur_len + 1,
              reserved_len |-> Reserved]
    BY <1>2, <1>3, Zenon DEF Pool
<1>5. /\ p.e[k] \in Slot
      /\ [p.e[k] EXCEPT !.free = FALSE] \in Slot
      /\ [p.e[k] EXCEPT !.free = FALSE].data = p.e[k].data
      /\ [p.e[k] EXCEPT !.free = FALSE].free = FALSE
    <2>1. p.e[k] \in Slot
        BY <1>1, <1>3
    <2> QED
        BY <2>1, SetFlag, Zenon
<1>6. q.e \in Seq(Slot) /\ Len(q.e) = Len(p.e)
    BY <1>1, <1>3, <1>4, <1>5
<1>7. \A j \in DOMAIN p.e : /\ q.e[j].data = p.e[j].data
                            /\ q.e[j].free = (p.e[j].free /\ j # k)
    <2> TAKE j \in DOMAIN p.e
    <2>1. CASE j = k
        <3>1. q.e[j] = [p.e[k] EXCEPT !.free = FALSE]
            BY <2>1, <1>1, <1>3, <1>4
        <3> QED
            BY <2>1, <3>1, <1>5, Zenon
    <2>2. CASE j # k
        <3>1. q.e[j] = p.e[j]
            BY <2>2, <1>1, <1>3, <1>4
        <3>2. p.e[j] \in Slot
            BY <1>3
        <3>3. p.e[j].free \in BOOLEAN
            BY <3>2 DEF Slot
        <3> QED
            BY <2>2, <3>1, <3>3, Zenon
    <2> QED
        BY <2>1, <2>2
<1>8. q \in Pool
    <2>1. p.cur_len + 1 \in Nat
        BY <1>3
    <2> QED
        BY <2>1, <1>4, <1>6, PoolRecord, Zenon
<1> QED
    BY <1>1, <1>4, <1>6, <1>7, <1>8, Zenon DEF k, q

\* frag_pool_alloc on a full pool: one more slot, used, with the new block.
LEMMA AllocGrowLemma ==
    ASSUME NEW p \in Pool, Free(p) = {}, NEW b \in Blocks
    PROVE  LET q == frag_pool_alloc(p, b)
           IN  /\ q \in Pool
               /\ Len(q.e) = Len(p.e) + 1
               /\ q.cur_len = p.cur_len + 1
               /\ q.e[Len(p.e) + 1] = [data |-> b, free |-> FALSE]
               /\ \A j \in DOMAIN p.e : q.e[j] = p.e[j]
<1> DEFINE q == frag_pool_alloc(p, b)
           s == [data |-> b, free |-> FALSE]
<1>1. q = [p EXCEPT !.cur_len = @ + 1, !.e = Append(@, s)]
    BY DEF frag_pool_alloc
<1>2. p.e \in Seq(Slot) /\ p.cur_len \in Nat /\ p.reserved_len = Reserved
    BY DEF Pool
<1>3. s \in Slot
    BY DEF Slot
<1> HIDE DEF q, s
<1>4. /\ q.e = Append(p.e, s)
      /\ q.cur_len = p.cur_len + 1
      /\ q.reserved_len = Reserved
      /\ q = [e |-> Append(p.e, s), cur_len |-> p.cur_len + 1,
              reserved_len |-> Reserved]
    BY <1>1, <1>2, Zenon DEF Pool
<1>5. /\ q.e \in Seq(Slot) /\ Len(q.e) = Len(p.e) + 1
      /\ q.e[Len(p.e) + 1] = s
      /\ \A j \in DOMAIN p.e : q.e[j] = p.e[j]
    BY <1>2, <1>3, <1>4, GrownByOne
<1>6. q \in Pool
    <2>1. p.cur_len + 1 \in Nat
        BY <1>2
    <2> QED
        BY <2>1, <1>4, <1>5, PoolRecord, Zenon
<1> QED
    BY <1>4, <1>5, <1>6 DEF q, s

\* What the trim leaves when slot i has become free: at least the reserved
\* slots, no slot in use is cut off, and if anything was cut off beyond the
\* reserved part then the new last slot is in use.
LEMMA TrimLemma ==
    ASSUME NEW p \in Pool, Len(p.e) >= Reserved, NEW i \in DOMAIN p.e, p.e[i].free
    PROVE  LET n == TrimmedLen(p, i)
           IN  /\ n \in Reserved..Len(p.e)
               /\ \A j \in (n + 1)..Len(p.e) : p.e[j].free
               /\ i > Reserved /\ i = Len(p.e) /\ n > Reserved => ~p.e[n].free
               /\ ~(i > Reserved /\ i = Len(p.e)) => n = Len(p.e)
<1>1. /\ p.e \in Seq(Slot) /\ p.reserved_len = Reserved
      /\ Reserved \in Nat /\ Len(p.e) \in Nat /\ DOMAIN p.e = 1..Len(p.e)
    BY ReservedAssumption DEF Pool
<1>2. CASE i > Reserved /\ i = Len(p.e)
    <2> DEFINE T == {n \in Reserved..Len(p.e) : n = Reserved \/ ~p.e[n].free}
               Stop(n) == /\ \A j \in (n + 1)..Len(p.e) : p.e[j].free
                          /\ n = Reserved \/ ~p.e[n].free
    <2>1. PICK m \in T : \A y \in T : y <= m
        <3>1. T \in SUBSET Nat /\ Reserved \in T /\ \A x \in T : x <= Len(p.e)
            BY <1>1
        <3> HIDE DEF T
        <3> QED
            BY <3>1, <1>1, NatMax, Zenon
    <2>2. m \in Reserved..Len(p.e) /\ Stop(m)
        <3>1. ASSUME NEW j \in (m + 1)..Len(p.e) PROVE p.e[j].free
            <4>1. j \in Reserved..Len(p.e) /\ ~(j <= m)
                BY <1>1
            <4>2. j \notin T
                BY <2>1, <4>1
            <4> QED
                BY <4>1, <4>2
        <3> QED
            BY <3>1
    <2>3. TrimmedLen(p, i) = CHOOSE n \in Reserved..Len(p.e) : Stop(n)
        BY <1>1, <1>2, Zenon DEF TrimmedLen
    <2>4. \E n \in Reserved..Len(p.e) : Stop(n)
        BY <2>2
    <2>5. TrimmedLen(p, i) \in Reserved..Len(p.e) /\ Stop(TrimmedLen(p, i))
        <3> HIDE DEF Stop
        <3> QED
            BY <2>3, <2>4, Zenon
    <2> QED
        BY <2>5, <1>1, <1>2
<1>3. CASE ~(i > Reserved /\ i = Len(p.e))
    <2>1. TrimmedLen(p, i) = Len(p.e)
        BY <1>1, <1>3 DEF TrimmedLen
    <2> QED
        BY <1>1, <1>3, <2>1
<1> QED
    BY <1>2, <1>3

\* Where the recursion of _frag_try_internal_pool_free stops for slot k: m is
\* k in the reserved part, otherwise the first slot below k that is not free or
\* the last reserved one (fr: the free slots, r: reserved_len).
Stops(fr, r, k, m) ==
    IF k <= r THEN m = k
    ELSE m \in r..(k - 1) /\ (\A j \in (m + 1)..(k - 1) : j \in fr) /\ (m = r \/ m \notin fr)

\* There is one such slot only,
LEMMA StopsOnce ==
    ASSUME NEW fr, NEW r \in Nat, NEW k \in Nat \ {0}, NEW m, NEW w, Stops(fr, r, k, m), Stops(fr, r, k, w)
    PROVE  m = w
<1>1. CASE k <= r
    BY <1>1 DEF Stops
<1>2. CASE ~(k <= r)
    <2>1. m \in r..(k - 1) /\ w \in r..(k - 1)
        BY <1>2 DEF Stops
    <2>2. ~(m < w)
        <3> SUFFICES ASSUME m < w PROVE FALSE
            OBVIOUS
        <3>1. w \in (m + 1)..(k - 1) /\ w # r
            BY <2>1
        <3> QED
            BY <1>2, <3>1 DEF Stops
    <2>3. ~(w < m)
        <3> SUFFICES ASSUME w < m PROVE FALSE
            OBVIOUS
        <3>1. m \in (w + 1)..(k - 1) /\ m # r
            BY <2>1
        <3> QED
            BY <1>2, <3>1 DEF Stops
    <2> QED
        BY <2>1, <2>2, <2>3
<1> QED
    BY <1>1, <1>2

\* the recursion hands it on from slot k - 1,
LEMMA StopsStep ==
    ASSUME NEW fr, NEW r \in Nat, NEW k \in Nat \ {0}, NEW w, k > 1 => Stops(fr, r, k - 1, w),
           NEW v, v = IF k <= r THEN k ELSE IF k > 1 /\ k - 1 \in fr THEN w ELSE k - 1
    PROVE  Stops(fr, r, k, v)
<1>1. CASE k <= r
    BY <1>1 DEF Stops
<1>2. CASE ~(k <= r) /\ k > 1 /\ k - 1 \in fr
    <2>1. Stops(fr, r, k - 1, w)
        BY <1>2
    <2>2. CASE k - 1 <= r
        BY <1>2, <2>1, <2>2 DEF Stops
    <2>3. CASE ~(k - 1 <= r)
        <3>1. w \in r..(k - 2) /\ (\A j \in (w + 1)..(k - 2) : j \in fr) /\ (w = r \/ w \notin fr)
            BY <2>1, <2>3 DEF Stops
        <3>2. \A j \in (w + 1)..(k - 1) : j \in fr
            BY <1>2, <3>1
        <3> QED
            BY <1>2, <3>1, <3>2 DEF Stops
    <2> QED
        BY <2>2, <2>3
<1>3. CASE ~(k <= r) /\ ~(k > 1 /\ k - 1 \in fr)
    BY <1>3 DEF Stops
<1> QED
    BY <1>1, <1>2, <1>3

\* and so there is one for every slot.
LEMMA StopsSome ==
    ASSUME NEW fr, NEW r \in Nat, NEW k \in Nat \ {0}
    PROVE  \E m : Stops(fr, r, k, m)
<1> DEFINE T == {x \in Nat \ {0} : ~\E m : Stops(fr, r, x, m)}
<1>1. SUFFICES ASSUME T # {} PROVE FALSE
    BY Zenon
<1>2. PICK x \in T : \A y \in T : x <= y
    <2>1. T \in SUBSET Nat
        OBVIOUS
    <2> HIDE DEF T
    <2> QED
        BY <1>1, <2>1, NatMin, Zenon
<1>3. x \in Nat \ {0} /\ ~\E m : Stops(fr, r, x, m)
    BY Zenon
<1>4. PICK w : x > 1 => Stops(fr, r, x - 1, w)
    <2>1. CASE x > 1
        <3>1. x - 1 \in Nat \ {0} /\ ~(x <= x - 1)
            BY <1>3, <2>1
        <3> QED
            BY <1>2, <3>1, Zenon
    <2> QED
        BY <2>1, Zenon
<1>5. PICK v : v = IF x <= r THEN x ELSE IF x > 1 /\ x - 1 \in fr THEN w ELSE x - 1
    BY Zenon
<1> QED
    BY <1>3, <1>4, <1>5, StopsStep, Zenon

\* The recursion of _frag_try_internal_pool_free stops where TrimmedLen says.
LEMMA TrimRecursion ==
    ASSUME NEW p \in Pool, Len(p.e) >= Reserved, NEW i \in DOMAIN p.e, p.e[i].free
    PROVE  TrimmedLen(p, i) = TrimByRecursion(p, i, Len(p.e))
<1> DEFINE n == Len(p.e)
           fr == {j \in 1..n : p.e[j].free}
           F(f) == [k \in 1..n |-> IF k <= p.reserved_len THEN k
                                   ELSE IF k > 1 /\ p.e[k - 1].free THEN f[k - 1]
                                   ELSE k - 1]
           trim == CHOOSE f : f = F(f)
           g == [k \in 1..n |-> CHOOSE m : Stops(fr, Reserved, k, m)]
<1>1. /\ p.e \in Seq(Slot) /\ p.reserved_len = Reserved
      /\ Reserved \in Nat /\ n \in Nat /\ DOMAIN p.e = 1..n
    BY ReservedAssumption DEF Pool
<1>2. TrimByRecursion(p, i, n) = IF i # n THEN n ELSE trim[i]
    BY Zenon DEF TrimByRecursion
<1>3. \A k \in 2..n : p.e[k - 1].free <=> k - 1 \in fr
    BY <1>1
<1>4. p.e[n].free <=> n \in fr
    BY <1>1
<1>5. \A j \in 1..n : p.e[j].free <=> j \in fr
    OBVIOUS
<1>6. TrimmedLen(p, i) = n \/ (i > Reserved /\ i = n)
    BY TrimLemma, Zenon
<1> HIDE DEF fr
<1>7. ASSUME NEW f, NEW k \in 1..n
      PROVE  F(f)[k] = IF k <= Reserved THEN k ELSE IF k > 1 /\ k - 1 \in fr THEN f[k - 1] ELSE k - 1
    <2>1. k > 1 => (p.e[k - 1].free <=> k - 1 \in fr)
        BY <1>1, <1>3
    <2> QED
        BY <1>1, <2>1
<1>8. ASSUME NEW k \in 1..n PROVE Stops(fr, Reserved, k, g[k])
    <2>1. k \in Nat \ {0}
        BY <1>1
    <2>2. \E m : Stops(fr, Reserved, k, m)
        BY <1>1, <2>1, StopsSome, Zenon
    <2> QED
        BY <2>2, Zenon
<1>9. g = F(g)
    <2>1. ASSUME NEW k \in 1..n PROVE g[k] = F(g)[k]
        <3>1. k \in Nat \ {0} /\ (k > 1 => k - 1 \in 1..n)
            BY <1>1
        <3>2. k > 1 => Stops(fr, Reserved, k - 1, g[k - 1])
            BY <1>8, <3>1, Zenon
        <3> HIDE DEF g, F
        <3>3. F(g)[k] = IF k <= Reserved THEN k ELSE IF k > 1 /\ k - 1 \in fr THEN g[k - 1] ELSE k - 1
            BY <1>7
        <3>4. Stops(fr, Reserved, k, F(g)[k])
            BY <1>1, <3>1, <3>2, <3>3, StopsStep, Zenon
        <3> QED
            BY <1>1, <1>8, <3>1, <3>4, StopsOnce, Zenon
    <2>2. g = [k \in 1..n |-> g[k]] /\ F(g) = [k \in 1..n |-> F(g)[k]]
        OBVIOUS
    <2> HIDE DEF g, F
    <2> QED
        BY <2>1, <2>2, Zenon
<1> HIDE DEF g
<1>10. trim = F(trim)
    BY <1>9, Zenon
<1> HIDE DEF trim, F
<1>11. ASSUME NEW k \in 1..n PROVE Stops(fr, Reserved, k, trim[k])
    <2> DEFINE T == {x \in 1..n : ~Stops(fr, Reserved, x, trim[x])}
    <2>1. SUFFICES ASSUME T # {} PROVE FALSE
        BY <1>11, Zenon
    <2>2. PICK x \in T : \A y \in T : x <= y
        <3>1. T \in SUBSET Nat
            BY <1>1
        <3> HIDE DEF T
        <3> QED
            BY <2>1, <3>1, NatMin, Zenon
    <2>3. x \in 1..n /\ ~Stops(fr, Reserved, x, trim[x])
        BY Zenon
    <2>4. x \in Nat \ {0} /\ (x > 1 => x - 1 \in 1..n /\ ~(x <= x - 1))
        BY <1>1, <2>3
    <2>5. x > 1 => Stops(fr, Reserved, x - 1, trim[x - 1])
        BY <2>2, <2>4, Zenon
    <2>6. trim[x] = IF x <= Reserved THEN x ELSE IF x > 1 /\ x - 1 \in fr THEN trim[x - 1] ELSE x - 1
        BY <1>7, <1>10, <2>3, Zenon
    <2> QED
        BY <1>1, <2>3, <2>4, <2>5, <2>6, StopsStep, Zenon
<1>12. CASE i = n /\ i > Reserved
    <2> DEFINE m == TrimmedLen(p, i)
    <2>1. /\ m \in Reserved..n /\ (\A j \in (m + 1)..n : p.e[j].free)
          /\ m > Reserved => ~p.e[m].free
        BY <1>12, TrimLemma, Zenon
    <2> HIDE DEF m
    <2>2. n \in 1..n /\ n \in fr
        BY <1>1, <1>5, <1>12
    <2>3. m # n
        BY <1>1, <1>12, <2>1, <2>2, <1>5
    <2>4. m = Reserved \/ m \notin fr
        BY <1>1, <1>5, <2>1
    <2>5. \A j \in (m + 1)..(n - 1) : j \in fr
        BY <1>1, <1>5, <2>1
    <2>6. Stops(fr, Reserved, n, m)
        BY <1>1, <1>12, <2>1, <2>3, <2>4, <2>5 DEF Stops
    <2>7. Stops(fr, Reserved, n, trim[n]) /\ n \in Nat \ {0}
        BY <1>1, <1>11, <2>2
    <2>8. m = trim[n]
        BY <1>1, <2>6, <2>7, StopsOnce, Zenon
    <2> QED
        BY <1>2, <1>12, <2>8, Zenon DEF m
<1>13. CASE i = n /\ ~(i > Reserved)
    <2>1. TrimmedLen(p, i) = n
        BY <1>6, <1>13, Zenon
    <2>2. n \in 1..n /\ n <= Reserved
        BY <1>1, <1>13
    <2>3. trim[n] = n
        BY <1>11, <2>2, Zenon DEF Stops
    <2> QED
        BY <1>2, <1>13, <2>1, <2>3, Zenon
<1>14. CASE i # n
    BY <1>2, <1>6, <1>14, Zenon
<1> QED
    BY <1>12, <1>13, <1>14

\* frag_pool_free_alt on a slot in use of a trimmed pool: the slot becomes
\* free, free slots are cut off, and the pool is trimmed again.
LEMMA FreeLemma ==
    ASSUME NEW p \in Pool, Len(p.e) >= Reserved, NEW i \in Used(p), p.cur_len > 0,
           Len(p.e) > Reserved => ~p.e[Len(p.e)].free
    PROVE  LET q == frag_pool_free_alt(p, i)
               n == Len(q.e)
           IN  /\ q \in Pool
               /\ n \in Reserved..Len(p.e)
               /\ q.cur_len = p.cur_len - 1
               /\ \A j \in 1..n : /\ q.e[j].data = p.e[j].data
                                 /\ q.e[j].free = (p.e[j].free \/ j = i)
               /\ \A j \in (n + 1)..Len(p.e) : p.e[j].free \/ j = i
               /\ n > Reserved => ~q.e[n].free
<1> DEFINE r == [p EXCEPT !.cur_len = @ - 1, !.e = [@ EXCEPT ![i].free = TRUE]]
           q == frag_pool_free_alt(p, i)
           m == TrimmedLen(r, i)
<1>1. /\ p.e \in Seq(Slot) /\ p.cur_len \in Nat /\ p.reserved_len = Reserved
      /\ Reserved \in Nat /\ Len(p.e) \in Nat /\ DOMAIN p.e = 1..Len(p.e)
    BY ReservedAssumption DEF Pool
<1>2. i \in DOMAIN p.e /\ ~p.e[i].free
    BY DEF Used
<1>3. /\ p.e[i] \in Slot
      /\ [p.e[i] EXCEPT !.free = TRUE] \in Slot
      /\ [p.e[i] EXCEPT !.free = TRUE].data = p.e[i].data
      /\ [p.e[i] EXCEPT !.free = TRUE].free = TRUE
    <2>1. p.e[i] \in Slot
        BY <1>1, <1>2
    <2> QED
        BY <2>1, SetFlag, Zenon
<1>4. /\ r.e = [p.e EXCEPT ![i].free = TRUE]
      /\ r = [e |-> [p.e EXCEPT ![i].free = TRUE], cur_len |-> p.cur_len - 1,
              reserved_len |-> Reserved]
    <2>1. r = [p EXCEPT !.cur_len = @ - 1, !.e = [@ EXCEPT ![i].free = TRUE]]
        OBVIOUS
    <2> HIDE DEF r, q, m
    <2> QED
        BY <2>1, <1>1, Zenon DEF Pool
<1>5. q = [r EXCEPT !.e = SubSeq(@, 1, m)]
    BY <1>2 DEF frag_pool_free_alt
<1> HIDE DEF r, q, m
<1>6. r.e \in Seq(Slot) /\ Len(r.e) = Len(p.e) /\ DOMAIN r.e = DOMAIN p.e
    BY <1>1, <1>2, <1>3, <1>4
<1>7. \A j \in DOMAIN p.e : /\ r.e[j].data = p.e[j].data
                            /\ r.e[j].free = (p.e[j].free \/ j = i)
    <2> TAKE j \in DOMAIN p.e
    <2>1. CASE j = i
        <3>1. r.e[j] = [p.e[i] EXCEPT !.free = TRUE]
            BY <2>1, <1>1, <1>2, <1>4
        <3> QED
            BY <2>1, <3>1, <1>3, Zenon
    <2>2. CASE j # i
        <3>1. r.e[j] = p.e[j]
            BY <2>2, <1>1, <1>2, <1>4
        <3>2. p.e[j] \in Slot
            BY <1>1
        <3>3. p.e[j].free \in BOOLEAN
            BY <3>2 DEF Slot
        <3> QED
            BY <2>2, <3>1, <3>3, Zenon
    <2> QED
        BY <2>1, <2>2
<1>8. p.cur_len - 1 \in Nat
    BY <1>1
<1>9. r \in Pool
    BY <1>4, <1>6, <1>8, PoolRecord, Zenon
<1>10. r.e[i].free
    BY <1>2, <1>7, Zenon
<1>11. /\ m \in Reserved..Len(p.e)
       /\ \A j \in (m + 1)..Len(p.e) : r.e[j].free
       /\ i > Reserved /\ i = Len(p.e) /\ m > Reserved => ~r.e[m].free
       /\ ~(i > Reserved /\ i = Len(p.e)) => m = Len(p.e)
    BY <1>2, <1>6, <1>9, <1>10, TrimLemma DEF m
<1>12. /\ q.e = SubSeq(r.e, 1, m)
       /\ q.cur_len = p.cur_len - 1
       /\ q = [e |-> SubSeq(r.e, 1, m), cur_len |-> p.cur_len - 1,
               reserved_len |-> Reserved]
    BY <1>4, <1>5, Zenon
<1>13. /\ q.e \in Seq(Slot) /\ Len(q.e) = m
       /\ \A j \in 1..m : q.e[j] = r.e[j]
    <2>1. m \in Int /\ 1 <= m + 1 /\ m <= Len(r.e)
        BY <1>1, <1>6, <1>11
    <2> QED
        BY <2>1, <1>6, <1>12, CutOff, ZenonT(60)
<1>14. q \in Pool
    BY <1>8, <1>12, <1>13, PoolRecord, Zenon
<1>15. \A j \in 1..m : /\ q.e[j].data = p.e[j].data
                       /\ q.e[j].free = (p.e[j].free \/ j = i)
    <2> TAKE j \in 1..m
    <2>1. j \in DOMAIN p.e
        BY <1>1, <1>11
    <2> QED
        BY <2>1, <1>7, <1>13, Zenon
<1>16. \A j \in (m + 1)..Len(p.e) : p.e[j].free \/ j = i
    <2> TAKE j \in (m + 1)..Len(p.e)
    <2>1. j \in DOMAIN p.e
        BY <1>1, <1>11
    <2>2. r.e[j].free
        BY <1>11
    <2> QED
        BY <2>1, <2>2, <1>7, Zenon
<1>17. m > Reserved => ~q.e[m].free
    <2> HAVE m > Reserved
    <2>1. m \in 1..m /\ m \in DOMAIN p.e
        BY <1>1, <1>11
    <2>2. CASE i > Reserved /\ i = Len(p.e)
        BY <2>1, <2>2, <1>11, <1>13
    <2>3. CASE ~(i > Reserved /\ i = Len(p.e))
        <3>1. m = Len(p.e) /\ m # i
            BY <2>3, <1>11, <1>1
        <3>2. ~p.e[m].free
            BY <3>1, <1>1
        <3>3. r.e[m].free = (p.e[m].free \/ m = i)
            BY <2>1, <1>7
        <3>4. q.e[m] = r.e[m]
            BY <2>1, <1>13
        <3> QED
            BY <3>1, <3>2, <3>3, <3>4, Zenon
    <2> QED
        BY <2>2, <2>3
<1> QED
    BY <1>11, <1>12, <1>13, <1>14, <1>15, <1>16, <1>17, Zenon DEF q

-----------------------------------------------------------------------------
\* The slots in use are finitely many.
LEMMA UsedFinite ==
    ASSUME NEW p \in Pool
    PROVE  IsFiniteSet(Used(p)) /\ Cardinality(Used(p)) \in Nat
<1>1. Len(p.e) \in Nat /\ Used(p) \in SUBSET (1..Len(p.e))
    BY DEF Pool, Used
<1>2. IsFiniteSet(1..Len(p.e))
    BY <1>1, FS_Interval
<1> QED
    BY <1>1, <1>2, FS_Subset, FS_CardinalityType

\* frag_pool_create establishes the invariant.
LEMMA InitInv == Init => Inv
<1> SUFFICES ASSUME Init PROVE Inv
    OBVIOUS
<1> USE ReservedAssumption
<1>1. PICK e \in [1..Reserved -> [data : heap, free : {TRUE}]] :
          pool = [e |-> e, cur_len |-> 0, reserved_len |-> Reserved]
    BY Zenon DEF Init
<1>2. heap \subseteq Blocks /\ BlocksOf(pool) = heap
    BY DEF Init
<1>3. e \in Seq(Slot) /\ Len(e) = Reserved /\ DOMAIN e = 1..Reserved
    <2>1. \A i \in 1..Reserved : e[i] \in Slot
        BY <1>1, <1>2, Zenon DEF Slot
    <2> QED
        BY <2>1, <1>1, GivenWhole
<1>4. pool \in Pool /\ pool.e = e /\ pool.cur_len = 0
    BY <1>1, <1>3, PoolRecord
<1>5. Used(pool) = {}
    <2>1. \A i \in 1..Reserved : e[i].free = TRUE
        BY <1>1, Zenon
    <2> QED
        BY <2>1, <1>3, <1>4 DEF Used
<1>6. CountExact
    BY <1>4, <1>5, FS_EmptySet DEF CountExact
<1>7. BlocksExact
    BY <1>2, <1>3, <1>4 DEF BlocksExact, Init
<1> QED
    BY <1>2, <1>3, <1>4, <1>6, <1>7 DEF Inv, TypeOK, Trimmed

\* Handing out a free slot: the count follows, nothing is trimmed or shared,
\* and the block was not in anybody's hands.
LEMMA AllocSlotStep ==
    ASSUME Inv, AllocSlot
    PROVE  /\ Inv'
           /\ \E b \in heap \ HandedOut(pool) :
                  HandedOut(pool') = HandedOut(pool) \cup {b}
<1> DEFINE k == AllocIndex(pool)
           b == pool.e[k].data
<1>1. /\ pool \in Pool /\ heap \subseteq Blocks /\ Len(pool.e) >= Reserved
      /\ Free(pool) # {} /\ heap' = heap /\ heap = BlocksOf(pool)
      /\ \A i, j \in DOMAIN pool.e : pool.e[i].data = pool.e[j].data => i = j
    BY DEF Inv, TypeOK, BlocksExact, AllocSlot
<1>2. /\ pool' \in Pool
      /\ k \in DOMAIN pool.e /\ pool.e[k].free
      /\ Len(pool'.e) = Len(pool.e)
      /\ pool'.cur_len = pool.cur_len + 1
      /\ \A j \in DOMAIN pool.e : /\ pool'.e[j].data = pool.e[j].data
                                 /\ pool'.e[j].free = (pool.e[j].free /\ j # k)
    BY <1>1, AllocSlotLemma DEF AllocSlot
<1> HIDE DEF k
<1>3. DOMAIN pool'.e = DOMAIN pool.e /\ Len(pool.e) \in Nat /\ DOMAIN pool.e = 1..Len(pool.e)
    BY <1>1, <1>2 DEF Pool
<1>4. Used(pool') = Used(pool) \cup {k} /\ k \notin Used(pool)
    BY <1>2, <1>3, ZenonT(60) DEF Used
<1>5. CountExact'
    <2>1. Cardinality(Used(pool) \cup {k}) = Cardinality(Used(pool)) + 1
        BY <1>1, <1>4, UsedFinite, FS_AddElement, Zenon
    <2> QED
        BY <2>1, <1>2, <1>4 DEF CountExact, Inv
<1>6. Trimmed'
    <2>1. Len(pool.e) > Reserved => ~pool.e[Len(pool.e)].free
        BY DEF Inv, Trimmed
    <2>2. Len(pool.e) > Reserved => Len(pool.e) \in DOMAIN pool.e
        BY <1>3, ReservedAssumption
    <2> QED
        BY <2>1, <2>2, <1>2, Zenon DEF Trimmed
<1>7. BlocksExact'
    <2>1. BlocksOf(pool') = BlocksOf(pool)
        BY <1>2, <1>3, ZenonT(60) DEF BlocksOf
    <2> QED
        BY <2>1, <1>1, <1>2, <1>3, ZenonT(60) DEF BlocksExact
<1>8. b \in heap
    BY <1>1, <1>2, Zenon DEF BlocksOf
<1>9. b \notin HandedOut(pool)
    <2> SUFFICES ASSUME b \in HandedOut(pool) PROVE FALSE
        OBVIOUS
    <2>1. PICK i \in Used(pool) : pool.e[i].data = b
        BY DEF HandedOut
    <2> QED
        BY <2>1, <1>1, <1>2, <1>4 DEF Used
<1>10. HandedOut(pool') = HandedOut(pool) \cup {b}
    <2>1. \A i \in Used(pool') : pool'.e[i].data = pool.e[i].data
        BY <1>2, <1>3 DEF Used
    <2> QED
        BY <2>1, <1>4, ZenonT(60) DEF HandedOut
<1> QED
    BY <1>1, <1>2, <1>5, <1>6, <1>7, <1>8, <1>9, <1>10 DEF Inv, TypeOK

\* Growing the array: the new slot is the only change and is in use.
LEMMA AllocGrowStep ==
    ASSUME Inv, AllocGrow
    PROVE  /\ Inv'
           /\ \E b \in Blocks \ heap :
                  /\ HandedOut(pool') = HandedOut(pool) \cup {b}
                  /\ heap' = heap \cup {b}
<1>1. /\ pool \in Pool /\ heap \subseteq Blocks /\ Len(pool.e) >= Reserved
      /\ Free(pool) = {} /\ heap = BlocksOf(pool)
      /\ \A i, j \in DOMAIN pool.e : pool.e[i].data = pool.e[j].data => i = j
    BY DEF Inv, TypeOK, BlocksExact, AllocGrow
<1>2. PICK b \in Blocks \ heap : /\ pool' = frag_pool_alloc(pool, b)
                                 /\ heap' = heap \cup {b}
    BY DEF AllocGrow
<1> DEFINE k == Len(pool.e) + 1
<1>3. /\ pool' \in Pool
      /\ Len(pool'.e) = k
      /\ pool'.cur_len = pool.cur_len + 1
      /\ pool'.e[k] = [data |-> b, free |-> FALSE]
      /\ \A j \in DOMAIN pool.e : pool'.e[j] = pool.e[j]
    BY <1>1, <1>2, AllocGrowLemma
<1>4. /\ Len(pool.e) \in Nat /\ DOMAIN pool.e = 1..Len(pool.e)
      /\ DOMAIN pool'.e = DOMAIN pool.e \cup {k} /\ k \notin DOMAIN pool.e
    BY <1>1, <1>3 DEF Pool
<1>5. pool'.e[k].data = b /\ ~pool'.e[k].free
    BY <1>3
<1>6. Len(pool'.e) >= Reserved /\ Trimmed'
    BY <1>1, <1>3, <1>4, <1>5, ReservedAssumption DEF Trimmed
<1> HIDE DEF k
<1>7. Used(pool') = Used(pool) \cup {k} /\ k \notin Used(pool)
    BY <1>3, <1>4, <1>5, Zenon DEF Used
<1>8. CountExact'
    <2>1. Cardinality(Used(pool) \cup {k}) = Cardinality(Used(pool)) + 1
        BY <1>1, <1>7, UsedFinite, FS_AddElement, Zenon
    <2> QED
        BY <2>1, <1>3, <1>7 DEF CountExact, Inv
<1>9. BlocksExact'
    <2>1. BlocksOf(pool') = BlocksOf(pool) \cup {b}
        BY <1>3, <1>4, <1>5 DEF BlocksOf
    <2>2. \A j \in DOMAIN pool.e : pool'.e[j].data # b
        BY <1>1, <1>2, <1>3 DEF BlocksOf
    <2>3. ASSUME NEW i \in DOMAIN pool'.e, NEW j \in DOMAIN pool'.e,
                 pool'.e[i].data = pool'.e[j].data
          PROVE  i = j
        BY <2>2, <2>3, <1>1, <1>3, <1>4, <1>5, ZenonT(60)
    <2> QED
        BY <2>1, <2>3, <1>1, <1>2 DEF BlocksExact
<1>10. HandedOut(pool') = HandedOut(pool) \cup {b}
    <2>1. \A i \in Used(pool) : pool'.e[i].data = pool.e[i].data
        BY <1>3 DEF Used
    <2> QED
        BY <2>1, <1>5, <1>7 DEF HandedOut
<1> QED
    BY <1>1, <1>2, <1>3, <1>6, <1>8, <1>9, <1>10 DEF Inv, TypeOK

\* Freeing a slot in use, by index: the count follows, only free slots are
\* cut off, and exactly their blocks go back to malloc.
LEMMA FreeUsedStep ==
    ASSUME Inv, NEW i \in Used(pool), FreeAlt(i)
    PROVE  /\ Inv'
           /\ pool.e[i].data \in HandedOut(pool)
           /\ HandedOut(pool') = HandedOut(pool) \ {pool.e[i].data}
           /\ heap' \subseteq heap
<1> DEFINE n == Len(pool'.e)
           b == pool.e[i].data
<1>1. /\ pool \in Pool /\ heap \subseteq Blocks /\ Len(pool.e) >= Reserved
      /\ heap = BlocksOf(pool)
      /\ \A k, j \in DOMAIN pool.e : pool.e[k].data = pool.e[j].data => k = j
      /\ Len(pool.e) > Reserved => ~pool.e[Len(pool.e)].free
      /\ pool.cur_len = Cardinality(Used(pool))
    BY DEF Inv, TypeOK, BlocksExact, Trimmed, CountExact
<1>2. /\ pool' = frag_pool_free_alt(pool, i)
      /\ heap' = heap \ (BlocksOf(pool) \ BlocksOf(pool'))
    BY DEF FreeAlt
<1>3. /\ Cardinality(Used(pool) \ {i}) = Cardinality(Used(pool)) - 1
      /\ Cardinality(Used(pool) \ {i}) \in Nat
    BY <1>1, UsedFinite, FS_RemoveElement, FS_CardinalityType
<1>4. pool.cur_len > 0
    BY <1>1, <1>3, UsedFinite
<1>5. /\ pool' \in Pool
      /\ n \in Reserved..Len(pool.e)
      /\ pool'.cur_len = pool.cur_len - 1
      /\ \A j \in 1..n : /\ pool'.e[j].data = pool.e[j].data
                        /\ pool'.e[j].free = (pool.e[j].free \/ j = i)
      /\ \A j \in (n + 1)..Len(pool.e) : pool.e[j].free \/ j = i
      /\ n > Reserved => ~pool'.e[n].free
    BY <1>1, <1>2, <1>4, FreeLemma
<1>6. /\ Len(pool.e) \in Nat /\ Reserved \in Nat
      /\ DOMAIN pool.e = 1..Len(pool.e) /\ DOMAIN pool'.e = 1..n
      /\ DOMAIN pool'.e \subseteq DOMAIN pool.e
    BY <1>1, <1>5, ReservedAssumption DEF Pool
<1>7. \A j \in DOMAIN pool.e : j \notin DOMAIN pool'.e => pool.e[j].free \/ j = i
    <2>1. \A j \in DOMAIN pool.e : j \notin DOMAIN pool'.e => j \in (n + 1)..Len(pool.e)
        BY <1>5, <1>6
    <2> QED
        BY <2>1, <1>5
<1>8. TypeOK' /\ Trimmed'
    <2>1. heap' \subseteq Blocks
        BY <1>1, <1>2
    <2>2. Len(pool'.e) >= Reserved
        BY <1>5, <1>6
    <2> QED
        BY <2>1, <2>2, <1>5 DEF TypeOK, Trimmed
<1> HIDE DEF n
<1>9. Used(pool') = Used(pool) \ {i}
    BY <1>5, <1>6, <1>7, Zenon DEF Used
<1>10. CountExact'
    BY <1>1, <1>3, <1>5, <1>9 DEF CountExact
<1>11. BlocksOf(pool') \subseteq BlocksOf(pool)
    BY <1>5, <1>6 DEF BlocksOf
<1>12. BlocksExact'
    <2>1. heap' = BlocksOf(pool')
        BY <1>1, <1>2, <1>11
    <2>2. \A k, j \in DOMAIN pool'.e : pool'.e[k].data = pool'.e[j].data => k = j
        BY <1>1, <1>5, <1>6
    <2> QED
        BY <2>1, <2>2 DEF BlocksExact
<1>13. b \in HandedOut(pool)
    BY DEF HandedOut
<1>14. HandedOut(pool') = HandedOut(pool) \ {b}
    <2>1. \A j \in Used(pool') : pool'.e[j].data = pool.e[j].data
        BY <1>5, <1>6 DEF Used
    <2>2. \A j \in Used(pool) : j # i => pool.e[j].data # b
        BY <1>1 DEF Used
    <2> QED
        BY <2>1, <2>2, <1>9, Zenon DEF HandedOut
<1> QED
    BY <1>2, <1>8, <1>10, <1>12, <1>13, <1>14 DEF Inv

\* Freeing a slot that is already free changes nothing.
LEMMA FreeFreeStep ==
    ASSUME NEW i \in DOMAIN pool.e \ Used(pool), FreeAlt(i)
    PROVE  UNCHANGED vars
BY DEF FreeAlt, frag_pool_free_alt, Used, vars

\* A step of the pool is an allocation of a block nobody holds, the return
\* of a held block, or no step at all; and it keeps the invariant.
LEMMA NextStep ==
    ASSUME Inv, [Next]_vars
    PROVE  Inv' /\ [Allocator!Next]_(Allocator!vars)
<1> USE DEF Allocator!Next, Allocator!vars, Allocator!Alloc, Allocator!Free
<1>1. /\ pool \in Pool /\ heap \subseteq Blocks /\ heap = BlocksOf(pool)
      /\ HandedOut(pool) \subseteq heap
    BY DEF Inv, TypeOK, BlocksExact, HandedOut, BlocksOf, Used
<1>2. CASE AllocSlot
    <2>1. Inv' /\ heap' = heap
        BY <1>2, AllocSlotStep DEF AllocSlot
    <2>2. PICK b \in heap \ HandedOut(pool) :
              HandedOut(pool') = HandedOut(pool) \cup {b}
        BY <1>2, AllocSlotStep
    <2>3. Allocator!Alloc(b)
        BY <1>1, <2>1, <2>2
    <2> QED
        BY <1>1, <2>1, <2>3
<1>3. CASE AllocGrow
    <2>1. Inv'
        BY <1>3, AllocGrowStep
    <2>2. PICK b \in Blocks \ heap : /\ HandedOut(pool') = HandedOut(pool) \cup {b}
                                     /\ heap' = heap \cup {b}
        BY <1>3, AllocGrowStep
    <2>3. Allocator!Alloc(b)
        BY <1>1, <2>2
    <2> QED
        BY <2>1, <2>3
<1>4. ASSUME NEW i \in Used(pool), FreeAlt(i)
      PROVE  Inv' /\ Allocator!Next
    <2> DEFINE b == pool.e[i].data
    <2>1. /\ Inv' /\ b \in HandedOut(pool) /\ heap' \subseteq heap
          /\ HandedOut(pool') = HandedOut(pool) \ {b}
        BY <1>4, FreeUsedStep
    <2>2. HandedOut(pool') \subseteq heap'
        BY <2>1 DEF Inv, BlocksExact, HandedOut, BlocksOf, Used
    <2>3. Allocator!Free(b) /\ b \in Blocks
        BY <1>1, <2>1, <2>2
    <2> QED
        BY <2>1, <2>3
<1>5. CASE UNCHANGED vars
    BY <1>5 DEF vars, Inv, TypeOK, CountExact, Trimmed, BlocksExact
<1>6. CASE \E i \in DOMAIN pool.e : FreeAlt(i)
    <2>1. PICK i \in DOMAIN pool.e : FreeAlt(i)
        BY <1>6
    <2>2. CASE i \in Used(pool)
        BY <1>4, <2>1, <2>2
    <2>3. CASE i \notin Used(pool)
        BY <1>5, <2>1, <2>3, FreeFreeStep
    <2> QED
        BY <2>2, <2>3
<1>7. CASE \E b \in Blocks : FreePtr(b)
    <2>1. PICK b \in Blocks : FreePtr(b)
        BY <1>7
    <2> DEFINE hit == {i \in Used(pool) : pool.e[i].data = b}
               i == CHOOSE i \in hit : \A j \in hit : i <= j
    <2>2. CASE hit = {}
        BY <1>5, <2>1, <2>2 DEF FreePtr
    <2>3. CASE hit # {}
        <3>1. hit \in SUBSET Nat
            BY <1>1 DEF Pool, Used
        <3>2. \E k \in hit : \A j \in hit : k <= j
            BY <2>3, <3>1, NatMin, Zenon
        <3>3. i \in hit
            BY <3>2
        <3>4. FreeAlt(i)
            BY <2>1, <2>3 DEF FreePtr
        <3> HIDE DEF i
        <3>5. i \in Used(pool)
            BY <3>3
        <3> QED
            BY <1>4, <3>4, <3>5
    <2> QED
        BY <2>2, <2>3
<1> QED
    BY <1>2, <1>3, <1>5, <1>6, <1>7 DEF Next

\* The whole of PoolSound follows from the invariant.
LEMMA InvSound == Inv => PoolSound
<1> SUFFICES ASSUME Inv, NEW i \in Used(pool)
             PROVE  LET q == [pool EXCEPT !.e[i].free = TRUE]
                    IN  TrimmedLen(q, i) = TrimByRecursion(q, i, Len(q.e))
    BY Zenon DEF PoolSound, TrimIsRecursion, Inv
<1> DEFINE q == [pool EXCEPT !.e[i].free = TRUE]
           s == [pool.e EXCEPT ![i].free = TRUE]
<1>1. pool \in Pool /\ pool.e \in Seq(Slot) /\ pool.cur_len \in Nat /\ pool.reserved_len = Reserved /\ Len(pool.e) >= Reserved
    BY DEF Inv, TypeOK, Pool
<1>2. i \in DOMAIN pool.e
    BY DEF Used
<1>3. pool.e[i] \in Slot /\ [pool.e[i] EXCEPT !.free = TRUE] \in Slot /\ [pool.e[i] EXCEPT !.free = TRUE].free = TRUE
    <2>1. pool.e[i] \in Slot
        BY <1>1, <1>2
    <2> QED
        BY <2>1, SetFlag, Zenon
<1>4. s \in Seq(Slot) /\ Len(s) = Len(pool.e) /\ i \in DOMAIN s /\ s[i] = [pool.e[i] EXCEPT !.free = TRUE]
    BY <1>1, <1>2, <1>3
<1> HIDE DEF s
<1>5. q = [e |-> s, cur_len |-> pool.cur_len, reserved_len |-> Reserved]
    <2>1. pool = [e |-> pool.e, cur_len |-> pool.cur_len, reserved_len |-> Reserved]
        BY <1>1 DEF Pool
    <2>2. q = [pool EXCEPT !.e = s]
        BY Zenon DEF s
    <2> HIDE DEF q
    <2> QED
        BY <2>1, <2>2
<1> HIDE DEF q
<1>6. q.e = s
    BY <1>5
<1>7. q \in Pool
    BY <1>1, <1>4, <1>5, PoolRecord, Zenon
<1>8. Len(q.e) >= Reserved /\ i \in DOMAIN q.e /\ q.e[i].free
    BY <1>1, <1>3, <1>4, <1>6, Zenon
<1> QED
    BY <1>7, <1>8, TrimRecursion, Zenon DEF q

\* Every pool, of any reserved length and over any blocks, stays well typed,
\* counted, trimmed and in step with malloc through every sequence of
\* frag_pool_alloc, frag_pool_free and frag_pool_free_alt.
THEOREM PoolCorrect == Spec => []Inv
<1>1. Init => Inv
    BY InitInv
<1>2. Inv /\ [Next]_vars => Inv'
    BY NextStep
<1> QED
    BY <1>1, <1>2, PTL DEF Spec

\* All that is claimed of a pool's bookkeeping, for every reserved length and
\* all blocks: the count, the trimmed end and the blocks are exact, and the
\* recursion of _frag_try_internal_pool_free stops where TrimmedLen says.
THEOREM PoolKeepsBooks == Spec => []PoolSound
BY PoolCorrect, InvSound, PTL

\* cur_len is the number of slots in use after any allocations and frees.
THEOREM PoolCounted == Spec => []CountExact
BY PoolCorrect, PTL DEF Inv

\* _frag_try_internal_pool_free gives back all it can, in whatever order the
\* slots become free.
THEOREM PoolTrimmed == Spec => []Trimmed
BY PoolCorrect, PTL DEF Inv

\* The slots hold exactly the blocks malloc handed out, each one once.
THEOREM PoolBlocks == Spec => []BlocksExact
BY PoolCorrect, PTL DEF Inv

\* A pool implements the allocator its callers rely on: no block is given to
\* two callers and no held block goes back to malloc.
THEOREM PoolRefines == Spec => IsAllocator
<1>1. Init => Allocator!Init
    <2> SUFFICES ASSUME Init PROVE Allocator!Init
        OBVIOUS
    <2>1. Inv
        BY InitInv
    <2>2. Used(pool) = {}
        BY Zenon DEF Init, Used
    <2> QED
        BY <2>1, <2>2 DEF Allocator!Init, HandedOut, Inv, TypeOK
<1>2. Inv /\ [Next]_vars => [Allocator!Next]_(Allocator!vars)
    BY NextStep
<1> QED
    BY <1>1, <1>2, PoolCorrect, PTL DEF Spec, IsAllocator, Allocator!Spec

-----------------------------------------------------------------------------
(* WebAlloc: the per-request heap.                                          *)

\* The entries that are not free name exactly the blocks in use, each once.
AllocOwned ==
    /\ \A i, j \in Pending : alist[i].ptr = alist[j].ptr => i = j
    /\ \A i \in Pending : alist[i].ptr \in aheap
    /\ \A p \in aheap : \E i \in Pending : alist[i].ptr = p

\* That is so as long as gc_realloc has moved nothing; after a handler has
\* returned there are none.
AllocEntry == [ptr : Addresses, free : BOOLEAN]
AllocInv ==
    /\ alist \in Seq(AllocEntry)
    /\ ~amoved => ~atwice /\ AllocOwned /\ (~abusy /\ ~araised => alist = <<>>)

LEMMA AllocInvExact == AllocInv => HeapOwned
<1> SUFFICES ASSUME AllocInv PROVE HeapOwned
    OBVIOUS
<1>1. ASSUME ~amoved PROVE aheap = {alist[i].ptr : i \in Pending}
    <2>1. AllocOwned
        BY <1>1 DEF AllocInv
    <2>2. \A p : p \in aheap <=> \E i \in Pending : alist[i].ptr = p
        BY <2>1, Zenon DEF AllocOwned
    <2> QED
        BY <2>2
<1>2. ASSUME ~amoved, ~abusy, ~araised PROVE aheap = {}
    <2>1. Pending = {}
        BY <1>2 DEF AllocInv, Pending
    <2> QED
        BY <1>1, <1>2, <2>1
<1>3. ASSUME ~amoved PROVE ~atwice
    BY <1>3 DEF AllocInv
<1> QED
    BY <1>1, <1>2, <1>3, Zenon DEF HeapOwned, FreedOnce, HandlersCollected, Pending

LEMMA AllocInvInit == WebAllocInit => AllocInv
<1> SUFFICES ASSUME WebAllocInit PROVE AllocInv
    OBVIOUS
<1>1. alist = <<>> /\ aheap = {} /\ ~atwice
    BY Zenon DEF WebAllocInit
<1>2. Pending = {} /\ alist \in Seq(AllocEntry)
    BY <1>1 DEF Pending
<1> QED
    BY <1>1, <1>2 DEF AllocInv, AllocOwned

LEMMA AllocInvNext ==
    ASSUME AllocInv, WebAllocNext \/ UNCHANGED allocVars
    PROVE  AllocInv'
<1>0. PICK n \in Nat : n = Len(alist) /\ DOMAIN alist = 1..n /\ \A i \in 1..n : alist[i] \in AllocEntry
    <2>1. Len(alist) \in Nat /\ DOMAIN alist = 1..Len(alist) /\ \A i \in 1..Len(alist) : alist[i] \in AllocEntry
        BY DEF AllocInv
    <2> QED
        BY <2>1, Zenon
<1>a. UNCHANGED <<alist, aheap>> => (AllocOwned => AllocOwned')
    BY Zenon DEF AllocOwned, Pending
<1>1. CASE UNCHANGED allocVars
    BY <1>1, <1>a, Zenon DEF allocVars, AllocInv
<1>2. CASE HandlerStarts
    BY <1>2, <1>a, Zenon DEF HandlerStarts, AllocInv
<1>3. CASE web_raise
    BY <1>3, <1>a, Zenon DEF web_raise, AllocInv
<1>4. CASE gc_realloc
    BY <1>4, Zenon DEF gc_realloc, AllocInv
<1>5. CASE HandlerReturns
    <2>1. alist' = <<>> /\ UNCHANGED amoved
        BY <1>5, Zenon DEF HandlerReturns
    <2>2. aheap' = aheap \ {alist[i].ptr : i \in Pending}
        BY <1>5 DEF HandlerReturns
    <2>3. atwice' = (atwice \/ \E i \in Pending : alist[i].ptr \notin aheap \/ \E j \in Pending : j # i /\ alist[j].ptr = alist[i].ptr)
        BY <1>5, Zenon DEF HandlerReturns
    <2>4. Pending' = {} /\ alist' \in Seq(AllocEntry)
        BY <2>1 DEF Pending
    <2>5. ~amoved => ~atwice'
        BY <2>3, Zenon DEF AllocInv, AllocOwned
    <2>6. ~amoved => aheap' = {}
        BY <2>2 DEF AllocInv, AllocOwned
    <2>7. ~amoved => AllocOwned'
        BY <2>4, <2>6 DEF AllocOwned
    <2> QED
        BY <2>1, <2>4, <2>5, <2>7, Zenon DEF AllocInv
<1>6. CASE web_allocator_malloc
    <2>1. CASE aheap = Addresses
        BY <1>6, <2>1, <1>a, Zenon DEF web_allocator_malloc, AllocInv
    <2>2. CASE aheap # Addresses
        <3>1. PICK p \in Addresses \ aheap :
                  alist' = Append(alist, [ptr |-> p, free |-> FALSE]) /\ aheap' = aheap \cup {p}
            BY <1>6, <2>2, Zenon DEF web_allocator_malloc
        <3>2. UNCHANGED <<abusy, araised, amoved, atwice>> /\ abusy
            BY <1>6, <2>2, Zenon DEF web_allocator_malloc
        <3>3. PICK e : e = [ptr |-> p, free |-> FALSE] /\ e \in AllocEntry /\ e.ptr = p /\ ~e.free
            <4>1. [ptr |-> p, free |-> FALSE] \in AllocEntry
                BY Zenon DEF AllocEntry
            <4>2. [ptr |-> p, free |-> FALSE].ptr = p /\ ~[ptr |-> p, free |-> FALSE].free
                BY Zenon
            <4> QED
                BY <4>1, <4>2, Zenon
        <3>4. /\ alist' \in Seq(AllocEntry) /\ Len(alist') = n + 1
              /\ alist'[n + 1] = e /\ \A i \in 1..n : alist'[i] = alist[i]
            BY <1>0, <3>1, <3>3 DEF AllocInv
        <3>5. \A i : i \in Pending' <=> i \in Pending \/ i = n + 1
            <4>1. \A i : i \in Pending <=> i \in 1..n /\ ~alist[i].free
                BY <1>0 DEF Pending
            <4>2. \A i : i \in Pending' <=> i \in 1..(n + 1) /\ ~alist'[i].free
                BY <3>4, Zenon DEF Pending
            <4> QED
                BY <3>3, <3>4, <4>1, <4>2
        <3>6. alist'[n + 1].ptr = p /\ \A i \in Pending : alist'[i].ptr = alist[i].ptr
            BY <1>0, <3>3, <3>4 DEF Pending
        <3>7. ASSUME AllocOwned PROVE AllocOwned'
            <4>1. \A i \in Pending : alist[i].ptr # p
                BY <3>1, <3>7 DEF AllocOwned
            <4>2. aheap' = aheap \cup {p}
                BY <3>1
            <4>3. \A i, j \in Pending' : alist'[i].ptr = alist'[j].ptr => i = j
                BY <3>5, <3>6, <3>7, <4>1 DEF AllocOwned
            <4>4. \A i \in Pending' : alist'[i].ptr \in aheap'
                BY <3>5, <3>6, <3>7, <4>2 DEF AllocOwned
            <4>5. \A q \in aheap' : \E i \in Pending' : alist'[i].ptr = q
                BY <3>5, <3>6, <3>7, <4>2 DEF AllocOwned
            <4> QED
                BY <4>3, <4>4, <4>5 DEF AllocOwned
        <3> QED
            BY <3>2, <3>4, <3>7, Zenon DEF AllocInv
    <2> QED
        BY <2>1, <2>2
<1>7. CASE web_allocator_free
    <2>1. PICK p \in Addresses :
              /\ Listed(p) # {}
              /\ alist' = [alist EXCEPT ![CHOOSE i \in Listed(p) : \A j \in Listed(p) : i <= j].free = TRUE]
              /\ aheap' = aheap \ {p} /\ atwice' = (atwice \/ p \notin aheap)
        BY <1>7, Zenon DEF web_allocator_free
    <2>2. UNCHANGED <<abusy, araised, amoved>> /\ abusy
        BY <1>7, Zenon DEF web_allocator_free
    <2>3. PICK k : k = CHOOSE i \in Listed(p) : \A j \in Listed(p) : i <= j
        BY Zenon
    <2>4. k \in Listed(p)
        <3>1. Listed(p) \in SUBSET Nat /\ Listed(p) # {}
            BY <1>0, <2>1 DEF Listed
        <3>2. \E i \in Listed(p) : \A j \in Listed(p) : i <= j
            BY <3>1, NatMin
        <3> QED
            BY <2>3, <3>2, Zenon
    <2>5. k \in 1..n /\ alist[k].ptr = p /\ k \in Pending
        BY <1>0, <2>4 DEF Listed, Pending
    <2>6. PICK e : e = [alist[k] EXCEPT !.free = TRUE] /\ e \in AllocEntry /\ e.free
        <3>1. [alist[k] EXCEPT !.free = TRUE] \in AllocEntry
            BY <1>0, <2>5, Zenon DEF AllocEntry
        <3>2. [alist[k] EXCEPT !.free = TRUE].free
            BY <1>0, <2>5, Zenon DEF AllocEntry
        <3> QED
            BY <3>1, <3>2, Zenon
    <2>7. alist' = [alist EXCEPT ![k] = e]
        BY <2>1, <2>3, <2>6, Zenon
    <2>8. /\ alist' \in Seq(AllocEntry) /\ Len(alist') = n /\ alist'[k] = e
          /\ \A i \in 1..n : i # k => alist'[i] = alist[i]
        <3>1. alist \in Seq(AllocEntry) /\ e \in AllocEntry
            BY <2>6 DEF AllocInv
        <3> QED
            BY <1>0, <2>5, <2>7, <3>1
    <2>9. \A i : i \in Pending' <=> i \in Pending /\ i # k
        <3>1. \A i : i \in Pending <=> i \in 1..n /\ ~alist[i].free
            BY <1>0 DEF Pending
        <3>2. \A i : i \in Pending' <=> i \in 1..n /\ ~alist'[i].free
            BY <2>8, Zenon DEF Pending
        <3> QED
            BY <2>5, <2>6, <2>8, <3>1, <3>2, Zenon
    <2>10. \A i \in Pending' : alist'[i].ptr = alist[i].ptr
        BY <1>0, <2>8, <2>9 DEF Pending
    <2>11. ASSUME AllocOwned PROVE AllocOwned' /\ p \in aheap
        <3>1. aheap' = aheap \ {p} /\ p \in aheap
            BY <2>1, <2>5, <2>11 DEF AllocOwned
        <3>2. \A i, j \in Pending' : alist'[i].ptr = alist'[j].ptr => i = j
            BY <2>9, <2>10, <2>11 DEF AllocOwned
        <3>3. \A i \in Pending' : alist'[i].ptr \in aheap'
            <4>1. ASSUME NEW i \in Pending' PROVE alist[i].ptr \in aheap /\ alist[i].ptr # p
                <5>1. i \in Pending /\ i # k
                    BY <2>9, <4>1
                <5>2. alist[i].ptr = alist[k].ptr => i = k
                    BY <2>5, <2>11, <5>1, Zenon DEF AllocOwned
                <5> QED
                    BY <2>5, <2>11, <5>1, <5>2, Zenon DEF AllocOwned
            <4> QED
                BY <2>10, <3>1, <4>1
        <3>4. \A q \in aheap' : \E i \in Pending' : alist'[i].ptr = q
            BY <2>5, <2>9, <2>10, <2>11, <3>1 DEF AllocOwned
        <3> QED
            BY <3>1, <3>2, <3>3, <3>4 DEF AllocOwned
    <2> QED
        BY <2>1, <2>2, <2>8, <2>11, Zenon DEF AllocInv
<1> QED
    BY <1>1, <1>2, <1>3, <1>4, <1>5, <1>6, <1>7, Zenon DEF WebAllocNext

\* Until gc_realloc moves a block, the per-request heap frees nothing twice,
\* its list names exactly the blocks that live, and nothing is left when a
\* handler has returned (the allocator of web_allocator_malloc).
THEOREM WebAllocOwns == WebAllocSpec => []HeapOwned
<1>1. AllocInv /\ [WebAllocNext]_allocVars => AllocInv'
    BY AllocInvNext, Zenon
<1> QED
    BY <1>1, AllocInvInit, AllocInvExact, PTL DEF WebAllocSpec
=============================================================================
