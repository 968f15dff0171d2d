---------------------------- MODULE MallocEntry ----------------------------
(***************************************************************************)
(* The entry points of jemalloc.c and its locks: the first call, the choice  *)
(* of an arena, the order in which a call takes the locks, and fork.  A call *)
(* is a sequence of steps, each of which takes a lock, gives it back or is a *)
(* named one; what is allocated under the locks is modelled in Arena and     *)
(* HugeAlloc.                                                                *)
(*   lock      [lock -> the set of its holders]                              *)
(*   mstate    initialized, the arenas that exist, next_arena, handlers      *)
(*             (times pthread_atfork was called), child (locks a new process *)
(*             finds taken by threads it has not got, until fork returns),   *)
(*             left (an attempt to initialize returned with init_lock held)  *)
(*   todo[t]   the steps of t's call                                         *)
(*   map[t]    arenas_map, {} or its arena                                   *)
(*   has[t]    kinds of pointers t may hand back                             *)
(***************************************************************************)
EXTENDS Integers, Sequences, SequencesExt, FiniteSets

CONSTANTS Callers,
          CallsOf,       \* [Callers -> the entry points they call]
          NArenas,       \* narenas, more than one with the option N
          MaxInits       \* bound on attempts to initialize

VARIABLES lock, mstate, todo, map, has

mallocVars == <<lock, mstate, todo, map, has>>

Arenas == 0..(NArenas - 1)

\* Locks, numbered in the order they are taken in.
LockAt(i) == [n |-> i]
Rank(l) == l.n
TheLock(name) == LockAt(CASE name = "init" -> 1 [] name = "arenas" -> 2 [] name = "rtree" -> NArenas + 3
                        [] name = "base" -> NArenas + 4 [] name = "huge" -> NArenas + 5)
ArenaLock(a) == LockAt(a + 3)
AllLocks == {LockAt(i) : i \in 1..(NArenas + 5)}

Take(l) == [do |-> "take", l |-> l]
Give(l) == [do |-> "give", l |-> l]
Do(what) == [do |-> what]
Within(l, steps) == <<Take(l)>> \o steps \o <<Give(l)>>

-----------------------------------------------------------------------------
(* What the calls do below the entry points.                                 *)

\* base_alloc, base_node_alloc, base_node_dealloc.
Base == Within(TheLock("base"), <<>>)

\* malloc_rtree_set, which may need a node; the chunk itself needs no lock.
malloc_rtree_set(node) == Within(TheLock("rtree"), IF node THEN Base ELSE <<>>)

choose_arena_hard == Within(TheLock("arenas"), <<Do("next")>>)

\* imalloc, ipalloc: of a small or large size from the arena, which may need a
\* chunk; of a huge size from the chunks.
imalloc(kind, node) ==
    CASE kind = "huge" -> Base \o malloc_rtree_set(node) \o Within(TheLock("huge"), <<>>)
      [] kind = "fits" -> <<Do("enter"), Do("leave")>>
      [] kind = "chunk" -> <<Do("enter")>> \o malloc_rtree_set(node) \o <<Do("leave")>>

\* idalloc: of an arena's pointer, with or without the last one of a chunk; of
\* a huge one.
idalloc(kind, a) ==
    CASE kind = "huge" -> Within(TheLock("huge"), <<>>) \o malloc_rtree_set(FALSE) \o Base
      [] kind = "fits" -> Within(ArenaLock(a), <<>>)
      [] kind = "chunk" -> Within(ArenaLock(a), malloc_rtree_set(FALSE))

\* isalloc, isalloc_validate: the size is in the chunk, or in the tree.
isalloc(kind) == IF kind = "huge" THEN Within(TheLock("huge"), <<>>) ELSE <<>>

-----------------------------------------------------------------------------
(* malloc_init, malloc_init_hard.                                            *)

\* The attempt under the lock, by how it ends.  If the tree of chunks cannot be
\* made, it returns without giving the lock back.
InitSteps(end) ==
    CASE end = "no arenas" -> Base \o <<Give(TheLock("init"))>>
      [] end = "no arena" -> Base \o Base \o <<Give(TheLock("init"))>>
      [] end = "no tree" -> Base \o Base \o <<Do("first arena")>> \o Base \o <<Do("give up")>>
      [] end = "made" -> Base \o Base \o <<Do("first arena")>> \o Base \o <<Do("initialized"), Give(TheLock("init"))>>

malloc_init(rest) ==
    IF mstate.initialized THEN rest ELSE <<Take(TheLock("init")), Do("init")>> \o rest

-----------------------------------------------------------------------------
(* The entry points.  Each action begins a call.                             *)

BeginCall(t, steps, hasNow) ==
    /\ todo' = [todo EXCEPT ![t] = steps]
    /\ has' = [has EXCEPT ![t] = hasNow]
    /\ UNCHANGED <<lock, mstate, map>>

Kinds == {"fits", "chunk", "huge"}
PointerKind(kind) == IF kind = "huge" THEN "huge" ELSE "small"
Got(kind) == <<[do |-> "got", kind |-> PointerKind(kind)]>>

\* malloc, calloc: a size of zero gives NULL, after the initialization.
malloc(t) ==
    /\ todo[t] = <<>> /\ "malloc" \in CallsOf[t]
    /\ \/ BeginCall(t, malloc_init(<<>>), has[t])
       \/ \E kind \in Kinds, node \in BOOLEAN : BeginCall(t, malloc_init(imalloc(kind, node) \o Got(kind)), has[t])

\* memalign, posix_memalign, valloc: a size of zero is taken as one, and a
\* wrong alignment is refused before anything.
memalign(t) ==
    /\ todo[t] = <<>> /\ "memalign" \in CallsOf[t]
    /\ \/ UNCHANGED mallocVars
       \/ \E kind \in Kinds, node \in BOOLEAN : BeginCall(t, malloc_init(imalloc(kind, node) \o Got(kind)), has[t])

\* realloc: to size zero it frees; of NULL it is malloc; otherwise the old size
\* is looked up, and what does not fit in place is moved.
realloc(t) ==
    /\ todo[t] = <<>> /\ "realloc" \in CallsOf[t]
    /\ \/ \E k \in has[t], a \in mstate.arenas, kind \in Kinds :
            /\ PointerKind(kind) = k
            /\ BeginCall(t, idalloc(kind, a), has[t] \ {k})
       \/ \E kind \in Kinds, node \in BOOLEAN : BeginCall(t, malloc_init(imalloc(kind, node) \o Got(kind)), has[t])
       \/ \E k \in has[t], a \in mstate.arenas, from, to \in Kinds, node \in BOOLEAN :
            /\ PointerKind(from) = k
            /\ BeginCall(t, isalloc(from) \o imalloc(to, node) \o idalloc(from, a) \o Got(to), has[t] \ {k})

\* free; of NULL it does nothing.
free(t) ==
    /\ todo[t] = <<>> /\ "free" \in CallsOf[t]
    /\ \E k \in has[t], a \in mstate.arenas, kind \in Kinds :
        /\ PointerKind(kind) = k
        /\ BeginCall(t, idalloc(kind, a), has[t] \ {k})

malloc_usable_size(t) ==
    /\ todo[t] = <<>> /\ "usable" \in CallsOf[t]
    /\ \E k \in has[t] : BeginCall(t, isalloc(k), has[t])

\* jemalloc_stats: the huge ones, the base pages, then every arena there is.
jemalloc_stats(t) ==
    /\ todo[t] = <<>> /\ "stats" \in CallsOf[t] /\ mstate.initialized
    /\ BeginCall(t, Within(TheLock("huge"), <<>>) \o Base \o FlattenSeq([a \in 1..NArenas |-> <<[do |-> "look", a |-> a - 1]>>]),
             has[t])

\* mutant: the lock of the base pages comes first.
PreforkBaseFirst == <<Take(TheLock("base")), Take(TheLock("arenas")), Do("arenas"), Take(TheLock("huge"))>>

\* _malloc_prefork and _malloc_postfork.  (A fork between a failed attempt to
\* initialize and the next one is left out: the handlers read arenas, which may
\* be NULL then.)
malloc_prefork == <<Take(TheLock("arenas")), Do("arenas"), Take(TheLock("base")), Take(TheLock("huge"))>>
malloc_postfork == <<Give(TheLock("huge")), Give(TheLock("base")), Do("give arenas"), Give(TheLock("arenas"))>>
fork(t) ==
    /\ todo[t] = <<>> /\ "fork" \in CallsOf[t] /\ mstate.handlers > 0 /\ mstate.initialized
    /\ BeginCall(t, FlattenSeq([i \in 1..mstate.handlers |-> malloc_prefork]) \o <<Do("fork")>>
                \o FlattenSeq([i \in 1..mstate.handlers |-> malloc_postfork]), has[t])

-----------------------------------------------------------------------------
(* Steps.                                                                    *)
NextStep(t) == Head(todo[t])
Holds(t) == {l \in AllLocks : t \in lock[l]}

\* The lock that t is about to take.
Awaited(t) ==
    IF todo[t] = <<>> THEN {}
    ELSE CASE NextStep(t).do = "take" -> {NextStep(t).l} [] NextStep(t).do = "enter" -> {ArenaLock(a) : a \in map[t]} [] OTHER -> {}

GoesOn(t, front) == todo' = [todo EXCEPT ![t] = front \o Tail(@)]

\* malloc_mutex_lock, malloc_mutex_unlock.
TakeLock(t) ==
    /\ todo[t] # <<>> /\ NextStep(t).do = "take" /\ lock[NextStep(t).l] = {}
    /\ lock' = [lock EXCEPT ![NextStep(t).l] = {t}]
    /\ GoesOn(t, <<>>) /\ UNCHANGED <<mstate, map, has>>
GiveLock(t) ==
    /\ todo[t] # <<>> /\ NextStep(t).do = "give"
    /\ lock' = [lock EXCEPT ![NextStep(t).l] = @ \ {t}]
    /\ GoesOn(t, <<>>) /\ UNCHANGED <<mstate, map, has>>

\* malloc_init_hard with the lock: another thread may have been first.  If the
\* attempt fails the call ends with it.
InitUnderLock(t) ==
    /\ todo[t] # <<>> /\ NextStep(t).do = "init"
    /\ IF mstate.initialized
       THEN GoesOn(t, <<Give(TheLock("init"))>>) /\ UNCHANGED mstate
       ELSE \E end \in {"no arenas", "no arena", "no tree", "made"} :
            /\ mstate.handlers < MaxInits
            /\ todo' = [todo EXCEPT ![t] = IF end = "made" THEN InitSteps(end) \o Tail(@) ELSE InitSteps(end)]
            /\ mstate' = [mstate EXCEPT !.handlers = @ + 1]
    /\ UNCHANGED <<lock, map, has>>

\* arenas[0], which is the arena of the thread that made it.
FirstArena(t) ==
    /\ todo[t] # <<>> /\ NextStep(t).do = "first arena"
    /\ mstate' = [mstate EXCEPT !.arenas = {0}, !.next = 0]
    /\ map' = [map EXCEPT ![t] = {0}]
    /\ GoesOn(t, <<>>) /\ UNCHANGED <<lock, has>>
Initialized(t) ==
    /\ todo[t] # <<>> /\ NextStep(t).do = "initialized"
    /\ mstate' = [mstate EXCEPT !.initialized = TRUE]
    /\ GoesOn(t, <<>>) /\ UNCHANGED <<lock, map, has>>
GaveUp(t) ==
    /\ todo[t] # <<>> /\ NextStep(t).do = "give up"
    /\ mstate' = [mstate EXCEPT !.left = TRUE]
    /\ GoesOn(t, <<>>) /\ UNCHANGED <<lock, map, has>>

\* choose_arena: the one of the thread, whose lock is taken, or else the next.
choose_arena(t) ==
    /\ todo[t] # <<>> /\ NextStep(t).do = "enter"
    /\ \/ /\ map[t] = {}
          /\ GoesOn(t, choose_arena_hard \o <<Do("enter")>>)
          /\ UNCHANGED lock
       \/ \E a \in map[t] :
            /\ lock[ArenaLock(a)] = {}
            /\ lock' = [lock EXCEPT ![ArenaLock(a)] = {t}]
            /\ GoesOn(t, <<>>)
    /\ UNCHANGED <<mstate, map, has>>

\* arenas_extend, if the next arena does not exist; arenas[0] if it cannot be
\* made.
NextArena(t) ==
    /\ todo[t] # <<>> /\ NextStep(t).do = "next"
    /\ \/ mstate.next \in mstate.arenas /\ GoesOn(t, <<[do |-> "assign", a |-> mstate.next]>>)
       \/ mstate.next \notin mstate.arenas /\ \E a \in {mstate.next, 0} : GoesOn(t, Base \o <<[do |-> "assign", a |-> a]>>)
    /\ UNCHANGED <<lock, mstate, map, has>>
AssignArena(t) ==
    /\ todo[t] # <<>> /\ NextStep(t).do = "assign"
    /\ mstate' = [mstate EXCEPT !.arenas = @ \cup {NextStep(t).a}, !.next = (@ + 1) % NArenas]
    /\ map' = [map EXCEPT ![t] = {NextStep(t).a}]
    /\ GoesOn(t, <<>>) /\ UNCHANGED <<lock, has>>

LeaveArena(t) ==
    /\ todo[t] # <<>> /\ NextStep(t).do = "leave"
    /\ \E a \in map[t] : lock' = [lock EXCEPT ![ArenaLock(a)] = @ \ {t}]
    /\ GoesOn(t, <<>>) /\ UNCHANGED <<mstate, map, has>>

\* One arena of jemalloc_stats; all arenas of the handlers of fork.
LookAtArena(t) ==
    /\ todo[t] # <<>> /\ NextStep(t).do = "look"
    /\ GoesOn(t, IF NextStep(t).a \in mstate.arenas THEN Within(ArenaLock(NextStep(t).a), <<>>) ELSE <<>>)
    /\ UNCHANGED <<lock, mstate, map, has>>
AllArenas(t) ==
    /\ todo[t] # <<>> /\ NextStep(t).do \in {"arenas", "give arenas"}
    /\ GoesOn(t, FlattenSeq([i \in 1..NArenas |->
                              IF i - 1 \notin mstate.arenas THEN <<>>
                              ELSE IF NextStep(t).do = "arenas" THEN <<Take(ArenaLock(i - 1))>>
                              ELSE <<Give(ArenaLock(i - 1))>>]))
    /\ mstate' = [mstate EXCEPT !.child = {}]
    /\ UNCHANGED <<lock, map, has>>

Fork(t) ==
    /\ todo[t] # <<>> /\ NextStep(t).do = "fork"
    /\ mstate' = [mstate EXCEPT !.child = {l \in AllLocks : lock[l] \notin {{}, {t}}}]
    /\ GoesOn(t, <<>>) /\ UNCHANGED <<lock, map, has>>

GotPointer(t) ==
    /\ todo[t] # <<>> /\ NextStep(t).do = "got"
    /\ has' = [has EXCEPT ![t] = @ \cup {NextStep(t).kind}]
    /\ GoesOn(t, <<>>) /\ UNCHANGED <<lock, mstate, map>>

MallocInit ==
    /\ lock = [l \in AllLocks |-> {}]
    /\ mstate = [initialized |-> FALSE, arenas |-> {}, next |-> 0, handlers |-> 0, child |-> {}, left |-> FALSE]
    /\ todo = [t \in Callers |-> <<>>]
    /\ map = [t \in Callers |-> {}]
    /\ has = [t \in Callers |-> {}]

MallocNext ==
    \E t \in Callers :
        \/ malloc(t) \/ memalign(t) \/ realloc(t) \/ free(t) \/ malloc_usable_size(t) \/ jemalloc_stats(t) \/ fork(t)
        \/ TakeLock(t) \/ GiveLock(t) \/ InitUnderLock(t) \/ FirstArena(t) \/ Initialized(t) \/ GaveUp(t)
        \/ choose_arena(t) \/ NextArena(t) \/ AssignArena(t) \/ LeaveArena(t) \/ LookAtArena(t) \/ AllArenas(t)
        \/ Fork(t) \/ GotPointer(t)

-----------------------------------------------------------------------------
(* Properties.                                                               *)

\* A thread that waits for a lock holds only locks that come before it, so no
\* threads wait for each other.  There are two exceptions: a fork whose handlers
\* were registered once per attempt to initialize and take the locks twice, and
\* an init_lock that a failed attempt left behind.
LocksInOrder ==
    \A t \in Callers : \A l \in Awaited(t) :
            \/ \A h \in Holds(t) : Rank(h) < Rank(l)
            \/ mstate.handlers > 1 \/ mstate.left

\* A call that is over holds no lock, except one that failed to make the tree
\* of chunks: it leaves init_lock behind.
LocksGivenBack ==
    \A t \in Callers : todo[t] = <<>> => Holds(t) \subseteq (IF mstate.left THEN {TheLock("init")} ELSE {})

\* A new process finds no lock of the allocator taken by a thread it has not
\* got, except the two that the handlers leave out: that of the tree of chunks
\* and that of the initialization.
ChildFindsLocksFree == mstate.child \subseteq {TheLock("rtree"), TheLock("init")}

\* The allocator gives out pointers, and threads have arenas, only when it is
\* initialized and those arenas exist.  An attempt that failed is not to be
\* seen.
ArenasReady ==
    /\ \A t \in Callers : has[t] # {} => mstate.initialized
    /\ \A t \in Callers : map[t] \subseteq mstate.arenas
    /\ mstate.initialized => 0 \in mstate.arenas

EntrySound == LocksInOrder /\ LocksGivenBack /\ ChildFindsLocksFree /\ ArenasReady

=============================================================================
