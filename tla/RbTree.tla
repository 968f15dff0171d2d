------------------------------- MODULE RbTree -------------------------------
(***************************************************************************)
(* The left-leaning red-black trees of src/libs/jemalloc/rb.h, in which the *)
(* allocator keeps its chunks, free runs, non-full runs and huge            *)
(* allocations.  The macros work on nodes linked in place: a tree is a heap  *)
(* h, a function from node addresses to links and colour, and a root.  A     *)
(* node's address is also its key, Nil is the tree's own rbt_nil node and    *)
(* Top the stack variable that insert and remove hang the root under.  An    *)
(* operator that in C returns a node through its last argument returns the   *)
(* new heap and that node.                                                   *)
(***************************************************************************)
EXTENDS Integers, Sequences, SequencesExt, FiniteSets, FiniteSetsExt

CONSTANT TreeKeys        \* the keys (positive) that are put in and taken out

Nil == 0
Top == -1

VARIABLES rbheap, rbroot, rbkeys    \* rbkeys: history, what was put in
rbVars == <<rbheap, rbroot, rbkeys>>

SetLeft(h, n, x) == [h EXCEPT ![n].left = x]
SetRight(h, n, x) == [h EXCEPT ![n].right = x]
Paint(h, n, red) == [h EXCEPT ![n].red = red]

\* The caller's idiom "if p's left child is a then ... else ...".
Relink(h, p, a, b) == IF h[p].left = a THEN SetLeft(h, p, b) ELSE SetRight(h, p, b)

rbp_node_new == [left |-> Nil, right |-> Nil, red |-> TRUE]
NilNode == [left |-> Nil, right |-> Nil, red |-> FALSE]

\* Both macros start by hanging the root under a black node on the stack.
UnderTop(h, root) == (Top :> [left |-> root, right |-> Nil, red |-> FALSE]) @@ h

(***************************************************************************)
(* Rotations and colour moves.                                              *)
(***************************************************************************)

rbp_rotate_left(h, a) ==
    LET r == h[a].right IN <<SetLeft(SetRight(h, a, h[r].left), r, a), r>>

rbp_rotate_right(h, a) ==
    LET l == h[a].left IN <<SetRight(SetLeft(h, a, h[l].right), l, a), l>>

\* The node a rotation brought up takes the place of a child of n.
HangLeft(turned, n) == SetLeft(turned[1], n, turned[2])
HangRight(turned, n) == SetRight(turned[1], n, turned[2])

\* It takes the colour of the node that went down.
Leaned(turned, a) ==
    LET h == turned[1]  n == turned[2]
    IN <<Paint(Paint(h, n, h[a].red), a, TRUE), n>>

rbp_lean_left(h, a) == Leaned(rbp_rotate_left(h, a), a)
rbp_lean_right(h, a) == Leaned(rbp_rotate_right(h, a), a)

\* The end of rbp_move_red_left after two rotations.
MovedOver(over, a) ==
    LET h == over[1]
        t == h[a].right
    IN <<IF h[t].red THEN HangLeft(rbp_rotate_left(Paint(Paint(h, t, FALSE), a, TRUE), a), over[2])
         ELSE Paint(h, a, FALSE), over[2]>>

rbp_move_red_left(h0, a) ==
    LET h == Paint(h0, h0[a].left, TRUE)
        t == h[a].right
    IN IF h[h[t].left].red
       THEN MovedOver(rbp_rotate_left(HangRight(rbp_rotate_right(h, t), a), a), a)
       ELSE rbp_rotate_left(Paint(h, a, TRUE), a)

\* Turn a down to the right, and then what is left of it back to the left.
DoubleOver(right, a) == <<HangRight(rbp_rotate_left(right[1], a), right[2]), right[2]>>
Double(h, a) == DoubleOver(rbp_rotate_right(h, a), a)

PaintTurned(turned, a) == <<Paint(turned[1], a, TRUE), turned[2]>>

rbp_move_red_right(h, a) ==
    LET t == h[a].left
        u == h[t].right
        v == h[u].left
        red == Paint(h, t, TRUE)
    IN IF h[t].red
       THEN PaintTurned(Double(IF h[v].red
                               THEN HangLeft(rbp_rotate_left(Paint(Paint(h, u, h[a].red), v, FALSE), t), a)
                               ELSE Paint(Paint(h, t, h[a].red), u, TRUE), a), a)
       ELSE IF red[red[t].left].red THEN Double(Paint(red, red[t].left, FALSE), a)
       ELSE rbp_rotate_left(red, a)

(***************************************************************************)
(* Insertion: walk down, splitting every 4-node on the way.  The state of    *)
(* the walk is the heap, grandparent, parent, current node and the sign of   *)
(* the last comparison.                                                      *)
(***************************************************************************)

Cmp(a, b) == IF a < b THEN -1 ELSE IF a > b THEN 1 ELSE 0
Below(h, n, cmp) == IF cmp < 0 THEN h[n].left ELSE h[n].right

IsFourNode(h, c) == h[h[c].left].red /\ h[h[h[c].left].left].red

RECURSIVE InsertWalk(_, _, _, _, _, _)
InsertFrom(h, k, p, c) == InsertWalk(h, k, p, c, Below(h, c, Cmp(k, c)), Cmp(k, c))
InsertLeaned(leaned, k, g, p) == InsertFrom(Relink(leaned[1], g, p, leaned[2]), k, g, leaned[2])
InsertSplit(turned, k, g, p, c) ==
    LET t == turned[2]
        h == Paint(turned[1], turned[1][t].left, FALSE)
    IN IF h[p].left = c THEN InsertFrom(SetLeft(h, p, t), k, p, t)
       ELSE InsertLeaned(rbp_lean_left(SetRight(h, p, t), p), k, g, p)
InsertWalk(h, k, g, p, c, cmp) ==
    CASE c = Nil -> [h |-> [h EXCEPT ![k] = rbp_node_new], g |-> g, p |-> p, cmp |-> cmp]
      [] c # Nil /\ ~IsFourNode(h, c) -> InsertFrom(h, k, p, c)
      [] c # Nil /\ IsFourNode(h, c) -> InsertSplit(rbp_rotate_right(h, c), k, g, p, c)

\* The new node is hung under the last node of the walk.
HangNew(w, k) ==
    LET leaned == rbp_lean_left(SetRight(w.h, w.p, k), w.p)
        under == {leaned[1][w.g].left, leaned[1][w.g].right}
    IN IF w.cmp <= 0 THEN SetLeft(w.h, w.p, k)
       ELSE IF w.p \in under THEN Relink(leaned[1], w.g, w.p, leaned[2])
       ELSE leaned[1]

RootOf(h) == [heap |-> h, root |-> h[Top].left]
BlackRoot(h) == RootOf(Paint(h, h[Top].left, FALSE))

rb_insert(h, root, k) == BlackRoot(HangNew(InsertWalk(UnderTop(h, root), k, Nil, Top, root, 0), k))

(***************************************************************************)
(* Removal: walk down turning every 2-node into a 3- or 4-node; a node that *)
(* is not a leaf is replaced by its successor.  xp is the parent the node   *)
(* had when the walk passed it.                                              *)
(***************************************************************************)

\* A leaf goes; a red left child takes its place.
Unhang(h, p, c) ==
    LET leaned == rbp_lean_right(h, c)
        t == leaned[2]
    IN IF h[c].left = Nil THEN Relink(h, p, c, Nil)
       ELSE Relink(SetRight(leaned[1], t, Nil), p, c, t)

\* mutant: the successor keeps its own colour.
RelocateKeepsColour(h, k, xp, p, c) ==
    LET placed == Relink(h, xp, k, c)
        filled == [placed EXCEPT ![c] = [placed[k] EXCEPT !.red = placed[c].red]]
    IN Relink(filled, p, c, Nil)

\* The successor c of k takes over k's place, links and colour.
Relocate(h, k, xp, p, c) ==
    LET placed == Relink(h, xp, k, c)
        filled == [placed EXCEPT ![c] = placed[k]]
    IN Relink(filled, p, c, Nil)

RECURSIVE RemoveWalk(_, _, _, _, _)
RemoveTurned(turned, k, xp, p, c) == RemoveWalk(Relink(turned[1], p, c, turned[2]), k, xp, p, turned[2])
RemoveWalk(h, k, xp, p, c) ==
    LET cmp == Cmp(k, c)
        t == h[c].left
        xp2 == IF cmp = 0 THEN p ELSE xp
    IN IF cmp < 0
       THEN IF t = Nil THEN Relocate(h, k, xp, p, c)
            ELSE IF ~h[t].red /\ ~h[h[t].left].red
            THEN RemoveTurned(rbp_move_red_left(h, c), k, xp, p, c)
            ELSE RemoveWalk(h, k, xp, c, t)
       ELSE IF cmp = 0 /\ h[c].right = Nil THEN Unhang(h, p, c)
       ELSE IF ~h[h[h[c].right].left].red
       THEN RemoveTurned(rbp_move_red_right(h, c), k, xp2, p, c)
       ELSE RemoveWalk(h, k, xp2, c, h[c].right)

\* The root may be a 2-node that no transform can enlarge.
RootTransform(h, c) ==
    LET t == h[c].left
        red == Paint(h, c, TRUE)
        u == red[t].left
    IN IF h[t].red THEN rbp_move_red_right(h, c)
       ELSE IF red[u].red THEN Double(Paint(red, u, FALSE), c)
       ELSE rbp_rotate_left(Paint(red, t, TRUE), c)

\* The first step of the walk, at the root.
BlackTurned(turned) == <<Paint(turned[1], turned[2], FALSE), turned[2]>>
RemoveRoot(h, root, k) ==
    LET cmp == Cmp(k, root)
        t == h[root].left
        xp == IF cmp = 0 THEN Top ELSE Nil
    IN IF cmp < 0
       THEN IF ~h[t].red /\ ~h[h[t].left].red
            THEN RemoveTurned(BlackTurned(rbp_move_red_left(h, root)), k, Nil, Top, root)
            ELSE RemoveWalk(h, k, Nil, root, t)
       ELSE IF cmp = 0 /\ h[root].right = Nil THEN Unhang(h, Top, root)
       ELSE IF ~h[h[h[root].right].left].red
       THEN RemoveTurned(RootTransform(h, root), k, xp, Top, root)
       ELSE RemoveWalk(h, k, xp, root, h[root].right)
rb_remove(h, root, k) == RootOf(RemoveRoot(UnderTop(h, root), root, k))

(***************************************************************************)
(* Searches.                                                                 *)
(***************************************************************************)

RECURSIVE rbp_first(_, _), rbp_last(_, _)
rbp_first(h, n) == IF h[n].left = Nil THEN n ELSE rbp_first(h, h[n].left)
rbp_last(h, n) == IF h[n].right = Nil THEN n ELSE rbp_last(h, h[n].right)

\* Down from n towards k; best is the last node where the walk went against
\* the side asked for (-1: went left, the candidates above k).
RECURSIVE Descend(_, _, _, _, _)
Descend(h, k, n, side, best) ==
    IF n = Nil \/ Cmp(k, n) = 0 THEN [at |-> n, best |-> best]
    ELSE Descend(h, k, Below(h, n, Cmp(k, n)), side, IF Cmp(k, n) = side THEN n ELSE best)

rb_search(h, root, k) == Descend(h, k, root, -1, Nil).at

rb_nsearch(h, root, k) ==
    LET d == Descend(h, k, root, -1, Nil) IN IF d.at # Nil THEN d.at ELSE d.best

rb_psearch(h, root, k) ==
    LET d == Descend(h, k, root, 1, Nil) IN IF d.at # Nil THEN d.at ELSE d.best

rb_next(h, root, n) ==
    IF h[n].right # Nil THEN rbp_first(h, h[n].right) ELSE Descend(h, n, root, -1, Nil).best

rb_prev(h, root, n) ==
    IF h[n].left # Nil THEN rbp_last(h, h[n].left) ELSE Descend(h, n, root, 1, Nil).best

(***************************************************************************)
(* The iterators, which keep the path to the current node in an array of     *)
(* three times the black height.                                             *)
(***************************************************************************)

RECURSIVE BlackHeight(_, _)
BlackHeight(h, n) ==
    IF n = Nil THEN 0 ELSE (IF h[n].red THEN 0 ELSE 1) + BlackHeight(h, h[n].left)

rbp_f_height(h, root) == 3 * BlackHeight(h, root)

RECURSIVE Spine(_, _, _)
Spine(h, n, left) ==
    IF n = Nil THEN <<>>
    ELSE <<n>> \o Spine(h, IF left THEN h[n].left ELSE h[n].right, left)

\* The path of the next node in the direction of travel: the spine of the
\* far child, or up to where the path last went the near way.
PathOn(h, path, fwd) ==
    LET n == Last(path)
        far == IF fwd THEN h[n].right ELSE h[n].left
        near(p) == IF fwd THEN h[p].left ELSE h[p].right
        ups == {d \in 1..Len(path) - 1 : near(path[d]) = path[d + 1]}
    IN IF far # Nil THEN path \o Spine(h, far, fwd)
       ELSE IF ups = {} THEN <<>> ELSE SubSeq(path, 1, Max(ups))

RECURSIVE Travel(_, _, _)
Travel(h, path, fwd) ==
    IF path = <<>> THEN [visited |-> <<>>, depth |-> 0]
    ELSE LET rest == Travel(h, PathOn(h, path, fwd), fwd)
         IN [visited |-> <<Last(path)>> \o rest.visited,
             depth |-> Max({Len(path), rest.depth})]

rb_foreach(h, root) == Travel(h, Spine(h, root, TRUE), TRUE)
rb_foreach_reverse(h, root) == Travel(h, Spine(h, root, FALSE), FALSE)

\* rb_foreach_next: the path to a node is built again from the root.
RECURSIVE PathTo(_, _, _)
PathTo(h, n, k) == IF Cmp(k, n) = 0 THEN <<n>> ELSE <<n>> \o PathTo(h, Below(h, n, Cmp(k, n)), k)

(***************************************************************************)
(* The tree as a component: nodes are put in and taken out in any order.     *)
(* The links of a node that is out are its owner's memory and not kept.      *)
(***************************************************************************)

Kept(h) == [n \in TreeKeys \cup {Nil} |-> h[n]]

RbInit ==
    /\ rbheap = [n \in TreeKeys \cup {Nil} |-> NilNode]
    /\ rbroot = Nil
    /\ rbkeys = {}

RbInsert(k) ==
    /\ k \notin rbkeys
    /\ LET new == rb_insert(rbheap, rbroot, k)
       IN rbheap' = Kept(new.heap) /\ rbroot' = new.root
    /\ rbkeys' = rbkeys \cup {k}

RbRemove(k) ==
    /\ k \in rbkeys
    /\ LET new == rb_remove(rbheap, rbroot, k)
       IN rbheap' = Kept([new.heap EXCEPT ![k] = NilNode]) /\ rbroot' = new.root
    /\ rbkeys' = rbkeys \ {k}

RbNext == \E k \in TreeKeys : RbInsert(k) \/ RbRemove(k)

RbSpec == RbInit /\ [][RbNext]_rbVars

(***************************************************************************)
(* Properties.                                                               *)
(***************************************************************************)

RECURSIVE Subtree(_, _)
Subtree(h, n) == IF n = Nil THEN {} ELSE {n} \cup Subtree(h, h[n].left) \cup Subtree(h, h[n].right)

RECURSIVE Heights(_, _)
Heights(h, n) ==
    IF n = Nil THEN {0}
    ELSE {(IF h[n].red THEN 0 ELSE 1) + d : d \in Heights(h, h[n].left) \cup Heights(h, h[n].right)}

\* Every tree that insertions and removals in any order can reach is balanced:
\* the root and rbt_nil are black, no right link is red, no three red nodes
\* follow each other down the left, every path holds as many black nodes, and
\* rbt_nil was never linked to anything.
Balanced ==
    LET h == rbheap
    IN /\ h[Nil] = NilNode
       /\ ~h[rbroot].red
       /\ \A n \in rbkeys : /\ ~h[h[n].right].red
                            /\ ~(h[n].red /\ h[h[n].left].red /\ h[h[h[n].left].left].red)
       /\ Cardinality(Heights(h, rbroot)) = 1

\* The sequence lists the set s, each element once and ascending.
Lists(seq, s) == Range(seq) = s /\ \A i \in 1..Len(seq) - 1 : seq[i] < seq[i + 1]

\* The tree holds exactly the nodes put in and not taken out, each once and in
\* order: none is lost or left dangling by a rotation or by the swap of a
\* removed node with its successor.
HoldsItsNodes ==
    LET h == rbheap
    IN /\ Lists(rb_foreach(h, rbroot).visited, rbkeys)
       /\ Subtree(h, rbroot) = rbkeys

\* Both iterators visit every node once, in order, and never need more of the
\* path array than the three times the black height it is given, also when a
\* path is built again in the middle of an iteration.
PathFits ==
    LET h == rbheap  room == rbp_f_height(h, rbroot)
    IN /\ Lists(Reverse(rb_foreach_reverse(h, rbroot).visited), rbkeys)
       /\ rb_foreach(h, rbroot).depth <= room
       /\ rb_foreach_reverse(h, rbroot).depth <= room
       /\ \A k \in rbkeys : Len(PathTo(h, rbroot, k)) <= room

Least(s) == IF s = {} THEN Nil ELSE Min(s)
Greatest(s) == IF s = {} THEN Nil ELSE Max(s)

\* Searching, also for a key that is not there, agrees with the set of keys:
\* best fit (rb_nsearch) is the least node not below the key.
SearchesRight ==
    \A k \in TreeKeys :
        /\ rb_search(rbheap, rbroot, k) = (IF k \in rbkeys THEN k ELSE Nil)
        /\ rb_nsearch(rbheap, rbroot, k) = Least({x \in rbkeys : x >= k})
        /\ rb_psearch(rbheap, rbroot, k) = Greatest({x \in rbkeys : x <= k})
        /\ k \in rbkeys =>
            /\ rb_next(rbheap, rbroot, k) = Least({x \in rbkeys : x > k})
            /\ rb_prev(rbheap, rbroot, k) = Greatest({x \in rbkeys : x < k})

\* The macros keep a search tree under insertions and removals in any order:
\* balanced, complete, iterated within the path array and searched correctly.
RbExact == Balanced /\ HoldsItsNodes /\ PathFits /\ SearchesRight

=============================================================================
