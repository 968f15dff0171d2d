----------------------------- MODULE Templates ------------------------------
(***************************************************************************)
(* The template engine: including files, compiling a template into a flat  *)
(* vector of text, variable and block elements, and filling it in.         *)
(*                                                                         *)
(* A template is a sequence of tokens [k, n]: text, a variable {$ n}, the  *)
(* tags {block n} and {end n}, and {include n}; offsets and lengths count  *)
(* tokens.  Names stand for their checksums, "" for none.  What a          *)
(* wrong offset or length makes the code read is the token Junk.           *)
(***************************************************************************)
EXTENDS Integers, Sequences, SequencesExt

CONSTANTS
    TplTexts,       \* the templates that are compiled
    TplContexts,    \* block contexts: sequences of block names
    TplLibrary,     \* files that {include} finds: name -> tokens
    TplDepth        \* bound: inclusions gathered (a file that includes itself never ends)

VARIABLE tcase      \* the case under consideration: [text, ctxs]

Junk == [k |-> "junk", n |-> ""]
Token(k, n) == [k |-> k, n |-> n]

-----------------------------------------------------------------------------
(* gather_into_single_file: the first inclusion is replaced by the file's  *)
(* contents and the search goes on from the same place.                    *)

FirstFrom(s, from, k) ==
    LET at == {i \in from..Len(s) : s[i].k = k}
    IN  IF at = {} THEN 0 ELSE CHOOSE i \in at : \A j \in at : i <= j

RECURSIVE GatherFrom(_, _, _)
GatherFrom(s, from, fuel) ==
    LET i == FirstFrom(s, from, "include")
    IN  IF i = 0 THEN s
        ELSE IF fuel = 0 \/ s[i].n \notin DOMAIN TplLibrary THEN <<Junk>>     \* never ends, or an error
        ELSE GatherFrom(SubSeq(s, 1, i - 1) \o TplLibrary[s[i].n] \o SubSeq(s, i + 1, Len(s)), i, fuel - 1)
gather_into_single_file(s) == GatherFrom(s, 1, TplDepth)

-----------------------------------------------------------------------------
(* Compiling.  Elements: [type, off, len, name, block, blen], off from 1.  *)

Elem(type, off, len, name) == [type |-> type, off |-> off, len |-> len, name |-> name, block |-> "", blen |-> 0]

\* parse_variables of the `len' tokens from `base': the search for {$ is not
\* bounded by len, so it may run on into what follows the part.
RECURSIVE ParseFrom(_, _, _, _)
ParseFrom(s, base, len, offset) ==
    LET i == FirstFrom(s, base + offset, "var")
    IN  IF i = 0 THEN <<Elem("text", base + offset, len - offset, "")>>
        ELSE (IF i # base + offset THEN <<Elem("text", base + offset, i - (base + offset), "")>> ELSE <<>>)
             \o <<Elem("var", i, 1, s[i].n)>> \o ParseFrom(s, base, len, i + 1 - base)
parse_variables(s, base, len) == ParseFrom(s, base, len, 0)

Marked(v, block) == [i \in 1..Len(v) |-> [v[i] EXCEPT !.block = block]]

\* The regular expression: the first {block n} from `from' on that has an
\* {end n}, up to the first such end.
EndOf(s, i) ==
    LET at == {j \in (i + 1)..Len(s) : s[j].k = "end" /\ s[j].n = s[i].n}
    IN  IF at = {} THEN 0 ELSE CHOOSE j \in at : \A l \in at : j <= l
NextBlock(s, from) ==
    LET at == {i \in from..Len(s) : s[i].k = "open" /\ EndOf(s, i) # 0}
    IN  IF at = {} THEN 0 ELSE CHOOSE i \in at : \A j \in at : i <= j

Failed == <<Junk>>

\* parse_blocks' first loop: the blocks in the order of their beginnings,
\* refused when two overlap or have the same name.
RECURSIVE CollectBlocks(_, _, _)
CollectBlocks(s, from, vec) ==
    LET i == NextBlock(s, from)
    IN  IF i = 0 THEN vec
        ELSE LET b == [off |-> i + 1, len |-> EndOf(s, i) - (i + 1), name |-> s[i].n]
             IN  IF \E k \in 1..Len(vec) :
                       \/ /\ b.off >= vec[k].off
                          /\ b.off + b.len >= vec[k].off + vec[k].len
                          /\ b.off <= vec[k].off + vec[k].len
                       \/ vec[k].name = b.name
                 THEN Failed
                 ELSE CollectBlocks(s, b.off, Append(vec, b))

\* process_blocks: the part before each inner block, the inner block, and the
\* part behind the last one; the first and the last element of the result
\* carry the way over the block and back.
EmptyVec == [v |-> <<>>, ok |-> TRUE]
Broken == [v |-> <<>>, ok |-> FALSE]

LinkedShort(v) ==                     \* mutant: the way back is one short
    IF v = <<>> THEN v
    ELSE LET w == [v EXCEPT ![1].blen = Len(v)]
         IN  IF Len(v) > 1 THEN [w EXCEPT ![Len(v)].blen = -(Len(v) - 2)] ELSE w
Linked(v) ==
    IF v = <<>> THEN v
    ELSE LET w == [v EXCEPT ![1].blen = Len(v)]
         IN  IF Len(v) > 1 THEN [w EXCEPT ![Len(v)].blen = -(Len(v) - 1)] ELSE w

Part(s, from, upto, block) ==         \* tokens from..upto-1 as elements
    IF upto > from THEN Marked(parse_variables(s, from, upto - from), block) ELSE <<>>

RECURSIVE process_blocks(_, _, _), InnerBlocks(_, _, _, _, _, _)
process_blocks(s, vec, i) == InnerBlocks(s, vec, i, i + 1, vec[i].off, <<>>)

InnerBlocks(s, vec, cur, i, prev, res) ==
    LET c == vec[cur]
        rest == res \o Part(s, prev, c.off + c.len, c.name)
        done == [v |-> Linked(rest), ok |-> rest # <<>>]
    IN  IF i > Len(vec) THEN done
        ELSE LET n == vec[i]
             IN  IF \E k \in 1..Len(res) : res[k].block = n.name
                 THEN InnerBlocks(s, vec, cur, i + 1, prev, res)
                 ELSE IF ~(c.off < n.off /\ c.off + c.len > n.off + n.len) THEN done
                 ELSE LET inner == process_blocks(s, vec, i)
                      IN  IF ~inner.ok THEN Broken
                          ELSE InnerBlocks(s, vec, cur, i + 1, n.off + n.len + 1,
                                           res \o Part(s, prev, n.off - 1, c.name) \o inner.v)

parse_blocks(s) ==
    LET vec == CollectBlocks(s, 1, <<[off |-> 1, len |-> Len(s), name |-> ""]>>)
    IN  IF vec = Failed THEN Broken ELSE process_blocks(s, vec, 1)

-----------------------------------------------------------------------------
(* tpl_complete.  ctxs[j] is the name of the j-th block context, "" once   *)
(* it has been used; a variable n is looked up in block context j first.   *)

Text(s, e) == IF e.len < 0 THEN <<Junk>> ELSE SubSeq(s, e.off, e.off + e.len - 1)
Shown(s, e, j) == IF e.type = "text" THEN Text(s, e) ELSE <<[k |-> "value", n |-> e.name, in |-> j]>>
Context(ctxs, name) == SelectInSeq(ctxs, LAMBDA n : n = name)

\* From `v' on; `jumped' says that the loop's own test for the end was
\* skipped (goto a), where the element behind the last one is Junk.
RECURSIVE Fill(_, _, _, _, _)
Fill(s, vec, v, ctxs, jumped) ==
    IF v > Len(vec) THEN IF jumped THEN <<Junk>> ELSE <<>>
    ELSE LET e == vec[v]
             j == IF e.block = "" THEN 0 ELSE Context(ctxs, e.block)
             used == [ctxs EXCEPT ![j] = ""]
         IN  IF e.block = "" THEN Shown(s, e, 0) \o Fill(s, vec, v + 1, ctxs, FALSE)
             ELSE IF j = 0
             THEN IF e.blen > 0 THEN Fill(s, vec, v + e.blen, ctxs, TRUE) ELSE Fill(s, vec, v + 1, ctxs, FALSE)
             ELSE Shown(s, e, j) \o
                  (IF e.blen < 0 THEN Fill(s, vec, v + e.blen, used, TRUE)
                   ELSE IF e.blen = 1 THEN Fill(s, vec, v, used, TRUE)
                   ELSE Fill(s, vec, v + 1, ctxs, FALSE))

tpl_complete(s, ctxs) ==
    LET t == parse_blocks(s) IN IF t.ok THEN Fill(s, t.v, 1, ctxs, FALSE) ELSE Failed

-----------------------------------------------------------------------------
(* Reference: a block's contents appear once for every context of its name *)
(* that is left, in order; text stands for itself, variables for values.   *)

RECURSIVE Meaning(_, _, _, _, _)
RECURSIVE Repeated(_, _, _, _)
Meaning(s, from, upto, ctxs, j) ==    \* [out, ctxs] of tokens from..upto
    IF from > upto THEN [out |-> <<>>, ctxs |-> ctxs]
    ELSE LET t == s[from]
         IN  IF t.k = "open" /\ EndOf(s, from) # 0
             THEN LET b == Repeated(s, from, ctxs, <<>>)
                      r == Meaning(s, EndOf(s, from) + 1, upto, b.ctxs, j)
                  IN  [out |-> b.out \o r.out, ctxs |-> r.ctxs]
             ELSE LET r == Meaning(s, from + 1, upto, ctxs, j)
                  IN  [out |-> <<IF t.k = "var" THEN [k |-> "value", n |-> t.n, in |-> j] ELSE t>> \o r.out,
                       ctxs |-> r.ctxs]
Repeated(s, open, ctxs, out) ==
    LET j == Context(ctxs, s[open].n)
    IN  IF j = 0 THEN [out |-> out, ctxs |-> ctxs]
        ELSE LET r == Meaning(s, open + 1, EndOf(s, open) - 1, ctxs, j)
             IN  Repeated(s, open, [r.ctxs EXCEPT ![j] = ""], out \o r.out)
\* Every inclusion stands for the file's contents, whose own stand for theirs.
RECURSIVE Expansion(_)
Expansion(s) ==
    FoldLeft(LAMBDA acc, t : acc \o (IF t.k = "include" THEN Expansion(TplLibrary[t.n]) ELSE <<t>>), <<>>, s)

Reference(s, ctxs) == Meaning(s, 1, Len(s), ctxs, 0).out

-----------------------------------------------------------------------------
TemplatesInit == tcase \in [text : TplTexts, ctxs : TplContexts]
TemplatesNext == UNCHANGED tcase

\* The templates the engine handles: no variable behind the beginning of a
\* block other than in the last part, text around every tag.
Tag(t) == t.k \in {"open", "end"}
Nested(s) ==                          \* every tag has its partner, blocks do not cross
    /\ \A i, j \in 1..Len(s) : i # j /\ Tag(s[i]) => s[i] # s[j]
    /\ \A j \in 1..Len(s) : s[j].k = "end" => \E i \in 1..(j - 1) : s[i] = Token("open", s[j].n)
    /\ \A i \in 1..Len(s) : s[i].k = "open" =>
          /\ EndOf(s, i) # 0
          /\ \A l \in (i + 1)..(EndOf(s, i) - 1) :
                /\ s[l].k = "open" => EndOf(s, l) \in 1..(EndOf(s, i) - 1)
                /\ s[l].k = "end" => Token("open", s[l].n) \in {s[h] : h \in (i + 1)..l}
Supported(s) ==
    /\ s # <<>> /\ Nested(s)
    /\ \A i \in 1..Len(s) : Tag(s[i]) =>
          /\ i > 1 /\ i < Len(s) /\ ~Tag(s[i - 1]) /\ ~Tag(s[i + 1])
    /\ \A i, j \in 1..Len(s) : i < j /\ Tag(s[i]) => s[j].k # "var"

\* gather_into_single_file: files included by included files are included as
\* well, in their places, whether or not text surrounds the inclusions.
IncludesExpanded == gather_into_single_file(tcase.text) = Expansion(tcase.text)

\* parse_blocks, process_blocks, tpl_complete: a template of the supported form
\* is filled in as the reference says, whatever the nesting of its blocks and
\* the order of the block contexts.
FilledIn ==
    LET s == gather_into_single_file(tcase.text)
    IN  Supported(s) => tpl_complete(s, tcase.ctxs) = Reference(s, tcase.ctxs)

\* Compiling and rendering together: blocks filled in as written, includes
\* expanded to any depth.
TemplatesExpand == FilledIn /\ IncludesExpanded

=============================================================================
