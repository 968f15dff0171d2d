--------------------------- MODULE ContentProofs ----------------------------
(***************************************************************************)
(* Proofs about what pages are made of, for any numbers of contexts, names,*)
(* files and values: the variables of templates (TplVars) and the cache of *)
(* files (MemCache).                                                       *)
(***************************************************************************)
EXTENDS TplVars, MemCache, SequenceTheorems, TLAPS

USE SMTT(60)    \* the SMT backend and its time limit, where a step names no other

-----------------------------------------------------------------------------
(* TplVars: the variables of template contexts and the global ones.         *)

VarElem == [name : VarNames, value : VarValues, allocated : BOOLEAN, block : Nat]

VarsTyped ==
    /\ vvars \in [VarCtxs -> Seq(VarElem)] /\ vset \in [VarCtxs -> [VarNames -> VarValues \cup {Unset}]]
    /\ valive \subseteq VarCtxs /\ GlobalCtx \in valive
    /\ vcount \in Nat /\ vcount <= MaxSets
    /\ \A c \in VarCtxs : Len(vvars[c]) <= vcount
    /\ \A c \in VarCtxs : c \notin valive => vvars[c] = <<>>

\* A vector has at most one element of a name, with the value set last.
NamesOnce(v) == \A i, j \in 1..Len(v) : v[i].name = v[j].name => i = j
ShowsSet(v, m) ==
    /\ \A i \in 1..Len(v) : m[v[i].name] = v[i].value
    /\ \A n \in VarNames : (\A i \in 1..Len(v) : v[i].name # n) => m[n] = Unset
VarsShown == \A c \in VarCtxs : NamesOnce(vvars[c]) /\ ShowsSet(vvars[c], vset[c])

\* Element i of context c's vector owns copy b.
Owns(c, i, b) == i \in 1..Len(vvars[c]) /\ vvars[c][i].allocated /\ vvars[c][i].block = b
VarsOwned ==
    /\ \A c \in VarCtxs : \A i, b : Owns(c, i, b) => b \in vheap /\ b <= vcount
    /\ \A b \in vheap : \E c \in VarCtxs, i \in Nat : Owns(c, i, b)
    /\ \A c, d \in VarCtxs : \A i, j, b : Owns(c, i, b) /\ Owns(d, j, b) => c = d /\ i = j

VarsInv == VarsTyped /\ VarsShown /\ VarsOwned

\* get_var finds the element of a name, or none.
LEMMA GetVar ==
    ASSUME NEW v \in Seq(VarElem), NamesOnce(v), NEW n
    PROVE  \/ get_var(v, n) = 0 /\ \A i \in 1..Len(v) : v[i].name # n
           \/ get_var(v, n) \in 1..Len(v) /\ v[get_var(v, n)].name = n
<1> DEFINE at == {i \in 1..Len(v) : v[i].name = n}
<1>1. \A i : i \in at <=> i \in 1..Len(v) /\ v[i].name = n
    BY Zenon
<1>2. PICK k : k = get_var(v, n) /\ k = IF at = {} THEN 0 ELSE CHOOSE i \in at : \A j \in at : i >= j
    BY DEF get_var
<1> HIDE DEF at
<1>3. CASE at = {}
    BY <1>1, <1>2, <1>3, Zenon
<1>4. CASE at # {}
    <2>1. PICK i : i \in at
        BY <1>4, Zenon
    <2>2. Len(v) \in Nat
        BY LenProperties
    <2>3. i \in 1..Len(v) /\ \A j \in at : j = i
        BY <1>1, <2>1 DEF NamesOnce
    <2>4. i >= i
        BY <2>2, <2>3
    <2>5. \E x \in at : \A j \in at : x >= j
        BY <2>1, <2>3, <2>4, Zenon
    <2>6. k \in at
        BY <1>2, <1>4, <2>5, Zenon
    <2> QED
        BY <1>1, <1>2, <2>6, Zenon
<1> QED
    BY <1>3, <1>4

LEMMA VarsInvExact == VarsInv => VarsExact
<1> SUFFICES ASSUME VarsInv PROVE VarsExact
    OBVIOUS
<1>0. VarsTyped /\ VarsShown /\ VarsOwned
    BY DEF VarsInv
<1>1. \A c \in VarCtxs : \A i \in 1..Len(vvars[c]) : i \in 1..MaxSets
    <2>1. ASSUME NEW c \in VarCtxs, NEW i \in 1..Len(vvars[c]) PROVE i \in 1..MaxSets
        <3>1. vvars[c] \in Seq(VarElem) /\ Len(vvars[c]) <= vcount /\ vcount \in Nat /\ vcount <= MaxSets
            BY <1>0 DEF VarsTyped
        <3>2. Len(vvars[c]) \in Nat /\ MaxSets \in Nat
            BY <3>1, LenProperties, TplVarsAssumption
        <3> QED
            BY <2>1, <3>1, <3>2
    <2> QED
        BY <2>1, Zenon
<1>2. \A x : x \in Copies <=> \E c \in VarCtxs : \E i, b : x = <<c, i>> /\ Owns(c, i, b)
    <2>1. ASSUME NEW c \in VarCtxs, NEW i, NEW b, Owns(c, i, b) PROVE <<c, i>> \in Copies
        <3>1. i \in 1..MaxSets /\ i \in 1..Len(vvars[c]) /\ vvars[c][i].allocated
            BY <1>1, <2>1, Zenon DEF Owns
        <3>2. i <= Len(vvars[c]) /\ <<c, i>> \in VarCtxs \X (1..MaxSets)
            BY <3>1
        <3> QED
            BY <3>1, <3>2, Zenon DEF Copies
    <2>2. ASSUME NEW x \in Copies PROVE \E c \in VarCtxs : \E i, b : x = <<c, i>> /\ Owns(c, i, b)
        <3>1. x \in VarCtxs \X (1..MaxSets) /\ x[2] <= Len(vvars[x[1]]) /\ vvars[x[1]][x[2]].allocated
            BY <2>2, Zenon DEF Copies
        <3>2. PICK c \in VarCtxs, i \in 1..MaxSets : x = <<c, i>>
            BY <3>1
        <3>3. x[1] = c /\ x[2] = i
            BY <3>2
        <3>4. vvars[c] \in Seq(VarElem)
            BY <1>0 DEF VarsTyped
        <3>5. i \in 1..Len(vvars[c])
            <4>1. i <= Len(vvars[c])
                BY <3>1, <3>3, Zenon
            <4> QED
                BY <3>2, <3>4, <4>1, LenProperties
        <3>6. Owns(c, i, vvars[c][i].block)
            BY <3>1, <3>3, <3>5, Zenon DEF Owns
        <3> QED
            BY <3>2, <3>6, Zenon
    <2> QED
        BY <2>1, <2>2, Zenon
<1>3. CopiesOwned
    <2>1. \A c, i : <<c, i>>[1] = c /\ <<c, i>>[2] = i
        OBVIOUS
    <2>2. \A x \in Copies : x[1] \in VarCtxs /\ Owns(x[1], x[2], vvars[x[1]][x[2]].block)
        <3>1. SUFFICES ASSUME NEW x \in Copies
                       PROVE  x[1] \in VarCtxs /\ Owns(x[1], x[2], vvars[x[1]][x[2]].block)
            BY Zenon
        <3>2. PICK c \in VarCtxs : \E i, b : x = <<c, i>> /\ Owns(c, i, b)
            BY <1>2, <3>1, Zenon
        <3>3. PICK i, b : x = <<c, i>> /\ Owns(c, i, b)
            BY <3>2, Zenon
        <3>4. x[1] = c /\ x[2] = i
            BY <2>1, <3>3, Zenon
        <3>5. Owns(c, i, vvars[c][i].block)
            BY <3>3, Zenon DEF Owns
        <3> QED
            BY <3>4, <3>5, Zenon
    <2>3. \A b : b \in vheap <=> \E x \in Copies : b = vvars[x[1]][x[2]].block
        <3>1. ASSUME NEW b \in vheap PROVE \E x \in Copies : b = vvars[x[1]][x[2]].block
            <4>1. PICK c \in VarCtxs, i \in Nat : Owns(c, i, b)
                BY <1>0, <3>1, Zenon DEF VarsOwned
            <4>2. <<c, i>> \in Copies
                BY <1>2, <4>1, Zenon
            <4>3. b = vvars[<<c, i>>[1]][<<c, i>>[2]].block
                BY <2>1, <4>1, Zenon DEF Owns
            <4> QED
                BY <4>2, <4>3, Zenon
        <3>2. ASSUME NEW x \in Copies PROVE vvars[x[1]][x[2]].block \in vheap
            <4>1. PICK c, i, b : c = x[1] /\ i = x[2] /\ b = vvars[x[1]][x[2]].block
                BY Zenon
            <4>2. c \in VarCtxs /\ Owns(c, i, b)
                BY <2>2, <3>2, <4>1, Zenon
            <4> QED
                BY <1>0, <4>1, <4>2, Zenon DEF VarsOwned
        <3> QED
            BY <3>1, <3>2, Zenon
    <2>4. ASSUME NEW x \in Copies, NEW y \in Copies, vvars[x[1]][x[2]].block = vvars[y[1]][y[2]].block PROVE x = y
        <3>1. x[1] = y[1] /\ x[2] = y[2]
            <4>1. PICK c, i, d, j, b : /\ c = x[1] /\ i = x[2] /\ d = y[1] /\ j = y[2]
                                      /\ b = vvars[x[1]][x[2]].block
                BY Zenon
            <4>2. c \in VarCtxs /\ Owns(c, i, b) /\ d \in VarCtxs /\ Owns(d, j, b)
                BY <2>2, <2>4, <4>1, Zenon
            <4>3. c = d /\ i = j
                BY <1>0, <4>2, Zenon DEF VarsOwned
            <4> QED
                BY <4>1, <4>3, Zenon
        <3>2. x = <<x[1], x[2]>> /\ y = <<y[1], y[2]>>
            <4>1. \A z \in Copies : z \in VarCtxs \X (1..MaxSets)
                BY Zenon DEF Copies
            <4> QED
                BY <2>4, <4>1
        <3> QED
            BY <3>1, <3>2, Zenon
    <2>5. vheap = {vvars[x[1]][x[2]].block : x \in Copies}
        BY <2>3, Zenon
    <2> QED
        BY <2>4, <2>5, Zenon DEF CopiesOwned
<1>4. LastValueShown
    <2>1. ASSUME NEW d \in VarCtxs, NEW n \in VarNames
          PROVE  (IF get_var(vvars[d], n) = 0 THEN Unset ELSE vvars[d][get_var(vvars[d], n)].value) = vset[d][n]
        <3>1. vvars[d] \in Seq(VarElem) /\ NamesOnce(vvars[d]) /\ ShowsSet(vvars[d], vset[d])
            BY <1>0, Zenon DEF VarsTyped, VarsShown
        <3>2. CASE get_var(vvars[d], n) = 0 /\ \A i \in 1..Len(vvars[d]) : vvars[d][i].name # n
            BY <2>1, <3>1, <3>2, Zenon DEF ShowsSet
        <3>3. CASE get_var(vvars[d], n) \in 1..Len(vvars[d]) /\ vvars[d][get_var(vvars[d], n)].name = n
            <4>1. get_var(vvars[d], n) # 0
                BY <3>1, <3>3, LenProperties
            <4> QED
                BY <3>1, <3>3, <4>1, Zenon DEF ShowsSet
        <3> QED
            BY <3>1, <3>2, <3>3, GetVar, ZenonT(60)
    <2>2. ASSUME NEW c \in valive, NEW n \in VarNames
          PROVE  ShownValue(c, n) = IF vset[c][n] # Unset THEN vset[c][n] ELSE vset[GlobalCtx][n]
        <3>1. c \in VarCtxs /\ GlobalCtx \in VarCtxs
            BY <1>0, <2>2, Zenon DEF VarsTyped
        <3>2. (IF get_var(vvars[c], n) = 0 THEN Unset ELSE vvars[c][get_var(vvars[c], n)].value) = vset[c][n]
            BY <2>1, <3>1, Zenon
        <3>3. (IF get_var(vvars[GlobalCtx], n) = 0 THEN Unset ELSE vvars[GlobalCtx][get_var(vvars[GlobalCtx], n)].value) = vset[GlobalCtx][n]
            BY <2>1, <3>1, Zenon
        <3> QED
            BY <2>2, <3>2, <3>3, Zenon DEF ShownValue
    <2> QED
        BY <2>2, Zenon DEF LastValueShown
<1> QED
    BY <1>3, <1>4 DEF VarsExact

\* Setting a value replaces the element of its name, or appends one, and
\* frees exactly the copy of the element it replaces.
LEMMA VarsSetStep ==
    ASSUME VarsInv, NEW c \in VarCtxs, c \in valive, NEW n \in VarNames, NEW w \in VarValues,
           NEW st \in BOOLEAN, SetVar(c, n, w, st)
    PROVE  VarsInv'
<1>0. VarsTyped /\ VarsShown /\ VarsOwned
    BY DEF VarsInv
<1>1. PICK v : v = vvars[c]
    BY Zenon
<1>2. v \in Seq(VarElem) /\ NamesOnce(v) /\ ShowsSet(v, vset[c]) /\ Len(v) <= vcount
    BY <1>0, <1>1, Zenon DEF VarsTyped, VarsShown
<1>3. Len(v) \in Nat /\ vcount \in Nat /\ MaxSets \in Nat /\ vcount <= MaxSets
    BY <1>0, <1>2, LenProperties, TplVarsAssumption DEF VarsTyped
<1>4. PICK e : e = [name |-> n, value |-> w, allocated |-> ~st, block |-> IF st THEN 0 ELSE vcount + 1]
    BY Zenon
<1>5. e.name = n /\ e.value = w /\ (e.allocated <=> ~st) /\ e.block = (IF st THEN 0 ELSE vcount + 1)
    BY <1>4, Zenon
<1>6. e \in VarElem
    <2>1. (IF st THEN 0 ELSE vcount + 1) \in Nat
        BY <1>3
    <2>2. (~st) \in BOOLEAN
        BY Zenon
    <2> QED
        BY <1>4, <2>1, <2>2, Zenon DEF VarElem
<1>7. PICK k0 : k0 = get_var(v, n)
    BY Zenon
<1>8. PICK q : q = IF k0 = 0 THEN Append(v, e) ELSE [v EXCEPT ![k0] = e]
    BY Zenon
<1>9. PICK freed : freed = IF k0 = 0 THEN {} ELSE Freed(v[k0])
    BY Zenon
<1>10. /\ vcount < MaxSets /\ vcount' = vcount + 1 /\ valive' = valive
       /\ vvars' = [vvars EXCEPT ![c] = q]
       /\ vheap' = (vheap \ freed) \cup (IF st THEN {} ELSE {e.block})
       /\ vset' = [vset EXCEPT ![c][n] = w]
    BY <1>1, <1>4, <1>7, <1>8, <1>9, Zenon DEF SetVar
<1>11. vvars \in [VarCtxs -> Seq(VarElem)] /\ vset \in [VarCtxs -> [VarNames -> VarValues \cup {Unset}]]
    BY <1>0, Zenon DEF VarsTyped
<1>12. vvars'[c] = q /\ \A d \in VarCtxs : d # c => vvars'[d] = vvars[d]
    BY <1>10, <1>11, Zenon
<1>13. /\ vset'[c][n] = w /\ \A m \in VarNames : m # n => vset'[c][m] = vset[c][m]
       /\ \A d \in VarCtxs : d # c => vset'[d] = vset[d]
    <2>1. vset[c] \in [VarNames -> VarValues \cup {Unset}]
        BY <1>11, Zenon
    <2> QED
        BY <1>10, <1>11, <2>1
<1>14. \/ k0 = 0 /\ \A i \in 1..Len(v) : v[i].name # n
       \/ k0 \in 1..Len(v) /\ v[k0].name = n
    BY <1>2, <1>7, GetVar, ZenonT(60)
<1>15. \E k \in Nat :
           /\ q \in Seq(VarElem) /\ k \in 1..Len(q) /\ q[k] = e /\ Len(v) <= Len(q) /\ Len(q) <= Len(v) + 1
           /\ \A i \in 1..Len(q) : i # k => i \in 1..Len(v) /\ q[i] = v[i]
           /\ \A i \in 1..Len(v) : v[i].name = n <=> i = k
           /\ \A b : b \in freed <=> k \in 1..Len(v) /\ v[k].allocated /\ v[k].block = b
    <2>1. CASE k0 = 0 /\ \A i \in 1..Len(v) : v[i].name # n
        <3>1. q = Append(v, e) /\ freed = {}
            BY <1>8, <1>9, <2>1, Zenon
        <3>2. /\ q \in Seq(VarElem) /\ Len(q) = Len(v) + 1 /\ q[Len(v) + 1] = e
              /\ \A i \in 1..Len(v) : q[i] = v[i]
            BY <1>2, <1>6, <3>1, AppendProperties
        <3>3. PICK k : k = Len(v) + 1
            BY Zenon
        <3>4. /\ k \in Nat /\ k \in 1..Len(q) /\ Len(v) <= Len(q) /\ Len(q) <= Len(v) + 1 /\ k \notin 1..Len(v)
              /\ \A i \in 1..Len(q) : i # k => i \in 1..Len(v)
            BY <1>3, <3>2, <3>3
        <3> QED
            BY <2>1, <3>1, <3>2, <3>3, <3>4, Zenon
    <2>2. CASE k0 \in 1..Len(v) /\ v[k0].name = n
        <3>1. k0 # 0 /\ k0 \in Nat
            BY <1>3, <2>2
        <3>2. q = [v EXCEPT ![k0] = e] /\ freed = Freed(v[k0])
            BY <1>8, <1>9, <3>1, Zenon
        <3>3. /\ q \in Seq(VarElem) /\ Len(q) = Len(v) /\ q[k0] = e
              /\ \A i \in 1..Len(v) : i # k0 => q[i] = v[i]
            BY <1>2, <1>6, <2>2, <3>2, ExceptSeq
        <3>4. Len(v) <= Len(q) /\ Len(q) <= Len(v) + 1
            BY <1>3, <3>3
        <3>5. \A i \in 1..Len(v) : i # k0 => v[i].name # n
            BY <1>2, <2>2, Zenon DEF NamesOnce
        <3>6. \A i \in 1..Len(v) : v[i].name = n <=> i = k0
            BY <2>2, <3>5, Zenon
        <3>7. \A b : b \in freed <=> v[k0].allocated /\ v[k0].block = b
            BY <3>2 DEF Freed
        <3> QED
            BY <2>2, <3>1, <3>3, <3>4, <3>6, <3>7, Zenon
    <2> QED
        BY <1>14, <2>1, <2>2
<1>16. PICK k \in Nat :
           /\ q \in Seq(VarElem) /\ k \in 1..Len(q) /\ q[k] = e /\ Len(v) <= Len(q) /\ Len(q) <= Len(v) + 1
           /\ \A i \in 1..Len(q) : i # k => i \in 1..Len(v) /\ q[i] = v[i]
           /\ \A i \in 1..Len(v) : v[i].name = n <=> i = k
           /\ \A b : b \in freed <=> k \in 1..Len(v) /\ v[k].allocated /\ v[k].block = b
    BY <1>15, Zenon
<1>17. \A i \in 1..Len(v) : i \in 1..Len(q)
    <2>1. Len(q) \in Nat
        BY <1>16, LenProperties
    <2> QED
        BY <1>3, <1>16, <2>1
<1>18. VarsTyped'
    <2>1. Len(q) \in Nat
        BY <1>16, LenProperties
    <2>2. Len(q) <= vcount' /\ vcount' \in Nat /\ vcount' <= MaxSets
        BY <1>2, <1>3, <1>10, <1>16, <2>1
    <2>3. \A d \in VarCtxs : Len(vvars'[d]) <= vcount'
        <3>1. ASSUME NEW d \in VarCtxs, d # c PROVE Len(vvars'[d]) <= vcount'
            <4>1. vvars'[d] = vvars[d] /\ vvars[d] \in Seq(VarElem) /\ Len(vvars[d]) <= vcount
                BY <1>0, <1>12, <3>1, Zenon DEF VarsTyped
            <4>2. Len(vvars[d]) \in Nat
                BY <4>1, LenProperties
            <4> QED
                BY <1>3, <1>10, <4>1, <4>2
        <3> QED
            BY <1>12, <2>2, <3>1, Zenon
    <2>4. vvars' \in [VarCtxs -> Seq(VarElem)]
        BY <1>10, <1>11, <1>16, Zenon
    <2>5. vset' \in [VarCtxs -> [VarNames -> VarValues \cup {Unset}]]
        BY <1>10, <1>11
    <2>6. \A d \in VarCtxs : d \notin valive' => vvars'[d] = <<>>
        BY <1>0, <1>10, <1>12, Zenon DEF VarsTyped
    <2>7. valive' \subseteq VarCtxs /\ GlobalCtx \in valive'
        BY <1>0, <1>10, Zenon DEF VarsTyped
    <2> QED
        BY <2>2, <2>3, <2>4, <2>5, <2>6, <2>7, Zenon DEF VarsTyped, VarElem
<1>19. VarsShown'
    <2>1. NamesOnce(q)
        <3>1. \A i \in 1..Len(q) : i # k => q[i].name # n
            BY <1>16, Zenon
        <3>2. ASSUME NEW i \in 1..Len(q), NEW j \in 1..Len(q), q[i].name = q[j].name PROVE i = j
            <4>1. CASE i = k \/ j = k
                BY <1>5, <1>16, <3>1, <3>2, <4>1, Zenon
            <4>2. CASE i # k /\ j # k
                <5>1. i \in 1..Len(v) /\ j \in 1..Len(v) /\ q[i] = v[i] /\ q[j] = v[j]
                    BY <1>16, <3>2, <4>2, Zenon
                <5> QED
                    BY <1>2, <3>2, <5>1, Zenon DEF NamesOnce
            <4> QED
                BY <4>1, <4>2, Zenon
        <3> QED
            BY <3>2, Zenon DEF NamesOnce
    <2>2. ShowsSet(q, vset'[c])
        <3>1. ASSUME NEW i \in 1..Len(q) PROVE vset'[c][q[i].name] = q[i].value
            <4>1. CASE i = k
                BY <1>5, <1>13, <1>16, <4>1, Zenon
            <4>2. CASE i # k
                <5>1. i \in 1..Len(v) /\ q[i] = v[i] /\ v[i].name # n
                    BY <1>16, <3>1, <4>2, Zenon
                <5>2. v[i] \in VarElem
                    BY <1>2, <5>1, ElementOfSeq, Zenon
                <5>3. v[i].name \in VarNames
                    BY <5>2 DEF VarElem
                <5> QED
                    <6>1. vset'[c][v[i].name] = vset[c][v[i].name]
                        BY <1>13, <5>1, <5>3, Zenon
                    <6>2. vset[c][v[i].name] = v[i].value
                        BY <1>2, <5>1, Zenon DEF ShowsSet
                    <6> QED
                        BY <5>1, <6>1, <6>2, Zenon
            <4> QED
                BY <4>1, <4>2, Zenon
        <3>2. ASSUME NEW m \in VarNames, \A i \in 1..Len(q) : q[i].name # m PROVE vset'[c][m] = Unset
            <4>1. m # n
                BY <1>5, <1>16, <3>2, Zenon
            <4>2. ASSUME NEW i \in 1..Len(v) PROVE v[i].name # m
                <5>1. CASE i = k
                    <6>1. v[i].name = n
                        BY <1>16, <4>2, <5>1, Zenon
                    <6> QED
                        BY <4>1, <6>1, Zenon
                <5>2. CASE i # k
                    BY <1>16, <1>17, <3>2, <4>2, <5>2, Zenon
                <5> QED
                    BY <5>1, <5>2, Zenon
            <4> QED
                BY <1>2, <1>13, <3>2, <4>1, <4>2, Zenon DEF ShowsSet
        <3> QED
            BY <3>1, <3>2, Zenon DEF ShowsSet
    <2>3. ASSUME NEW d \in VarCtxs PROVE NamesOnce(vvars'[d]) /\ ShowsSet(vvars'[d], vset'[d])
        <3>1. CASE d = c
            BY <1>12, <2>1, <2>2, <3>1, Zenon
        <3>2. CASE d # c
            BY <1>0, <1>12, <1>13, <2>3, <3>2, Zenon DEF VarsShown
        <3> QED
            BY <3>1, <3>2, Zenon
    <2> QED
        BY <2>3, Zenon DEF VarsShown, NamesOnce, ShowsSet
<1>20. VarsOwned'
    <2>1. ASSUME NEW d \in VarCtxs, NEW i, NEW b
          PROVE  Owns(d, i, b)' <=> \/ Owns(d, i, b) /\ ~(d = c /\ i = k)
                                    \/ d = c /\ i = k /\ ~st /\ b = vcount + 1
        <3>1. CASE d # c
            BY <1>12, <2>1, <3>1, Zenon DEF Owns
        <3>2. CASE d = c /\ i = k
            BY <1>5, <1>12, <1>16, <3>2, Zenon DEF Owns
        <3>3. CASE d = c /\ i # k
            BY <1>1, <1>12, <1>16, <1>17, <3>3, Zenon DEF Owns
        <3> QED
            BY <3>1, <3>2, <3>3, Zenon
    <2>2. \A b : b \in freed <=> Owns(c, k, b)
        BY <1>1, <1>16, Zenon DEF Owns
    <2>3. \A b : b \in vheap' <=> (b \in vheap /\ ~Owns(c, k, b)) \/ (~st /\ b = vcount + 1)
        BY <1>5, <1>10, <2>2, Zenon
    <2>4. /\ \A d \in VarCtxs : \A i, b : Owns(d, i, b) => b \in vheap /\ b <= vcount
          /\ \A b \in vheap : \E d \in VarCtxs, i \in Nat : Owns(d, i, b)
          /\ \A d, f \in VarCtxs : \A i, j, b : Owns(d, i, b) /\ Owns(f, j, b) => d = f /\ i = j
        BY <1>0, Zenon DEF VarsOwned
    <2>5. ASSUME NEW d \in VarCtxs, NEW i, NEW b, Owns(d, i, b)' PROVE b \in vheap' /\ b <= vcount'
        <3>1. CASE Owns(d, i, b) /\ ~(d = c /\ i = k)
            <4>1. b \in vheap /\ ~Owns(c, k, b) /\ b <= vcount
                BY <2>4, <2>5, <3>1, Zenon
            <4>2. b \in Nat
                <5>1. i \in 1..Len(vvars[d]) /\ vvars[d][i].block = b /\ vvars[d] \in Seq(VarElem)
                    BY <1>11, <2>5, <3>1, Zenon DEF Owns
                <5>2. vvars[d][i] \in VarElem
                    BY <5>1, ElementOfSeq, Zenon
                <5> QED
                    BY <5>1, <5>2 DEF VarElem
            <4>3. b <= vcount'
                BY <1>3, <1>10, <4>1, <4>2
            <4> QED
                BY <2>3, <4>1, <4>3, Zenon
        <3>2. CASE d = c /\ i = k /\ ~st /\ b = vcount + 1
            <4>1. b <= vcount'
                BY <1>3, <1>10, <3>2
            <4> QED
                BY <2>3, <3>2, <4>1, Zenon
        <3> QED
            BY <2>1, <2>5, <3>1, <3>2
    <2>6. ASSUME NEW b \in vheap' PROVE \E d \in VarCtxs, i \in Nat : Owns(d, i, b)'
        <3>1. CASE b \in vheap /\ ~Owns(c, k, b)
            <4>1. PICK d \in VarCtxs, i \in Nat : Owns(d, i, b)
                BY <2>4, <3>1, Zenon
            <4>2. Owns(d, i, b)'
                BY <2>1, <3>1, <4>1, Zenon
            <4> QED
                BY <4>2, Zenon
        <3>2. CASE ~st /\ b = vcount + 1
            <4>1. Owns(c, k, b)'
                BY <2>1, <3>2, Zenon
            <4> QED
                BY <4>1, Zenon
        <3> QED
            BY <2>3, <2>6, <3>1, <3>2, Zenon
    <2>7. \A d \in VarCtxs : \A i : ~Owns(d, i, vcount + 1)
        <3>1. ~(vcount + 1 <= vcount)
            BY <1>3
        <3> QED
            BY <2>4, <3>1, Zenon
    <2>8. ASSUME NEW d \in VarCtxs, NEW f \in VarCtxs, NEW i, NEW j, NEW b, Owns(d, i, b)', Owns(f, j, b)'
          PROVE  d = f /\ i = j
        <3>1. (Owns(d, i, b) /\ ~(d = c /\ i = k)) \/ (d = c /\ i = k /\ ~st /\ b = vcount + 1)
            BY <2>1, <2>8
        <3>2. (Owns(f, j, b) /\ ~(f = c /\ j = k)) \/ (f = c /\ j = k /\ ~st /\ b = vcount + 1)
            BY <2>1, <2>8
        <3> QED
            <4>1. CASE b = vcount + 1
                <5>1. ~Owns(d, i, b) /\ ~Owns(f, j, b)
                    BY <2>7, <4>1, Zenon
                <5> QED
                    BY <3>1, <3>2, <5>1, Zenon
            <4>2. CASE b # vcount + 1
                <5>1. Owns(d, i, b) /\ Owns(f, j, b)
                    BY <3>1, <3>2, <4>2, Zenon
                <5> QED
                    BY <2>4, <5>1, Zenon
            <4> QED
                BY <4>1, <4>2, Zenon
    <2> QED
        BY <2>5, <2>6, <2>8, Zenon DEF VarsOwned
<1> QED
    BY <1>18, <1>19, <1>20 DEF VarsInv

\* Creating or destroying a context leaves its vector empty; what it owned,
\* and nothing else, leaves memory.
LEMMA VarsEmptyStep ==
    ASSUME VarsInv, NEW c \in VarCtxs, vcount' = vcount,
           valive' \subseteq VarCtxs, GlobalCtx \in valive', \A d : d # c /\ d \notin valive' => d \notin valive,
           vvars' = [vvars EXCEPT ![c] = <<>>], vset' = [vset EXCEPT ![c] = NoValues],
           \A b : b \in vheap' <=> b \in vheap /\ \A i : ~Owns(c, i, b)
    PROVE  VarsInv'
<1>0. VarsTyped /\ VarsShown /\ VarsOwned
    BY DEF VarsInv
<1>1. vvars \in [VarCtxs -> Seq(VarElem)] /\ vset \in [VarCtxs -> [VarNames -> VarValues \cup {Unset}]]
    BY <1>0, Zenon DEF VarsTyped
<1>2. /\ vvars'[c] = <<>> /\ vset'[c] = NoValues
      /\ \A d \in VarCtxs : d # c => vvars'[d] = vvars[d] /\ vset'[d] = vset[d]
    BY <1>1, Zenon
<1>3. Len(<<>>) = 0 /\ <<>> \in Seq(VarElem) /\ \A i : i \notin 1..0
    BY EmptySeq
<1>4. VarsTyped'
    <2>1. NoValues \in [VarNames -> VarValues \cup {Unset}]
        BY Zenon DEF NoValues
    <2>2. /\ vvars' \in [VarCtxs -> Seq(VarElem)]
          /\ vset' \in [VarCtxs -> [VarNames -> VarValues \cup {Unset}]]
        BY <1>1, <1>3, <2>1, Zenon
    <2>3. vcount \in Nat /\ vcount <= MaxSets /\ 0 <= vcount
        BY <1>0 DEF VarsTyped
    <2>4. \A d \in VarCtxs : Len(vvars'[d]) <= vcount
        BY <1>0, <1>2, <1>3, <2>3, Zenon DEF VarsTyped
    <2>5. \A d \in VarCtxs : d \notin valive' => vvars'[d] = <<>>
        BY <1>0, <1>2, Zenon DEF VarsTyped
    <2> QED
        BY <2>2, <2>3, <2>4, <2>5, Zenon DEF VarsTyped, VarElem
<1>5. VarsShown'
    <2>1. NamesOnce(<<>>)
        BY <1>3, Zenon DEF NamesOnce
    <2>2. ShowsSet(<<>>, NoValues)
        <3>1. \A n \in VarNames : NoValues[n] = Unset
            BY Zenon DEF NoValues
        <3> QED
            BY <1>3, <3>1, Zenon DEF ShowsSet
    <2>3. ASSUME NEW d \in VarCtxs PROVE NamesOnce(vvars'[d]) /\ ShowsSet(vvars'[d], vset'[d])
        <3>1. CASE d = c
            BY <1>2, <2>1, <2>2, <3>1, Zenon
        <3>2. CASE d # c
            BY <1>0, <1>2, <2>3, <3>2, Zenon DEF VarsShown
        <3> QED
            BY <3>1, <3>2, Zenon
    <2> QED
        BY <2>3, Zenon DEF VarsShown, NamesOnce, ShowsSet
<1>6. VarsOwned'
    <2>1. ASSUME NEW d \in VarCtxs, NEW i, NEW b PROVE Owns(d, i, b)' <=> Owns(d, i, b) /\ d # c
        <3>1. CASE d = c
            BY <1>2, <1>3, <2>1, <3>1, Zenon DEF Owns
        <3>2. CASE d # c
            BY <1>2, <2>1, <3>2, Zenon DEF Owns
        <3> QED
            BY <3>1, <3>2, Zenon
    <2>2. /\ \A d \in VarCtxs : \A i, b : Owns(d, i, b) => b \in vheap /\ b <= vcount
          /\ \A b \in vheap : \E d \in VarCtxs, i \in Nat : Owns(d, i, b)
          /\ \A d, f \in VarCtxs : \A i, j, b : Owns(d, i, b) /\ Owns(f, j, b) => d = f /\ i = j
        BY <1>0, Zenon DEF VarsOwned
    <2>3. ASSUME NEW d \in VarCtxs, NEW i, NEW b, Owns(d, i, b)' PROVE b \in vheap' /\ b <= vcount'
        <3>1. Owns(d, i, b) /\ d # c
            BY <2>1, <2>3
        <3>2. \A j : ~Owns(c, j, b)
            BY <2>2, <2>3, <3>1, Zenon
        <3> QED
            BY <2>2, <2>3, <3>1, <3>2, Zenon
    <2>4. ASSUME NEW b \in vheap' PROVE \E d \in VarCtxs, i \in Nat : Owns(d, i, b)'
        <3>1. b \in vheap /\ \A i : ~Owns(c, i, b)
            BY <2>4, Zenon
        <3>2. PICK d \in VarCtxs, i \in Nat : Owns(d, i, b)
            BY <2>2, <3>1, Zenon
        <3>3. Owns(d, i, b)'
            BY <2>1, <3>1, <3>2, Zenon
        <3> QED
            BY <3>3, Zenon
    <2>5. ASSUME NEW d \in VarCtxs, NEW f \in VarCtxs, NEW i, NEW j, NEW b, Owns(d, i, b)', Owns(f, j, b)'
          PROVE  d = f /\ i = j
        <3>1. Owns(d, i, b) /\ Owns(f, j, b)
            BY <2>1, <2>5
        <3> QED
            BY <2>2, <3>1, Zenon
    <2> QED
        BY <2>3, <2>4, <2>5, Zenon DEF VarsOwned
<1> QED
    BY <1>4, <1>5, <1>6 DEF VarsInv

LEMMA VarsInvInit == TplVarsInit => VarsInv
<1> SUFFICES ASSUME TplVarsInit PROVE VarsInv
    OBVIOUS
<1>0. /\ vvars = [c \in VarCtxs |-> <<>>] /\ valive = {GlobalCtx}
      /\ vheap = {} /\ vset = [c \in VarCtxs |-> NoValues] /\ vcount = 0
    BY Zenon DEF TplVarsInit
<1>1. Len(<<>>) = 0 /\ <<>> \in Seq(VarElem) /\ \A i : i \notin 1..0
    BY EmptySeq
<1>2. \A c \in VarCtxs : vvars[c] = <<>> /\ vset[c] = NoValues
    BY <1>0, Zenon
<1>3. NoValues \in [VarNames -> VarValues \cup {Unset}] /\ \A n \in VarNames : NoValues[n] = Unset
    BY Zenon DEF NoValues
<1>4. VarsTyped
    <2>1. vvars \in [VarCtxs -> Seq(VarElem)] /\ vset \in [VarCtxs -> [VarNames -> VarValues \cup {Unset}]]
        BY <1>0, <1>1, <1>3, Zenon
    <2>2. vcount \in Nat /\ vcount <= MaxSets /\ 0 <= vcount
        BY <1>0, TplVarsAssumption
    <2>3. \A c \in VarCtxs : Len(vvars[c]) <= vcount /\ vvars[c] = <<>>
        BY <1>1, <1>2, <2>2, Zenon
    <2> QED
        BY <1>0, <2>1, <2>2, <2>3, TplVarsAssumption, Zenon DEF VarsTyped
<1>5. VarsShown
    <2>1. NamesOnce(<<>>)
        BY <1>1, Zenon DEF NamesOnce
    <2>2. ShowsSet(<<>>, NoValues)
        BY <1>1, <1>3, Zenon DEF ShowsSet
    <2> QED
        BY <1>2, <2>1, <2>2, Zenon DEF VarsShown
<1>6. VarsOwned
    <2>1. \A c \in VarCtxs : \A i, b : ~Owns(c, i, b)
        BY <1>1, <1>2, Zenon DEF Owns
    <2> QED
        BY <1>0, <2>1, Zenon DEF VarsOwned
<1> QED
    BY <1>4, <1>5, <1>6 DEF VarsInv

LEMMA VarsInvNext ==
    ASSUME VarsInv, TplVarsNext \/ UNCHANGED vvVars
    PROVE  VarsInv'
<1>0. VarsTyped /\ VarsOwned
    BY DEF VarsInv
<1>1. ASSUME NEW c \in VarCtxs, tpl_set_var(c) PROVE VarsInv'
    <2>1. c \in valive /\ \E n \in VarNames, v \in VarValues : SetVar(c, n, v, FALSE)
        BY <1>1, Zenon DEF tpl_set_var
    <2>2. PICK n \in VarNames, v \in VarValues : SetVar(c, n, v, FALSE)
        BY <2>1, Zenon
    <2> QED
        BY <2>1, <2>2, VarsSetStep, ZenonT(60)
<1>2. ASSUME NEW c \in VarCtxs, tpl_set_var_static(c) PROVE VarsInv'
    <2>1. c \in valive /\ \E n \in VarNames, v \in VarValues : SetVar(c, n, v, TRUE)
        BY <1>2, Zenon DEF tpl_set_var_static
    <2>2. PICK n \in VarNames, v \in VarValues : SetVar(c, n, v, TRUE)
        BY <2>1, Zenon
    <2> QED
        BY <2>1, <2>2, VarsSetStep, ZenonT(60)
<1>3. ASSUME NEW c \in VarCtxs, tpl_context_create(c) PROVE VarsInv'
    <2>1. /\ c \notin valive /\ valive' = valive \cup {c}
          /\ vvars' = [vvars EXCEPT ![c] = <<>>] /\ vset' = [vset EXCEPT ![c] = NoValues]
          /\ vheap' = vheap /\ vcount' = vcount
        BY <1>3, Zenon DEF tpl_context_create
    <2>2. /\ valive' \subseteq VarCtxs /\ GlobalCtx \in valive'
          /\ \A d : d # c /\ d \notin valive' => d \notin valive
        BY <1>0, <1>3, <2>1, Zenon DEF VarsTyped
    <2>3. vvars[c] = <<>>
        BY <1>0, <1>3, <2>1, Zenon DEF VarsTyped
    <2>4. Len(<<>>) = 0 /\ \A i : i \notin 1..0
        BY EmptySeq
    <2>5. \A i, b : ~Owns(c, i, b)
        BY <2>3, <2>4, Zenon DEF Owns
    <2>6. \A b : b \in vheap' <=> b \in vheap /\ \A i : ~Owns(c, i, b)
        BY <2>1, <2>5, Zenon
    <2>7. vcount' = vcount /\ vvars' = [vvars EXCEPT ![c] = <<>>] /\ vset' = [vset EXCEPT ![c] = NoValues]
        BY <2>1, Zenon
    <2> QED
        BY <1>3, <2>2, <2>6, <2>7, VarsEmptyStep, ZenonT(60)
<1>4. ASSUME NEW c \in VarCtxs, tpl_context_destroy(c) PROVE VarsInv'
    <2>1. /\ c \in valive \ {GlobalCtx} /\ valive' = valive \ {c}
          /\ vheap' = vheap \ UNION {Freed(vvars[c][i]) : i \in 1..Len(vvars[c])}
          /\ vvars' = [vvars EXCEPT ![c] = <<>>] /\ vset' = [vset EXCEPT ![c] = NoValues]
          /\ vcount' = vcount
        BY <1>4, Zenon DEF tpl_context_destroy
    <2>2. /\ valive' \subseteq VarCtxs /\ GlobalCtx \in valive'
          /\ \A d : d # c /\ d \notin valive' => d \notin valive
        BY <1>0, <2>1, Zenon DEF VarsTyped
    <2>3. \A e, b : b \in Freed(e) <=> e.allocated /\ e.block = b
        BY DEF Freed
    <2>4. \A b : b \in UNION {Freed(vvars[c][i]) : i \in 1..Len(vvars[c])} <=> \E i : Owns(c, i, b)
        <3>1. \A b : b \in UNION {Freed(vvars[c][i]) : i \in 1..Len(vvars[c])}
                        <=> \E i \in 1..Len(vvars[c]) : b \in Freed(vvars[c][i])
            BY Zenon
        <3>2. \A i, b : i \in 1..Len(vvars[c]) /\ b \in Freed(vvars[c][i]) <=> Owns(c, i, b)
            BY <2>3, Zenon DEF Owns
        <3> QED
            BY <3>1, <3>2, Zenon
    <2>5. \A b : b \in vheap' <=> b \in vheap /\ \A i : ~Owns(c, i, b)
        BY <2>1, <2>4, Zenon
    <2>6. vcount' = vcount /\ vvars' = [vvars EXCEPT ![c] = <<>>] /\ vset' = [vset EXCEPT ![c] = NoValues]
        BY <2>1, Zenon
    <2> QED
        BY <1>4, <2>2, <2>5, <2>6, VarsEmptyStep, ZenonT(60)
<1>5. CASE UNCHANGED vvVars
    <2>1. vvars' = vvars /\ valive' = valive /\ vheap' = vheap /\ vset' = vset /\ vcount' = vcount
        BY <1>5, Zenon DEF vvVars
    <2>2. VarsTyped'
        BY <2>1, ZenonT(60) DEF VarsInv, VarsTyped
    <2>3. VarsShown'
        BY <2>1, ZenonT(60) DEF VarsInv, VarsShown
    <2>4. VarsOwned'
        BY <2>1 DEF VarsInv, VarsOwned, Owns
    <2> QED
        BY <2>2, <2>3, <2>4, Zenon DEF VarsInv
<1> QED
    BY <1>1, <1>2, <1>3, <1>4, <1>5, Zenon DEF TplVarsNext

\* Whatever values are set, copied or static, and whatever contexts come and
\* go, a page shows the value set last and every copy has one owner, which
\* frees it once (tpl_set_var, tpl_set_var_static, tpl_context_destroy).
THEOREM VarsShowLast == TplVarsSpec => []VarsExact
<1>1. VarsInv /\ [TplVarsNext]_vvVars => VarsInv'
    BY VarsInvNext, Zenon
<1> QED
    BY <1>1, VarsInvInit, VarsInvExact, PTL DEF TplVarsSpec

-----------------------------------------------------------------------------
(* MemCache: names in one buffer that moves.                               *)

CacheChars == UNION {{n[i] : i \in DOMAIN n} : n \in CacheNames}
CacheKey == [addr : 0..2, off : Nat, len : Nat]
CacheElem == [key : CacheKey, value : CacheData, gzipped : CacheData \cup {NoGzip}, time : Nat]

CacheTyped ==
    /\ cnames \in [addr : 0..2, mem : Seq(CacheChars)]
    /\ centries \in Seq(CacheElem)
    /\ cclock \in Nat
    /\ chist \in [CacheNames -> CacheData \cup {NotStored}]

\* Every key points into the buffer of names where it is now.
CachePlaced(a, mem, es) ==
    \A i \in 1..Len(es) : es[i].key.addr = a /\ es[i].key.off + es[i].key.len <= Len(mem)
CacheZipped(es) == \A i \in 1..Len(es) : es[i].gzipped \in {es[i].value, NoGzip}

\* The elements have the names that were stored, one each, and their values.
CacheName(mem, e) == SubSeq(mem, e.key.off + 1, e.key.off + e.key.len)
CacheHolds(mem, es, h) ==
    /\ \A i \in 1..Len(es) : CacheName(mem, es[i]) \in CacheNames /\ h[CacheName(mem, es[i])] = es[i].value
    /\ \A i, j \in 1..Len(es) : CacheName(mem, es[i]) = CacheName(mem, es[j]) => i = j
    /\ \A n \in CacheNames : h[n] # NotStored => \E i \in 1..Len(es) : CacheName(mem, es[i]) = n

CacheInv ==
    /\ CacheTyped
    /\ CachePlaced(cnames.addr, cnames.mem, centries)
    /\ CacheZipped(centries)
    /\ CacheHolds(cnames.mem, centries, chist)

LEMMA CacheNameSeq == ASSUME NEW n \in CacheNames PROVE n \in Seq(CacheChars)
<1> DEFINE T == {n[i] : i \in DOMAIN n}
<1>1. n \in Seq(T)
    BY MemCacheAssumption, Zenon
<1>2. \A x \in T : x \in CacheChars
    BY Zenon DEF CacheChars
<1> HIDE DEF T
<1> QED
    BY <1>1, <1>2

\* Another name at the end of the buffer leaves the names before it,
LEMMA CacheNameKept ==
    ASSUME NEW m \in Seq(CacheChars), NEW n \in Seq(CacheChars), NEW o \in Nat, NEW l \in Nat, o + l <= Len(m)
    PROVE  SubSeq(m \o n, o + 1, o + l) = SubSeq(m, o + 1, o + l)
<1>1. CASE l = 0
    <2>1. o + l < o + 1 /\ o + 1 \in Int /\ o + l \in Int
        BY <1>1
    <2> QED
        BY <2>1, SubSeqEmpty
<1>2. CASE l # 0
    <2>1. o + 1 \in 1..Len(m) /\ o + l \in 1..Len(m)
        BY <1>2
    <2> QED
        BY <2>1, SubSeqOfConcat1
<1> QED
    BY <1>1, <1>2

\* and is itself found there.
LEMMA CacheNameNew ==
    ASSUME NEW m \in Seq(CacheChars), NEW n \in Seq(CacheChars)
    PROVE  SubSeq(m \o n, Len(m) + 1, Len(m) + Len(n)) = n
<1>1. CASE Len(n) = 0
    <2>1. n = <<>> /\ Len(m) + Len(n) < Len(m) + 1 /\ Len(m) + 1 \in Int /\ Len(m) + Len(n) \in Int
        BY <1>1
    <2> QED
        BY <2>1, SubSeqEmpty
<1>2. CASE Len(n) # 0
    <2>1. Len(m) + 1 \in (Len(m) + 1)..(Len(m) + Len(n)) /\ Len(m) + Len(n) \in (Len(m) + 1)..(Len(m) + Len(n))
        BY <1>2
    <2>2. SubSeq(m \o n, Len(m) + 1, Len(m) + Len(n)) = SubSeq(n, Len(m) + 1 - Len(m), Len(m) + Len(n) - Len(m))
        BY <2>1, SubSeqOfConcat2
    <2>3. Len(m) + 1 - Len(m) = 1 /\ Len(m) + Len(n) - Len(m) = Len(n)
        OBVIOUS
    <2> QED
        BY <2>2, <2>3, SubSeqFull
<1> QED
    BY <1>1, <1>2

\* What a lookup relies on: the invariant gives the answer of cache_find.
LEMMA CacheInvFinds == CacheInv => CacheFinds
<1> SUFFICES ASSUME CacheInv, NEW name \in CacheNames, NEW gzip \in BOOLEAN
             PROVE  LET r == cache_find(name, gzip)
                    IN  r.value = chist[name] /\ (r.found <=> chist[name] # NotStored) /\ (r.gzip => gzip)
    BY Zenon DEF CacheFinds
<1>0. CacheTyped /\ CachePlaced(cnames.addr, cnames.mem, centries) /\ CacheZipped(centries)
      /\ CacheHolds(cnames.mem, centries, chist)
    BY Zenon DEF CacheInv
<1>1. \A i \in 1..Len(centries) : KeyOf(centries[i]) = CacheName(cnames.mem, centries[i])
    BY <1>0, Zenon DEF CachePlaced, KeyOf, CacheName
<1>2. Matching(name) = {i \in 1..Len(centries) : CacheName(cnames.mem, centries[i]) = name}
    BY <1>1, Zenon DEF Matching
<1>3. CASE chist[name] = NotStored
    <2>1. \A i \in 1..Len(centries) : centries[i] \in CacheElem
        BY <1>0 DEF CacheTyped
    <2>2. \A i \in 1..Len(centries) : centries[i].value \in CacheData
        BY <2>1 DEF CacheElem
    <2>3. Matching(name) = {}
        <3> SUFFICES ASSUME NEW i \in 1..Len(centries), CacheName(cnames.mem, centries[i]) = name PROVE FALSE
            BY <1>2, Zenon
        <3>1. chist[name] = centries[i].value
            BY <1>0, Zenon DEF CacheHolds
        <3> QED
            BY <1>3, <2>2, <3>1, MemCacheAssumption, Zenon DEF NotStored
    <2>4. cache_find(name, gzip) = [found |-> FALSE, value |-> NotStored, gzip |-> FALSE]
        BY <2>3, Zenon DEF cache_find
    <2>5. cache_find(name, gzip).value = NotStored /\ ~cache_find(name, gzip).found /\ ~cache_find(name, gzip).gzip
        BY <2>4
    <2> QED
        BY <1>3, <2>5, Zenon
<1>4. CASE chist[name] # NotStored
    <2>1. PICK i \in 1..Len(centries) : CacheName(cnames.mem, centries[i]) = name
        BY <1>0, <1>4, Zenon DEF CacheHolds
    <2>2. Matching(name) = {i}
        BY <1>0, <1>2, <2>1, ZenonT(60) DEF CacheHolds
    <2>3. FirstOf(Matching(name)) = i
        BY <2>2 DEF FirstOf
    <2>4. centries[i].value = chist[name] /\ centries[i].gzipped \in {centries[i].value, NoGzip}
        BY <1>0, <2>1, Zenon DEF CacheHolds, CacheZipped
    <2>5. Matching(name) # {}
        BY <2>2, Zenon
    <2>6. \/ cache_find(name, gzip) = [found |-> TRUE, value |-> centries[i].gzipped, gzip |-> TRUE]
             /\ gzip /\ centries[i].gzipped # NoGzip
          \/ cache_find(name, gzip) = [found |-> TRUE, value |-> centries[i].value, gzip |-> FALSE]
        BY <2>3, <2>5, Zenon DEF cache_find
    <2>7. cache_find(name, gzip).value = chist[name] /\ cache_find(name, gzip).found /\ (cache_find(name, gzip).gzip => gzip)
        BY <2>4, <2>6
    <2> QED
        BY <1>4, <2>7, Zenon
<1> QED
    BY <1>3, <1>4

\* ajust_key_ptrs moves the keys to the new buffer and changes nothing else.
LEMMA CacheMoved ==
    ASSUME NEW es \in Seq(CacheElem), NEW a \in 0..2
    PROVE  /\ ajust_key_ptrs(es, a) \in Seq(CacheElem) /\ Len(ajust_key_ptrs(es, a)) = Len(es)
           /\ \A i \in 1..Len(es) :
                 /\ ajust_key_ptrs(es, a)[i].key = [addr |-> a, off |-> es[i].key.off, len |-> es[i].key.len]
                 /\ ajust_key_ptrs(es, a)[i].value = es[i].value
                 /\ ajust_key_ptrs(es, a)[i].gzipped = es[i].gzipped
<1> DEFINE m == ajust_key_ptrs(es, a)
<1>1. m = [i \in 1..Len(es) |-> [es[i] EXCEPT !.key.addr = a]]
    BY Zenon DEF ajust_key_ptrs
<1> HIDE DEF m
<1>2. ASSUME NEW i \in 1..Len(es)
      PROVE  /\ m[i] \in CacheElem
             /\ m[i].key = [addr |-> a, off |-> es[i].key.off, len |-> es[i].key.len]
             /\ m[i].value = es[i].value /\ m[i].gzipped = es[i].gzipped
    <2> DEFINE k == [es[i].key EXCEPT !.addr = a]
    <2>1. es[i] \in CacheElem
        OBVIOUS
    <2>2. es[i].key \in CacheKey /\ es[i] = [key |-> es[i].key, value |-> es[i].value, gzipped |-> es[i].gzipped, time |-> es[i].time]
        BY <2>1 DEF CacheElem
    <2>3. k = [addr |-> a, off |-> es[i].key.off, len |-> es[i].key.len] /\ k \in CacheKey
        BY <2>2 DEF CacheKey
    <2>4. m[i] = [es[i] EXCEPT !.key = k]
        BY <1>1, Zenon
    <2> HIDE DEF k
    <2>5. m[i] = [key |-> k, value |-> es[i].value, gzipped |-> es[i].gzipped, time |-> es[i].time]
        BY <2>2, <2>4
    <2>6. es[i].value \in CacheData /\ es[i].gzipped \in CacheData \cup {NoGzip} /\ es[i].time \in Nat
        BY <2>1 DEF CacheElem
    <2>7. m[i] \in CacheElem
        BY <2>3, <2>5, <2>6 DEF CacheElem
    <2> QED
        BY <2>3, <2>5, <2>7
<1>3. m \in Seq(CacheElem) /\ Len(m) = Len(es)
    <2>1. m \in [1..Len(es) -> CacheElem]
        BY <1>1, <1>2, Zenon
    <2> QED
        BY <2>1
<1> QED
    BY <1>2, <1>3, Zenon DEF m

\* cache_store: the new element has the new name, the others keep theirs.
LEMMA CacheStoreHolds ==
    ASSUME NEW mem \in Seq(CacheChars), NEW es \in Seq(CacheElem), NEW fs \in Seq(CacheElem), NEW e,
           NEW h \in [CacheNames -> CacheData \cup {NotStored}],
           NEW a, CachePlaced(a, mem, es), CacheHolds(mem, es, h),
           NEW name \in CacheNames, h[name] = NotStored, NEW data \in CacheData,
           Len(fs) = Len(es) + 1, fs[Len(es) + 1] = e,
           e.key.off = Len(mem), e.key.len = Len(name), e.value = data,
           \A i \in 1..Len(es) : fs[i].key.off = es[i].key.off /\ fs[i].key.len = es[i].key.len /\ fs[i].value = es[i].value
    PROVE  CacheHolds(mem \o name, fs, [h EXCEPT ![name] = data])
<1> DEFINE g == [h EXCEPT ![name] = data]
           n == Len(es)
           N(i) == CacheName(mem \o name, fs[i])
<1>0. name \in Seq(CacheChars) /\ n \in Nat /\ Len(mem) \in Nat
    BY CacheNameSeq
<1>1. ASSUME NEW i \in 1..n PROVE N(i) = CacheName(mem, es[i])
    <2>1. es[i] \in CacheElem
        OBVIOUS
    <2>1a. es[i].key \in CacheKey
        BY <2>1 DEF CacheElem
    <2>2. es[i].key.off \in Nat /\ es[i].key.len \in Nat
        BY <2>1a DEF CacheKey
    <2>3. es[i].key.off + es[i].key.len <= Len(mem)
        BY Zenon DEF CachePlaced
    <2>4. SubSeq(mem \o name, es[i].key.off + 1, es[i].key.off + es[i].key.len)
            = SubSeq(mem, es[i].key.off + 1, es[i].key.off + es[i].key.len)
        BY <1>0, <2>2, <2>3, CacheNameKept, Zenon
    <2> QED
        BY <2>4, Zenon DEF CacheName
<1>2. N(n + 1) = name
    BY <1>0, CacheNameNew, Zenon DEF CacheName
<1>3. ASSUME NEW i \in 1..n PROVE CacheName(mem, es[i]) \in CacheNames /\ CacheName(mem, es[i]) # name
    <2>1. CacheName(mem, es[i]) \in CacheNames /\ h[CacheName(mem, es[i])] = es[i].value
        BY Zenon DEF CacheHolds
    <2>2. es[i] \in CacheElem
        OBVIOUS
    <2>3. es[i].value \in CacheData
        BY <2>2 DEF CacheElem
    <2> QED
        BY <2>1, <2>3, MemCacheAssumption, Zenon DEF NotStored
<1>4. \A x \in CacheNames : g[x] = IF x = name THEN data ELSE h[x]
    BY Zenon
<1>5. \A i \in 1..(n + 1) : i \in 1..n \/ i = n + 1
    BY <1>0
<1>6. n + 1 \in 1..(n + 1) /\ \A i \in 1..n : i \in 1..(n + 1)
    BY <1>0
<1> HIDE DEF g, N, n
<1>7. \A i \in 1..(n + 1) : N(i) \in CacheNames /\ g[N(i)] = fs[i].value
    <2>1. ASSUME NEW i \in 1..n PROVE N(i) \in CacheNames /\ g[N(i)] = fs[i].value
        <3>1. h[CacheName(mem, es[i])] = es[i].value
            BY Zenon DEF CacheHolds, n
        <3>2. fs[i].value = es[i].value
            BY Zenon DEF n
        <3> QED
            BY <1>1, <1>3, <1>4, <3>1, <3>2, Zenon
    <2>2. N(n + 1) \in CacheNames /\ g[N(n + 1)] = fs[n + 1].value
        BY <1>2, <1>4, Zenon DEF n
    <2> QED
        BY <1>5, <2>1, <2>2, Zenon
<1>8. \A i, j \in 1..(n + 1) : N(i) = N(j) => i = j
    <2>1. ASSUME NEW i \in 1..n, NEW j \in 1..n, N(i) = N(j) PROVE i = j
        <3>1. CacheName(mem, es[i]) = CacheName(mem, es[j])
            BY <1>1, <2>1, Zenon
        <3> QED
            BY <3>1, Zenon DEF CacheHolds, n
    <2>2. \A i \in 1..n : N(i) # N(n + 1)
        BY <1>1, <1>2, <1>3, Zenon
    <2> QED
        BY <1>5, <2>1, <2>2, Zenon
<1>9. \A x \in CacheNames : g[x] # NotStored => \E i \in 1..(n + 1) : N(i) = x
    <2> SUFFICES ASSUME NEW x \in CacheNames, g[x] # NotStored PROVE \E i \in 1..(n + 1) : N(i) = x
        BY Zenon
    <2>1. CASE x = name
        BY <1>2, <1>6, <2>1, Zenon
    <2>2. CASE x # name
        <3>1. h[x] # NotStored
            BY <1>4, <2>2, Zenon
        <3>2. PICK i \in 1..n : CacheName(mem, es[i]) = x
            BY <3>1, Zenon DEF CacheHolds, n
        <3> QED
            BY <1>1, <1>6, <3>2, Zenon
    <2> QED
        BY <2>1, <2>2
<1>10. Len(fs) = n + 1
    BY Zenon DEF n
<1> QED
    BY <1>7, <1>8, <1>9, <1>10, Zenon DEF CacheHolds, N, g

\* cache_update: the element of the name gets the new value.
LEMMA CacheUpdateHolds ==
    ASSUME NEW mem, NEW es \in Seq(CacheElem), NEW fs \in Seq(CacheElem),
           NEW h \in [CacheNames -> CacheData \cup {NotStored}], CacheHolds(mem, es, h),
           NEW u \in 1..Len(es), NEW data, Len(fs) = Len(es), fs[u].value = data,
           \A i \in 1..Len(es) : fs[i].key = es[i].key /\ (i # u => fs[i].value = es[i].value)
    PROVE  CacheHolds(mem, fs, [h EXCEPT ![CacheName(mem, es[u])] = data])
<1> DEFINE name == CacheName(mem, es[u])
           g == [h EXCEPT ![name] = data]
<1>1. name \in CacheNames
    BY Zenon DEF CacheHolds
<1>2. \A x \in CacheNames : g[x] = IF x = name THEN data ELSE h[x]
    BY Zenon
<1>3. ASSUME NEW i \in 1..Len(es) PROVE CacheName(mem, fs[i]) = CacheName(mem, es[i])
    BY Zenon DEF CacheName
<1> HIDE DEF g
<1>4. ASSUME NEW i \in 1..Len(es) PROVE CacheName(mem, fs[i]) \in CacheNames /\ g[CacheName(mem, fs[i])] = fs[i].value
    <2>1. CASE i = u
        BY <1>1, <1>2, <1>3, <2>1, Zenon
    <2>2. CASE i # u
        <3>1. CacheName(mem, es[i]) \in CacheNames /\ h[CacheName(mem, es[i])] = es[i].value /\ CacheName(mem, es[i]) # name
            BY <2>2, Zenon DEF CacheHolds
        <3>2. fs[i].value = es[i].value
            BY <2>2, Zenon
        <3> QED
            BY <1>2, <1>3, <3>1, <3>2, Zenon
    <2> QED
        BY <2>1, <2>2
<1>5. \A i, j \in 1..Len(es) : CacheName(mem, fs[i]) = CacheName(mem, fs[j]) => i = j
    BY <1>3, Zenon DEF CacheHolds
<1>6. ASSUME NEW x \in CacheNames, g[x] # NotStored PROVE \E i \in 1..Len(es) : CacheName(mem, fs[i]) = x
    <2>1. CASE x = name
        BY <1>3, <2>1, Zenon
    <2>2. CASE x # name
        <3>1. h[x] # NotStored
            BY <1>2, <1>6, <2>2, Zenon
        <3> QED
            BY <1>3, <3>1, Zenon DEF CacheHolds
    <2> QED
        BY <2>1, <2>2
<1> QED
    BY <1>4, <1>5, <1>6, Zenon DEF CacheHolds, g

\* A key that is moved still points into the longer buffer.
LEMMA CacheStorePlaced ==
    ASSUME NEW mem \in Seq(CacheChars), NEW name \in CacheNames, NEW es \in Seq(CacheElem), NEW fs,
           NEW a, NEW b, CachePlaced(a, mem, es), Len(fs) = Len(es) + 1,
           fs[Len(es) + 1].key = [addr |-> b, off |-> Len(mem), len |-> Len(name)],
           \A i \in 1..Len(es) : fs[i].key = [addr |-> b, off |-> es[i].key.off, len |-> es[i].key.len]
    PROVE  CachePlaced(b, mem \o name, fs)
<1>1. name \in Seq(CacheChars) /\ Len(mem) \in Nat /\ Len(name) \in Nat /\ Len(es) \in Nat
    BY CacheNameSeq
<1>2. Len(mem \o name) = Len(mem) + Len(name)
    BY <1>1
<1>3. ASSUME NEW i \in 1..Len(fs) PROVE fs[i].key.addr = b /\ fs[i].key.off + fs[i].key.len <= Len(mem \o name)
    <2>1. CASE i \in 1..Len(es)
        <3>1. es[i].key.off + es[i].key.len <= Len(mem)
            BY <2>1, Zenon DEF CachePlaced
        <3>2. es[i] \in CacheElem
            BY <2>1
        <3>3. es[i].key.off \in Nat /\ es[i].key.len \in Nat
            BY <3>2 DEF CacheElem, CacheKey
        <3>4. fs[i].key.addr = b /\ fs[i].key.off = es[i].key.off /\ fs[i].key.len = es[i].key.len
            <4>1. fs[i].key = [addr |-> b, off |-> es[i].key.off, len |-> es[i].key.len]
                BY <2>1, Zenon
            <4> QED
                BY <4>1
        <3> QED
            BY <1>1, <1>2, <3>1, <3>3, <3>4
    <2>2. CASE i = Len(es) + 1
        BY <1>1, <1>2, <2>2
    <2> QED
        BY <1>1, <2>1, <2>2
<1> QED
    BY <1>3, Zenon DEF CachePlaced

LEMMA CacheStoreInv == ASSUME CacheInv, cache_store PROVE CacheInv'
<1>0. CacheTyped /\ CachePlaced(cnames.addr, cnames.mem, centries) /\ CacheZipped(centries)
      /\ CacheHolds(cnames.mem, centries, chist)
    BY Zenon DEF CacheInv
<1>1. PICK name \in {n \in CacheNames : chist[n] = NotStored}, data \in CacheData, moved \in {0, 1} :
        \E g \in Gzipped(data, NoGzip) :
        /\ cnames' = [addr |-> (cnames.addr + moved) % 3, mem |-> cnames.mem \o name]
        /\ centries' = Append(IF moved = 0 THEN centries ELSE ajust_key_ptrs(centries, (cnames.addr + moved) % 3),
                              [key |-> [addr |-> (cnames.addr + moved) % 3, off |-> Len(cnames.mem), len |-> Len(name)],
                               value |-> data, gzipped |-> g, time |-> cclock])
        /\ chist' = [chist EXCEPT ![name] = data]
    BY ZenonT(60) DEF cache_store
<1>a. PICK g \in Gzipped(data, NoGzip) :
        /\ cnames' = [addr |-> (cnames.addr + moved) % 3, mem |-> cnames.mem \o name]
        /\ centries' = Append(IF moved = 0 THEN centries ELSE ajust_key_ptrs(centries, (cnames.addr + moved) % 3),
                              [key |-> [addr |-> (cnames.addr + moved) % 3, off |-> Len(cnames.mem), len |-> Len(name)],
                               value |-> data, gzipped |-> g, time |-> cclock])
        /\ chist' = [chist EXCEPT ![name] = data]
    BY <1>1, Zenon
<1> DEFINE addr == (cnames.addr + moved) % 3
           mem == cnames.mem
           es == IF moved = 0 THEN centries ELSE ajust_key_ptrs(centries, addr)
           e == [key |-> [addr |-> addr, off |-> Len(mem), len |-> Len(name)], value |-> data, gzipped |-> g, time |-> cclock]
<1>2. /\ cnames' = [addr |-> addr, mem |-> mem \o name] /\ centries' = Append(es, e)
      /\ chist' = [chist EXCEPT ![name] = data] /\ chist[name] = NotStored /\ g \in {data, NoGzip} /\ name \in CacheNames
    BY <1>a, Zenon DEF Gzipped
<1>3. cclock' = cclock
    BY Zenon DEF cache_store
<1>4. cnames.addr \in 0..2 /\ mem \in Seq(CacheChars) /\ centries \in Seq(CacheElem) /\ cclock \in Nat
      /\ chist \in [CacheNames -> CacheData \cup {NotStored}]
    BY <1>0 DEF CacheTyped
<1>5. addr \in 0..2 /\ (moved = 0 => addr = cnames.addr)
    BY <1>4
<1>6. name \in Seq(CacheChars) /\ mem \o name \in Seq(CacheChars) /\ Len(mem) \in Nat /\ Len(name) \in Nat
    BY <1>4, CacheNameSeq
<1> HIDE DEF addr, mem
<1>7. e \in CacheElem
    <2>1. g \in CacheData \cup {NoGzip}
        BY <1>2, Zenon
    <2> QED
        BY <1>4, <1>5, <1>6, <2>1 DEF CacheElem, CacheKey
<1>8. /\ es \in Seq(CacheElem) /\ Len(es) = Len(centries)
      /\ \A i \in 1..Len(centries) :
            /\ es[i].key = [addr |-> addr, off |-> centries[i].key.off, len |-> centries[i].key.len]
            /\ es[i].value = centries[i].value /\ es[i].gzipped = centries[i].gzipped
    <2>1. CASE moved = 0
        <3>1. ASSUME NEW i \in 1..Len(centries)
              PROVE  centries[i].key = [addr |-> addr, off |-> centries[i].key.off, len |-> centries[i].key.len]
            <4>1. centries[i].key.addr = addr
                BY <1>0, <1>5, <2>1, Zenon DEF CachePlaced
            <4>2. centries[i] \in CacheElem
                BY <1>4
            <4>3. centries[i].key \in CacheKey
                BY <4>2 DEF CacheElem
            <4> QED
                BY <4>1, <4>3 DEF CacheKey
        <3> QED
            BY <1>4, <2>1, <3>1, Zenon
    <2>2. CASE moved # 0
        BY <1>4, <1>5, <2>2, CacheMoved, Zenon
    <2> QED
        BY <2>1, <2>2, Zenon
<1> HIDE DEF es
<1>9. e.key = [addr |-> addr, off |-> Len(mem), len |-> Len(name)] /\ e.value = data /\ e.gzipped = g
      /\ e.key.off = Len(mem) /\ e.key.len = Len(name)
    BY Zenon
<1> HIDE DEF e
<1>10. /\ centries' \in Seq(CacheElem) /\ Len(centries') = Len(centries) + 1
       /\ centries'[Len(centries) + 1] = e /\ \A i \in 1..Len(centries) : centries'[i] = es[i]
    BY <1>2, <1>7, <1>8, AppendProperties
<1>11. \A i \in 1..Len(centries) :
            /\ centries'[i].key = [addr |-> addr, off |-> centries[i].key.off, len |-> centries[i].key.len]
            /\ centries'[i].value = centries[i].value /\ centries'[i].gzipped = centries[i].gzipped
    BY <1>8, <1>10, Zenon
<1>12. cnames'.addr = addr /\ cnames'.mem = mem \o name
    BY <1>2, Zenon
<1>13. CacheTyped'
    <2>1. cnames' \in [addr : 0..2, mem : Seq(CacheChars)]
        BY <1>2, <1>5, <1>6
    <2>2. chist' \in [CacheNames -> CacheData \cup {NotStored}]
        BY <1>2, <1>4
    <2> QED
        BY <1>3, <1>4, <1>10, <2>1, <2>2, Zenon DEF CacheTyped
<1>14. CachePlaced(cnames.addr, cnames.mem, centries)'
    <2>1. CachePlaced(cnames.addr, mem, centries)
        BY <1>0 DEF mem
    <2>2. CachePlaced(addr, mem \o name, centries')
        BY <1>4, <1>9, <1>10, <1>11, <2>1, CacheStorePlaced, ZenonT(60)
    <2> QED
        BY <1>12, <2>2
<1>15. CacheZipped(centries)'
    <2>1. ASSUME NEW i \in 1..Len(centries') PROVE centries'[i].gzipped \in {centries'[i].value, NoGzip}
        <3>1. CASE i \in 1..Len(centries)
            BY <1>0, <1>11, <3>1, Zenon DEF CacheZipped
        <3>2. CASE i = Len(centries) + 1
            BY <1>2, <1>9, <1>10, <3>2, Zenon
        <3>3. i \in 1..Len(centries) \/ i = Len(centries) + 1
            BY <1>4, <1>10
        <3> QED
            BY <3>1, <3>2, <3>3
    <2> QED
        BY <2>1, Zenon DEF CacheZipped
<1>16. CacheHolds(cnames.mem, centries, chist)'
    <2>1. CachePlaced(cnames.addr, mem, centries) /\ CacheHolds(mem, centries, chist)
        BY <1>0 DEF mem
    <2>2. \A i \in 1..Len(centries) : /\ centries'[i].key.off = centries[i].key.off /\ centries'[i].key.len = centries[i].key.len
                                      /\ centries'[i].value = centries[i].value
        <3> TAKE i \in 1..Len(centries)
        <3>1. centries'[i].key = [addr |-> addr, off |-> centries[i].key.off, len |-> centries[i].key.len]
            BY <1>11, Zenon
        <3>2. centries'[i].key.off = centries[i].key.off /\ centries'[i].key.len = centries[i].key.len
            BY <3>1
        <3> QED
            BY <1>11, <3>2, Zenon
    <2>3. CacheHolds(mem \o name, centries', [chist EXCEPT ![name] = data])
        BY <1>2, <1>4, <1>9, <1>10, <2>1, <2>2, CacheStoreHolds, ZenonT(60)
    <2> QED
        BY <1>2, <1>12, <2>3
<1> QED
    BY <1>13, <1>14, <1>15, <1>16, Zenon DEF CacheInv

LEMMA CacheUpdateInv == ASSUME CacheInv, cache_update PROVE CacheInv'
<1>0. CacheTyped /\ CachePlaced(cnames.addr, cnames.mem, centries) /\ CacheZipped(centries)
      /\ CacheHolds(cnames.mem, centries, chist)
    BY Zenon DEF CacheInv
<1>1. cnames' = cnames /\ cclock' = cclock + 1
    BY Zenon DEF cache_update
<1>2. cnames \in [addr : 0..2, mem : Seq(CacheChars)] /\ centries \in Seq(CacheElem) /\ cclock \in Nat
      /\ chist \in [CacheNames -> CacheData \cup {NotStored}]
    BY <1>0, Zenon DEF CacheTyped
<1>3. cclock' \in Nat
    BY <1>1, <1>2
<1>4. CASE centries' = centries /\ chist' = chist
    <2>1. CacheTyped'
        BY <1>1, <1>2, <1>3, <1>4, Zenon DEF CacheTyped
    <2>2. (CachePlaced(cnames.addr, cnames.mem, centries) /\ CacheZipped(centries) /\ CacheHolds(cnames.mem, centries, chist))'
        BY <1>0, <1>1, <1>4
    <2> QED
        BY <2>1, <2>2, Zenon DEF CacheInv
<1>5. ASSUME NEW name \in CacheNames, Matching(name) # {}, NEW data \in CacheData,
             NEW g \in Gzipped(data, centries[FirstOf(Matching(name))].gzipped),
             centries' = [centries EXCEPT ![FirstOf(Matching(name))] =
                                     [key |-> @.key, value |-> data, gzipped |-> g, time |-> cclock]],
             chist' = [chist EXCEPT ![name] = data]
      PROVE  CacheInv'
    <2>1. \A i \in 1..Len(centries) : KeyOf(centries[i]) = CacheName(cnames.mem, centries[i])
        BY <1>0, Zenon DEF CachePlaced, KeyOf, CacheName
    <2>2. PICK u \in 1..Len(centries) : CacheName(cnames.mem, centries[u]) = name
        BY <1>5, <2>1, Zenon DEF Matching
    <2>3. Matching(name) = {u}
        <3>1. Matching(name) = {i \in 1..Len(centries) : CacheName(cnames.mem, centries[i]) = name}
            BY <2>1, Zenon DEF Matching
        <3>2. ASSUME NEW i \in 1..Len(centries), CacheName(cnames.mem, centries[i]) = name PROVE i = u
            BY <1>0, <2>2, <3>2, Zenon DEF CacheHolds
        <3> QED
            BY <2>2, <3>1, <3>2, Zenon
    <2>4. FirstOf(Matching(name)) = u
        BY <2>3 DEF FirstOf
    <2>5. g \in {data, NoGzip}
        BY <1>5, Zenon DEF Gzipped
    <2> DEFINE e == [key |-> centries[u].key, value |-> data, gzipped |-> g, time |-> cclock]
    <2>6. centries[u] \in CacheElem
        BY <1>2
    <2>7. centries[u].key \in CacheKey
        BY <2>6 DEF CacheElem
    <2>9. centries' = [centries EXCEPT ![u] = e]
        BY <1>5, <2>4, Zenon
    <2>10. g \in CacheData \cup {NoGzip}
        BY <2>5, Zenon
    <2>11. e \in CacheElem
        BY <1>2, <2>7, <2>10 DEF CacheElem
    <2>12. e.key = centries[u].key /\ e.value = data /\ e.gzipped = g
        BY Zenon
    <2> HIDE DEF e
    <2>13. centries' \in Seq(CacheElem) /\ Len(centries') = Len(centries)
           /\ \A i \in 1..Len(centries) : centries'[i] = IF i = u THEN e ELSE centries[i]
        BY <1>2, <2>9, <2>11
    <2>14. \A i \in 1..Len(centries) : centries'[i].key = centries[i].key /\ (i # u => centries'[i] = centries[i])
        BY <2>12, <2>13, Zenon
    <2>15. CacheTyped'
        <3>1. chist' \in [CacheNames -> CacheData \cup {NotStored}]
            BY <1>2, <1>5
        <3> QED
            BY <1>1, <1>2, <1>3, <2>13, <3>1, Zenon DEF CacheTyped
    <2>16. CachePlaced(cnames.addr, cnames.mem, centries)'
        <3>1. CachePlaced(cnames.addr, cnames.mem, centries')
            BY <1>0, <2>13, <2>14, Zenon DEF CachePlaced
        <3> QED
            BY <1>1, <3>1
    <2>17. CacheZipped(centries)'
        <3>1. CacheZipped(centries')
            BY <1>0, <2>5, <2>12, <2>13, Zenon DEF CacheZipped
        <3> QED
            BY <3>1
    <2>18. CacheHolds(cnames.mem, centries, chist)'
        <3>1. \A i \in 1..Len(centries) : centries'[i].key = centries[i].key /\ (i # u => centries'[i].value = centries[i].value)
            BY <2>14, Zenon
        <3>2. centries'[u].value = data
            BY <2>12, <2>13, Zenon
        <3>3. CacheHolds(cnames.mem, centries', [chist EXCEPT ![CacheName(cnames.mem, centries[u])] = data])
            BY <1>0, <1>2, <2>13, <3>1, <3>2, CacheUpdateHolds, ZenonT(60)
        <3> QED
            BY <1>1, <1>5, <2>2, <3>3
    <2> QED
        BY <2>15, <2>16, <2>17, <2>18, Zenon DEF CacheInv
<1> QED
    BY <1>4, <1>5, ZenonT(60) DEF cache_update

\* An empty cache, at the beginning and after cache_free.
CacheEmpty ==
    /\ centries = <<>> /\ cnames \in [addr : 0..2, mem : {<<>>}] /\ cclock \in Nat
    /\ chist = [n \in CacheNames |-> NotStored]

LEMMA CacheEmptyInv == CacheEmpty => CacheInv
<1> SUFFICES ASSUME CacheEmpty PROVE CacheInv
    OBVIOUS
<1>0. centries = <<>> /\ cnames \in [addr : 0..2, mem : {<<>>}] /\ cclock \in Nat /\ chist = [n \in CacheNames |-> NotStored]
    BY Zenon DEF CacheEmpty
<1>1. CacheTyped
    <2>1. <<>> \in Seq(CacheChars) /\ centries \in Seq(CacheElem)
        BY <1>0
    <2>2. cnames \in [addr : 0..2, mem : Seq(CacheChars)]
        BY <1>0, <2>1, Zenon
    <2>3. chist \in [CacheNames -> CacheData \cup {NotStored}]
        BY <1>0
    <2> QED
        BY <1>0, <2>1, <2>2, <2>3, Zenon DEF CacheTyped
<1>2. Len(centries) = 0
    BY <1>0
<1>3. 1..Len(centries) = {}
    BY <1>2
<1>4. CachePlaced(cnames.addr, cnames.mem, centries) /\ CacheZipped(centries)
    BY <1>3, Zenon DEF CachePlaced, CacheZipped
<1>5. \A n \in CacheNames : chist[n] = NotStored
    BY <1>0, Zenon
<1>6. CacheHolds(cnames.mem, centries, chist)
    BY <1>3, <1>5, Zenon DEF CacheHolds
<1> QED
    BY <1>1, <1>4, <1>6 DEF CacheInv

LEMMA CacheInvNext == CacheInv /\ [MemCacheNext]_cacheVars => CacheInv'
<1> SUFFICES ASSUME CacheInv, [MemCacheNext]_cacheVars PROVE CacheInv'
    OBVIOUS
<1>1. CASE cache_store
    BY <1>1, CacheStoreInv
<1>2. CASE cache_update
    BY <1>2, CacheUpdateInv
<1>3. CASE cache_free
    <2>1. centries' = <<>> /\ cnames' = [cnames EXCEPT !.mem = <<>>] /\ chist' = [n \in CacheNames |-> NotStored] /\ cclock' = cclock
        BY <1>3, Zenon DEF cache_free
    <2>2. cnames \in [addr : 0..2, mem : Seq(CacheChars)] /\ cclock \in Nat
        BY Zenon DEF CacheInv, CacheTyped
    <2>3. cnames' \in [addr : 0..2, mem : {<<>>}]
        BY <2>1, <2>2
    <2>4. CacheEmpty'
        BY <2>1, <2>2, <2>3, Zenon DEF CacheEmpty
    <2> QED
        BY <2>4, CacheEmptyInv, PTL
<1>4. CASE UNCHANGED cacheVars
    <2>1. cnames' = cnames /\ centries' = centries /\ cclock' = cclock /\ chist' = chist
        BY <1>4, Zenon DEF cacheVars
    <2>2. CacheTyped'
        BY <2>1, Zenon DEF CacheInv, CacheTyped
    <2>3. (CachePlaced(cnames.addr, cnames.mem, centries) /\ CacheZipped(centries) /\ CacheHolds(cnames.mem, centries, chist))'
        BY <2>1 DEF CacheInv
    <2> QED
        BY <2>2, <2>3, Zenon DEF CacheInv
<1> QED
    BY <1>1, <1>2, <1>3, <1>4 DEF MemCacheNext

\* For any names and contents and however often the buffer of names moves,
\* cache_find gives what cache_store or cache_update put there last under that
\* name, and finds nothing under a name that was not stored.
THEOREM CacheFindsLast == MemCacheSpec => []CacheFinds
<1>1. MemCacheInit => CacheInv
    <2> SUFFICES ASSUME MemCacheInit PROVE CacheInv
        OBVIOUS
    <2>1. centries = <<>> /\ cclock = 0 /\ chist = [n \in CacheNames |-> NotStored] /\ cnames = [addr |-> 0, mem |-> <<>>]
        BY Zenon DEF MemCacheInit
    <2>2. cnames \in [addr : 0..2, mem : {<<>>}] /\ cclock \in Nat
        BY <2>1
    <2> QED
        BY <2>1, <2>2, CacheEmptyInv, Zenon DEF CacheEmpty
<1> QED
    BY <1>1, CacheInvNext, CacheInvFinds, PTL DEF MemCacheSpec
=============================================================================
