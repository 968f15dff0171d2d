---------------------------- MODULE SharedProofs ----------------------------
(***************************************************************************)
(* Proofs about what the event thread and the workers share without a lock *)
(* that both of them take, for any numbers of workers, files, descriptors  *)
(* and connections: the working directory with the table of compiled       *)
(* templates (WorkDir) and the list of sockets of the event loop that uses *)
(* select (SelectLoop).                                                    *)
(***************************************************************************)
EXTENDS WorkDir, SelectLoop, FiniteSetTheorems, TLAPS

USE SMTT(60)    \* the SMT backend and its time limit, where a step names no other

-----------------------------------------------------------------------------
(* WorkDir: its invariant.                                                  *)

TplElem == [file : TplFiles, mtime : Nat, tpl : Nat, from : {"start", "root", "tpl"}]

WdTyped ==
    /\ tupd \in {0, 1} /\ wcwd \in {"start", "root", "tpl"} /\ wmain \in {"start", "serve"}
    /\ wspin \in BOOLEAN /\ wonce \in BOOLEAN /\ tmutex \in BOOLEAN /\ wrace \in BOOLEAN
    /\ wpc \in [WdWorkers -> {"init", "css", "idle", "lock", "compile"}]
    /\ wsaved \in [WdWorkers -> {"none", "start", "root", "tpl"}]
    /\ tmtime \in [TplFiles -> Nat] /\ ttable \in Seq(TplElem)
    /\ tlive \in SUBSET Nat /\ IsFiniteSet(tlive)
    /\ tfound \in [WdWorkers -> [at : Nat, len : Nat]]
    /\ twant \in [WdWorkers -> TplFiles \cup {0}]
    /\ tuse \in [WdWorkers -> Int]

\* The spin lock keeps every other worker out until the first has the style
\* sheet, the mutex keeps a second compilation out, and neither begins before
\* the event thread serves.
WdLocked ==
    /\ ~wonce => \A t \in WdWorkers : wpc[t] = "init"
    /\ \A t \in WdWorkers : wpc[t] = "css" => wspin /\ \A u \in WdWorkers \ {t} : wpc[u] = "init"
    /\ \A t \in WdWorkers : wpc[t] = "compile" => tmutex /\ \A u \in WdWorkers \ {t} : wpc[u] # "compile"
    /\ \A t \in WdWorkers : wpc[t] \in {"lock", "compile"} => wmain = "serve"

\* Where the process is, and where whoever is inside the template directory
\* will go back to.
WdPlaces ==
    /\ \A t \in WdWorkers : wpc[t] = "compile" => wcwd = "tpl"
    /\ \A t \in WdWorkers : wpc[t] \in {"css", "compile"} => wsaved[t] \in {"start", "root", "tpl"}
    /\ wmain = "serve" /\ ~wrace =>
        \/ \E t \in WdWorkers : wpc[t] \in {"css", "compile"} /\ wsaved[t] = "root"
        \/ wcwd = "root" /\ \A t \in WdWorkers : wpc[t] \notin {"css", "compile"}

\* Lookups: what was found is an element, of the array as it was; a handler that
\* goes on to compile has found nothing if templates are never looked at again.
WdFound ==
    /\ \A t \in WdWorkers : wpc[t] \in {"lock", "compile"} =>
        /\ twant[t] \in TplFiles
        /\ tfound[t].at <= tfound[t].len
        /\ tupd = 0 => tfound[t].at = 0
    /\ tupd = 0 => \A i \in 1..Len(ttable) : ttable[i].tpl \in tlive

WdInv == WdTyped /\ WdLocked /\ WdPlaces /\ WdFound /\ CompiledFromTemplates /\ RenderedAlive

LEMMA WdInvSafe == WdInv => TemplatesSafe
<1> SUFFICES ASSUME WdInv, wmain = "serve", Inside = {}, ~wrace
             PROVE  wcwd = "root"
    BY Zenon DEF WdInv, TemplatesSafe, CwdBack
<1>1. \A t \in WdWorkers : wpc[t] \notin {"css", "compile"}
    BY Zenon DEF Inside
<1> QED
    BY <1>1, Zenon DEF WdInv, WdPlaces

\* The search of the table finds the first element of the file.
LEMMA FirstIn ==
    ASSUME NEW T \in SUBSET Nat, T # {}
    PROVE  First(T) \in T
<1> DEFINE R == OpToRel(<, Nat)
<1>1. PICK x \in T : \A y \in T : ~(<<y, x>> \in R)
    BY NatLessThanWellFounded, WFMin, Zenon
<1>2. ASSUME NEW y \in T PROVE x <= y
    <2>1. x \in Nat /\ y \in Nat /\ ~(<<y, x>> \in R)
        BY <1>1, Zenon
    <2>2. y < x => <<y, x>> \in R
        BY <2>1 DEF OpToRel
    <2> HIDE DEF R
    <2> QED
        BY <2>1, <2>2
<1> QED
    BY <1>2, Zenon DEF First

\* An address that is not in use can be had.
LEMMA NewTplFree ==
    ASSUME tlive \in SUBSET Nat, IsFiniteSet(tlive)
    PROVE  NewTpl \in Nat /\ NewTpl \notin tlive
<1> DEFINE n == Cardinality(tlive) + 1
<1>1. n \in Nat /\ Cardinality(tlive) \in Nat
    BY FS_CardinalityType
<1>2. IsFiniteSet(1..n) /\ Cardinality(1..n) = n
  <2>1. IsFiniteSet(1..n) /\ Cardinality(1..n) = IF 1 > n THEN 0 ELSE n - 1 + 1
    <3>1. 1 \in Int /\ n \in Int
        BY <1>1
    <3> HIDE DEF n
    <3> QED
        BY <3>1, FS_Interval, Zenon
  <2> QED BY <2>1, <1>1
<1>3. ~(1..n \subseteq tlive)
  <2>1. 1..n \subseteq tlive => Cardinality(1..n) <= Cardinality(tlive)
      BY FS_Subset, Zenon
  <2> QED BY <2>1, <1>1, <1>2
<1> QED
    BY <1>3, <1>1 DEF NewTpl

LEMMA WdInvInit == WorkDirInit => WdInv
<1> SUFFICES ASSUME WorkDirInit PROVE WdInv
    OBVIOUS
<1>1. WdTyped
  <2>1. IsFiniteSet(tlive)
      BY FS_EmptySet, Zenon DEF WorkDirInit
  <2>2. /\ wpc \in [WdWorkers -> {"init", "css", "idle", "lock", "compile"}]
        /\ wsaved \in [WdWorkers -> {"none", "start", "root", "tpl"}]
      BY DEF WorkDirInit
  <2>3. /\ tfound \in [WdWorkers -> [at : Nat, len : Nat]]
        /\ twant \in [WdWorkers -> TplFiles \cup {0}] /\ tuse \in [WdWorkers -> Int]
        /\ tmtime \in [TplFiles -> Nat] /\ ttable \in Seq(TplElem)
      BY DEF WorkDirInit
  <2>4. /\ tupd \in {0, 1} /\ wcwd \in {"start", "root", "tpl"} /\ wmain \in {"start", "serve"}
        /\ wspin \in BOOLEAN /\ wonce \in BOOLEAN /\ tmutex \in BOOLEAN /\ wrace \in BOOLEAN
        /\ tlive \in SUBSET Nat
      BY WorkDirAssumption, Zenon DEF WorkDirInit
  <2> QED
      BY <2>1, <2>2, <2>3, <2>4, Zenon DEF WdTyped
<1>2. WdLocked /\ WdPlaces
    BY DEF WorkDirInit, WdLocked, WdPlaces
<1>3. WdFound /\ CompiledFromTemplates /\ RenderedAlive
    BY DEF WorkDirInit, WdFound, CompiledFromTemplates, RenderedAlive
<1> QED
    BY <1>1, <1>2, <1>3, Zenon DEF WdInv

\* Entering document-root: before it no handler runs, so who is inside is at the
\* style sheet, and that is what wrace records.
LEMMA EnterRootInv == ASSUME WdInv, EnterRoot, UNCHANGED tupd PROVE WdInv'
<1> USE DEF WdInv, EnterRoot
<1>1. WdTyped'
    BY DEF WdTyped
<1>2. WdLocked'
    BY DEF WdLocked
<1>3. WdPlaces'
    BY DEF WdPlaces, WdLocked, WdTyped, Inside
<1>4. WdFound' /\ CompiledFromTemplates' /\ RenderedAlive'
    BY DEF WdFound, CompiledFromTemplates, RenderedAlive
<1> QED
    BY <1>1, <1>2, <1>3, <1>4, Zenon

LEMMA InitWorkerInv == ASSUME WdInv, NEW t \in WdWorkers, InitWorker(t), UNCHANGED tupd PROVE WdInv'
<1> USE DEF WdInv, InitWorker, Save
<1>1. WdTyped'
  <2>1. UNCHANGED <<tupd, wmain, tmutex, wrace, tmtime, ttable, tlive, tfound, twant, tuse>>
      BY Zenon
  <2>4. wsaved' = wsaved \/ wsaved' = [wsaved EXCEPT ![t] = wcwd]
      BY Zenon
  <2>5. wpc' = [wpc EXCEPT ![t] = "idle"] \/ wpc' = [wpc EXCEPT ![t] = "css"]
      BY Zenon
  <2> HIDE DEF InitWorker
  <2>2. wpc' \in [WdWorkers -> {"init", "css", "idle", "lock", "compile"}]
    <3> DEFINE D == {"init", "css", "idle", "lock", "compile"}
    <3>1. "css" \in D /\ "idle" \in D /\ wpc \in [WdWorkers -> D]
        BY Zenon DEF WdTyped
    <3> HIDE DEF D
    <3>2. wpc' \in [WdWorkers -> D]
        BY <2>5, <3>1
    <3> QED
        BY <3>2 DEF D
  <2>6. wsaved' \in [WdWorkers -> {"none", "start", "root", "tpl"}]
    <3> DEFINE D == {"none", "start", "root", "tpl"}
    <3>1. wcwd \in D /\ wsaved \in [WdWorkers -> D]
        BY Zenon DEF WdTyped
    <3> HIDE DEF D
    <3>2. wsaved' \in [WdWorkers -> D]
        BY <2>4, <3>1
    <3> QED
        BY <3>2 DEF D
  <2>3. wspin' \in BOOLEAN /\ wonce' \in BOOLEAN /\ wcwd' \in {"start", "root", "tpl"}
      BY Zenon DEF WdTyped, InitWorker
  <2> QED
      BY <2>1, <2>2, <2>3, <2>6, Zenon DEF WdTyped
<1>2. WdLocked'
    BY DEF WdLocked, WdTyped
<1>3. WdPlaces'
    BY DEF WdPlaces, WdLocked, WdTyped
<1>4. WdFound' /\ CompiledFromTemplates' /\ RenderedAlive'
    BY DEF WdFound, CompiledFromTemplates, RenderedAlive, WdTyped
<1> QED
    BY <1>1, <1>2, <1>3, <1>4, Zenon

LEMMA PreprocessedInv == ASSUME WdInv, NEW t \in WdWorkers, Preprocessed(t), UNCHANGED tupd PROVE WdInv'
<1> USE DEF WdInv, Preprocessed, RestoreCwd
<1>1. WdTyped'
  <2>1. UNCHANGED <<tupd, wmain, wonce, tmutex, wrace, tmtime, ttable, tlive, tfound, twant, tuse>>
      BY Zenon
  <2>2. /\ wpc' \in [WdWorkers -> {"init", "css", "idle", "lock", "compile"}]
        /\ wsaved' \in [WdWorkers -> {"none", "start", "root", "tpl"}]
      BY DEF WdTyped
  <2>3. wspin' \in BOOLEAN /\ wcwd' \in {"start", "root", "tpl"}
      BY Zenon DEF WdPlaces
  <2> QED
      BY <2>1, <2>2, <2>3, Zenon DEF WdTyped
<1>2. WdLocked'
    BY DEF WdLocked, WdTyped
<1>3. WdPlaces'
    BY DEF WdPlaces, WdLocked, WdTyped
<1>4. WdFound' /\ CompiledFromTemplates' /\ RenderedAlive'
    BY DEF WdFound, CompiledFromTemplates, RenderedAlive, WdTyped
<1> QED
    BY <1>1, <1>2, <1>3, <1>4, Zenon

LEMMA TplLookupInv == ASSUME WdInv, NEW t \in WdWorkers, TplLookup(t), UNCHANGED tupd PROVE WdInv'
<1> USE DEF WdInv
<1>1. PICK f \in TplFiles :
          /\ twant' = [twant EXCEPT ![t] = f]
          /\ tfound' = [tfound EXCEPT ![t] = [at |-> IF Indices(f) = {} THEN 0 ELSE First(Indices(f)),
                                               len |-> Len(ttable)]]
          /\ IF tupd = 0 /\ Indices(f) # {}
             THEN tuse' = [tuse EXCEPT ![t] = ttable[First(Indices(f))].tpl] /\ UNCHANGED wpc
             ELSE wpc' = [wpc EXCEPT ![t] = "lock"] /\ UNCHANGED tuse
    BY Zenon DEF TplLookup
<1>2. /\ wmain = "serve" /\ wpc[t] = "idle"
      /\ UNCHANGED <<tupd, wcwd, wmain, wspin, wonce, wsaved, wcss, tmutex, tmtime, ttable, tlive, wrace>>
    BY Zenon DEF TplLookup
<1>3. Len(ttable) \in Nat /\ (Indices(f) # {} => First(Indices(f)) \in 1..Len(ttable))
  <2>1. Len(ttable) \in Nat
      BY DEF WdTyped
  <2>2. Indices(f) \subseteq 1..Len(ttable) /\ Indices(f) \in SUBSET Nat
      BY <2>1 DEF Indices
  <2> QED
      BY <2>1, <2>2, FirstIn
<1>4. tfound'[t].at \in Nat /\ tfound'[t].len = Len(ttable) /\ tfound'[t].at <= Len(ttable)
      /\ (Indices(f) = {} => tfound'[t].at = 0)
      /\ tfound' \in [WdWorkers -> [at : Nat, len : Nat]] /\ \A u \in WdWorkers \ {t} : tfound'[u] = tfound[u]
    BY <1>1, <1>3 DEF WdTyped
<1>5. CASE tupd = 0 /\ Indices(f) # {}
  <2>1. /\ tuse' = [tuse EXCEPT ![t] = ttable[First(Indices(f))].tpl] /\ wpc' = wpc
        /\ ttable[First(Indices(f))] \in TplElem
      BY <1>1, <1>3, <1>5 DEF WdTyped
  <2>2. WdTyped'
    <3>1. ttable[First(Indices(f))].tpl \in Int
        BY <2>1 DEF TplElem
    <3>2. tuse' \in [WdWorkers -> Int] /\ twant' \in [WdWorkers -> TplFiles \cup {0}]
        BY <2>1, <3>1, <1>1, ZenonT(60) DEF WdTyped
    <3> QED
        BY <2>1, <3>2, <1>2, <1>4, ZenonT(60) DEF WdTyped
  <2>3. WdLocked' /\ WdPlaces'
      BY <2>1, <1>2, Zenon DEF WdLocked, WdPlaces
  <2>4. WdFound' /\ CompiledFromTemplates'
      BY <2>1, <1>1, <1>2, <1>4 DEF WdFound, CompiledFromTemplates, WdTyped
  <2>5. RenderedAlive'
      BY <2>1, <1>2, <1>3, <1>5 DEF RenderedAlive, WdFound, WdTyped
  <2> QED
      BY <2>2, <2>3, <2>4, <2>5, Zenon
<1>6. CASE ~(tupd = 0 /\ Indices(f) # {})
  <2>1. wpc' = [wpc EXCEPT ![t] = "lock"] /\ tuse' = tuse
      BY <1>1, <1>6, Zenon
  <2>2. WdTyped'
      BY <2>1, <1>1, <1>2, <1>4 DEF WdTyped
  <2>3. WdLocked' /\ WdPlaces'
      BY <2>1, <1>2 DEF WdLocked, WdPlaces, WdTyped
  <2>4. WdFound'
      BY <2>1, <1>1, <1>2, <1>4, <1>6 DEF WdFound, WdTyped
  <2>5. CompiledFromTemplates' /\ RenderedAlive'
      BY <2>1, <1>2 DEF RenderedAlive, CompiledFromTemplates
  <2> QED
      BY <2>2, <2>3, <2>4, <2>5, Zenon
<1> QED
    BY <1>5, <1>6

LEMMA TplLockInv == ASSUME WdInv, NEW t \in WdWorkers, TplLock(t), UNCHANGED tupd PROVE WdInv'
<1> USE DEF WdInv, TplLock, Save
<1>1. WdTyped'
    BY DEF WdTyped
<1>2. WdLocked'
    BY DEF WdLocked, WdTyped
<1>3. WdPlaces'
  <2>1. \A u \in WdWorkers : wpc[u] # "compile"
      BY Zenon DEF WdLocked
  <2>2. ASSUME NEW u \in WdWorkers, wpc[u] = "css" PROVE FALSE
    <3>1. t # u
        BY <2>2
    <3>2. wpc[t] = "init"
        BY <2>2, <3>1, Zenon DEF WdLocked
    <3> QED
        BY <3>2
  <2> QED
      BY <2>1, <2>2 DEF WdPlaces, WdLocked, WdTyped
<1>4. WdFound' /\ CompiledFromTemplates' /\ RenderedAlive'
    BY DEF WdFound, CompiledFromTemplates, RenderedAlive, WdTyped
<1> QED
    BY <1>1, <1>2, <1>3, <1>4, Zenon

\* What tpl_compile leaves in the table, in memory and to its handler.
LEMMA TplCompiledTable ==
    ASSUME WdInv, NEW t \in WdWorkers, TplCompiled(t), UNCHANGED tupd
    PROVE  /\ ttable' \in Seq(TplElem) /\ tlive' \in SUBSET Nat /\ IsFiniteSet(tlive')
           /\ tuse' \in [WdWorkers -> Int]
           /\ CompiledFromTemplates' /\ RenderedAlive'
           /\ tupd = 0 => \A i \in 1..Len(ttable') : ttable'[i].tpl \in tlive'
<1> DEFINE i == tfound[t].at
           f == twant[t]
           e(a) == [file |-> f, mtime |-> tmtime[f], tpl |-> a, from |-> wcwd]
<1> USE DEF WdInv
<1>1. /\ wpc[t] = "compile" /\ wcwd = "tpl" /\ f \in TplFiles /\ i \in Nat /\ i <= tfound[t].len
      /\ (tupd = 0 => i = 0) /\ Len(ttable) \in Nat
    BY DEF TplCompiled, WdPlaces, WdFound, WdTyped
<1>2. \/ tuse' = [tuse EXCEPT ![t] = -1] /\ i # 0 /\ UNCHANGED <<ttable, tlive>>
      \/ tuse' = [tuse EXCEPT ![t] = ttable[i].tpl] /\ i \in 1..Len(ttable) /\ UNCHANGED <<ttable, tlive>>
      \/ UNCHANGED <<tuse, ttable, tlive>>
      \/ /\ tuse' = [tuse EXCEPT ![t] = NewTpl] /\ Stored(i, e(NewTpl))
         /\ i # 0 => i \in 1..Len(ttable)
    BY <1>1 DEF TplCompiled
<1>3. CASE tuse' = [tuse EXCEPT ![t] = -1] /\ i # 0 /\ UNCHANGED <<ttable, tlive>>
    BY <1>1, <1>3 DEF WdTyped, WdFound, CompiledFromTemplates, RenderedAlive
<1>4. CASE tuse' = [tuse EXCEPT ![t] = ttable[i].tpl] /\ i \in 1..Len(ttable) /\ UNCHANGED <<ttable, tlive>>
  <2>0. ttable[i] \in TplElem
      BY <1>4 DEF WdTyped
  <2>1. ttable[i].tpl \in Nat
      BY <2>0 DEF TplElem
  <2> QED
      BY <2>1, <1>1, <1>4 DEF WdTyped, WdFound, CompiledFromTemplates, RenderedAlive
<1>5. CASE UNCHANGED <<tuse, ttable, tlive>>
    BY <1>1, <1>5 DEF WdTyped, WdFound, CompiledFromTemplates, RenderedAlive
<1>6. CASE tuse' = [tuse EXCEPT ![t] = NewTpl] /\ Stored(i, e(NewTpl)) /\ (i # 0 => i \in 1..Len(ttable))
  <2>1. NewTpl \in Nat
      BY NewTplFree DEF WdTyped
  <2>2. e(NewTpl) \in TplElem /\ e(NewTpl).tpl = NewTpl /\ e(NewTpl).from = "tpl"
      BY <2>1, <1>1 DEF WdTyped, TplElem
  <2> HIDE DEF e
  <2>3. tuse' \in [WdWorkers -> Int]
      BY <1>6, <2>1 DEF WdTyped
  <2>4. CASE i = 0
    <3>1. ttable' = Append(ttable, e(NewTpl)) /\ tlive' = tlive \cup {NewTpl}
        BY <1>6, <2>2, <2>4 DEF Stored
    <3>2. IsFiniteSet(tlive')
        BY <3>1, FS_AddElement, Zenon DEF WdTyped
    <3>3. ttable' \in Seq(TplElem) /\ tlive' \in SUBSET Nat
        BY <3>1, <2>1, <2>2 DEF WdTyped
    <3>4. \A k \in 1..Len(ttable') : ttable'[k] = IF k \in 1..Len(ttable) THEN ttable[k] ELSE e(NewTpl)
      <4>1. e(NewTpl) \in TplElem /\ ttable \in Seq(TplElem)
          BY <2>2 DEF WdTyped
      <4> QED
          BY <3>1, <4>1
    <3>5. CompiledFromTemplates' /\ (tupd = 0 => \A k \in 1..Len(ttable') : ttable'[k].tpl \in tlive')
        BY <3>1, <3>4, <2>2 DEF CompiledFromTemplates, WdFound
    <3>6. RenderedAlive'
        BY <3>1, <1>6, ZenonT(60) DEF RenderedAlive, WdTyped
    <3> QED
        BY <3>2, <3>3, <3>5, <3>6, <2>3
  <2>5. CASE i # 0
    <3>1. /\ ttable' = [ttable EXCEPT ![i] = e(NewTpl)] /\ tlive' = (tlive \ {ttable[i].tpl}) \cup {NewTpl}
          /\ tupd # 0 /\ i \in 1..Len(ttable)
        BY <1>1, <1>6, <2>2, <2>5 DEF Stored
    <3>2. IsFiniteSet(tlive')
      <4>1. IsFiniteSet(tlive \ {ttable[i].tpl})
          BY FS_RemoveElement, Zenon DEF WdTyped
      <4> QED BY <3>1, <4>1, FS_AddElement, Zenon
    <3>3. ttable' \in Seq(TplElem) /\ tlive' \in SUBSET Nat
      <4>1. e(NewTpl) \in TplElem /\ ttable \in Seq(TplElem)
          BY <2>2 DEF WdTyped
      <4>2. ttable' \in Seq(TplElem)
          BY <3>1, <4>1
      <4>3. tlive' \in SUBSET Nat
          BY <3>1, <2>1, Zenon DEF WdTyped
      <4> QED
          BY <4>2, <4>3
    <3>4. CompiledFromTemplates'
        BY <3>1, <2>2 DEF CompiledFromTemplates, WdTyped
    <3> QED
        BY <3>1, <3>2, <3>3, <3>4, <2>3 DEF RenderedAlive
  <2> QED
      BY <2>4, <2>5
<1> QED
    BY <1>2, <1>3, <1>4, <1>5, <1>6

LEMMA TplCompiledInv == ASSUME WdInv, NEW t \in WdWorkers, TplCompiled(t), UNCHANGED tupd PROVE WdInv'
<1> USE DEF WdInv
<1>1. /\ wpc[t] = "compile" /\ wpc' = [wpc EXCEPT ![t] = "idle"] /\ tmutex' = FALSE
      /\ wcwd' = wsaved[t] /\ wsaved' = [wsaved EXCEPT ![t] = "none"] /\ twant' = [twant EXCEPT ![t] = 0]
      /\ UNCHANGED <<wmain, wspin, wonce, wcss, tmtime, tfound, wrace, wcount>>
    BY Zenon DEF TplCompiled, RestoreCwd
<1>2. /\ ttable' \in Seq(TplElem) /\ tlive' \in SUBSET Nat /\ IsFiniteSet(tlive')
      /\ tuse' \in [WdWorkers -> Int] /\ CompiledFromTemplates' /\ RenderedAlive'
      /\ tupd = 0 => \A i \in 1..Len(ttable') : ttable'[i].tpl \in tlive'
    BY TplCompiledTable, Zenon
<1>3. WdTyped'
  <2>1. /\ wpc' \in [WdWorkers -> {"init", "css", "idle", "lock", "compile"}]
        /\ wsaved' \in [WdWorkers -> {"none", "start", "root", "tpl"}]
      BY <1>1 DEF WdTyped
  <2>2. tmutex' \in BOOLEAN /\ wcwd' \in {"start", "root", "tpl"}
      BY <1>1, Zenon DEF WdPlaces
  <2>3. twant' \in [WdWorkers -> TplFiles \cup {0}]
      BY <1>1 DEF WdTyped
  <2> QED
      BY <1>1, <1>2, <2>1, <2>2, <2>3, Zenon DEF WdTyped
<1>4. WdLocked'
    BY <1>1 DEF WdLocked, WdTyped
<1>5. WdPlaces'
  <2>1. \A u \in WdWorkers \ {t} : wpc[u] \notin {"css", "compile"}
      BY <1>1 DEF WdLocked, WdTyped
  <2> QED
      BY <2>1, <1>1 DEF WdPlaces, WdTyped
<1>6. WdFound'
    BY <1>1, <1>2 DEF WdFound, WdTyped
<1> QED
    BY <1>2, <1>3, <1>4, <1>5, <1>6, Zenon

LEMMA TplRenderedInv == ASSUME WdInv, NEW t \in WdWorkers, TplRendered(t), UNCHANGED tupd PROVE WdInv'
<1> USE DEF WdInv, TplRendered
<1>1. WdTyped'
    BY DEF WdTyped
<1>2. WdLocked' /\ WdPlaces'
    BY Zenon DEF WdLocked, WdPlaces
<1>3. WdFound' /\ CompiledFromTemplates' /\ RenderedAlive'
    BY DEF WdFound, CompiledFromTemplates, RenderedAlive, WdTyped
<1> QED
    BY <1>1, <1>2, <1>3, Zenon

LEMMA TplEditInv == ASSUME WdInv, TplEdit, UNCHANGED tupd PROVE WdInv'
<1> USE DEF WdInv, TplEdit
<1>1. WdTyped'
    BY DEF WdTyped
<1>2. WdLocked' /\ WdPlaces' /\ WdFound' /\ CompiledFromTemplates' /\ RenderedAlive'
    BY Zenon DEF WdLocked, WdPlaces, WdFound, CompiledFromTemplates, RenderedAlive
<1> QED
    BY <1>1, <1>2, Zenon

LEMMA WdInvNext == WdInv /\ [WorkDirNext]_wdVars => WdInv'
<1> SUFFICES ASSUME WdInv, [WorkDirNext]_wdVars PROVE WdInv'
    OBVIOUS
<1>1. CASE UNCHANGED wdVars
  <2>1. WdTyped'
      BY <1>1, Zenon DEF wdVars, WdInv, WdTyped
  <2>2. WdLocked' /\ WdPlaces'
      BY <1>1, ZenonT(60) DEF wdVars, WdInv, WdLocked, WdPlaces
  <2>3. WdFound' /\ CompiledFromTemplates' /\ RenderedAlive'
      BY <1>1, ZenonT(60) DEF wdVars, WdInv, WdFound, CompiledFromTemplates, RenderedAlive
  <2> QED
      BY <2>1, <2>2, <2>3, Zenon DEF WdInv
<1>2. CASE WorkDirNext
    BY <1>2, EnterRootInv, InitWorkerInv, PreprocessedInv, TplLookupInv, TplLockInv, TplCompiledInv,
       TplRenderedInv, TplEditInv, Zenon DEF WorkDirNext
<1> QED
    BY <1>1, <1>2

\* However workers and the event thread move the working directory and find,
\* compile and render: templates are read in their own directory, the process is
\* back in its root when nobody is inside (but for the race that wrace records),
\* and with updates "never" nobody renders a template that was freed
\* (tpl_compile, save_and_change_cwd, restore_cwd).
THEOREM TemplatesStaySafe == WorkDirSpec => []TemplatesSafe
<1>1. WorkDirSpec => []WdInv
    BY WdInvInit, WdInvNext, PTL DEF WorkDirSpec
<1> QED
    BY <1>1, WdInvSafe, PTL

-----------------------------------------------------------------------------
(* SelectLoop: its lists.                                                  *)

\* A non-empty set of naturals has a least element.
LEMMA NatMin ==
    ASSUME NEW T \in SUBSET Nat, T # {}
    PROVE  \E x \in T : \A y \in T : x <= y
<1> DEFINE R == OpToRel(<, Nat)
<1>1. IsWellFoundedOn(R, Nat)
    BY NatLessThanWellFounded, Zenon
<1>2. PICK x \in T : \A y \in T : ~(<<y, x>> \in R)
    BY <1>1, WFMin, Zenon
<1>3. ASSUME NEW y \in T PROVE x <= y
    <2>1. x \in Nat /\ y \in Nat /\ ~(<<y, x>> \in R)
        BY <1>2, Zenon
    <2>2. y < x => <<y, x>> \in R
        BY <2>1 DEF OpToRel
    <2> HIDE DEF R
    <2> QED
        BY <2>1, <2>2
<1> QED
    BY <1>3, Zenon

SelElem == [fd : SelFds, mask : {"read", "write", "none"}]

\* Descriptors are positive numbers.
LEMMA SelFdsNat == SelFds \subseteq Nat \ {0}
<1>1. Cardinality(SelFds) \in Nat /\ SelFds = 1..Cardinality(SelFds)
    BY SelAssumption, FS_CardinalityType, Zenon
<1> QED
    BY <1>1

\* The number above all listed descriptors exists.
LEMMA MaxCovers ==
    ASSUME NEW l \in Seq(SelElem)
    PROVE  recalc_maxfd_plus_one(l) \in Nat /\ \A f \in ListedFds(l) : f < recalc_maxfd_plus_one(l)
<1> DEFINE S == {0} \cup ListedFds(l)
           n == Cardinality(SelFds)
           B == {y \in Nat : \A x \in S : x <= y}
<1>1. n \in Nat /\ SelFds = 1..n
    BY SelAssumption, FS_CardinalityType, Zenon
<1> HIDE DEF n
<1>2. ListedFds(l) \subseteq SelFds
  <2>1. ASSUME NEW i \in 1..Len(l) PROVE l[i].fd \in SelFds
    <3>1. l[i] \in SelElem
        OBVIOUS
    <3> QED
        BY <3>1 DEF SelElem
  <2> QED
      BY <2>1, Zenon DEF ListedFds
<1>3. S \subseteq 0..n /\ 0 \in S
    BY <1>1, <1>2
<1> HIDE DEF S
<1>4. PICK y \in B : \A z \in B : y <= z
  <2>1. n \in B
      BY <1>1, <1>3
  <2> QED
      BY <2>1, NatMin, Zenon
<1>5. y \in S
  <2> SUFFICES ASSUME y \notin S PROVE FALSE
      OBVIOUS
  <2>1. y \in Nat /\ \A x \in S : x <= y /\ x # y /\ x \in Nat
      BY <1>1, <1>3, <1>4
  <2>2. y - 1 \in B
      BY <2>1, <1>3
  <2> QED
      BY <2>1, <2>2, <1>4
<1>6. Max(S) \in S /\ \A x \in S : Max(S) >= x
  <2>1. \E x \in S : \A z \in S : x >= z
      BY <1>4, <1>5, <1>3
  <2> QED
      BY <2>1, Zenon DEF Max
<1>7. Max(S) \in Nat /\ \A f \in ListedFds(l) : f \in Nat /\ f <= Max(S)
  <2>1. ListedFds(l) \subseteq S
      BY Zenon DEF S
  <2>2. Max(S) \in Nat /\ \A f \in S : f \in Nat
    <3>1. ASSUME NEW f \in S PROVE f \in Nat
      <4>1. f \in 0..n
          BY <1>3, Zenon
      <4> QED
          BY <4>1, <1>1
    <3> QED
        BY <3>1, <1>6, Zenon
  <2>3. ASSUME NEW f \in ListedFds(l) PROVE f \in Nat /\ f <= Max(S)
    <3>1. f \in S /\ f \in Nat /\ Max(S) >= f
        BY <2>1, <2>2, <1>6, Zenon
    <3> QED
        BY <3>1, <2>2
  <2> QED
      BY <2>2, <2>3, Zenon
<1>8. recalc_maxfd_plus_one(l) = 1 + Max(S)
    BY Zenon DEF recalc_maxfd_plus_one, S
<1> QED
    BY <1>7, <1>8

\* The first place of a descriptor that is listed.
LEMMA FirstPlace ==
    ASSUME NEW l \in Seq(SelElem), NEW f, PlacesOf(l, f) # {}
    PROVE  Min(PlacesOf(l, f)) \in PlacesOf(l, f)
<1>1. PlacesOf(l, f) \in SUBSET Nat
    BY DEF PlacesOf
<1>2. \E x \in PlacesOf(l, f) : \A y \in PlacesOf(l, f) : x <= y
    BY <1>1, NatMin, Zenon
<1> QED
    BY <1>2, Zenon DEF Min

LEMMA PlacesFinite ==
    ASSUME NEW l \in Seq(SelElem), NEW f
    PROVE  IsFiniteSet(PlacesOf(l, f)) /\ Cardinality(PlacesOf(l, f)) \in Nat
<1>1. Len(l) \in Int /\ 1 \in Int
    OBVIOUS
<1>2. IsFiniteSet(1..Len(l))
    BY <1>1, FS_Interval, Zenon
<1>3. PlacesOf(l, f) \subseteq 1..Len(l)
    BY Zenon DEF PlacesOf
<1> QED
    BY <1>2, <1>3, FS_Subset, FS_CardinalityType, Zenon

\* What an edit of the list leaves of a descriptor it is not about: the same
\* entries, none of them further up, and one if there was one.
Follows(l, m, f) ==
    /\ \A i \in PlacesOf(m, f) : \E j \in PlacesOf(l, f) : i <= j
    /\ Cardinality(PlacesOf(m, f)) = Cardinality(PlacesOf(l, f))
    /\ \A i : PlacesOf(l, f) = {i} => \E j : PlacesOf(m, f) = {j} /\ m[j] = l[i]

LEMMA FollowsSelf == ASSUME NEW l \in Seq(SelElem), NEW f PROVE Follows(l, l, f)
<1>1. ASSUME NEW i \in PlacesOf(l, f) PROVE i <= i
    BY DEF PlacesOf
<1> QED
    BY <1>1, Zenon DEF Follows

\* select_del at an index: the last entry fills the gap.
LEMMA Removed ==
    ASSUME NEW l \in Seq(SelElem), NEW k \in 1..Len(l)
    PROVE  /\ RemoveIndex(l, k) \in Seq(SelElem)
           /\ Len(RemoveIndex(l, k)) = Len(l) - 1
           /\ \A i \in 1..(Len(l) - 1) : RemoveIndex(l, k)[i] = IF i = k THEN l[Len(l)] ELSE l[i]
<1> DEFINE n == Len(l)
           b == IF k < n THEN [l EXCEPT ![k] = l[n]] ELSE l
<1>1. n \in Nat /\ n >= 1 /\ l[n] \in SelElem
    OBVIOUS
<1>2. b \in Seq(SelElem) /\ Len(b) = n /\ \A i \in 1..(n - 1) : b[i] = IF i = k THEN l[n] ELSE l[i]
    BY <1>1
<1>3. RemoveIndex(l, k) = SubSeq(b, 1, n - 1)
    BY Zenon DEF RemoveIndex
<1> HIDE DEF b
<1>4. SubSeq(b, 1, n - 1) \in Seq(SelElem) /\ Len(SubSeq(b, 1, n - 1)) = n - 1
      /\ \A i \in 1..(n - 1) : SubSeq(b, 1, n - 1)[i] = b[i]
    BY <1>1, <1>2
<1> QED
    BY <1>2, <1>3, <1>4, ZenonT(60)

\* The places of a descriptor after that.
LEMMA RemovedPlaces ==
    ASSUME NEW l \in Seq(SelElem), NEW k \in 1..Len(l), NEW f
    PROVE  LET P == PlacesOf(l, f)
               n == Len(l)
           IN  PlacesOf(RemoveIndex(l, k), f) =
                   IF n \in P THEN IF k \in P THEN P \ {n} ELSE (P \ {n}) \cup {k} ELSE P \ {k}
<1> DEFINE m == RemoveIndex(l, k)
           n == Len(l)
           P == PlacesOf(l, f)
<1>1. /\ Len(m) = n - 1 /\ n \in Nat /\ n >= 1
      /\ \A i \in 1..(n - 1) : m[i] = IF i = k THEN l[n] ELSE l[i]
  <2>1. n \in Nat /\ n >= 1
      OBVIOUS
  <2> QED
      BY <2>1, Removed, Zenon
<1> HIDE DEF m
<1>2. \A i : i \in PlacesOf(m, f) <=> i \in 1..(n - 1) /\ IF i = k THEN n \in P ELSE i \in P
    BY <1>1 DEF PlacesOf
<1>3. P \subseteq 1..n
    BY DEF PlacesOf
<1> HIDE DEF P
<1>4. \A i : i \in 1..(n - 1) <=> i \in 1..n /\ i # n
    BY <1>1
<1>5. CASE n \in P /\ k \in P
  <2>1. \A i : i \in PlacesOf(m, f) <=> i \in P \ {n}
      BY <1>2, <1>3, <1>4, <1>5, Zenon
  <2> QED
      BY <2>1, <1>5, Zenon DEF m, P
<1>6. CASE n \in P /\ k \notin P
  <2>1. k # n
      BY <1>6
  <2>2. \A i : i \in PlacesOf(m, f) <=> i \in (P \ {n}) \cup {k}
      BY <2>1, <1>2, <1>3, <1>4, <1>6, Zenon
  <2> QED
      BY <2>2, <1>6, Zenon DEF m, P
<1>7. CASE n \notin P
  <2>1. \A i : i \in PlacesOf(m, f) <=> i \in P \ {k}
      BY <1>2, <1>3, <1>4, <1>7, Zenon
  <2> QED
      BY <2>1, <1>7, Zenon DEF m, P
<1> QED
    BY <1>5, <1>6, <1>7

\* It leaves the other descriptors as they are,
LEMMA RemovedFollows ==
    ASSUME NEW l \in Seq(SelElem), NEW k \in 1..Len(l), NEW f, l[k].fd # f
    PROVE  Follows(l, RemoveIndex(l, k), f)
<1> DEFINE m == RemoveIndex(l, k)
           n == Len(l)
           P == PlacesOf(l, f)
           Q == PlacesOf(m, f)
<1>1. k \notin P /\ P \subseteq 1..n /\ n \in Nat /\ k \in 1..n
    BY DEF PlacesOf
<1>2. Q = IF n \in P THEN (P \ {n}) \cup {k} ELSE P
  <2>1. P \ {k} = P
      BY <1>1, Zenon
  <2> QED
      BY <2>1, <1>1, RemovedPlaces, Zenon
<1>3. IsFiniteSet(P) /\ Cardinality(P) \in Nat
    BY PlacesFinite, Zenon
<1>4. \A i \in 1..(n - 1) : m[i] = IF i = k THEN l[n] ELSE l[i]
    BY Removed, Zenon
<1> HIDE DEF m, P, Q
<1>5. \A i \in Q : \E j \in P : i <= j
  <2>1. ASSUME NEW i \in Q, i \in P PROVE \E j \in P : i <= j
    <3>1. i <= i
        BY <2>1, <1>1
    <3> QED
        BY <2>1, <3>1, Zenon
  <2>2. ASSUME NEW i \in Q, i \notin P PROVE \E j \in P : i <= j
    <3>1. n \in P /\ i = k
        BY <2>2, <1>2, Zenon
    <3>2. i <= n
        BY <3>1, <1>1
    <3> QED
        BY <3>1, <3>2, Zenon
  <2> QED
      BY <2>1, <2>2, Zenon
<1>6. Cardinality(Q) = Cardinality(P)
  <2>1. CASE n \in P
    <3>1. IsFiniteSet(P \ {n}) /\ Cardinality(P \ {n}) = Cardinality(P) - 1
        BY <2>1, <1>3, FS_RemoveElement, Zenon
    <3>2. k \notin P \ {n}
        BY <1>1, Zenon
    <3>3. Cardinality((P \ {n}) \cup {k}) = Cardinality(P \ {n}) + 1
        BY <3>1, <3>2, FS_AddElement, Zenon
    <3> QED
        BY <2>1, <3>1, <3>3, <1>2, <1>3
  <2>2. CASE n \notin P
      BY <2>2, <1>2, Zenon
  <2> QED
      BY <2>1, <2>2
<1>7. ASSUME NEW i, P = {i} PROVE \E j : Q = {j} /\ m[j] = l[i]
  <2>1. i \in P /\ i \in 1..n
      BY <1>7, <1>1, Zenon
  <2>2. CASE i = n
    <3>1. k # n /\ k \in 1..(n - 1)
      <4>1. k # n
          BY <2>1, <2>2, <1>1, Zenon
      <4> QED
          BY <4>1, <1>1
    <3>2. Q = {k}
        BY <2>1, <2>2, <1>2, <1>7, Zenon
    <3>3. m[k] = l[n]
        BY <3>1, <1>4, Zenon
    <3> QED
        BY <3>2, <3>3, <2>2, Zenon
  <2>3. CASE i # n
    <3>1. i \in 1..(n - 1)
        BY <2>1, <2>3, <1>1
    <3>2. Q = {i}
        BY <2>3, <1>2, <1>7, Zenon
    <3>3. m[i] = l[i]
        BY <2>1, <3>1, <1>1, <1>4, Zenon
    <3> QED
        BY <3>2, <3>3, Zenon
  <2> QED
      BY <2>2, <2>3
<1> QED
    BY <1>5, <1>6, <1>7, Zenon DEF Follows, m, P, Q

\* and its own has one place less.
LEMMA RemovedCount ==
    ASSUME NEW l \in Seq(SelElem), NEW k \in 1..Len(l), NEW f, l[k].fd = f
    PROVE  Cardinality(PlacesOf(RemoveIndex(l, k), f)) = Cardinality(PlacesOf(l, f)) - 1
<1> DEFINE P == PlacesOf(l, f)
<1>1. k \in P
    BY DEF PlacesOf
<1>2. IsFiniteSet(P)
    BY PlacesFinite, Zenon
<1>3. \A x \in P : Cardinality(P \ {x}) = Cardinality(P) - 1
    BY <1>2, FS_RemoveElement, Zenon
<1>4. PlacesOf(RemoveIndex(l, k), f) = IF Len(l) \in P THEN P \ {Len(l)} ELSE P \ {k}
    BY <1>1, RemovedPlaces, Zenon
<1> QED
    BY <1>1, <1>3, <1>4, Zenon

\* select_del.
LEMMA Deleted ==
    ASSUME NEW l \in Seq(SelElem), NEW g \in SelFds
    PROVE  /\ DelFrom(l, g) \in Seq(SelElem)
           /\ \A f \in SelFds \ {g} : Follows(l, DelFrom(l, g), f)
           /\ IF PlacesOf(l, g) = {} THEN PlacesOf(DelFrom(l, g), g) = {}
              ELSE Cardinality(PlacesOf(DelFrom(l, g), g)) = Cardinality(PlacesOf(l, g)) - 1
<1>1. CASE PlacesOf(l, g) = {}
  <2>1. DelFrom(l, g) = l
      BY <1>1, Zenon DEF DelFrom
  <2>2. \A f : Follows(l, l, f)
      BY FollowsSelf, Zenon
  <2> QED
      BY <1>1, <2>1, <2>2, Zenon
<1>2. CASE PlacesOf(l, g) # {}
  <2> DEFINE k == Min(PlacesOf(l, g))
  <2>1. k \in 1..Len(l) /\ l[k].fd = g
    <3>1. k \in PlacesOf(l, g)
        BY <1>2, FirstPlace, Zenon
    <3> QED
        BY <3>1, Zenon DEF PlacesOf
  <2>2. DelFrom(l, g) = RemoveIndex(l, k)
      BY <1>2, Zenon DEF DelFrom
  <2> HIDE DEF k
  <2>3. RemoveIndex(l, k) \in Seq(SelElem)
      BY <2>1, Removed, Zenon
  <2>4. ASSUME NEW f \in SelFds \ {g} PROVE Follows(l, RemoveIndex(l, k), f)
    <3>1. l[k].fd # f
        BY <2>1
    <3> QED
        BY <3>1, <2>1, RemovedFollows, Zenon
  <2>5. Cardinality(PlacesOf(RemoveIndex(l, k), g)) = Cardinality(PlacesOf(l, g)) - 1
      BY <2>1, RemovedCount, Zenon
  <2> QED
      BY <1>2, <2>2, <2>3, <2>4, <2>5, Zenon
<1> QED
    BY <1>1, <1>2

\* set_select_event_mask: the places stay, and one entry has the new mask.
MaskedTo(l, m, g, a) ==
    /\ m \in Seq(SelElem) /\ ListedFds(m) = ListedFds(l)
    /\ \A f : PlacesOf(m, f) = PlacesOf(l, f)
    /\ \A i \in 1..Len(l) : l[i].fd # g => m[i] = l[i]
    /\ \A i : PlacesOf(l, g) = {i} => m[i].mask = a

LEMMA Masked ==
    ASSUME NEW l \in Seq(SelElem), NEW g \in SelFds, NEW a \in {"read", "write", "none"}
    PROVE  MaskedTo(l, set_select_event_mask(l, g, a), g, a)
<1> DEFINE m == set_select_event_mask(l, g, a)
<1>1. CASE PlacesOf(l, g) = {}
  <2>1. m = l
      BY <1>1, Zenon DEF set_select_event_mask
  <2>2. \A i : PlacesOf(l, g) # {i}
      BY <1>1, Zenon
  <2> QED
      BY <2>1, <2>2, Zenon DEF MaskedTo
<1>2. CASE PlacesOf(l, g) # {}
  <2> DEFINE k == Min(PlacesOf(l, g))
  <2>1. k \in PlacesOf(l, g) /\ k \in 1..Len(l) /\ l[k].fd = g
    <3>1. k \in PlacesOf(l, g)
        BY <1>2, FirstPlace, Zenon
    <3> QED
        BY <3>1, Zenon DEF PlacesOf
  <2>2. m = [l EXCEPT ![k].mask = a]
      BY <1>2, Zenon DEF set_select_event_mask
  <2> HIDE DEF k, m
  <2>3. l[k] \in SelElem /\ [l[k] EXCEPT !.mask = a] \in SelElem /\ [l[k] EXCEPT !.mask = a].fd = g
        /\ [l[k] EXCEPT !.mask = a].mask = a
    <3>1. l[k] \in SelElem
        BY <2>1
    <3> QED
        BY <3>1, <2>1 DEF SelElem
  <2> DEFINE e == [l[k] EXCEPT !.mask = a]
  <2>4. m = [l EXCEPT ![k] = e]
      BY <2>2
  <2> HIDE DEF e
  <2>5. e \in SelElem /\ e.fd = g /\ e.mask = a
      BY <2>3 DEF e
  <2>6. m \in Seq(SelElem) /\ Len(m) = Len(l) /\ m[k] = e /\ \A i \in 1..Len(l) : i # k => m[i] = l[i]
      BY <2>1, <2>4, <2>5
  <2>7. \A i \in 1..Len(l) : m[i].fd = l[i].fd
      BY <2>1, <2>5, <2>6, Zenon
  <2>8. \A f : PlacesOf(m, f) = PlacesOf(l, f)
      BY <2>6, <2>7, Zenon DEF PlacesOf
  <2>9. ListedFds(m) = ListedFds(l)
      BY <2>6, <2>7, Zenon DEF ListedFds
  <2>10. \A i \in 1..Len(l) : l[i].fd # g => m[i] = l[i]
      BY <2>1, <2>6, Zenon
  <2>11. \A i : PlacesOf(l, g) = {i} => m[i].mask = a
      BY <2>1, <2>5, <2>6, Zenon
  <2> QED
      BY <2>6, <2>8, <2>9, <2>10, <2>11, Zenon DEF m, MaskedTo
<1> QED
    BY <1>1, <1>2

\* One round of the loop that drops closed descriptors.
PurgeRound(r, C) ==
    IF r.list[r.i].fd \in C THEN [list |-> RemoveIndex(r.list, r.i), i |-> r.i]
    ELSE [list |-> r.list, i |-> r.i + 1]

\* n rounds of it.
PurgeRuns(g, l, C, n) ==
    g = [k \in 0..n |-> IF k = 0 THEN [list |-> l, i |-> 1] ELSE PurgeRound(g[k - 1], C)]

\* It can run for any number of rounds.
LEMMA PurgeRunExists ==
    ASSUME NEW l, NEW C, NEW n \in Nat
    PROVE  \E g : PurgeRuns(g, l, C, n)
<1> DEFINE Start == [list |-> l, i |-> 1]
           Runs(g, j) == g = [k \in 0..j |-> IF k = 0 THEN Start ELSE PurgeRound(g[k - 1], C)]
           Fails == {j \in Nat : ~\E g : Runs(g, j)}
<1> SUFFICES ASSUME n \in Fails PROVE FALSE
    BY Zenon DEF PurgeRuns
<1>1. PICK j \in Fails : \A y \in Fails : j <= y
  <2>1. Fails \in SUBSET Nat /\ Fails # {}
      BY Zenon
  <2> QED
      BY <2>1, NatMin, Zenon
<1> HIDE DEF Start
<1>2. CASE j = 0
  <2> DEFINE g == [k \in 0..0 |-> Start]
  <2>1. \A k \in 0..0 : k = 0
      OBVIOUS
  <2>2. g = [k \in 0..0 |-> IF k = 0 THEN Start ELSE PurgeRound(g[k - 1], C)]
      BY <2>1, Zenon
  <2> QED
      BY <2>2, <1>2, <1>1, Zenon
<1>3. CASE j # 0
  <2>1. j \in Nat /\ j - 1 \in Nat /\ ~(j <= j - 1) /\ j \in 0..j /\ j - 1 \in 0..(j - 1)
    <3>1. j \in Nat
        BY <1>1, Zenon
    <3> QED
        BY <3>1, <1>3
  <2>2. PICK g : Runs(g, j - 1)
      BY <2>1, <1>1, Zenon
  <2> DEFINE h == [k \in 0..j |-> IF k = j THEN PurgeRound(g[j - 1], C) ELSE g[k]]
  <2>3. ASSUME NEW k \in 0..j
        PROVE  h[k] = IF k = 0 THEN Start ELSE PurgeRound(h[k - 1], C)
    <3>1. k \in Nat /\ k <= j
        BY <2>1
    <3>2. CASE k = j
      <4>1. h[k] = PurgeRound(g[j - 1], C)
          BY <3>2, <2>1, Zenon
      <4>2. j - 1 \in 0..j /\ j - 1 # j
          BY <2>1
      <4>3. h[j - 1] = g[j - 1]
          BY <4>2, Zenon
      <4> QED
          BY <4>1, <4>3, <3>2, <1>3, Zenon
    <3>3. CASE k # j
      <4>1. k \in 0..(j - 1)
          BY <3>1, <3>3, <2>1
      <4>2. h[k] = g[k]
          BY <3>3, Zenon
      <4>3. g[k] = IF k = 0 THEN Start ELSE PurgeRound(g[k - 1], C)
          BY <4>1, <2>2, Zenon
      <4>4. k # 0 => k - 1 \in 0..j /\ k - 1 # j
          BY <4>1, <2>1
      <4>5. k # 0 => h[k - 1] = g[k - 1]
          BY <4>4, Zenon
      <4> QED
          BY <4>2, <4>3, <4>5, Zenon
    <3> QED
        BY <3>2, <3>3
  <2>4. h = [k \in 0..j |-> h[k]]
      BY Zenon
  <2> HIDE DEF h
  <2>5. h = [k \in 0..j |-> IF k = 0 THEN Start ELSE PurgeRound(h[k - 1], C)]
      BY <2>3, <2>4, Zenon
  <2> QED
      BY <2>5, <1>1, Zenon
<1> QED
    BY <1>2, <1>3

\* What holds after every round: the entries behind have been looked at, those
\* in front remain to be, and the other descriptors are where they were.
PurgeInv(l, C, r, k) ==
    /\ r.list \in Seq(SelElem) /\ r.i \in Nat /\ r.i >= 1
    /\ Len(r.list) - r.i + 1 = Len(l) - k
    /\ \A i \in 1..Len(r.list) : i < r.i => r.list[i].fd \notin C
    /\ \A f \in SelFds \ C : Follows(l, r.list, f)

LEMMA FollowsTwice ==
    ASSUME NEW a \in Seq(SelElem), NEW b \in Seq(SelElem), NEW c \in Seq(SelElem), NEW f,
           Follows(a, b, f), Follows(b, c, f)
    PROVE  Follows(a, c, f)
<1>1. ASSUME NEW i \in PlacesOf(c, f) PROVE \E j \in PlacesOf(a, f) : i <= j
  <2>1. PICK j \in PlacesOf(b, f) : i <= j
      BY Zenon DEF Follows
  <2>2. PICK k \in PlacesOf(a, f) : j <= k
      BY Zenon DEF Follows
  <2>3. i \in Nat /\ j \in Nat /\ k \in Nat
      BY DEF PlacesOf
  <2>4. i <= k
      BY <2>1, <2>2, <2>3
  <2> QED
      BY <2>4, Zenon
<1>2. Cardinality(PlacesOf(c, f)) = Cardinality(PlacesOf(a, f))
    BY Zenon DEF Follows
<1>3. ASSUME NEW i, PlacesOf(a, f) = {i} PROVE \E j : PlacesOf(c, f) = {j} /\ c[j] = a[i]
  <2>1. PICK k : PlacesOf(b, f) = {k} /\ b[k] = a[i]
      BY <1>3, Zenon DEF Follows
  <2>2. PICK j : PlacesOf(c, f) = {j} /\ c[j] = b[k]
      BY <2>1, Zenon DEF Follows
  <2> QED
      BY <2>1, <2>2, Zenon
<1> QED
    BY <1>1, <1>2, <1>3, Zenon DEF Follows

LEMMA PurgeStep ==
    ASSUME NEW l \in Seq(SelElem), NEW C, NEW r, NEW k \in Nat, k < Len(l), PurgeInv(l, C, r, k)
    PROVE  PurgeInv(l, C, PurgeRound(r, C), k + 1)
<1> DEFINE s == r.list
           i == r.i
<1>1. /\ s \in Seq(SelElem) /\ i \in 1..Len(s) /\ Len(s) \in Nat /\ Len(s) - i + 1 = Len(l) - k
      /\ Len(l) \in Nat
    BY DEF PurgeInv
<1>2. \A j \in 1..Len(s) : j < i => s[j].fd \notin C
    BY Zenon DEF PurgeInv
<1>3. \A f \in SelFds \ C : Follows(l, s, f)
    BY Zenon DEF PurgeInv
<1> HIDE DEF s, i
<1>4. CASE s[i].fd \in C
  <2> DEFINE m == RemoveIndex(s, i)
  <2>1. PurgeRound(r, C) = [list |-> m, i |-> i]
      BY <1>4, Zenon DEF PurgeRound, s, i
  <2>2. /\ m \in Seq(SelElem) /\ Len(m) = Len(s) - 1
        /\ \A j \in 1..(Len(s) - 1) : m[j] = IF j = i THEN s[Len(s)] ELSE s[j]
      BY <1>1, Removed, Zenon
  <2> HIDE DEF m
  <2>3. ASSUME NEW j \in 1..Len(m), j < i PROVE m[j].fd \notin C
    <3>1. j \in 1..(Len(s) - 1) /\ j # i /\ j \in 1..Len(s)
        BY <2>2, <2>3, <1>1
    <3>2. m[j] = s[j]
        BY <2>2, <3>1, Zenon
    <3> QED
        BY <2>3, <3>1, <3>2, <1>2, Zenon
  <2>4. ASSUME NEW f \in SelFds \ C PROVE Follows(l, m, f)
    <3>1. s[i].fd # f
        BY <1>4, <2>4, Zenon
    <3>2. Follows(s, m, f)
        BY <3>1, <1>1, RemovedFollows, Zenon DEF m
    <3> QED
        BY <3>2, <1>1, <1>3, <2>2, FollowsTwice, Zenon
  <2>5. Len(m) - i + 1 = Len(l) - (k + 1) /\ i \in Nat /\ i >= 1
      BY <2>2, <1>1
  <2>6. PurgeRound(r, C).list = m /\ PurgeRound(r, C).i = i
      BY <2>1
  <2> QED
      BY <2>2, <2>3, <2>4, <2>5, <2>6, Zenon DEF PurgeInv
<1>5. CASE s[i].fd \notin C
  <2>1. PurgeRound(r, C) = [list |-> s, i |-> i + 1]
      BY <1>5, Zenon DEF PurgeRound, s, i
  <2>2. PurgeRound(r, C).list = s /\ PurgeRound(r, C).i = i + 1
      BY <2>1
  <2>3. Len(s) - (i + 1) + 1 = Len(l) - (k + 1) /\ i + 1 \in Nat /\ i + 1 >= 1
      BY <1>1
  <2>4. ASSUME NEW j \in 1..Len(s), j < i + 1 PROVE s[j].fd \notin C
    <3>1. j < i \/ j = i
        BY <2>4, <1>1
    <3> QED
        BY <3>1, <1>2, <1>5, Zenon
  <2> QED
      BY <2>2, <2>3, <2>4, <1>1, <1>3, Zenon DEF PurgeInv
<1> QED
    BY <1>4, <1>5

\* The scan misses no closed descriptor and keeps the others.
LEMMA PurgedOK ==
    ASSUME NEW l \in Seq(SelElem), NEW C
    PROVE  /\ Purged(l, C) \in Seq(SelElem)
           /\ \A i \in 1..Len(Purged(l, C)) : Purged(l, C)[i].fd \notin C
           /\ \A f \in SelFds \ C : Follows(l, Purged(l, C), f)
<1> DEFINE n == Len(l)
           round == CHOOSE g : PurgeRuns(g, l, C, n)
           Fails == {k \in 0..n : ~PurgeInv(l, C, round[k], k)}
<1>1. n \in Nat
    OBVIOUS
<1>2. PurgeRuns(round, l, C, n)
    BY <1>1, PurgeRunExists, Zenon
<1>3. Purged(l, C) = round[n].list
    BY Zenon DEF Purged, PurgeRuns, PurgeRound
<1> HIDE DEF round
<1>4. round[0] = [list |-> l, i |-> 1] /\ \A k \in 0..n : k # 0 => round[k] = PurgeRound(round[k - 1], C)
  <2>1. 0 \in 0..n
      BY <1>1
  <2> QED
      BY <2>1, <1>2, Zenon DEF PurgeRuns
<1>5. Fails = {}
  <2> SUFFICES ASSUME Fails # {} PROVE FALSE
      OBVIOUS
  <2>1. PICK k \in Fails : \A y \in Fails : k <= y
    <3>1. Fails \in SUBSET Nat
        BY <1>1
    <3> QED
        BY <3>1, NatMin, Zenon
  <2>2. k \in 0..n /\ ~PurgeInv(l, C, round[k], k)
      BY <2>1, ZenonT(60)
  <2>3. k # 0
    <3> SUFFICES ASSUME k = 0 PROVE PurgeInv(l, C, [list |-> l, i |-> 1], 0)
        BY <2>2, <1>4, Zenon
    <3>1. \A f : Follows(l, l, f)
        BY FollowsSelf, Zenon
    <3> QED
        BY <3>1, <1>1 DEF PurgeInv
  <2>4. k - 1 \in 0..n /\ ~(k <= k - 1) /\ k - 1 \in Nat /\ k - 1 < n /\ (k - 1) + 1 = k
      BY <2>2, <2>3, <1>1
  <2>5. PurgeInv(l, C, round[k - 1], k - 1)
      BY <2>1, <2>4, Zenon
  <2>6. PurgeInv(l, C, PurgeRound(round[k - 1], C), (k - 1) + 1)
      BY <2>4, <2>5, PurgeStep, Zenon
  <2>7. round[k] = PurgeRound(round[k - 1], C)
      BY <2>2, <2>3, <1>4, Zenon
  <2> QED
      BY <2>2, <2>4, <2>6, <2>7, Zenon
<1>6. PurgeInv(l, C, round[n], n)
  <2>1. n \in 0..n
      BY <1>1
  <2> QED
      BY <2>1, <1>5, Zenon
<1> DEFINE m == round[n].list
<1>7. m \in Seq(SelElem) /\ round[n].i \in Nat /\ Len(m) - round[n].i + 1 = Len(l) - n
    BY <1>6, Zenon DEF PurgeInv
<1>8. ASSUME NEW i \in 1..Len(m) PROVE m[i].fd \notin C
  <2>1. i < round[n].i
      BY <1>7, <1>1
  <2> QED
      BY <2>1, <1>6, Zenon DEF PurgeInv
<1>9. \A f \in SelFds \ C : Follows(l, m, f)
    BY <1>6, Zenon DEF PurgeInv
<1> QED
    BY <1>3, <1>7, <1>8, <1>9, Zenon

-----------------------------------------------------------------------------
(* SelectLoop: its invariant.                                              *)

\* The workers that have closed a descriptor and will remove it.
DelBy(f) == {w \in SelWorkers : swork[w] = [pc |-> "del", fd |-> f]}

SelTyped ==
    /\ socklist \in Seq(SelElem)
    /\ sock \in [SelFds -> {"closed", "quiet", "data", "out"}]
    /\ si \in Nat \ {0}
    /\ swork \in [SelWorkers -> [pc : {"idle", "run", "del"}, fd : SelFds \cup {0}]]
    /\ \A w \in SelWorkers : swork[w].pc = "del" => swork[w].fd # 0

\* A descriptor has no more places than an open socket and its workers account
\* for.
SelCounted(f) ==
    Cardinality(PlacesOf(socklist, f)) <= (IF sock[f] = "closed" THEN 0 ELSE 1) + Cardinality(DelBy(f))

\* An open socket has its one place, with a mask unless it is with a worker;
\* one worker at most has it, and none has yet to remove it.
SelWatched(f) ==
    /\ sock[f] # "closed" =>
        /\ \E i \in PlacesOf(socklist, f) :
            /\ PlacesOf(socklist, f) = {i}
            /\ (socklist[i].mask = "none") <=> (HeldBy(f) # {})
            /\ sock[f] = "out" => socklist[i].mask = "write"
        /\ DelBy(f) = {}
    /\ HeldBy(f) # {} => sock[f] # "closed"
    /\ \A v, w \in HeldBy(f) : v = w

\* A socket that select reported as readable is with no worker when its turn
\* comes.
SelFresh(f) ==
    f \in fdsets.r =>
        /\ spc \in {"select", "accept"} => HeldBy(f) = {}
        /\ spc = "dispatch" => \A i \in PlacesOf(socklist, f) : i >= si => HeldBy(f) = {}

SelGood(f) == SelCounted(f) /\ (f \notin sreused => SelWatched(f) /\ SelFresh(f))

\* Arithmetic of the bound that SelCounted states.
LEMMA BoundSlack ==
    ASSUME NEW p, NEW d \in Nat, p \in Int, p <= 0 + d
    PROVE  p <= 1 + d
OBVIOUS

LEMMA BoundFalls ==
    ASSUME NEW p \in Nat, NEW q, NEW d \in Nat, NEW e \in Nat, q = p - 1,
           (p <= 1 + d /\ e = d) \/ (p <= 0 + d /\ e = d - 1)
    PROVE  q <= 0 + e /\ q <= 1 + e
OBVIOUS

SelInv == SelTyped /\ MaxFdCovers /\ \A f \in SelFds : SelGood(f)

LEMMA DelFinite == ASSUME NEW f PROVE IsFiniteSet(DelBy(f)) /\ Cardinality(DelBy(f)) \in Nat
<1>1. DelBy(f) \subseteq SelWorkers
    BY Zenon DEF DelBy
<1> QED
    BY <1>1, SelAssumption, FS_Subset, FS_CardinalityType, Zenon

\* A descriptor nobody accounts for is not listed.
LEMMA NoPlaces ==
    ASSUME NEW l \in Seq(SelElem), NEW f, Cardinality(PlacesOf(l, f)) <= 0
    PROVE  PlacesOf(l, f) = {}
<1>1. IsFiniteSet(PlacesOf(l, f)) /\ Cardinality(PlacesOf(l, f)) \in Nat
    BY PlacesFinite, Zenon
<1>2. Cardinality(PlacesOf(l, f)) = 0
    BY <1>1
<1> QED
    BY <1>1, <1>2, FS_EmptySet, Zenon

LEMMA SelInvSound == SelInv => SelectSound
<1> SUFFICES ASSUME SelInv PROVE AllListed /\ ClosedOnlyByWorkers
    BY Zenon DEF SelInv, SelectSound
<1>1. AllListed
    BY Zenon DEF SelInv, SelGood, SelWatched, AllListed
<1>2. ASSUME NEW f \in ListedFds(socklist), sock[f] = "closed" PROVE DelBy(f) # {}
  <2>1. PICK i \in 1..Len(socklist) : f = socklist[i].fd
      BY Zenon DEF ListedFds
  <2>2. socklist \in Seq(SelElem)
      BY Zenon DEF SelInv, SelTyped
  <2>3. f \in SelFds
    <3>1. socklist[i] \in SelElem
        BY <2>2
    <3> QED
        BY <3>1, <2>1 DEF SelElem
  <2>4. PlacesOf(socklist, f) # {}
      BY <2>1, Zenon DEF PlacesOf
  <2>5. Cardinality(PlacesOf(socklist, f)) <= 0 + Cardinality(DelBy(f))
      BY <2>3, <1>2, Zenon DEF SelInv, SelGood, SelCounted
  <2>6. DelBy(f) = {} => Cardinality(DelBy(f)) = 0
      BY FS_EmptySet, Zenon
  <2>7. DelBy(f) = {} => Cardinality(PlacesOf(socklist, f)) <= 0
      BY <2>5, <2>6
  <2> QED
      BY <2>2, <2>4, <2>7, NoPlaces, Zenon
<1>3. ClosedOnlyByWorkers
    BY <1>2, Zenon DEF ClosedOnlyByWorkers, DelBy
<1> QED
    BY <1>1, <1>3

LEMMA SelInvInit == SelInit => SelInv
<1> SUFFICES ASSUME SelInit PROVE SelInv
    OBVIOUS
<1>1. SelTyped
    BY DEF SelInit, SelTyped
<1>2. socklist = <<>> /\ ListedFds(socklist) = {} /\ \A f : PlacesOf(socklist, f) = {}
    BY DEF SelInit, ListedFds, PlacesOf
<1>3. MaxFdCovers
    BY <1>2, Zenon DEF MaxFdCovers
<1>4. \A f \in SelFds : sock[f] = "closed"
    BY Zenon DEF SelInit
<1>5. \A f \in SelFds : DelBy(f) = {} /\ HeldBy(f) = {}
  <2>1. \A w \in SelWorkers : swork[w].pc = "idle"
      BY DEF SelInit
  <2>2. ASSUME NEW w \in SelWorkers, NEW f PROVE swork[w] # [pc |-> "del", fd |-> f] /\ swork[w] # [pc |-> "run", fd |-> f]
      BY <2>1
  <2> QED
      BY <2>2, Zenon DEF DelBy, HeldBy
<1>6. ASSUME NEW f \in SelFds PROVE SelCounted(f)
  <2>1. Cardinality(PlacesOf(socklist, f)) = 0 /\ Cardinality(DelBy(f)) = 0
      BY <1>2, <1>5, FS_EmptySet, Zenon
  <2> QED
      BY <2>1, <1>4 DEF SelCounted
<1>7. \A f \in SelFds : SelWatched(f)
    BY <1>4, <1>5, Zenon DEF SelWatched
<1>8. \A f \in SelFds : SelFresh(f)
    BY <1>5, Zenon DEF SelFresh
<1> QED
    BY <1>1, <1>3, <1>6, <1>7, <1>8, Zenon DEF SelInv, SelGood

-----------------------------------------------------------------------------
(* SelectLoop: its steps.                                                  *)

\* What a step leaves of a descriptor it is not about.
LEMMA Untouched ==
    ASSUME SelTyped, SelTyped', NEW f \in SelFds, SelGood(f), Follows(socklist, socklist', f),
           sock'[f] = sock[f], HeldBy(f)' = HeldBy(f), DelBy(f)' = DelBy(f), sreused \subseteq sreused'
    PROVE  SelCounted(f)' /\ (f \notin sreused' => SelWatched(f)')
<1>1. SelCounted(f)'
  <2>1. Cardinality(PlacesOf(socklist', f)) = Cardinality(PlacesOf(socklist, f))
      BY Zenon DEF Follows
  <2> QED
      BY <2>1, Zenon DEF SelGood, SelCounted
<1>2. ASSUME f \notin sreused', sock[f] # "closed"
      PROVE  \E i \in PlacesOf(socklist', f) :
                /\ PlacesOf(socklist', f) = {i}
                /\ (socklist'[i].mask = "none") <=> (HeldBy(f) # {})
                /\ sock[f] = "out" => socklist'[i].mask = "write"
  <2>1. PICK i \in PlacesOf(socklist, f) :
            /\ PlacesOf(socklist, f) = {i}
            /\ (socklist[i].mask = "none") <=> (HeldBy(f) # {})
            /\ sock[f] = "out" => socklist[i].mask = "write"
      BY <1>2, Zenon DEF SelGood, SelWatched
  <2>2. PICK j : PlacesOf(socklist', f) = {j} /\ socklist'[j] = socklist[i]
      BY <2>1, Zenon DEF Follows
  <2> QED
      BY <2>1, <2>2, Zenon
<1>3. f \notin sreused' => SelWatched(f)'
    BY <1>2, Zenon DEF SelGood, SelWatched
<1> QED
    BY <1>1, <1>3

LEMMA FreshKept ==
    ASSUME SelTyped, SelTyped', NEW f \in SelFds, SelFresh(f), Follows(socklist, socklist', f),
           HeldBy(f)' = HeldBy(f), UNCHANGED <<spc, fdsets>>, si' = si \/ si' = si + 1
    PROVE  SelFresh(f)'
<1> SUFFICES ASSUME f \in fdsets.r, spc = "dispatch", NEW i \in PlacesOf(socklist', f), i >= si'
             PROVE  HeldBy(f) = {}
    BY Zenon DEF SelFresh
<1>1. PICK j \in PlacesOf(socklist, f) : i <= j
    BY Zenon DEF Follows
<1>2. i \in Nat /\ j \in Nat /\ si \in Nat
    BY DEF PlacesOf, SelTyped
<1>3. j >= si
    BY <1>1, <1>2
<1> QED
    BY <1>3, Zenon DEF SelFresh

\* Both together.
LEMMA GoodKept ==
    ASSUME SelTyped, SelTyped', NEW f \in SelFds, SelGood(f), Follows(socklist, socklist', f),
           sock'[f] = sock[f], HeldBy(f)' = HeldBy(f), DelBy(f)' = DelBy(f), sreused \subseteq sreused',
           UNCHANGED <<spc, fdsets>>, si' = si \/ si' = si + 1
    PROVE  SelGood(f)'
<1>1. SelCounted(f)' /\ (f \notin sreused' => SelWatched(f)')
    BY Untouched, Zenon
<1>2. f \notin sreused' => SelFresh(f)'
    BY FreshKept, Zenon DEF SelGood
<1> QED
    BY <1>1, <1>2, Zenon DEF SelGood

\* A list that keeps its places and an entry follows from itself.
LEMMA SamePlaces ==
    ASSUME NEW l \in Seq(SelElem), NEW m \in Seq(SelElem), NEW f, PlacesOf(m, f) = PlacesOf(l, f),
           \A i \in PlacesOf(l, f) : m[i] = l[i]
    PROVE  Follows(l, m, f)
<1>1. ASSUME NEW i \in PlacesOf(l, f) PROVE i <= i
    BY DEF PlacesOf
<1> QED
    BY <1>1, Zenon DEF Follows

\* The work of others goes on.
LEMMA OtherWork ==
    ASSUME NEW w \in SelWorkers, NEW f, \A v \in SelWorkers \ {w} : swork'[v] = swork[v],
           swork[w] # [pc |-> "run", fd |-> f], swork'[w] # [pc |-> "run", fd |-> f],
           swork[w] # [pc |-> "del", fd |-> f], swork'[w] # [pc |-> "del", fd |-> f]
    PROVE  HeldBy(f)' = HeldBy(f) /\ DelBy(f)' = DelBy(f)
<1>1. \A v \in SelWorkers : swork'[v] = [pc |-> "run", fd |-> f] <=> swork[v] = [pc |-> "run", fd |-> f]
    BY Zenon
<1>2. \A v \in SelWorkers : swork'[v] = [pc |-> "del", fd |-> f] <=> swork[v] = [pc |-> "del", fd |-> f]
    BY Zenon
<1> QED
    BY <1>1, <1>2, Zenon DEF HeldBy, DelBy

LEMMA ScanInv == ASSUME SelInv, SelScan PROVE SelInv'
<1>1. PICK idle \in SUBSET {f \in SelFds : sock[f] \in {"quiet", "data"} /\ HeldBy(f) = {}} :
        LET l == Purged(socklist, idle \cup {f \in SelFds : sock[f] = "closed"})
            with(m) == {l[i].fd : i \in {j \in 1..Len(l) : l[j].mask = m}}
        IN  /\ List(l)
            /\ fdsets' = [r |-> with("read"), w |-> with("write"), x |-> ListedFds(l)]
            /\ sock' = [f \in SelFds |-> IF f \in idle THEN "closed" ELSE sock[f]]
    BY Zenon DEF SelScan
<1> DEFINE C == idle \cup {f \in SelFds : sock[f] = "closed"}
           l == Purged(socklist, C)
           with(m) == {l[i].fd : i \in {j \in 1..Len(l) : l[j].mask = m}}
<1>1a. /\ List(l) /\ sock' = [f \in SelFds |-> IF f \in idle THEN "closed" ELSE sock[f]]
       /\ fdsets' = [r |-> with("read"), w |-> with("write"), x |-> ListedFds(l)]
    BY <1>1, Zenon
<1>1b. spc' = "select" /\ UNCHANGED <<si, swork, sreused>>
    BY Zenon DEF SelScan
<1>1c. fdsets'.r = with("read")
  <2> HIDE DEF with
  <2> QED
      BY <1>1a
<1>2. /\ List(l) /\ sock' = [f \in SelFds |-> IF f \in idle THEN "closed" ELSE sock[f]]
      /\ fdsets'.r = {l[i].fd : i \in {j \in 1..Len(l) : l[j].mask = "read"}}
      /\ spc' = "select" /\ UNCHANGED <<si, swork, sreused>>
    BY <1>1a, <1>1b, <1>1c, Zenon
<1>3. SelTyped /\ socklist \in Seq(SelElem)
    BY Zenon DEF SelInv, SelTyped
<1>4. /\ l \in Seq(SelElem) /\ \A i \in 1..Len(l) : l[i].fd \notin C
      /\ \A f \in SelFds \ C : Follows(socklist, l, f)
    BY <1>3, PurgedOK, Zenon
<1> HIDE DEF l, C
<1>5. socklist' = l /\ MaxFdCovers'
  <2>1. socklist' = l /\ maxfd_plus_one' = recalc_maxfd_plus_one(l)
      BY <1>2, Zenon DEF List
  <2> QED
      BY <2>1, <1>4, MaxCovers, Zenon DEF MaxFdCovers
<1>6. SelTyped'
  <2>1. sock' \in [SelFds -> {"closed", "quiet", "data", "out"}]
      BY <1>2, <1>3 DEF SelTyped
  <2> QED
      BY <2>1, <1>2, <1>3, <1>4, <1>5, ZenonT(60) DEF SelTyped
<1>7. \A f : HeldBy(f)' = HeldBy(f) /\ DelBy(f)' = DelBy(f)
    BY <1>2, Zenon DEF HeldBy, DelBy
<1>8. ASSUME NEW f \in SelFds, f \in C PROVE SelCounted(f)' /\ PlacesOf(socklist', f) = {}
                                            /\ (f \notin sreused' => SelWatched(f)')
  <2>1. sock'[f] = "closed"
      BY <1>2, <1>8, Zenon DEF C
  <2>2. PlacesOf(socklist', f) = {}
      BY <1>4, <1>5, <1>8, Zenon DEF PlacesOf
  <2>3. SelCounted(f)'
    <3>1. Cardinality(PlacesOf(socklist', f)) = 0
        BY <2>2, FS_EmptySet, Zenon
    <3>2. Cardinality(DelBy(f)) \in Nat
        BY DelFinite, Zenon
    <3> QED
        BY <3>1, <3>2, <2>1, <1>7 DEF SelCounted
  <2>4. f \notin sreused => HeldBy(f) = {}
    <3>1. CASE f \in idle
        BY <3>1, Zenon
    <3>2. CASE f \notin idle
        BY <3>2, <1>8, Zenon DEF C, SelInv, SelGood, SelWatched
    <3> QED
        BY <3>1, <3>2
  <2> QED
      BY <2>1, <2>2, <2>3, <2>4, <1>2, <1>7, Zenon DEF SelWatched
<1>9. ASSUME NEW f \in SelFds, f \notin C PROVE SelCounted(f)' /\ (f \notin sreused' => SelWatched(f)')
                                               /\ sock'[f] # "closed"
  <2>1. sock'[f] = sock[f] /\ sock[f] # "closed"
      BY <1>2, <1>9, Zenon DEF C
  <2>2. Follows(socklist, socklist', f) /\ SelGood(f) /\ sreused \subseteq sreused'
      BY <1>2, <1>4, <1>5, <1>9, Zenon DEF SelInv
  <2> QED
      BY <2>1, <2>2, <1>3, <1>6, <1>7, Untouched, Zenon
<1>10. ASSUME NEW f \in SelFds, f \notin sreused', f \in fdsets'.r PROVE HeldBy(f) = {}
  <2>1. PICK i \in 1..Len(l) : l[i].fd = f /\ l[i].mask = "read"
      BY <1>2, <1>10, Zenon
  <2>2. i \in PlacesOf(socklist', f) /\ f \notin C
      BY <2>1, <1>4, <1>5, Zenon DEF PlacesOf
  <2>3. SelWatched(f)' /\ sock'[f] # "closed"
      BY <2>2, <1>9, <1>10, Zenon
  <2>4. (socklist'[i].mask = "none") <=> (HeldBy(f) # {})
      BY <2>2, <2>3, <1>7, Zenon DEF SelWatched
  <2> QED
      BY <2>1, <2>4, <1>5
<1>11. ASSUME NEW f \in SelFds, f \notin sreused' PROVE SelFresh(f)'
  <2>1. f \in fdsets'.r => HeldBy(f)' = {}
      BY <1>7, <1>10, <1>11, Zenon
  <2> QED
      BY <2>1, Zenon DEF SelFresh
<1> QED
    BY <1>5, <1>6, <1>8, <1>9, <1>11, Zenon DEF SelInv, SelGood

LEMMA SelectInv == ASSUME SelInv, SelSelect PROVE SelInv'
<1>1. UNCHANGED <<socklist, maxfd_plus_one, sock, swork, sreused>> /\ si' = 1 /\ spc = "select"
    BY Zenon DEF SelSelect
<1>2. spc' = "scan" \/ fdsets'.r \subseteq fdsets.r
    BY DEF SelSelect
<1>3. spc' \in {"scan", "accept", "dispatch"}
    BY Zenon DEF SelSelect
<1>4. SelTyped /\ SelTyped'
    BY <1>1, <1>3 DEF SelInv, SelTyped
<1>5. ASSUME NEW f \in SelFds PROVE SelGood(f)'
  <2>1. HeldBy(f)' = HeldBy(f) /\ DelBy(f)' = DelBy(f) /\ SelGood(f) /\ PlacesOf(socklist', f) = PlacesOf(socklist, f)
      BY <1>1, Zenon DEF HeldBy, DelBy, SelInv
  <2>2. SelCounted(f)' /\ (f \notin sreused' => SelWatched(f)')
      BY <1>1, <2>1, ZenonT(60) DEF SelGood, SelCounted, SelWatched
  <2>3. f \notin sreused' => SelFresh(f)'
    <3>1. CASE spc' = "scan"
        BY <3>1 DEF SelFresh
    <3>2. CASE fdsets'.r \subseteq fdsets.r
        BY <3>2, <2>1, <1>1, ZenonT(60) DEF SelGood, SelFresh
    <3> QED
        BY <3>1, <3>2, <1>2
  <2> QED
      BY <2>2, <2>3, Zenon DEF SelGood
<1> QED
    BY <1>1, <1>4, <1>5, Zenon DEF SelInv, MaxFdCovers

\* A descriptor added to the list.
LEMMA Added ==
    ASSUME NEW l \in Seq(SelElem), NEW fd \in SelFds
    PROVE  /\ _add(l, fd) \in Seq(SelElem)
           /\ \A f \in SelFds \ {fd} : Follows(l, _add(l, fd), f)
           /\ Cardinality(PlacesOf(_add(l, fd), fd)) <= Cardinality(PlacesOf(l, fd)) + 1
           /\ Len(l) < SelMax /\ PlacesOf(l, fd) = {} =>
                 /\ PlacesOf(_add(l, fd), fd) = {Len(l) + 1}
                 /\ _add(l, fd)[Len(l) + 1].mask = "read"
<1>0. SelMax \in Nat /\ Len(l) \in Nat /\ IsFiniteSet(PlacesOf(l, fd)) /\ Cardinality(PlacesOf(l, fd)) \in Nat
    BY SelAssumption, PlacesFinite, FS_CardinalityType
<1>1. CASE Len(l) >= SelMax
  <2>1. _add(l, fd) = l
      BY <1>1, Zenon DEF _add
  <2> QED
      BY <1>0, <1>1, <2>1, FollowsSelf
<1>2. CASE ~(Len(l) >= SelMax)
  <2> DEFINE e == [fd |-> fd, mask |-> "read"]
             m == Append(l, e)
  <2>1. _add(l, fd) = m
      BY <1>2, Zenon DEF _add
  <2>2. e \in SelElem /\ e.fd = fd /\ e.mask = "read"
      BY DEF SelElem
  <2>3. m \in Seq(SelElem) /\ Len(m) = Len(l) + 1 /\ m[Len(l) + 1] = e /\ \A i \in 1..Len(l) : m[i] = l[i]
    <3> HIDE DEF e
    <3> QED
        BY <2>2
  <2> HIDE DEF m, e
  <2>4. ASSUME NEW f \in SelFds \ {fd} PROVE Follows(l, m, f)
    <3>1. PlacesOf(m, f) = PlacesOf(l, f)
        BY <1>0, <2>2, <2>3 DEF PlacesOf
    <3>2. \A i \in PlacesOf(l, f) : m[i] = l[i]
        BY <2>3, Zenon DEF PlacesOf
    <3> QED
        BY <3>1, <3>2, <2>3, SamePlaces, Zenon
  <2>5. PlacesOf(m, fd) = PlacesOf(l, fd) \cup {Len(l) + 1}
      BY <1>0, <2>2, <2>3 DEF PlacesOf
  <2>6. Len(l) + 1 \notin PlacesOf(l, fd)
      BY <1>0 DEF PlacesOf
  <2>7. Cardinality(PlacesOf(m, fd)) = Cardinality(PlacesOf(l, fd)) + 1
      BY <1>0, <2>5, <2>6, FS_AddElement, Zenon
  <2>8. PlacesOf(l, fd) = {} => PlacesOf(m, fd) = {Len(l) + 1}
      BY <2>5, Zenon
  <2>9. Cardinality(PlacesOf(m, fd)) <= Cardinality(PlacesOf(l, fd)) + 1
      BY <1>0, <2>7
  <2>10. m[Len(l) + 1].mask = "read"
      BY <2>2, <2>3, Zenon
  <2> QED
      BY <2>1, <2>3, <2>4, <2>8, <2>9, <2>10, Zenon
<1> QED
    BY <1>1, <1>2

\* What the variables are after an edit of one element.
LEMMA Listed == ASSUME NEW l \in Seq(SelElem), List(l) PROVE socklist' = l /\ MaxFdCovers'
<1>1. socklist' = l /\ maxfd_plus_one' = recalc_maxfd_plus_one(l)
    BY Zenon DEF List
<1> QED
    BY <1>1, MaxCovers, Zenon DEF MaxFdCovers

LEMMA SockSet ==
    ASSUME SelTyped, NEW g \in SelFds, NEW v \in {"closed", "quiet", "data", "out"}, sock' = [sock EXCEPT ![g] = v]
    PROVE  /\ sock' \in [SelFds -> {"closed", "quiet", "data", "out"}]
           /\ sock'[g] = v /\ \A f \in SelFds \ {g} : sock'[f] = sock[f]
<1> DEFINE D == {"closed", "quiet", "data", "out"}
<1>1. sock \in [SelFds -> D] /\ v \in D
    BY Zenon DEF SelTyped
<1> HIDE DEF D
<1>2. sock' \in [SelFds -> D] /\ sock'[g] = v /\ \A f \in SelFds \ {g} : sock'[f] = sock[f]
    BY <1>1
<1> QED
    BY <1>2, Zenon DEF D

LEMMA WorkSet ==
    ASSUME SelTyped, NEW w \in SelWorkers, NEW p \in {"idle", "run", "del"}, NEW g \in SelFds \cup {0},
           p = "del" => g # 0, swork' = [swork EXCEPT ![w] = [pc |-> p, fd |-> g]]
    PROVE  /\ swork' \in [SelWorkers -> [pc : {"idle", "run", "del"}, fd : SelFds \cup {0}]]
           /\ \A v \in SelWorkers : swork'[v].pc = "del" => swork'[v].fd # 0
           /\ swork'[w] = [pc |-> p, fd |-> g] /\ \A v \in SelWorkers \ {w} : swork'[v] = swork[v]
<1> DEFINE E == [pc : {"idle", "run", "del"}, fd : SelFds \cup {0}]
           e == [pc |-> p, fd |-> g]
<1>1. swork \in [SelWorkers -> E]
    BY Zenon DEF SelTyped
<1>2. e \in E /\ (e.pc = "del" => e.fd # 0)
    OBVIOUS
<1> HIDE DEF E, e
<1>3. swork' = [swork EXCEPT ![w] = e]
    BY Zenon DEF e
<1>4. swork' \in [SelWorkers -> E] /\ swork'[w] = e /\ \A v \in SelWorkers \ {w} : swork'[v] = swork[v]
    BY <1>1, <1>2, <1>3
<1>5. \A v \in SelWorkers : swork'[v].pc = "del" => swork'[v].fd # 0
    BY <1>2, <1>4, Zenon DEF SelTyped
<1> QED
    BY <1>4, <1>5, Zenon DEF E, e

LEMMA WorkOf ==
    ASSUME SelTyped, NEW w \in SelWorkers
    PROVE  swork[w].fd \in SelFds \cup {0} /\ swork[w] = [pc |-> swork[w].pc, fd |-> swork[w].fd]
<1>1. swork[w] \in [pc : {"idle", "run", "del"}, fd : SelFds \cup {0}]
    BY Zenon DEF SelTyped
<1> QED
    BY <1>1

\* A connection accepted: the descriptor was closed, so that no worker has it and
\* the list has no place for it unless a removal is outstanding.
LEMMA Accepted ==
    ASSUME SelInv, NEW g \in SelFds, sock[g] = "closed", UNCHANGED <<spc, fdsets, si, swork>>,
           List(_add(socklist, g)), sock' = [sock EXCEPT ![g] = "quiet"],
           sreused' = IF Len(socklist) >= SelMax \/ \E w \in SelWorkers : swork[w] = [pc |-> "del", fd |-> g]
                      THEN sreused \cup {g} ELSE sreused
    PROVE  SelInv'
<1>0. SelTyped
    BY Zenon DEF SelInv
<1>1. \A f : HeldBy(f)' = HeldBy(f) /\ DelBy(f)' = DelBy(f)
    BY Zenon DEF HeldBy, DelBy
<1>2. socklist \in Seq(SelElem)
    BY <1>0, Zenon DEF SelTyped
<1>3. socklist' = _add(socklist, g) /\ socklist' \in Seq(SelElem) /\ MaxFdCovers'
    BY <1>2, Added, Listed, Zenon
<1>4. /\ sock' \in [SelFds -> {"closed", "quiet", "data", "out"}]
      /\ sock'[g] = "quiet" /\ \A f \in SelFds \ {g} : sock'[f] = sock[f]
    BY <1>0, SockSet, Zenon
<1>5. SelTyped' /\ sreused \subseteq sreused'
    BY <1>3, <1>4, <1>0, Zenon DEF SelTyped
<1>6. ASSUME NEW f \in SelFds \ {g} PROVE SelGood(f)'
  <2>1. Follows(socklist, socklist', f) /\ SelGood(f) /\ sock'[f] = sock[f]
      BY <1>2, <1>3, <1>4, Added, Zenon DEF SelInv
  <2>2. si' = si /\ UNCHANGED <<spc, fdsets>>
      BY <1>0, Zenon
  <2> QED
      BY <2>1, <2>2, <1>5, <1>0, <1>1, GoodKept, Zenon
<1>7. SelCounted(g) /\ (g \notin sreused' => g \notin sreused /\ SelWatched(g) /\ DelBy(g) = {} /\ ~(Len(socklist) >= SelMax))
    BY Zenon DEF SelInv, SelGood, DelBy
<1>8. Cardinality(DelBy(g)) \in Nat /\ Cardinality(PlacesOf(socklist, g)) \in Nat /\ Cardinality(PlacesOf(socklist', g)) \in Nat
    BY <1>2, <1>3, DelFinite, PlacesFinite, ZenonT(60)
<1>9. SelCounted(g)'
  <2>1. Cardinality(PlacesOf(socklist', g)) <= Cardinality(PlacesOf(socklist, g)) + 1
      BY <1>2, <1>3, Added, Zenon
  <2>2. Cardinality(PlacesOf(socklist, g)) <= 0 + Cardinality(DelBy(g))
      BY <1>7, ZenonT(60) DEF SelCounted
  <2>3. Cardinality(PlacesOf(socklist', g)) <= 1 + Cardinality(DelBy(g))
      BY <2>1, <2>2, <1>8
  <2> QED
      BY <2>3, <1>4, <1>1 DEF SelCounted
<1>10. ASSUME g \notin sreused' PROVE SelWatched(g)' /\ HeldBy(g)' = {}
  <2>1. DelBy(g) = {} /\ HeldBy(g) = {} /\ Len(socklist) < SelMax
    <3>1. DelBy(g) = {} /\ HeldBy(g) = {} /\ ~(Len(socklist) >= SelMax)
        BY <1>7, <1>10, ZenonT(60) DEF SelWatched
    <3>2. Len(socklist) \in Nat /\ SelMax \in Nat
      <4>1. Len(socklist) \in Nat
          BY <1>2
      <4> QED
          BY <4>1, SelAssumption, ZenonT(60)
    <3> QED
        BY <3>1, <3>2
  <2>2. Cardinality(PlacesOf(socklist, g)) <= 0
    <3>1. Cardinality(DelBy(g)) = 0
        BY <2>1, FS_EmptySet, Zenon
    <3> QED
        BY <3>1, <1>7, <1>8 DEF SelCounted
  <2>3. PlacesOf(socklist, g) = {}
      BY <1>2, <2>2, NoPlaces, Zenon
  <2>4. PlacesOf(socklist', g) = {Len(socklist) + 1} /\ socklist'[Len(socklist) + 1].mask = "read"
      BY <1>2, <1>3, <2>1, <2>3, Added, ZenonT(60)
  <2>5. "read" # "none" /\ "quiet" # "out"
      OBVIOUS
  <2> QED
      BY <2>1, <2>4, <2>5, <1>4, <1>1, ZenonT(60) DEF SelWatched
<1>11. SelGood(g)'
    BY <1>9, <1>10, Zenon DEF SelGood, SelFresh
<1> QED
    BY <1>3, <1>5, <1>6, <1>11, Zenon DEF SelInv

LEMMA AcceptInv == ASSUME SelInv, SelAccept PROVE SelInv'
<1> DEFINE free == {f \in SelFds : sock[f] = "closed"}
           fd == Min(free)
<1>1. UNCHANGED <<fdsets, si, swork>> /\ spc = "accept" /\ SelTyped /\ MaxFdCovers
    BY Zenon DEF SelAccept, SelInv
<1>2. \A f : HeldBy(f)' = HeldBy(f) /\ DelBy(f)' = DelBy(f)
    BY <1>1, Zenon DEF HeldBy, DelBy
<1>3. CASE spc' = "dispatch" /\ UNCHANGED <<socklist, maxfd_plus_one, sock, sreused>>
  <2>1. SelTyped'
      BY <1>1, <1>3, Zenon DEF SelTyped
  <2>2. ASSUME NEW f \in SelFds PROVE SelGood(f)'
    <3>1. SelGood(f)
        BY Zenon DEF SelInv
    <3>2. SelCounted(f)' /\ (f \notin sreused' => SelWatched(f)')
        BY <3>1, <1>2, <1>3, Zenon DEF SelGood, SelCounted, SelWatched
    <3>3. f \notin sreused' => SelFresh(f)'
        BY <3>1, <1>1, <1>2, <1>3, Zenon DEF SelGood, SelFresh
    <3> QED
        BY <3>2, <3>3, Zenon DEF SelGood
  <2> QED
      BY <2>1, <2>2, <1>1, <1>3, Zenon DEF SelInv, MaxFdCovers
<1>4. CASE /\ free # {} /\ List(_add(socklist, fd)) /\ sock' = [sock EXCEPT ![fd] = "quiet"]
           /\ sreused' = IF Len(socklist) >= SelMax \/ \E w \in SelWorkers : swork[w] = [pc |-> "del", fd |-> fd]
                         THEN sreused \cup {fd} ELSE sreused
           /\ UNCHANGED spc
  <2>1. PICK g \in SelFds : g = fd /\ sock[g] = "closed"
    <3>1. free \in SUBSET Nat
        BY SelFdsNat, Zenon
    <3>2. \E x \in free : \A y \in free : x <= y
        BY <1>4, <3>1, NatMin, Zenon
    <3>3. fd \in free
        BY <3>2, Zenon DEF Min
    <3> QED
        BY <3>3, Zenon
  <2> HIDE DEF fd
  <2> QED
      BY <1>1, <1>4, <2>1, Accepted, Zenon
<1> QED
    BY <1>3, <1>4, Zenon DEF SelAccept

\* A socket closed and removed in one go.
LEMMA Removal ==
    ASSUME SelTyped, SelTyped', NEW g \in SelFds, SelGood(g), socklist' = DelFrom(socklist, g),
           sock'[g] = "closed", HeldBy(g)' = {},
           \/ DelBy(g)' = DelBy(g)
           \/ sock[g] = "closed" /\ DelBy(g) # {} /\ Cardinality(DelBy(g)') = Cardinality(DelBy(g)) - 1
           \/ PlacesOf(socklist, g) = {}
    PROVE  SelGood(g)'
<1>1. socklist \in Seq(SelElem)
    BY Zenon DEF SelTyped
<1>2. \/ PlacesOf(socklist', g) = {} /\ PlacesOf(socklist, g) = {}
      \/ /\ Cardinality(PlacesOf(socklist', g)) = Cardinality(PlacesOf(socklist, g)) - 1
         /\ PlacesOf(socklist, g) # {}
    BY <1>1, Deleted, Zenon
<1>3. Cardinality(PlacesOf(socklist, g)) \in Nat /\ Cardinality(DelBy(g)) \in Nat
    BY <1>1, PlacesFinite, DelFinite, Zenon
<1>4. IsFiniteSet(DelBy(g)') /\ Cardinality(DelBy(g)') \in Nat
  <2>1. DelBy(g)' \subseteq SelWorkers /\ IsFiniteSet(SelWorkers)
      BY SelAssumption, Zenon DEF DelBy
  <2> QED
      BY <2>1, FS_Subset, FS_CardinalityType, Zenon
<1>5. SelCounted(g)'
  <2>1. CASE PlacesOf(socklist', g) = {}
    <3>1. Cardinality(PlacesOf(socklist', g)) = 0
        BY <2>1, FS_EmptySet, ZenonT(60)
    <3> QED
        BY <3>1, <1>4 DEF SelCounted
  <2>2. CASE Cardinality(PlacesOf(socklist', g)) = Cardinality(PlacesOf(socklist, g)) - 1 /\ PlacesOf(socklist, g) # {}
    <3>1. SelCounted(g)
        BY ZenonT(60) DEF SelGood
    <3>2. CASE sock[g] = "closed"
      <4>1. Cardinality(PlacesOf(socklist, g)) <= 0 + Cardinality(DelBy(g))
          BY <3>1, <3>2, ZenonT(60) DEF SelCounted
      <4>2. Cardinality(PlacesOf(socklist, g)) <= 1 + Cardinality(DelBy(g))
          BY <4>1, <1>3, BoundSlack
      <4>3. /\ Cardinality(PlacesOf(socklist', g)) <= 0 + Cardinality(DelBy(g)')
            /\ Cardinality(PlacesOf(socklist', g)) <= 1 + Cardinality(DelBy(g)')
          BY <4>1, <4>2, <2>2, <1>3, <1>4, BoundFalls, ZenonT(60)
      <4> QED
          BY <4>3, ZenonT(60) DEF SelCounted
    <3>3. CASE sock[g] # "closed"
      <4>1. Cardinality(PlacesOf(socklist, g)) <= 1 + Cardinality(DelBy(g))
          BY <3>1, <3>3, ZenonT(60) DEF SelCounted
      <4>a. Cardinality(DelBy(g)') = Cardinality(DelBy(g))
          BY <2>2, <3>3
      <4>2. /\ Cardinality(PlacesOf(socklist', g)) <= 0 + Cardinality(DelBy(g)')
            /\ Cardinality(PlacesOf(socklist', g)) <= 1 + Cardinality(DelBy(g)')
          BY <4>1, <4>a, <2>2, <1>3, <1>4, BoundFalls, ZenonT(60)
      <4> QED
          BY <4>2, ZenonT(60) DEF SelCounted
    <3> QED
        BY <3>2, <3>3, ZenonT(60)
  <2> QED
      BY <2>1, <2>2, <1>2, ZenonT(60)
<1>6. SelWatched(g)' /\ SelFresh(g)'
    BY Zenon DEF SelWatched, SelFresh
<1> QED
    BY <1>5, <1>6, Zenon DEF SelGood

\* A mask set, by whoever has the socket.
LEMMA MaskedNow ==
    ASSUME SelTyped, NEW g \in SelFds, NEW a \in {"read", "write", "none"},
           socklist' = set_select_event_mask(socklist, g, a)
    PROVE  /\ socklist' \in Seq(SelElem) /\ ListedFds(socklist') = ListedFds(socklist)
           /\ \A f : PlacesOf(socklist', f) = PlacesOf(socklist, f)
           /\ \A i \in 1..Len(socklist) : socklist[i].fd # g => socklist'[i] = socklist[i]
           /\ \A i : PlacesOf(socklist, g) = {i} => socklist'[i].mask = a
<1>1. socklist \in Seq(SelElem)
    BY Zenon DEF SelTyped
<1>2. MaskedTo(socklist, socklist', g, a)
    BY <1>1, Masked, Zenon
<1> QED
    BY <1>2, Zenon DEF MaskedTo

LEMMA MaskOthers ==
    ASSUME SelTyped, NEW g \in SelFds, NEW a \in {"read", "write", "none"},
           socklist' = set_select_event_mask(socklist, g, a)
    PROVE  socklist' \in Seq(SelElem) /\ ListedFds(socklist') = ListedFds(socklist)
           /\ \A f \in SelFds \ {g} : Follows(socklist, socklist', f)
<1>1. socklist \in Seq(SelElem)
    BY Zenon DEF SelTyped
<1>2. /\ socklist' \in Seq(SelElem) /\ ListedFds(socklist') = ListedFds(socklist)
      /\ \A f : PlacesOf(socklist', f) = PlacesOf(socklist, f)
      /\ \A i \in 1..Len(socklist) : socklist[i].fd # g => socklist'[i] = socklist[i]
    BY MaskedNow
<1>3. ASSUME NEW f \in SelFds \ {g} PROVE Follows(socklist, socklist', f)
  <2>1. \A i \in PlacesOf(socklist, f) : socklist'[i] = socklist[i]
      BY <1>2, Zenon DEF PlacesOf
  <2> QED
      BY <1>1, <1>2, <2>1, SamePlaces, Zenon
<1> QED
    BY <1>2, <1>3, ZenonT(60)

LEMMA MaskGood ==
    ASSUME SelTyped, NEW g \in SelFds, NEW a \in {"read", "write", "none"}, SelGood(g),
           socklist' = set_select_event_mask(socklist, g, a), DelBy(g)' = DelBy(g),
           sock[g] = "closed" \/ sock'[g] # "closed",
           g \notin sreused' =>
               /\ g \notin sreused /\ sock[g] # "closed"
               /\ a = "none" <=> HeldBy(g)' # {}
               /\ sock'[g] = "out" => a = "write"
               /\ \A v, w \in HeldBy(g)' : v = w
    PROVE  SelCounted(g)' /\ (g \notin sreused' => SelWatched(g)')
<1>1. socklist \in Seq(SelElem)
    BY ZenonT(60) DEF SelTyped
<1>2. PlacesOf(socklist', g) = PlacesOf(socklist, g) /\ \A i : PlacesOf(socklist, g) = {i} => socklist'[i].mask = a
    BY MaskedNow
<1>3. SelCounted(g)'
  <2>1. Cardinality(PlacesOf(socklist, g)) \in Nat /\ Cardinality(DelBy(g)) \in Nat
      BY <1>1, PlacesFinite, DelFinite, Zenon
  <2>2. Cardinality(PlacesOf(socklist', g)) = Cardinality(PlacesOf(socklist, g))
      BY <1>2, ZenonT(60)
  <2>3. CASE sock[g] = "closed"
    <3>1. Cardinality(PlacesOf(socklist, g)) <= 0 + Cardinality(DelBy(g))
        BY <2>3, ZenonT(60) DEF SelGood, SelCounted
    <3>2. Cardinality(PlacesOf(socklist, g)) <= 1 + Cardinality(DelBy(g))
        BY <3>1, <2>1, BoundSlack
    <3> QED
        BY <3>1, <3>2, <2>2, ZenonT(60) DEF SelCounted
  <2>4. CASE sock[g] # "closed" /\ sock'[g] # "closed"
      BY <2>2, <2>4, ZenonT(60) DEF SelGood, SelCounted
  <2> QED
      BY <2>3, <2>4, Zenon
<1>4. ASSUME g \notin sreused' PROVE SelWatched(g)'
  <2>1. PICK i \in PlacesOf(socklist, g) : PlacesOf(socklist, g) = {i}
      BY <1>4, Zenon DEF SelGood, SelWatched
  <2>2. DelBy(g) = {} /\ sock'[g] # "closed"
      BY <1>4, Zenon DEF SelGood, SelWatched
  <2>3. \E j \in PlacesOf(socklist', g) :
            /\ PlacesOf(socklist', g) = {j}
            /\ (socklist'[j].mask = "none") <=> (HeldBy(g)' # {})
            /\ sock'[g] = "out" => socklist'[j].mask = "write"
      BY <2>1, <1>2, <1>4, Zenon
  <2> QED
      BY <2>2, <2>3, <1>4, Zenon DEF SelWatched
<1> QED
    BY <1>3, <1>4, Zenon

\* A worker stops holding a socket or begins to.
LEMMA HeldLess ==
    ASSUME NEW w \in SelWorkers, NEW g, \A v \in SelWorkers \ {w} : swork'[v] = swork[v],
           swork'[w] # [pc |-> "run", fd |-> g]
    PROVE  HeldBy(g)' = HeldBy(g) \ {w}
<1>1. \A v \in SelWorkers : swork'[v] = [pc |-> "run", fd |-> g] <=> swork[v] = [pc |-> "run", fd |-> g] /\ v # w
    BY Zenon
<1> QED
    BY <1>1, Zenon DEF HeldBy

LEMMA HeldMore ==
    ASSUME NEW w \in SelWorkers, NEW g, \A v \in SelWorkers \ {w} : swork'[v] = swork[v],
           swork'[w] = [pc |-> "run", fd |-> g]
    PROVE  HeldBy(g)' = HeldBy(g) \cup {w}
<1>1. \A v \in SelWorkers : swork'[v] = [pc |-> "run", fd |-> g] <=> swork[v] = [pc |-> "run", fd |-> g] \/ v = w
    BY Zenon
<1> QED
    BY <1>1, Zenon DEF HeldBy

LEMMA CleanupCloseInv ==
    ASSUME SelInv, NEW g \in SelFds, CleanupClose(g), UNCHANGED <<spc, fdsets>>, si' = si + 1
    PROVE  SelInv'
<1>1. /\ SelTyped /\ socklist \in Seq(SelElem) /\ List(DelFrom(socklist, g)) /\ UNCHANGED sreused
      /\ sock' = [sock EXCEPT ![g] = "closed"]
      /\ swork' = [w \in SelWorkers |-> IF swork[w] = [pc |-> "run", fd |-> g] THEN [pc |-> "run", fd |-> 0] ELSE swork[w]]
    BY Zenon DEF SelInv, SelTyped, CleanupClose
<1>2. socklist' = DelFrom(socklist, g) /\ socklist' \in Seq(SelElem) /\ MaxFdCovers'
    BY <1>1, Deleted, Listed, Zenon
<1>3. /\ sock' \in [SelFds -> {"closed", "quiet", "data", "out"}]
      /\ sock'[g] = "closed" /\ \A f \in SelFds \ {g} : sock'[f] = sock[f]
    BY <1>1, SockSet, Zenon
<1>4. g # 0
    BY SelFdsNat, Zenon
<1>5. ASSUME NEW w \in SelWorkers
      PROVE  /\ swork'[w] # [pc |-> "run", fd |-> g]
             /\ swork'[w] = swork[w] \/ (swork[w] = [pc |-> "run", fd |-> g] /\ swork'[w] = [pc |-> "run", fd |-> 0])
  <2>1. [pc |-> "run", fd |-> g] # [pc |-> "run", fd |-> 0]
      BY <1>4
  <2> QED
      BY <1>1, <2>1, Zenon
<1>6. /\ swork' \in [SelWorkers -> [pc : {"idle", "run", "del"}, fd : SelFds \cup {0}]]
      /\ \A w \in SelWorkers : swork'[w].pc = "del" => swork'[w].fd # 0
  <2> DEFINE E == [pc : {"idle", "run", "del"}, fd : SelFds \cup {0}]
             e == [pc |-> "run", fd |-> 0]
  <2>1. e \in E /\ e.pc # "del"
      OBVIOUS
  <2>2. \A w \in SelWorkers : swork[w] \in E
      BY <1>1, Zenon DEF SelTyped
  <2> HIDE DEF E
  <2>3. \A w \in SelWorkers : swork'[w] \in E
      BY <1>5, <2>1, <2>2, Zenon
  <2>4. swork' \in [SelWorkers -> E]
    <3> DEFINE V(w) == IF swork[w] = [pc |-> "run", fd |-> g] THEN [pc |-> "run", fd |-> 0] ELSE swork[w]
    <3>1. swork' = [w \in SelWorkers |-> V(w)]
        BY <1>1, Zenon
    <3> HIDE DEF V
    <3> QED
        BY <3>1, <2>3
  <2>5. \A w \in SelWorkers : swork'[w].pc = "del" => swork'[w].fd # 0
    <3> HIDE DEF e
    <3>1. \A w \in SelWorkers : swork'[w] = swork[w] \/ swork'[w] = e
        BY <1>5, Zenon DEF e
    <3> QED
        BY <3>1, <2>1, <1>1, Zenon DEF SelTyped
  <2> QED
      BY <2>4, <2>5, Zenon DEF E
<1>7. SelTyped'
  <2>1. si' \in Nat \ {0}
      BY <1>1 DEF SelTyped
  <2> QED
      BY <2>1, <1>2, <1>3, <1>6, ZenonT(60) DEF SelTyped
<1>8. ASSUME NEW f \in SelFds PROVE DelBy(f)' = DelBy(f) /\ (f # g => HeldBy(f)' = HeldBy(f)) /\ HeldBy(g)' = {}
  <2>1. ASSUME NEW h PROVE [pc |-> "del", fd |-> f] # [pc |-> "run", fd |-> h]
      OBVIOUS
  <2>2. f # 0 /\ [pc |-> "run", fd |-> f] # [pc |-> "run", fd |-> 0] /\ (f # g => [pc |-> "run", fd |-> f] # [pc |-> "run", fd |-> g])
      BY SelFdsNat
  <2>3. \A w \in SelWorkers : swork'[w] = [pc |-> "del", fd |-> f] <=> swork[w] = [pc |-> "del", fd |-> f]
      BY <1>5, <2>1, Zenon
  <2>4. f # g => \A w \in SelWorkers : swork'[w] = [pc |-> "run", fd |-> f] <=> swork[w] = [pc |-> "run", fd |-> f]
      BY <1>5, <2>2, Zenon
  <2> QED
      BY <1>5, <2>3, <2>4, ZenonT(60) DEF DelBy, HeldBy
<1>9. SelGood(g)'
    BY <1>1, <1>2, <1>3, <1>7, <1>8, Removal, Zenon DEF SelInv
<1>10. ASSUME NEW f \in SelFds \ {g} PROVE SelGood(f)'
  <2>1. Follows(socklist, socklist', f) /\ SelGood(f) /\ sock'[f] = sock[f] /\ sreused \subseteq sreused'
      BY <1>1, <1>2, <1>3, Deleted, Zenon DEF SelInv
  <2>2. HeldBy(f)' = HeldBy(f) /\ DelBy(f)' = DelBy(f)
      BY <1>8, <1>10, Zenon
  <2> QED
      BY <2>1, <2>2, <1>1, <1>7, GoodKept, Zenon
<1> QED
    BY <1>2, <1>7, <1>9, <1>10, Zenon DEF SelInv

\* A step of a worker, or of the event thread on behalf of one, that sets a mask.
LEMMA MaskInv ==
    ASSUME SelInv, SelTyped', NEW g \in SelFds, NEW a \in {"read", "write", "none"},
           socklist' = set_select_event_mask(socklist, g, a),
           UNCHANGED <<maxfd_plus_one, spc, fdsets, sreused>>, si' = si \/ si' = si + 1,
           \A f \in SelFds \ {g} : sock'[f] = sock[f] /\ HeldBy(f)' = HeldBy(f) /\ DelBy(f)' = DelBy(f),
           DelBy(g)' = DelBy(g), sock[g] = "closed" \/ sock'[g] # "closed",
           g \notin sreused =>
               /\ sock[g] # "closed"
               /\ a = "none" <=> HeldBy(g)' # {}
               /\ sock'[g] = "out" => a = "write"
               /\ \A v, w \in HeldBy(g)' : v = w
               /\ SelFresh(g)'
    PROVE  SelInv'
<1>1. SelTyped /\ SelGood(g)
    BY Zenon DEF SelInv
<1>2. ListedFds(socklist') = ListedFds(socklist) /\ \A f \in SelFds \ {g} : Follows(socklist, socklist', f)
    BY <1>1, MaskOthers, Zenon
<1>3. MaxFdCovers'
    BY <1>2, Zenon DEF SelInv, MaxFdCovers
<1>4. SelGood(g)'
  <2>1. SelCounted(g)' /\ (g \notin sreused' => SelWatched(g)')
      BY <1>1, MaskGood, Zenon
  <2> QED
      BY <2>1, Zenon DEF SelGood
<1>5. ASSUME NEW f \in SelFds \ {g} PROVE SelGood(f)'
  <2>1. SelGood(f) /\ sreused \subseteq sreused'
      BY Zenon DEF SelInv
  <2> QED
      BY <2>1, <1>1, <1>2, GoodKept, Zenon
<1> QED
    BY <1>3, <1>4, <1>5, Zenon DEF SelInv

\* No worker has a socket that the event thread may serve.
LEMMA ServedFree ==
    ASSUME SelInv, spc = "dispatch", NEW g \in SelFds, si \in PlacesOf(socklist, g), g \notin sreused,
           sock[g] # "closed", g \in fdsets.r \/ sock[g] = "out"
    PROVE  HeldBy(g) = {} /\ PlacesOf(socklist, g) = {si}
<1>1. PICK i \in PlacesOf(socklist, g) :
        /\ PlacesOf(socklist, g) = {i}
        /\ (socklist[i].mask = "none") <=> (HeldBy(g) # {})
        /\ sock[g] = "out" => socklist[i].mask = "write"
    BY Zenon DEF SelInv, SelGood, SelWatched
<1>2. CASE g \in fdsets.r
  <2>1. si >= si
      BY DEF SelInv, SelTyped
  <2> QED
      BY <1>1, <1>2, <2>1, Zenon DEF SelInv, SelGood, SelFresh
<1>3. CASE sock[g] = "out"
  <2>1. "write" # "none"
      OBVIOUS
  <2> QED
      BY <1>1, <1>3, <2>1, ZenonT(60)
<1> QED
    BY <1>2, <1>3

LEMMA DispatchMaskInv ==
    ASSUME SelInv, spc = "dispatch", NEW g \in SelFds, si \in PlacesOf(socklist, g), sock[g] # "closed",
           g \in fdsets.r \/ sock[g] = "out", NEW m \in {"read", "write"}, NEW to \in {"quiet", "out"},
           to = "out" => m = "write", Mask(g, m, to), UNCHANGED <<spc, fdsets>>, si' = si + 1
    PROVE  SelInv'
<1>1. /\ SelTyped /\ socklist' = set_select_event_mask(socklist, g, m) /\ sock' = [sock EXCEPT ![g] = to]
      /\ UNCHANGED <<maxfd_plus_one, swork, sreused>>
    BY Zenon DEF Mask, SelInv
<1>2. m \in {"read", "write", "none"} /\ m # "none" /\ to # "closed" /\ to \in {"closed", "quiet", "data", "out"}
    OBVIOUS
<1>3. /\ sock' \in [SelFds -> {"closed", "quiet", "data", "out"}]
      /\ sock'[g] = to /\ \A f \in SelFds \ {g} : sock'[f] = sock[f]
    BY <1>1, <1>2, SockSet, Zenon
<1>4. \A f : HeldBy(f)' = HeldBy(f) /\ DelBy(f)' = DelBy(f)
    BY <1>1, Zenon DEF HeldBy, DelBy
<1>5. SelTyped'
  <2>1. socklist' \in Seq(SelElem)
      BY <1>1, <1>2, MaskOthers, ZenonT(60)
  <2>2. si' \in Nat \ {0}
      BY <1>1 DEF SelTyped
  <2> QED
      BY <2>1, <2>2, <1>1, <1>3, Zenon DEF SelTyped
<1>6. g \notin sreused => HeldBy(g)' = {} /\ SelFresh(g)'
    BY ServedFree, <1>4, Zenon DEF SelFresh
<1>7. /\ \A f \in SelFds \ {g} : sock'[f] = sock[f] /\ HeldBy(f)' = HeldBy(f) /\ DelBy(f)' = DelBy(f)
      /\ DelBy(g)' = DelBy(g) /\ sock'[g] # "closed" /\ (sock'[g] = "out" => m = "write")
    BY <1>2, <1>3, <1>4, Zenon
<1> QED
    BY <1>1, <1>2, <1>5, <1>6, <1>7, MaskInv, Zenon

LEMMA HandOverInv ==
    ASSUME SelInv, spc = "dispatch", NEW g \in SelFds, si \in PlacesOf(socklist, g), sock[g] # "closed",
           g \in fdsets.r, HandOver(g), UNCHANGED <<spc, fdsets>>, si' = si + 1
    PROVE  SelInv'
<1>1. PICK w \in SelWorkers :
        /\ swork[w].pc = "idle"
        /\ socklist' = set_select_event_mask(socklist, g, "none")
        /\ swork' = [swork EXCEPT ![w] = [pc |-> "run", fd |-> g]]
        /\ sock' = [sock EXCEPT ![g] = "quiet"]
        /\ UNCHANGED <<maxfd_plus_one, sreused>>
    BY Zenon DEF HandOver
<1>2. SelTyped
    BY Zenon DEF SelInv
<1>3. /\ sock' \in [SelFds -> {"closed", "quiet", "data", "out"}]
      /\ sock'[g] = "quiet" /\ \A f \in SelFds \ {g} : sock'[f] = sock[f]
    BY <1>1, <1>2, SockSet, Zenon
<1>4. /\ swork' \in [SelWorkers -> [pc : {"idle", "run", "del"}, fd : SelFds \cup {0}]]
      /\ \A v \in SelWorkers : swork'[v].pc = "del" => swork'[v].fd # 0
      /\ swork'[w] = [pc |-> "run", fd |-> g] /\ \A v \in SelWorkers \ {w} : swork'[v] = swork[v]
  <2>1. "run" \in {"idle", "run", "del"} /\ g \in SelFds \cup {0} /\ "run" # "del"
      OBVIOUS
  <2> QED
      BY <1>1, <1>2, <2>1, WorkSet, ZenonT(60)
<1>5. SelTyped'
  <2>1. socklist' \in Seq(SelElem)
      BY <1>1, <1>2, MaskOthers, ZenonT(60)
  <2>2. si' \in Nat \ {0}
      BY <1>2 DEF SelTyped
  <2> QED
      BY <2>1, <2>2, <1>3, <1>4, Zenon DEF SelTyped
<1>6. ASSUME NEW f \in SelFds PROVE DelBy(f)' = DelBy(f) /\ (f # g => HeldBy(f)' = HeldBy(f))
  <2>1. /\ swork[w] # [pc |-> "run", fd |-> f] /\ swork[w] # [pc |-> "del", fd |-> f]
        /\ swork'[w] # [pc |-> "del", fd |-> f] /\ (f # g => swork'[w] # [pc |-> "run", fd |-> f])
      BY <1>1, <1>4
  <2>2. \A v \in SelWorkers : swork'[v] = [pc |-> "del", fd |-> f] <=> swork[v] = [pc |-> "del", fd |-> f]
      BY <1>4, <2>1, Zenon
  <2> QED
      BY <1>4, <2>1, <2>2, OtherWork, ZenonT(60) DEF DelBy
<1>7. HeldBy(g)' = HeldBy(g) \cup {w}
    BY <1>4, HeldMore, Zenon
<1>8. ASSUME g \notin sreused PROVE HeldBy(g)' = {w} /\ SelFresh(g)'
  <2>1. HeldBy(g) = {} /\ PlacesOf(socklist, g) = {si}
      BY <1>8, ServedFree, Zenon
  <2>2. PlacesOf(socklist', g) = {si}
      BY <1>1, <1>2, <2>1, MaskedNow, ZenonT(60)
  <2>3. ~(si >= si')
      BY <1>2 DEF SelTyped
  <2>4. SelFresh(g)'
    <3>1. \A i \in PlacesOf(socklist', g) : ~(i >= si')
        BY <2>2, <2>3, Zenon
    <3>2. spc' = "dispatch" /\ "dispatch" \notin {"select", "accept"}
        OBVIOUS
    <3> QED
        BY <3>1, <3>2, Zenon DEF SelFresh
  <2> QED
      BY <2>1, <2>4, <1>7, Zenon
<1>9. /\ \A f \in SelFds \ {g} : sock'[f] = sock[f] /\ HeldBy(f)' = HeldBy(f) /\ DelBy(f)' = DelBy(f)
      /\ DelBy(g)' = DelBy(g) /\ sock'[g] # "closed" /\ sock'[g] # "out"
    BY <1>3, <1>6
<1>10. g \notin sreused =>
        /\ sock[g] # "closed" /\ HeldBy(g)' # {} /\ SelFresh(g)' /\ \A u, v \in HeldBy(g)' : u = v
    BY <1>8, ZenonT(60)
<1> QED
    BY <1>1, <1>5, <1>9, <1>10, MaskInv, Zenon

LEMMA DispatchInv == ASSUME SelInv, SelDispatch PROVE SelInv'
<1>1. SelTyped /\ spc = "dispatch" /\ si <= Len(socklist) /\ si' = si + 1 /\ UNCHANGED <<spc, fdsets>>
      /\ socklist \in Seq(SelElem) /\ si \in Nat \ {0}
    BY Zenon DEF SelDispatch, SelInv, SelTyped
<1>2. PICK g \in SelFds : g = socklist[si].fd /\ si \in PlacesOf(socklist, g)
  <2>1. si \in 1..Len(socklist)
      BY <1>1
  <2>2. socklist[si] \in SelElem
      BY <1>1, <2>1
  <2>3. socklist[si].fd \in SelFds
      BY <2>2 DEF SelElem
  <2> QED
      BY <2>1, <2>3, Zenon DEF PlacesOf
<1>3. DispatchStep(g)
    BY <1>2, Zenon DEF SelDispatch
<1>4. \/ CleanupClose(g)
      \/ sock[g] # "closed" /\ (g \in fdsets.r \/ sock[g] = "out") /\ (Mask(g, "read", "quiet") \/ Mask(g, "write", "out"))
      \/ sock[g] # "closed" /\ g \in fdsets.r /\ HandOver(g)
      \/ UNCHANGED <<socklist, maxfd_plus_one, sock, swork, sreused>>
    BY <1>3 DEF DispatchStep
<1>5. CASE CleanupClose(g)
    BY <1>1, <1>5, CleanupCloseInv, ZenonT(60)
<1>6. CASE sock[g] # "closed" /\ (g \in fdsets.r \/ sock[g] = "out") /\ (Mask(g, "read", "quiet") \/ Mask(g, "write", "out"))
  <2>1. "read" \in {"read", "write"} /\ "write" \in {"read", "write"} /\ "quiet" \in {"quiet", "out"}
        /\ "out" \in {"quiet", "out"} /\ "quiet" # "out"
      OBVIOUS
  <2>2. CASE Mask(g, "read", "quiet")
      BY <1>1, <1>2, <1>6, <2>1, <2>2, DispatchMaskInv, Zenon
  <2>3. CASE Mask(g, "write", "out")
      BY <1>1, <1>2, <1>6, <2>1, <2>3, DispatchMaskInv, ZenonT(60)
  <2> QED
      BY <1>6, <2>2, <2>3
<1>7. CASE sock[g] # "closed" /\ g \in fdsets.r /\ HandOver(g)
    BY <1>1, <1>2, <1>7, HandOverInv, Zenon
<1>8. CASE UNCHANGED <<socklist, maxfd_plus_one, sock, swork, sreused>>
  <2>1. SelTyped'
    <3>1. si' \in Nat \ {0}
        BY <1>1
    <3> QED
        BY <3>1, <1>1, <1>8, Zenon DEF SelTyped
  <2>2. ASSUME NEW f \in SelFds PROVE SelGood(f)'
    <3>1. HeldBy(f)' = HeldBy(f) /\ DelBy(f)' = DelBy(f) /\ SelGood(f) /\ sreused \subseteq sreused' /\ sock'[f] = sock[f]
        BY <1>8, Zenon DEF HeldBy, DelBy, SelInv
    <3>2. Follows(socklist, socklist', f)
        BY <1>1, <1>8, FollowsSelf, Zenon
    <3> QED
        BY <3>1, <3>2, <2>1, <1>1, GoodKept, ZenonT(60)
  <2> QED
      BY <2>1, <2>2, <1>8, Zenon DEF SelInv, MaxFdCovers
<1> QED
    BY <1>4, <1>5, <1>6, <1>7, <1>8

LEMMA WorkerMaskInv == ASSUME SelInv, NEW w \in SelWorkers, SelWorkerMask(w) PROVE SelInv'
<1>1. PICK m \in {"read", "write"} :
        /\ socklist' = set_select_event_mask(socklist, swork[w].fd, m)
        /\ sock' = [sock EXCEPT ![swork[w].fd] = IF m = "write" THEN "out" ELSE @]
    BY Zenon DEF SelWorkerMask
<1>2. SelTyped /\ swork[w].pc = "run" /\ swork[w].fd # 0 /\ swork' = [swork EXCEPT ![w] = [pc |-> "idle", fd |-> 0]]
      /\ UNCHANGED <<maxfd_plus_one, spc, fdsets, si, sreused>>
    BY Zenon DEF SelInv, SelWorkerMask
<1>3. PICK g \in SelFds : g = swork[w].fd /\ swork[w] = [pc |-> "run", fd |-> g]
    BY <1>2, WorkOf, Zenon
<1>4. m \in {"read", "write", "none"} /\ m # "none" /\ "out" \in {"closed", "quiet", "data", "out"} /\ "out" # "closed"
    OBVIOUS
<1>5. /\ sock' \in [SelFds -> {"closed", "quiet", "data", "out"}]
      /\ sock'[g] = (IF m = "write" THEN "out" ELSE sock[g]) /\ \A f \in SelFds \ {g} : sock'[f] = sock[f]
  <2> DEFINE v == IF m = "write" THEN "out" ELSE sock[g]
  <2>1. sock[g] \in {"closed", "quiet", "data", "out"}
      BY <1>2, Zenon DEF SelTyped
  <2>2. v \in {"closed", "quiet", "data", "out"}
      BY <2>1, <1>4, Zenon
  <2>3. sock' = [sock EXCEPT ![g] = v]
      BY <1>1, <1>3, Zenon
  <2> HIDE DEF v
  <2>4. /\ sock' \in [SelFds -> {"closed", "quiet", "data", "out"}]
        /\ sock'[g] = v /\ \A f \in SelFds \ {g} : sock'[f] = sock[f]
      BY <1>2, <2>2, <2>3, SockSet, Zenon
  <2> QED
      BY <2>4, Zenon DEF v
<1>6. /\ swork' \in [SelWorkers -> [pc : {"idle", "run", "del"}, fd : SelFds \cup {0}]]
      /\ \A v \in SelWorkers : swork'[v].pc = "del" => swork'[v].fd # 0
      /\ swork'[w] = [pc |-> "idle", fd |-> 0] /\ \A v \in SelWorkers \ {w} : swork'[v] = swork[v]
  <2>1. "idle" \in {"idle", "run", "del"} /\ 0 \in SelFds \cup {0} /\ "idle" # "del"
      OBVIOUS
  <2> QED
      BY <1>2, <2>1, WorkSet, Zenon
<1>7. SelTyped' /\ socklist' = set_select_event_mask(socklist, g, m)
  <2>1. socklist' \in Seq(SelElem) /\ socklist' = set_select_event_mask(socklist, g, m)
      BY <1>1, <1>2, <1>3, <1>4, MaskOthers, ZenonT(60)
  <2> QED
      BY <2>1, <1>2, <1>5, <1>6, Zenon DEF SelTyped
<1>8. ASSUME NEW f \in SelFds PROVE DelBy(f)' = DelBy(f) /\ (f # g => HeldBy(f)' = HeldBy(f))
  <2>1. /\ swork'[w] # [pc |-> "run", fd |-> f] /\ swork[w] # [pc |-> "del", fd |-> f]
        /\ swork'[w] # [pc |-> "del", fd |-> f] /\ (f # g => swork[w] # [pc |-> "run", fd |-> f])
      BY <1>3, <1>6
  <2>2. \A v \in SelWorkers : swork'[v] = [pc |-> "del", fd |-> f] <=> swork[v] = [pc |-> "del", fd |-> f]
      BY <1>6, <2>1, Zenon
  <2> QED
      BY <1>6, <2>1, <2>2, OtherWork, ZenonT(60) DEF DelBy
<1>9. HeldBy(g)' = HeldBy(g) \ {w}
  <2>1. swork'[w] # [pc |-> "run", fd |-> g]
      BY <1>6
  <2> QED
      BY <2>1, <1>6, HeldLess, ZenonT(60)
<1>10. ASSUME g \notin sreused
       PROVE  sock[g] # "closed" /\ HeldBy(g)' = {} /\ SelFresh(g)' /\ (sock'[g] = "out" => m = "write")
  <2>1. w \in HeldBy(g) /\ SelWatched(g)
      BY <1>3, <1>10, Zenon DEF HeldBy, SelInv, SelGood
  <2>2. sock[g] # "closed" /\ HeldBy(g)' = {}
      BY <2>1, <1>9, ZenonT(60) DEF SelWatched
  <2>3. sock[g] # "out"
    <3>1. \E i : socklist[i].mask = "none" /\ (sock[g] = "out" => socklist[i].mask = "write")
        BY <2>1, <2>2, Zenon DEF SelWatched
    <3> QED
        BY <3>1
  <2> QED
      BY <2>2, <2>3, <1>5, Zenon DEF SelFresh
<1>11. /\ \A f \in SelFds \ {g} : sock'[f] = sock[f] /\ HeldBy(f)' = HeldBy(f) /\ DelBy(f)' = DelBy(f)
       /\ DelBy(g)' = DelBy(g) /\ (sock[g] = "closed" \/ sock'[g] # "closed")
    BY <1>4, <1>5, <1>8, ZenonT(60)
<1> QED
    BY <1>2, <1>4, <1>7, <1>10, <1>11, MaskInv, ZenonT(60)

LEMMA WorkerCloseInv == ASSUME SelInv, NEW w \in SelWorkers, SelWorkerClose(w) PROVE SelInv'
<1>1. SelTyped /\ swork[w].pc = "run" /\ UNCHANGED <<socklist, maxfd_plus_one, spc, fdsets, si, sreused>>
      /\ socklist \in Seq(SelElem)
    BY Zenon DEF SelInv, SelTyped, SelWorkerClose
<1>2. ASSUME NEW f \in SelFds PROVE SelGood(f) /\ Follows(socklist, socklist', f) /\ sreused \subseteq sreused' /\ f # 0
    BY <1>1, FollowsSelf, SelFdsNat, Zenon DEF SelInv
<1>3. MaxFdCovers'
    BY <1>1, Zenon DEF SelInv, MaxFdCovers
<1>4. CASE swork[w].fd = 0
  <2>1. UNCHANGED sock /\ swork' = [swork EXCEPT ![w] = [pc |-> "idle", fd |-> 0]] /\ swork[w] = [pc |-> "run", fd |-> 0]
    <3>1. UNCHANGED sock /\ swork' = [swork EXCEPT ![w].pc = "idle"]
        BY <1>4, Zenon DEF SelWorkerClose
    <3>2. swork[w] = [pc |-> "run", fd |-> 0]
        BY <1>1, <1>4, WorkOf, Zenon
    <3>3. swork' = [swork EXCEPT ![w] = [swork[w] EXCEPT !.pc = "idle"]]
        BY <3>1
    <3>4. [swork[w] EXCEPT !.pc = "idle"] = [pc |-> "idle", fd |-> 0]
        BY <3>2
    <3> QED
        BY <3>1, <3>2, <3>3, <3>4, Zenon
  <2>2. /\ swork' \in [SelWorkers -> [pc : {"idle", "run", "del"}, fd : SelFds \cup {0}]]
        /\ \A v \in SelWorkers : swork'[v].pc = "del" => swork'[v].fd # 0
        /\ swork'[w] = [pc |-> "idle", fd |-> 0] /\ \A v \in SelWorkers \ {w} : swork'[v] = swork[v]
    <3>1. "idle" \in {"idle", "run", "del"} /\ 0 \in SelFds \cup {0} /\ "idle" # "del"
        OBVIOUS
    <3> QED
        BY <1>1, <2>1, <3>1, WorkSet, Zenon
  <2>3. SelTyped'
      BY <1>1, <2>1, <2>2, Zenon DEF SelTyped
  <2>4. ASSUME NEW f \in SelFds PROVE SelGood(f)'
    <3>1. /\ swork'[w] # [pc |-> "run", fd |-> f] /\ swork[w] # [pc |-> "del", fd |-> f]
          /\ swork'[w] # [pc |-> "del", fd |-> f] /\ swork[w] # [pc |-> "run", fd |-> f]
        BY <1>2, <2>1, <2>2
    <3>2. HeldBy(f)' = HeldBy(f) /\ DelBy(f)' = DelBy(f)
        BY <3>1, <2>2, OtherWork, Zenon
    <3>3. sock'[f] = sock[f] /\ si' = si /\ UNCHANGED <<spc, fdsets>>
        BY <1>1, <2>1, Zenon
    <3> QED
        BY <3>2, <3>3, <1>1, <1>2, <2>3, GoodKept, ZenonT(60)
  <2> QED
      BY <1>3, <2>3, <2>4, Zenon DEF SelInv
<1>5. CASE swork[w].fd # 0
  <2>1. PICK g \in SelFds : g = swork[w].fd /\ swork[w] = [pc |-> "run", fd |-> g]
      BY <1>1, <1>5, WorkOf, Zenon
  <2>2. sock' = [sock EXCEPT ![g] = "closed"] /\ swork' = [swork EXCEPT ![w] = [pc |-> "del", fd |-> g]]
    <3>1. sock' = [sock EXCEPT ![g] = "closed"] /\ swork' = [swork EXCEPT ![w].pc = "del"]
        BY <1>5, <2>1, Zenon DEF SelWorkerClose
    <3>3. swork' = [swork EXCEPT ![w] = [swork[w] EXCEPT !.pc = "del"]]
        BY <3>1
    <3>4. [swork[w] EXCEPT !.pc = "del"] = [pc |-> "del", fd |-> g]
        BY <2>1
    <3> QED
        BY <3>1, <3>3, <3>4, Zenon
  <2>3. /\ swork' \in [SelWorkers -> [pc : {"idle", "run", "del"}, fd : SelFds \cup {0}]]
        /\ \A v \in SelWorkers : swork'[v].pc = "del" => swork'[v].fd # 0
        /\ swork'[w] = [pc |-> "del", fd |-> g] /\ \A v \in SelWorkers \ {w} : swork'[v] = swork[v]
    <3>1. "del" \in {"idle", "run", "del"} /\ g \in SelFds \cup {0} /\ g # 0
        BY <1>2
    <3> QED
        BY <1>1, <2>2, <3>1, WorkSet, Zenon
  <2>4. /\ sock' \in [SelFds -> {"closed", "quiet", "data", "out"}]
        /\ sock'[g] = "closed" /\ \A f \in SelFds \ {g} : sock'[f] = sock[f]
      BY <1>1, <2>2, SockSet, Zenon
  <2>5. SelTyped'
      BY <1>1, <2>3, <2>4, Zenon DEF SelTyped
  <2>6. ASSUME NEW f \in SelFds \ {g} PROVE SelGood(f)'
    <3>1. /\ swork'[w] # [pc |-> "run", fd |-> f] /\ swork[w] # [pc |-> "del", fd |-> f]
          /\ swork'[w] # [pc |-> "del", fd |-> f] /\ swork[w] # [pc |-> "run", fd |-> f]
        BY <2>1, <2>3
    <3>2. HeldBy(f)' = HeldBy(f) /\ DelBy(f)' = DelBy(f)
        BY <3>1, <2>3, OtherWork, Zenon
    <3>3. sock'[f] = sock[f] /\ si' = si /\ UNCHANGED <<spc, fdsets>>
        BY <1>1, <2>4, Zenon
    <3> QED
        BY <3>2, <3>3, <1>1, <1>2, <2>5, GoodKept, ZenonT(60)
  <2>7. w \in HeldBy(g) /\ w \notin DelBy(g) /\ HeldBy(g)' = HeldBy(g) \ {w} /\ DelBy(g)' = DelBy(g) \cup {w}
    <3>1. swork'[w] # [pc |-> "run", fd |-> g] /\ swork[w] # [pc |-> "del", fd |-> g]
        BY <2>1, <2>3
    <3>2. \A v \in SelWorkers : swork'[v] = [pc |-> "del", fd |-> g] <=> swork[v] = [pc |-> "del", fd |-> g] \/ v = w
        BY <2>3, Zenon
    <3>3. HeldBy(g)' = HeldBy(g) \ {w}
        BY <3>1, <2>3, HeldLess, Zenon
    <3>4. DelBy(g)' = DelBy(g) \cup {w}
        BY <3>2, Zenon DEF DelBy
    <3> QED
        BY <3>1, <3>3, <3>4, <2>1, ZenonT(60) DEF HeldBy, DelBy
  <2>8. SelCounted(g)'
    <3>1. IsFiniteSet(DelBy(g)) /\ Cardinality(DelBy(g)) \in Nat /\ Cardinality(PlacesOf(socklist, g)) \in Nat
        BY <1>1, DelFinite, PlacesFinite, Zenon
    <3>2. Cardinality(DelBy(g)') = Cardinality(DelBy(g)) + 1
        BY <2>7, <3>1, FS_AddElement, Zenon
    <3>3. Cardinality(PlacesOf(socklist, g)) <= 1 + Cardinality(DelBy(g))
        BY <1>2, <3>1 DEF SelGood, SelCounted
    <3>4. PlacesOf(socklist', g) = PlacesOf(socklist, g)
        BY <1>1, Zenon
    <3> QED
        BY <3>1, <3>2, <3>3, <3>4, <2>4 DEF SelCounted
  <2>9. ASSUME g \notin sreused' PROVE SelWatched(g)' /\ SelFresh(g)'
    <3>0. \A u, v \in HeldBy(g) : u = v
        BY <1>1, <1>2, <2>9, Zenon DEF SelGood, SelWatched
    <3>1. HeldBy(g)' = {}
        BY <3>0, <2>7, Zenon
    <3> QED
        BY <3>1, <2>4, Zenon DEF SelWatched, SelFresh
  <2>10. SelGood(g)'
      BY <2>8, <2>9, Zenon DEF SelGood
  <2> QED
      BY <1>3, <2>5, <2>6, <2>10, Zenon DEF SelInv
<1> QED
    BY <1>4, <1>5

LEMMA WorkerDelInv == ASSUME SelInv, NEW w \in SelWorkers, SelWorkerDel(w) PROVE SelInv'
<1>1. SelTyped /\ swork[w].pc = "del" /\ UNCHANGED <<sock, spc, fdsets, si, sreused>> /\ socklist \in Seq(SelElem)
      /\ List(DelFrom(socklist, swork[w].fd)) /\ swork' = [swork EXCEPT ![w] = [pc |-> "idle", fd |-> 0]]
    BY Zenon DEF SelInv, SelTyped, SelWorkerDel
<1>2. PICK g \in SelFds : g = swork[w].fd /\ swork[w] = [pc |-> "del", fd |-> g]
  <2>1. swork[w].fd # 0
      BY <1>1, Zenon DEF SelTyped
  <2> QED
      BY <1>1, <2>1, WorkOf, Zenon
<1>3. socklist' = DelFrom(socklist, g) /\ socklist' \in Seq(SelElem) /\ MaxFdCovers'
  <2>1. List(DelFrom(socklist, g))
      BY <1>1, <1>2, Zenon
  <2> QED
      BY <2>1, <1>1, Deleted, Listed, Zenon
<1>4. /\ swork' \in [SelWorkers -> [pc : {"idle", "run", "del"}, fd : SelFds \cup {0}]]
      /\ \A v \in SelWorkers : swork'[v].pc = "del" => swork'[v].fd # 0
      /\ swork'[w] = [pc |-> "idle", fd |-> 0] /\ \A v \in SelWorkers \ {w} : swork'[v] = swork[v]
  <2>1. "idle" \in {"idle", "run", "del"} /\ 0 \in SelFds \cup {0} /\ "idle" # "del"
      OBVIOUS
  <2> QED
      BY <1>1, <2>1, WorkSet, Zenon
<1>5. SelTyped'
    BY <1>1, <1>3, <1>4, Zenon DEF SelTyped
<1>6. ASSUME NEW f \in SelFds \ {g} PROVE SelGood(f)'
  <2>1. /\ swork'[w] # [pc |-> "run", fd |-> f] /\ swork[w] # [pc |-> "del", fd |-> f]
        /\ swork'[w] # [pc |-> "del", fd |-> f] /\ swork[w] # [pc |-> "run", fd |-> f]
      BY <1>2, <1>4
  <2>2. HeldBy(f)' = HeldBy(f) /\ DelBy(f)' = DelBy(f)
      BY <2>1, <1>4, OtherWork, Zenon
  <2>3. Follows(socklist, socklist', f) /\ SelGood(f)
      BY <1>1, <1>3, Deleted, Zenon DEF SelInv
  <2>4. sock'[f] = sock[f] /\ si' = si /\ UNCHANGED <<spc, fdsets>> /\ sreused \subseteq sreused'
      BY <1>1, Zenon
  <2> QED
      BY <2>2, <2>3, <2>4, <1>1, <1>5, GoodKept, ZenonT(60)
<1>7. w \in DelBy(g) /\ HeldBy(g)' = HeldBy(g) /\ DelBy(g)' = DelBy(g) \ {w}
  <2>1. /\ swork'[w] # [pc |-> "run", fd |-> g] /\ swork'[w] # [pc |-> "del", fd |-> g]
        /\ swork[w] # [pc |-> "run", fd |-> g]
      BY <1>2, <1>4
  <2>2. \A v \in SelWorkers : swork'[v] = [pc |-> "run", fd |-> g] <=> swork[v] = [pc |-> "run", fd |-> g]
      BY <1>4, <2>1, Zenon
  <2>3. \A v \in SelWorkers : swork'[v] = [pc |-> "del", fd |-> g] <=> swork[v] = [pc |-> "del", fd |-> g] /\ v # w
      BY <1>4, <2>1, Zenon
  <2> QED
      BY <1>2, <2>2, <2>3, ZenonT(60) DEF HeldBy, DelBy
<1>8. Cardinality(DelBy(g)') = Cardinality(DelBy(g)) - 1
  <2>1. IsFiniteSet(DelBy(g))
      BY DelFinite, Zenon
  <2> QED
      BY <1>7, <2>1, FS_RemoveElement, Zenon
<1>9. SelCounted(g)'
  <2>1. \/ PlacesOf(socklist', g) = {}
        \/ Cardinality(PlacesOf(socklist', g)) = Cardinality(PlacesOf(socklist, g)) - 1
      BY <1>1, <1>3, Deleted, Zenon
  <2>2. /\ Cardinality(PlacesOf(socklist, g)) \in Nat /\ Cardinality(DelBy(g)) \in Nat
        /\ Cardinality(DelBy(g)') \in Nat
    <3>1. DelBy(g)' \subseteq SelWorkers /\ IsFiniteSet(SelWorkers)
        BY SelAssumption, Zenon DEF DelBy
    <3> QED
        BY <3>1, <1>1, PlacesFinite, DelFinite, FS_Subset, FS_CardinalityType, Zenon
  <2>3. CASE PlacesOf(socklist', g) = {}
    <3>1. Cardinality(PlacesOf(socklist', g)) = 0
        BY <2>3, FS_EmptySet, ZenonT(60)
    <3> QED
        BY <3>1, <2>2 DEF SelCounted
  <2>4. CASE Cardinality(PlacesOf(socklist', g)) = Cardinality(PlacesOf(socklist, g)) - 1
    <3>1. SelCounted(g) /\ sock'[g] = sock[g]
        BY <1>1, Zenon DEF SelInv, SelGood
    <3> QED
        BY <3>1, <2>2, <2>4, <1>8 DEF SelCounted
  <2> QED
      BY <2>1, <2>3, <2>4
<1>10. ASSUME g \notin sreused' PROVE SelWatched(g)' /\ SelFresh(g)'
  <2>1. sock[g] = "closed" /\ HeldBy(g) = {}
      BY <1>1, <1>7, <1>10, Zenon DEF SelInv, SelGood, SelWatched
  <2>2. sock'[g] = "closed" /\ HeldBy(g)' = {}
      BY <2>1, <1>1, <1>7, Zenon
  <2> QED
      BY <2>2, Zenon DEF SelWatched, SelFresh
<1>11. SelGood(g)'
    BY <1>9, <1>10, Zenon DEF SelGood
<1> QED
    BY <1>3, <1>5, <1>6, <1>11, Zenon DEF SelInv

\* Nothing on the list, and data for one socket at most.
LEMMA QuietInv ==
    ASSUME SelInv, UNCHANGED <<socklist, maxfd_plus_one, fdsets, si, swork, sreused>>,
           spc' = spc \/ spc' = "scan", sock' \in [SelFds -> {"closed", "quiet", "data", "out"}],
           \A f \in SelFds : sock'[f] = sock[f] \/ (sock[f] = "quiet" /\ sock'[f] = "data")
    PROVE  SelInv'
<1>1. SelTyped /\ SelTyped' /\ MaxFdCovers'
    BY Zenon DEF SelInv, SelTyped, MaxFdCovers
<1>2. ASSUME NEW f \in SelFds PROVE SelGood(f)'
  <2>1. HeldBy(f)' = HeldBy(f) /\ DelBy(f)' = DelBy(f) /\ SelGood(f)
      BY Zenon DEF HeldBy, DelBy, SelInv
  <2>2. (sock'[f] = "closed" <=> sock[f] = "closed") /\ (sock'[f] = "out" <=> sock[f] = "out")
      OBVIOUS
  <2>3. SelCounted(f)'
      BY <2>1, <2>2, Zenon DEF SelGood, SelCounted
  <2>4. ASSUME f \notin sreused' PROVE SelWatched(f)'
      BY <2>1, <2>2, <2>4, Zenon DEF SelGood, SelWatched
  <2>5. ASSUME f \notin sreused' PROVE SelFresh(f)'
    <3>1. "scan" \notin {"select", "accept"} /\ "scan" # "dispatch"
        OBVIOUS
    <3> QED
        BY <3>1, <2>1, <2>5, Zenon DEF SelGood, SelFresh
  <2> QED
      BY <2>3, <2>4, <2>5, Zenon DEF SelGood
<1> QED
    BY <1>1, <1>2, Zenon DEF SelInv

LEMMA DataInv == ASSUME SelInv, NEW g \in SelFds, SelData(g) PROVE SelInv'
<1>1. SelTyped /\ sock[g] = "quiet" /\ sock' = [sock EXCEPT ![g] = "data"]
      /\ UNCHANGED <<socklist, maxfd_plus_one, spc, fdsets, si, swork, sreused>>
    BY Zenon DEF SelInv, SelData
<1>2. /\ sock' \in [SelFds -> {"closed", "quiet", "data", "out"}]
      /\ sock'[g] = "data" /\ \A f \in SelFds \ {g} : sock'[f] = sock[f]
    BY <1>1, SockSet, Zenon
<1>3. \A f \in SelFds : sock'[f] = sock[f] \/ (sock[f] = "quiet" /\ sock'[f] = "data")
    BY <1>1, <1>2
<1> QED
    BY <1>1, <1>2, <1>3, QuietInv, Zenon

\* Whatever the event thread and the workers of the select loop do to its list,
\* each open connection has its one place there with the mask that is due, select
\* looks at all of them, and a closed descriptor is listed only until the worker
\* that has closed it takes it off (except for the descriptors in sreused).
THEOREM SelectKeepsLists == SelSpec => []SelectSound
<1>1. ASSUME SelInv, [SelNext]_selVars PROVE SelInv'
  <2>1. CASE UNCHANGED selVars \/ SelRound \/ SelArrive
    <3>1. UNCHANGED <<socklist, maxfd_plus_one, sock, fdsets, si, swork, sreused>> /\ (spc' = spc \/ spc' = "scan")
        BY <2>1, Zenon DEF selVars, SelRound, SelArrive
    <3>2. sock' \in [SelFds -> {"closed", "quiet", "data", "out"}]
        BY <1>1, <3>1, Zenon DEF SelInv, SelTyped
    <3> QED
        BY <1>1, <3>1, <3>2, QuietInv, Zenon
  <2>2. CASE SelScan \/ SelSelect \/ SelAccept \/ SelDispatch
      BY <1>1, <2>2, ScanInv, SelectInv, AcceptInv, DispatchInv, Zenon
  <2>3. CASE \E f \in SelFds : SelData(f)
      BY <1>1, <2>3, DataInv, Zenon
  <2>4. CASE \E w \in SelWorkers : SelWorkerMask(w) \/ SelWorkerClose(w) \/ SelWorkerDel(w)
      BY <1>1, <2>4, WorkerMaskInv, WorkerCloseInv, WorkerDelInv, Zenon
  <2> QED
      BY <1>1, <2>1, <2>2, <2>3, <2>4, Zenon DEF SelNext, SelLoop
<1> QED
    BY <1>1, SelInvInit, SelInvSound, PTL DEF SelSpec
=============================================================================
