------------------------------ MODULE TplVars -------------------------------
(***************************************************************************)
(* Template variables: the vectors of a context and of the globals, whose  *)
(* values are copies the vector owns or static strings it borrows.  The    *)
(* globals' vector is a context that is never destroyed and is changed     *)
(* under global_vars_spin; its operations are otherwise those of a context.*)
(***************************************************************************)
EXTENDS Integers, Sequences, FiniteSets

CONSTANTS
    VarCtxs,        \* contexts, GlobalCtx among them
    GlobalCtx,
    VarNames, VarValues,
    MaxSets         \* bound: values set

ASSUME TplVarsAssumption == GlobalCtx \in VarCtxs /\ MaxSets \in Nat

VARIABLES
    vvars,      \* per context: its vector, elements [name, value, allocated, block]
    valive,     \* contexts that exist
    vheap,      \* copies in memory
    vset,       \* history: per context, the value set last for each name
    vcount

vvVars == <<vvars, valive, vheap, vset, vcount>>

Unset == "unset"
ASSUME UnsetAssumption == Unset \notin VarValues
NoValues == [n \in VarNames |-> Unset]

TplVarsInit ==
    /\ vvars = [c \in VarCtxs |-> <<>>] /\ valive = {GlobalCtx}
    /\ vheap = {} /\ vset = [c \in VarCtxs |-> NoValues] /\ vcount = 0

\* get_var and get_global_var: from the last element to the first; 0 for none.
get_var_misses_first(vec, name) ==    \* mutant: the loop stops before the first element
    LET at == {i \in 2..Len(vec) : vec[i].name = name}
    IN  IF at = {} THEN 0 ELSE CHOOSE i \in at : \A j \in at : i >= j
get_var(vec, name) ==
    LET at == {i \in 1..Len(vec) : vec[i].name = name}
    IN  IF at = {} THEN 0 ELSE CHOOSE i \in at : \A j \in at : i >= j

\* tpl_set_var and tpl_set_var_static: the value of a known name is replaced
\* and its copy freed.
Freed(e) == IF e.allocated THEN {e.block} ELSE {}

SetVar(c, name, value, static) ==
    LET i == get_var(vvars[c], name)
        e == [name |-> name, value |-> value, allocated |-> ~static, block |-> IF static THEN 0 ELSE vcount + 1]
    IN  /\ vcount < MaxSets /\ vcount' = vcount + 1
        /\ vvars' = [vvars EXCEPT ![c] = IF i = 0 THEN Append(@, e) ELSE [@ EXCEPT ![i] = e]]
        /\ vheap' = (vheap \ (IF i = 0 THEN {} ELSE Freed(vvars[c][i]))) \cup (IF static THEN {} ELSE {e.block})
        /\ vset' = [vset EXCEPT ![c][name] = value]
        /\ UNCHANGED valive

tpl_set_var(c) == c \in valive /\ \E n \in VarNames, v \in VarValues : SetVar(c, n, v, FALSE)
tpl_set_var_static(c) == c \in valive /\ \E n \in VarNames, v \in VarValues : SetVar(c, n, v, TRUE)

tpl_context_create(c) ==
    /\ c \notin valive /\ valive' = valive \cup {c}
    /\ vvars' = [vvars EXCEPT ![c] = <<>>] /\ vset' = [vset EXCEPT ![c] = NoValues]
    /\ UNCHANGED <<vheap, vcount>>

\* tpl_context_destroy and tpl_block_context_destroy.
tpl_context_destroy(c) ==
    /\ c \in valive \ {GlobalCtx} /\ valive' = valive \ {c}
    /\ vheap' = vheap \ UNION {Freed(vvars[c][i]) : i \in 1..Len(vvars[c])}
    /\ vvars' = [vvars EXCEPT ![c] = <<>>] /\ vset' = [vset EXCEPT ![c] = NoValues]
    /\ UNCHANGED vcount

TplVarsNext ==
    \E c \in VarCtxs :
        tpl_set_var(c) \/ tpl_set_var_static(c) \/ tpl_context_create(c) \/ tpl_context_destroy(c)

TplVarsSpec == TplVarsInit /\ [][TplVarsNext]_vvVars

\* What tpl_complete shows for a variable: the value in the page's context,
\* else the global one, else nothing.
ShownValue(c, name) ==
    LET look(d) == LET i == get_var(vvars[d], name) IN IF i = 0 THEN Unset ELSE vvars[d][i].value
    IN  IF c \in valive /\ look(c) # Unset THEN look(c) ELSE look(GlobalCtx)

-----------------------------------------------------------------------------
Copies == {x \in VarCtxs \X (1..MaxSets) : x[2] <= Len(vvars[x[1]]) /\ vvars[x[1]][x[2]].allocated}

\* The copies in memory are exactly those the vectors own, each owned once:
\* none leaks, none is freed twice or while a vector still shows it.
CopiesOwned ==
    /\ vheap = {vvars[x[1]][x[2]].block : x \in Copies}
    /\ \A x, y \in Copies : vvars[x[1]][x[2]].block = vvars[y[1]][y[2]].block => x = y

\* A page shows the value set last for a name in its context, or else the
\* global one set last, whatever mixture of copies and static strings was set.
LastValueShown ==
    \A c \in valive, n \in VarNames :
        ShownValue(c, n) = IF vset[c][n] # Unset THEN vset[c][n] ELSE vset[GlobalCtx][n]

\* A variable shows its last value, and every copy is freed once by its owner.
VarsExact == CopiesOwned /\ LastValueShown

=============================================================================
