------------------------------ MODULE TaskPool ------------------------------
(***************************************************************************)
(* What the event thread and the worker threads promise each other about   *)
(* handler requests: a request that is handed over is taken by exactly one *)
(* worker, one take per hand-over, and a worker has at most one at a time. *)
(* A structure may be handed over again before the first copy is taken, so *)
(* the waiting requests are counted.                                       *)
(***************************************************************************)
EXTENDS Naturals

CONSTANTS Requests, Workers, None

VARIABLES
    pending,    \* how often each request waits for a worker
    running     \* the request each worker has, or None

vars == <<pending, running>>

Init ==
    /\ pending = [r \in Requests |-> 0]
    /\ running = [w \in Workers |-> None]

Submit(r) ==
    /\ pending' = [pending EXCEPT ![r] = @ + 1]
    /\ UNCHANGED running

Take(w, r) ==
    /\ running[w] = None
    /\ pending[r] > 0
    /\ pending' = [pending EXCEPT ![r] = @ - 1]
    /\ running' = [running EXCEPT ![w] = r]

Finish(w) ==
    /\ running[w] # None
    /\ running' = [running EXCEPT ![w] = None]
    /\ UNCHANGED pending

Next ==
    \/ \E r \in Requests : Submit(r)
    \/ \E w \in Workers : Finish(w) \/ \E r \in Requests : Take(w, r)

Spec == Init /\ [][Next]_vars

=============================================================================
