------------------------------ MODULE MCRuntime ------------------------------
(* Runtime on small instances; the cfg files give the bounds.               *)
EXTENDS Runtime, TLC

Symmetry == Permutations(Threads)

(* A program that emits no event: it enters a scope, leaves it, and enters  *)
(* the next.                                                                *)
EnterAndExit ==
    \E t \in Threads :
        \/ inside[t] = {} /\ Enter(t)
        \/ \E id \in inside[t] : Exit(t, id)
        \/ Continue(t)
ScopesOnlySpec == Init /\ [][EnterAndExit]_vars
=============================================================================
