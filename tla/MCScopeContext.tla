--------------------------- MODULE MCScopeContext ---------------------------
(* ScopeContext on small instances; the cfg file gives the bounds.          *)
EXTENDS ScopeContext, TLC

Symmetry == Permutations(Threads) \cup Permutations(Futures)

(* A context kept for later is forgotten when no future is left to wrap.    *)
View ==
    <<stack, frames, parked, status, owner, kind, guards, base, ended, panics,
      IF \E f \in Futures : status[f] = "none" THEN saved ELSE <<>>>>
=============================================================================
