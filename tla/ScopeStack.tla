----------------------------- MODULE ScopeStack -----------------------------
(***************************************************************************)
(* A scope stack (SCOPE_STACK of src/src/runtime/mod.rs): the scopes a     *)
(* thread, or a future with a context of its own, has entered and not      *)
(* left, innermost last.                                                   *)
(***************************************************************************)
EXTENDS Naturals, Sequences

CONSTANT NoScope   \* None, for an Option<ScopeId>

ASSUME NoScopeAssumption == NoScope \notin Nat

(* current_scope                                                            *)
Top(s) == IF s = <<>> THEN NoScope ELSE s[Len(s)]

(* Mutant of Without: only the innermost scope is ever removed.             *)
WithoutTop(s, id) == IF Top(s) = id THEN SubSeq(s, 1, Len(s) - 1) ELSE s

(* remove_scope_from_stack: the last occurrence of id, if there is one.     *)
Without(s, id) ==
    LET at == {i \in 1..Len(s) : s[i] = id}
    IN  IF at = {} THEN s
        ELSE LET p == CHOOSE i \in at : \A k \in at : k <= i
             IN  SubSeq(s, 1, p - 1) \o SubSeq(s, p + 1, Len(s))
=============================================================================
