----------------------------- MODULE KeyedIndex -----------------------------
(***************************************************************************)
(* What the two stores of src/src/journal/buffer.rs share: a deque whose   *)
(* entries have logical keys, a base plus their position, and an index     *)
(* from identifiers to the key of the first occurrence and the number of   *)
(* occurrences (Position).                                                 *)
(***************************************************************************)
EXTENDS SubSequences, Sequences

CONSTANTS
    Ids,         \* identifiers
    KeyLimit,    \* usize::MAX
    MaxPushes,   \* bound: entries pushed in one behaviour
    MaxLive,     \* bound: entries stored at once, far below KeyLimit in the code
    None         \* Option::None

ASSUME KeyedIndexAssumption ==
    /\ MaxPushes \in Nat /\ MaxLive \in Nat
    /\ KeyLimit \in Nat /\ KeyLimit > MaxLive

Min(S)        == CHOOSE x \in S : \A y \in S : x <= y
Occupied(s)   == {i \in 1..Len(s) : s[i] # None}
At(s, id)     == {i \in Occupied(s) : s[i].id = id}

(* The index of a deque whose front has key b, as a scan would give it:     *)
(* build_index, and the same loop in compact.                               *)
IndexOf(s, b) == [id \in {s[i].id : i \in Occupied(s)} |->
                    [first |-> b + Min(At(s, id)) - 1, count |-> Cardinality(At(s, id))]]
FirstAt(key)  == [first |-> key, count |-> 1]
Without(f, x) == [y \in DOMAIN f \ {x} |-> f[y]]
With(f, x, v) == [y \in DOMAIN f \cup {x} |-> IF y = x THEN v ELSE f[y]]

(* A query and what it returned.                                            *)
Answer(query, of, entry) == [query |-> query, of |-> of, entry |-> entry]
=============================================================================
