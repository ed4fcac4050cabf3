----------------------------- MODULE ScopeBuffer -----------------------------
(***************************************************************************)
(* The scope storage of src/src/journal/buffer.rs: a deque of slots, some  *)
(* of them vacant because a closed scope behind an open one was evicted, a *)
(* hash index from identifiers to logical keys, and the ordered set of the *)
(* keys of closed scopes.  The key of a slot is base plus its position, so *)
(* popping the front never touches the index.  Identifiers may repeat: the *)
(* public push_scope takes any scope.                                      *)
(***************************************************************************)
EXTENDS KeyedIndex

CONSTANTS
    Outcomes,       \* outcomes an exit message can be set for
    CompactAbove    \* 64: shorter deques are never compacted by a trim

ASSUME ScopeBufferAssumption == CompactAbove \in Nat

VARIABLES
    entries,    \* VecDeque<Option<BufferedScope>>
    byId,       \* identifier -> key of its first occurrence, number of occurrences
    exited,     \* keys of the closed scopes
    base,       \* key of the front slot
    len,        \* occupied slots
    pushes,
    found       \* the last query and its result

vars == <<entries, byId, exited, base, len, pushes, found>>

(* The fields of Scopes as one value, so that a loop of the code can be     *)
(* stated as a function from the value before to the value after.           *)
Scopes == [entries |-> entries, byId |-> byId, exited |-> exited, base |-> base, len |-> len]
Become(s) == /\ entries' = s.entries /\ byId' = s.byId /\ exited' = s.exited
             /\ base' = s.base /\ len' = s.len

Key(s, i) == s.base + i - 1

Init ==
    /\ entries = <<>> /\ byId = <<>> /\ exited = {} /\ base = 0 /\ len = 0
    /\ pushes = 0 /\ found = None

-----------------------------------------------------------------------------
(* compact: drop the vacant slots and index what is left from key 0.        *)
Compact(s) ==
    LET kept == Pick(s.entries, Occupied(s.entries))
    IN  [entries |-> kept,
         byId    |-> IndexOf(kept, 0),
         exited  |-> {i - 1 : i \in {k \in 1..Len(kept) : ~kept[k].open}},
         base    |-> 0,
         len     |-> s.len]

(* push: compact first if the next key would be the largest usize.          *)
Push(id, open) ==
    /\ pushes < MaxPushes /\ len < MaxLive
    /\ pushes' = pushes + 1
    /\ LET s == IF base + Len(entries) >= KeyLimit THEN Compact(Scopes) ELSE Scopes
           key == s.base + Len(s.entries)
           e == [id |-> id, tag |-> pushes, open |-> open, messages |-> {}]
       IN  Become([entries |-> Append(s.entries, e),
                   byId    |-> IF id \in DOMAIN s.byId
                               THEN [s.byId EXCEPT ![id].count = @ + 1]
                               ELSE With(s.byId, id, FirstAt(key)),
                   exited  |-> IF open THEN s.exited ELSE s.exited \cup {key},
                   base    |-> s.base,
                   len     |-> s.len + 1])
    /\ UNCHANGED found

(* get: through the index, None for an unknown identifier or a vacant slot. *)
SlotFromZero(id) == byId[id].first + 1   \* mutant of Slot: base is forgotten
Slot(id) == byId[id].first - base + 1
Indexed(id) == IF id \in DOMAIN byId /\ byId[id].first >= base /\ Slot(id) <= Len(entries)
               THEN entries[Slot(id)] ELSE None

Get(id) ==
    /\ found' = Answer("id", id, Indexed(id))
    /\ UNCHANGED <<entries, byId, exited, base, len, pushes>>

(* get_scope: positional, over the slots themselves when none is vacant.    *)
GetAt(n) ==
    /\ found' = Answer("position", n,
                IF len = Len(entries)
                THEN IF n \in 1..Len(entries) THEN entries[n] ELSE None
                ELSE IF n \in 1..Cardinality(Occupied(entries))
                     THEN entries[Nth(Occupied(entries), n)] ELSE None)
    /\ UNCHANGED <<entries, byId, exited, base, len, pushes>>

(* finalize_scope_exit_at: once, and the closed key joins the ordered set.  *)
Finalize(id) ==
    /\ IF Indexed(id) # None /\ Indexed(id).open
       THEN /\ entries' = [entries EXCEPT ![Slot(id)].open = FALSE]
            /\ found' = Answer("close", id, [Indexed(id) EXCEPT !.open = FALSE])
            /\ exited' = exited \cup {byId[id].first}
       ELSE /\ found' = Answer("close", id, None)
            /\ UNCHANGED <<entries, exited>>
    /\ UNCHANGED <<byId, base, len, pushes>>

(* set_scope_exit_messages merges what it is given.                         *)
SetMessages(id, outcomes) ==
    /\ entries' = IF Indexed(id) = None THEN entries
                  ELSE [entries EXCEPT ![Slot(id)].messages = @ \cup outcomes]
    /\ UNCHANGED <<byId, exited, base, len, pushes, found>>

(* One turn of trim's loop: evict the closed scope with the smallest key.   *)
Evict(s) ==
    LET key  == Min(s.exited)
        i    == key - s.base + 1
        id   == s.entries[i].id
        left == [s.entries EXCEPT ![i] = None]
        pos  == s.byId[id]
    IN  [s EXCEPT !.entries = left,
                  !.exited = @ \ {key},
                  !.len = @ - 1,
                  !.byId = IF pos.count = 1 THEN Without(@, id)
                           ELSE [@ EXCEPT ![id] =
                                    [count |-> pos.count - 1,
                                     first |-> IF pos.first = key THEN Key(s, Min(At(left, id)))
                                               ELSE pos.first]]]

EvictTimes(s, n) == LET turn[k \in 0..n] == IF k = 0 THEN s ELSE Evict(turn[k - 1]) IN turn[n]

(* Mutant of PopVacant: base stays behind.                                  *)
PopVacantOnly(s) ==
    LET gone == IF Occupied(s.entries) = {} THEN Len(s.entries) ELSE Min(Occupied(s.entries)) - 1
    IN  [s EXCEPT !.entries = SubSeq(@, gone + 1, Len(@))]

(* Vacant slots at the front are popped; base moves on with them.           *)
PopVacant(s) ==
    LET gone == IF Occupied(s.entries) = {} THEN Len(s.entries) ELSE Min(Occupied(s.entries)) - 1
    IN  [s EXCEPT !.entries = SubSeq(@, gone + 1, Len(@)), !.base = @ + gone]

Settle(s) ==
    IF s.entries = <<>> THEN [s EXCEPT !.base = 0]
    ELSE IF Len(s.entries) > CompactAbove /\ Len(s.entries) - s.len > s.len THEN Compact(s) ELSE s

Trim(max) ==
    /\ LET over == Cardinality(exited) - max
       IN  Become(Settle(PopVacant(IF over > 0 THEN EvictTimes(Scopes, over) ELSE Scopes)))
    /\ UNCHANGED <<pushes, found>>

Clear ==
    /\ Become([entries |-> <<>>, byId |-> <<>>, exited |-> {}, base |-> 0, len |-> 0])
    /\ UNCHANGED <<pushes, found>>

Next ==
    \/ \E id \in Ids, open \in BOOLEAN : Push(id, open)
    \/ \E id \in Ids : Get(id) \/ Finalize(id) \/ \E o \in SUBSET Outcomes : SetMessages(id, o)
    \/ \E n \in 0..MaxPushes : GetAt(n) \/ Trim(n)
    \/ Clear

Spec == Init /\ [][Next]_vars

-----------------------------------------------------------------------------
(* Properties                                                               *)

Entry == [id : Ids, tag : 0..(MaxPushes - 1), open : BOOLEAN, messages : SUBSET Outcomes]
Answers == [query : {"id", "close"}, of : Ids, entry : Entry \cup {None}]
           \cup [query : {"position"}, of : 0..MaxPushes, entry : Entry \cup {None}]

ASSUME ScopeEntryAssumption == None \notin Entry

TypeOK ==
    /\ entries \in Seq(Entry \cup {None})
    /\ DOMAIN byId \subseteq Ids
    /\ \A id \in DOMAIN byId : byId[id] \in [first : Nat, count : Nat \ {0}]
    /\ exited \subseteq Nat /\ base \in Nat /\ len \in Nat
    /\ pushes \in 0..MaxPushes /\ found \in Answers \cup {None}

(* The index, the set of closed keys and the length say of the deque what a *)
(* scan of it would, through evictions behind open scopes, compactions, the *)
(* restart of the keys at their limit and repeated identifiers.             *)
IndexExact ==
    /\ byId = IndexOf(entries, base)
    /\ exited = {base + i - 1 : i \in {k \in Occupied(entries) : ~entries[k].open}}
    /\ len = Cardinality(Occupied(entries))

(* "A long-lived open scope must not pin unbounded vacant slots", and no    *)
(* key reaches the limit.                                                   *)
VacantBounded ==
    /\ Len(entries) - len <= IF len > CompactAbove THEN len ELSE CompactAbove
    /\ base + Len(entries) <= KeyLimit

(* The buffer is a sequence scanned from the front.                         *)
Vector == INSTANCE OrderedStore WITH
    store <- Pick(entries, Occupied(entries)), Tags <- 0..(MaxPushes - 1), MaxLen <- MaxPushes
RefinesVector == Vector!Spec
=============================================================================
