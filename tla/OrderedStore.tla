---------------------------- MODULE OrderedStore ----------------------------
(***************************************************************************)
(* What the journal's buffers promise: a sequence of entries in insertion  *)
(* order, looked up by identifier as a scan from the front would, from     *)
(* which trimming takes the oldest closed entries.  A record is an entry   *)
(* that is closed from the start.  tag tells two entries with the same     *)
(* identifier apart; found is the last query with its result.              *)
(***************************************************************************)
EXTENDS SubSequences, Sequences

CONSTANTS
    Ids, Outcomes,
    Tags,       \* what tells entries apart
    MaxLen,     \* bound: positions asked for and limits trimmed to
    None        \* the result of a query that finds nothing

VARIABLES store, found

vars == <<store, found>>

Positions(id) == {i \in 1..Len(store) : store[i].id = id}
First(id)     == CHOOSE i \in Positions(id) : \A j \in Positions(id) : i <= j
Closed        == {i \in 1..Len(store) : ~store[i].open}
InUse         == {store[i].tag : i \in 1..Len(store)}

Answer(query, of, entry) == [query |-> query, of |-> of, entry |-> entry]

Init == store = <<>> /\ found = None

Push(e) ==
    /\ e.tag \notin InUse
    /\ store' = Append(store, e)
    /\ UNCHANGED found

Get(id) ==
    /\ found' = Answer("id", id, IF Positions(id) = {} THEN None ELSE store[First(id)])
    /\ UNCHANGED store

GetAt(i) ==
    /\ found' = Answer("position", i, IF i \in 1..Len(store) THEN store[i] ELSE None)
    /\ UNCHANGED store

(* Closing is done once: a second attempt finds nothing to close.           *)
Close(id) ==
    IF Positions(id) # {} /\ store[First(id)].open
    THEN /\ store' = [store EXCEPT ![First(id)].open = FALSE]
         /\ found' = Answer("close", id, store'[First(id)])
    ELSE found' = Answer("close", id, None) /\ UNCHANGED store

SetMessages(id, outcomes) ==
    /\ store' = IF Positions(id) = {} THEN store
                ELSE [store EXCEPT ![First(id)].messages = @ \cup outcomes]
    /\ UNCHANGED found

Trim(max) ==
    LET evicted == {k \in Closed : Cardinality({j \in Closed : j > k}) >= max}
    IN  /\ store' = Pick(store, (1..Len(store)) \ evicted)
        /\ UNCHANGED found

Clear == store' = <<>> /\ UNCHANGED found

Next ==
    \/ \E id \in Ids, open \in BOOLEAN, tag \in Tags :
          Push([id |-> id, tag |-> tag, open |-> open, messages |-> {}])
    \/ \E id \in Ids : Get(id) \/ Close(id) \/ \E o \in SUBSET Outcomes : SetMessages(id, o)
    \/ \E n \in 0..MaxLen : GetAt(n) \/ Trim(n)
    \/ Clear

Spec == Init /\ [][Next]_vars
=============================================================================
