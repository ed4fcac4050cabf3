------------------------------- MODULE Journal -------------------------------
(***************************************************************************)
(* The in-memory journal of src/src/journal/mod.rs as operators on its     *)
(* value: the next identifiers, the retained scopes and the retained       *)
(* records.  A journal allocates identifiers in increasing order and never *)
(* reuses one, so insertion order is identifier order and the buffer's     *)
(* deques are functions from identifiers (ScopeBuffer and RecordBuffer     *)
(* model the deques themselves, duplicates included).  The current scope   *)
(* of a journal used directly is kept beside it (SavedJournal); the        *)
(* runtime never sets it.                                                  *)
(***************************************************************************)
EXTENDS Naturals, FiniteSets

NewJournal == [nextScope |-> 0, nextRecord |-> 0, scopes |-> <<>>, records |-> <<>>]

Open(j, id)     == id \in DOMAIN j.scopes /\ j.scopes[id].open
Closed(j)       == {id \in DOMAIN j.scopes : ~j.scopes[id].open}
Retain(f, keep) == [x \in keep |-> f[x]]

(* The n largest elements of a set of identifiers.                          *)
Newest(ids, n) == {x \in ids : Cardinality({y \in ids : y > x}) < n}

(* What a record carries of its scope: get_scope_by_id at record time.      *)
Snapshot(j, id) == IF id \in DOMAIN j.scopes
                   THEN IF j.scopes[id].open THEN "open" ELSE "closed"
                   ELSE "none"

Put(f, x, v) == [y \in DOMAIN f \cup {x} |-> IF y = x THEN v ELSE f[y]]

(* enter_scope_with_parent                                                  *)
EnterScope(j, parent) ==
    [j EXCEPT !.nextScope = @ + 1,
              !.scopes = Put(@, j.nextScope, [parent |-> parent, open |-> TRUE, message |-> ""])]

(* set_scope_exit_messages: open or closed, as long as it is retained.      *)
SetMessage(j, id, message) ==
    IF id \in DOMAIN j.scopes THEN [j EXCEPT !.scopes[id].message = message] ELSE j

(* record_no_write_in_scope                                                 *)
RecordEvent(j, scope) ==
    [j EXCEPT !.nextRecord = @ + 1,
              !.records = Put(@, j.nextRecord, [kind |-> "event", scope |-> scope])]

(* exit_scope_no_write: a record id is allocated in any case; the scope is  *)
(* closed and an exit recorded only if it is retained and open.             *)
ExitScope(j, id, outcome) ==
    IF Open(j, id)
    THEN [j EXCEPT !.nextRecord = @ + 1,
                   !.scopes[id].open = FALSE,
                   !.records = Put(@, j.nextRecord, [kind |-> "exit", scope |-> id, outcome |-> outcome])]
    ELSE [j EXCEPT !.nextRecord = @ + 1]

(* trim_records, trim_scopes: the oldest records go; the oldest closed      *)
(* scopes go, open ones never do.                                           *)
TrimRecords(j, max) == [j EXCEPT !.records = Retain(@, Newest(DOMAIN @, max))]
TrimScopes(j, max) ==
    [j EXCEPT !.scopes = Retain(@, (DOMAIN @ \ Closed(j)) \cup Newest(Closed(j), max))]

(* Mutant of Trim: records stay.                                            *)
TrimScopesOnly(j, max) == TrimScopes(j, max)

Trim(j, max) == TrimScopes(TrimRecords(j, max), max)

ClearRestarts(j) == NewJournal   \* mutant of Clear: identifiers start again

(* clear: the identifiers go on from where they were.                       *)
Clear(j) == [j EXCEPT !.scopes = <<>>, !.records = <<>>]
=============================================================================
