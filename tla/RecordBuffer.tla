---------------------------- MODULE RecordBuffer ----------------------------
(***************************************************************************)
(* The record storage of src/src/journal/buffer.rs: a deque trimmed from   *)
(* the front and an index from record identifiers to logical keys, which   *)
(* is built by the first query and kept up to date from then on.  Queries  *)
(* come from several threads that share the buffer: a query that finds no  *)
(* index under the read lock asks again under the write lock.              *)
(***************************************************************************)
EXTENDS KeyedIndex

CONSTANT Threads

VARIABLES
    records,       \* VecDeque<Record>
    recordById,    \* None, or identifier -> key of the first occurrence and their number
    recordBase,    \* key of the front record
    recordPushes,
    recordFound,   \* the last query and its result
    waiting        \* the query each thread has to ask again under the write lock, if any

recordVars == <<records, recordById, recordBase, recordPushes, recordFound, waiting>>

RecordInit ==
    /\ records = <<>> /\ recordById = None /\ recordBase = 0
    /\ recordPushes = 0 /\ recordFound = None /\ waiting = [t \in Threads |-> None]

-----------------------------------------------------------------------------
(* push: reindex from key 0 first if the next key would be the largest      *)
(* usize; only an index that is there is kept up to date.                   *)
PushRecord(id) ==
    /\ recordPushes < MaxPushes /\ Len(records) < MaxLive
    /\ recordPushes' = recordPushes + 1
    /\ LET restart == recordBase + Len(records) >= KeyLimit
           from  == IF restart THEN 0 ELSE recordBase
           index == IF restart /\ recordById # None THEN IndexOf(records, 0) ELSE recordById
       IN  /\ recordBase' = from
           /\ recordById' = IF index = None THEN None
                            ELSE IF id \in DOMAIN index THEN [index EXCEPT ![id].count = @ + 1]
                            ELSE With(index, id, FirstAt(from + Len(records)))
    /\ records' = Append(records, [id |-> id, tag |-> recordPushes, open |-> FALSE, messages |-> {}])
    /\ UNCHANGED <<recordFound, waiting>>

IndexedRecord(index, id) ==
    IF id \in DOMAIN index THEN records[index[id].first - recordBase + 1] ELSE None

(* get_record_by_id under the read lock ...                                 *)
QueryRecord(t, id) ==
    /\ waiting[t] = None
    /\ IF recordById # None
       THEN recordFound' = Answer("id", id, IndexedRecord(recordById, id)) /\ UNCHANGED waiting
       ELSE waiting' = [waiting EXCEPT ![t] = id] /\ UNCHANGED recordFound
    /\ UNCHANGED <<records, recordById, recordBase, recordPushes>>

(* ... and under the write lock, when another thread may have built the     *)
(* index, or pushed, trimmed or cleared records, in between.                *)
(* Mutant of QueryAgain: it trusts that nobody else built the index.        *)
QueryAgainAlone(t) ==
    /\ waiting[t] # None
    /\ recordById' = IF recordById = None THEN IndexOf(records, recordBase) ELSE recordById
    /\ recordFound' = Answer("id", waiting[t],
           IF recordById = None THEN IndexedRecord(recordById', waiting[t]) ELSE None)
    /\ waiting' = [waiting EXCEPT ![t] = None]
    /\ UNCHANGED <<records, recordBase, recordPushes>>

QueryAgain(t) ==
    /\ waiting[t] # None
    /\ recordById' = IF recordById = None THEN IndexOf(records, recordBase) ELSE recordById
    /\ recordFound' = Answer("id", waiting[t], IndexedRecord(recordById', waiting[t]))
    /\ waiting' = [waiting EXCEPT ![t] = None]
    /\ UNCHANGED <<records, recordBase, recordPushes>>

(* get_record: by position.                                                 *)
GetRecord(n) ==
    /\ recordFound' = Answer("position", n, IF n \in 1..Len(records) THEN records[n] ELSE None)
    /\ UNCHANGED <<records, recordById, recordBase, recordPushes, waiting>>

(* One turn of trim's loop: pop the front, correct the index.               *)
PopFront(s) ==
    LET id   == s.entries[1].id
        left == Tail(s.entries)
        pos  == s.byId[id]
    IN  [entries |-> left,
         base    |-> s.base + 1,
         byId    |-> IF s.byId = None THEN None
                     ELSE IF pos.count = 1 THEN Without(s.byId, id)
                     ELSE [s.byId EXCEPT ![id] = [count |-> pos.count - 1,
                                                  first |-> s.base + 1 + Min(At(left, id)) - 1]]]

PopTimes(s, n) == LET turn[k \in 0..n] == IF k = 0 THEN s ELSE PopFront(turn[k - 1]) IN turn[n]

TrimRecords(max) ==
    LET over == IF Len(records) > max THEN Len(records) - max ELSE 0
        r == PopTimes([entries |-> records, byId |-> recordById, base |-> recordBase], over)
    IN  /\ records' = r.entries
        /\ recordById' = r.byId
        /\ recordBase' = IF records' = <<>> THEN 0 ELSE r.base
        /\ UNCHANGED <<recordPushes, recordFound, waiting>>

(* clear empties an index that is there: it stays built.                    *)
ClearRecords ==
    /\ records' = <<>> /\ recordBase' = 0
    /\ recordById' = IF recordById = None THEN None ELSE <<>>
    /\ UNCHANGED <<recordPushes, recordFound, waiting>>

RecordNext ==
    \/ \E id \in Ids : PushRecord(id)
    \/ \E t \in Threads, id \in Ids : QueryRecord(t, id)
    \/ \E t \in Threads : QueryAgain(t)
    \/ \E n \in 0..MaxPushes : GetRecord(n) \/ TrimRecords(n)
    \/ ClearRecords

RecordSpec == RecordInit /\ [][RecordNext]_recordVars

-----------------------------------------------------------------------------
(* Properties                                                               *)

RecordEntry == [id : Ids, tag : 0..(MaxPushes - 1), open : {FALSE}, messages : {{}}]
RecordAnswers == [query : {"id"}, of : Ids, entry : RecordEntry \cup {None}]
                 \cup [query : {"position"}, of : 0..MaxPushes, entry : RecordEntry \cup {None}]

ASSUME RecordNoneAssumption == None \notin RecordEntry

RecordTypeOK ==
    /\ records \in Seq(RecordEntry)
    /\ recordById # None =>
          /\ DOMAIN recordById \subseteq Ids
          /\ \A id \in DOMAIN recordById : recordById[id] \in [first : Nat, count : Nat \ {0}]
    /\ recordBase \in Nat /\ recordPushes \in 0..MaxPushes
    /\ recordFound \in RecordAnswers \cup {None} /\ waiting \in [Threads -> Ids \cup {None}]

(* Once built, the index always says what a scan of the deque would: after  *)
(* pushes, trims, clears and a restart of the keys, with identifiers that   *)
(* repeat, and however many threads raced to build it.                      *)
RecordIndexExact == recordById # None => recordById = IndexOf(records, recordBase)

(* The buffer is a sequence scanned from the front; a query that had to ask *)
(* twice takes effect at the second time.                                   *)
RecordVector == INSTANCE OrderedStore WITH
    store <- records, found <- recordFound, Outcomes <- {}, Tags <- 0..(MaxPushes - 1), MaxLen <- MaxPushes
RecordsRefineVector == RecordVector!Spec
=============================================================================
