---------------------------- MODULE RuntimeProofs ----------------------------
(***************************************************************************)
(* Theorems about Runtime for every set of threads, every trim interval    *)
(* and every bound: types, the configuration behind its locks, the current *)
(* scope of each thread; and what is handed to the log: records in the     *)
(* order of each thread and without conflicts for replay, scope metadata   *)
(* in time; and events bounded by the trims that are due.                  *)
(***************************************************************************)
EXTENDS Runtime, ProofLemmas

-----------------------------------------------------------------------------
(* The journal's operators                                                  *)

ScopeEntry  == [parent : ScopeRef, open : BOOLEAN, message : {""}]
RecordEntry == [kind : {"event"}, scope : ScopeRef]
               \cup [kind : {"exit"}, scope : ScopeIds, outcome : {"success"}]
Maps(S, E)  == UNION {[D -> E] : D \in SUBSET S}

(* TypeOK says what the fields of the journal hold; to know it after an     *)
(* EXCEPT one must also know that the journal is a record of these fields,  *)
(* and its scopes and records functions.                                    *)
Journals == [nextScope : 0..MaxScopes, nextRecord : 0..MaxRecords,
             scopes : Maps(ScopeIds, ScopeEntry), records : Maps(RecordIds, RecordEntry)]

IsJournal(j) ==
    /\ j \in Journals
    /\ DOMAIN j.scopes \subseteq 0..(j.nextScope - 1)
    /\ DOMAIN j.records \subseteq 0..(j.nextRecord - 1)

LEMMA MapsProperties ==
    ASSUME NEW S, NEW E
    PROVE  /\ \A f \in Maps(S, E) : DOMAIN f \subseteq S /\ \A x \in DOMAIN f : f[x] \in E
           /\ \A D \in SUBSET S : \A f \in [D -> E] : f \in Maps(S, E)
  BY DEF Maps

LEMMA PutEntry ==
    ASSUME NEW S, NEW E, NEW f \in Maps(S, E), NEW x \in S, NEW v \in E
    PROVE  Put(f, x, v) \in Maps(S, E)
  <1>1. DOMAIN f \cup {x} \in SUBSET S /\ \A y \in DOMAIN f : f[y] \in E
    BY MapsProperties
  <1>2. Put(f, x, v) \in [DOMAIN f \cup {x} -> E]
    BY <1>1 DEF Put
  <1> QED  BY <1>1, <1>2, MapsProperties

LEMMA RetainEntries ==
    ASSUME NEW S, NEW E, NEW f \in Maps(S, E), NEW keep \in SUBSET DOMAIN f
    PROVE  /\ Retain(f, keep) \in Maps(S, E)
           /\ DOMAIN Retain(f, keep) = keep
           /\ \A y \in keep : Retain(f, keep)[y] = f[y]
  <1>1. keep \in SUBSET S /\ \A y \in keep : f[y] \in E
    BY MapsProperties
  <1>2. Retain(f, keep) \in [keep -> E]
    BY <1>1 DEF Retain
  <1>3. Retain(f, keep) \in Maps(S, E)
    BY <1>1, <1>2, MapsProperties
  <1> QED  BY <1>3 DEF Retain

LEMMA NoEntries ==
    ASSUME NEW S, NEW E
    PROVE  <<>> \in Maps(S, E) /\ DOMAIN <<>> = {}
  <1>1. DOMAIN <<>> = {} /\ <<>> \in [{} -> E]
    OBVIOUS
  <1> QED  BY <1>1, MapsProperties

LEMMA NewJournalType == IsJournal(NewJournal)
  <1>1. NewJournal \in Journals
    BY NoEntries, RuntimeAssumption DEF Journals, NewJournal, RuntimeAssumption
  <1> QED  BY <1>1, NoEntries DEF IsJournal, NewJournal

LEMMA EnterScopeFields ==
    ASSUME NEW j, IsJournal(j), NEW parent \in ScopeRef, j.nextScope < MaxScopes
    PROVE  LET e == EnterScope(j, parent)
           IN  /\ IsJournal(e)
               /\ e.nextScope = j.nextScope + 1 /\ e.nextRecord = j.nextRecord
               /\ e.records = j.records
               /\ DOMAIN e.scopes = DOMAIN j.scopes \cup {j.nextScope}
               /\ e.scopes[j.nextScope].parent = parent /\ e.scopes[j.nextScope].open
               /\ \A id \in DOMAIN j.scopes : e.scopes[id] = j.scopes[id]
  <1> DEFINE e   == EnterScope(j, parent)
             new == [parent |-> parent, open |-> TRUE, message |-> ""]
             s   == Put(j.scopes, j.nextScope, new)
  <1>1. /\ j \in Journals /\ MaxScopes \in Nat
        /\ j.nextScope \in ScopeIds /\ j.nextScope + 1 \in 0..MaxScopes
        /\ j.scopes \in Maps(ScopeIds, ScopeEntry)
    BY RuntimeAssumption DEF IsJournal, Journals, ScopeIds, RuntimeAssumption
  <1>2. new \in ScopeEntry /\ new.parent = parent /\ new.open
    BY DEF ScopeEntry
  <1> HIDE DEF new
  <1>3. /\ s \in Maps(ScopeIds, ScopeEntry)
        /\ DOMAIN s = DOMAIN j.scopes \cup {j.nextScope}
        /\ s[j.nextScope] = new
        /\ \A id \in DOMAIN j.scopes : id # j.nextScope => s[id] = j.scopes[id]
    <2>1. s \in Maps(ScopeIds, ScopeEntry)
      BY <1>1, <1>2, PutEntry
    <2> QED  BY <2>1 DEF Put
  <1>4. e = [j EXCEPT !.nextScope = j.nextScope + 1, !.scopes = s]
    BY DEF EnterScope, new
  <1> HIDE DEF s, e
  <1>5. /\ e \in Journals /\ e.nextScope = j.nextScope + 1 /\ e.nextRecord = j.nextRecord
        /\ e.scopes = s /\ e.records = j.records
    BY <1>1, <1>3, <1>4 DEF Journals
  <1>6. j.nextScope \notin DOMAIN j.scopes
    BY <1>1 DEF IsJournal, ScopeIds
  <1>7. IsJournal(e)
    BY <1>1, <1>3, <1>5 DEF IsJournal, ScopeIds
  <1> QED  BY <1>2, <1>3, <1>5, <1>6, <1>7 DEF e

LEMMA RecordEventFields ==
    ASSUME NEW j, IsJournal(j), NEW scope \in ScopeRef, j.nextRecord < MaxRecords
    PROVE  LET e == RecordEvent(j, scope)
           IN  /\ IsJournal(e)
               /\ e.nextScope = j.nextScope /\ e.nextRecord = j.nextRecord + 1
               /\ e.scopes = j.scopes
               /\ DOMAIN e.records = DOMAIN j.records \cup {j.nextRecord}
               /\ e.records[j.nextRecord] = [kind |-> "event", scope |-> scope]
               /\ \A id \in DOMAIN j.records : e.records[id] = j.records[id]
  <1> DEFINE e   == RecordEvent(j, scope)
             new == [kind |-> "event", scope |-> scope]
             r   == Put(j.records, j.nextRecord, new)
  <1>1. /\ j \in Journals /\ MaxRecords \in Nat
        /\ j.nextRecord \in RecordIds /\ j.nextRecord + 1 \in 0..MaxRecords
        /\ j.records \in Maps(RecordIds, RecordEntry)
    BY RuntimeAssumption DEF IsJournal, Journals, RecordIds, RuntimeAssumption
  <1>2. new \in RecordEntry
    BY DEF RecordEntry
  <1> HIDE DEF new
  <1>3. /\ r \in Maps(RecordIds, RecordEntry)
        /\ DOMAIN r = DOMAIN j.records \cup {j.nextRecord}
        /\ r[j.nextRecord] = new
        /\ \A id \in DOMAIN j.records : id # j.nextRecord => r[id] = j.records[id]
    <2>1. r \in Maps(RecordIds, RecordEntry)
      BY <1>1, <1>2, PutEntry
    <2> QED  BY <2>1 DEF Put
  <1>4. e = [j EXCEPT !.nextRecord = j.nextRecord + 1, !.records = r]
    BY DEF RecordEvent, new
  <1> HIDE DEF r, e
  <1>5. /\ e \in Journals /\ e.nextScope = j.nextScope /\ e.nextRecord = j.nextRecord + 1
        /\ e.scopes = j.scopes /\ e.records = r
    BY <1>1, <1>3, <1>4 DEF Journals
  <1>6. j.nextRecord \notin DOMAIN j.records
    BY <1>1 DEF IsJournal, RecordIds
  <1>7. IsJournal(e)
    BY <1>1, <1>3, <1>5 DEF IsJournal, RecordIds
  <1> QED  BY <1>3, <1>5, <1>6, <1>7 DEF e, new

(* A scope that is not open is left alone, though its exit uses up a record *)
(* identifier; one that is open is closed and an exit recorded.             *)
LEMMA ExitScopeFields ==
    ASSUME NEW j, IsJournal(j), NEW id, j.nextRecord < MaxRecords
    PROVE  LET e == ExitScope(j, id, "success")
           IN  /\ IsJournal(e)
               /\ e.nextScope = j.nextScope /\ e.nextRecord = j.nextRecord + 1
               /\ DOMAIN e.scopes = DOMAIN j.scopes
               /\ \A x \in DOMAIN j.scopes :
                     /\ e.scopes[x].parent = j.scopes[x].parent
                     /\ e.scopes[x].open <=> j.scopes[x].open /\ x # id
               /\ DOMAIN e.records = DOMAIN j.records \cup (IF Open(j, id) THEN {j.nextRecord} ELSE {})
               /\ Open(j, id) => e.records[j.nextRecord].kind = "exit"
               /\ \A x \in DOMAIN j.records : e.records[x] = j.records[x]
  <1> DEFINE e == ExitScope(j, id, "success")
  <1>1. /\ j \in Journals /\ MaxRecords \in Nat
        /\ j.nextRecord \in RecordIds /\ j.nextRecord + 1 \in 0..MaxRecords
        /\ j.scopes \in Maps(ScopeIds, ScopeEntry) /\ j.records \in Maps(RecordIds, RecordEntry)
    BY RuntimeAssumption DEF IsJournal, Journals, RecordIds, RuntimeAssumption
  <1>2. /\ DOMAIN j.scopes \subseteq ScopeIds
        /\ \A x \in DOMAIN j.scopes : j.scopes[x] \in ScopeEntry /\ j.scopes[x].open \in BOOLEAN
    <2>1. DOMAIN j.scopes \subseteq ScopeIds /\ \A x \in DOMAIN j.scopes : j.scopes[x] \in ScopeEntry
      BY <1>1, MapsProperties
    <2> QED  BY <2>1 DEF ScopeEntry
  <1>3. CASE ~ Open(j, id)
    <2>1. e = [j EXCEPT !.nextRecord = j.nextRecord + 1]
      BY <1>3 DEF ExitScope
    <2> HIDE DEF e
    <2>2. /\ e \in Journals /\ e.nextScope = j.nextScope /\ e.nextRecord = j.nextRecord + 1
          /\ e.scopes = j.scopes /\ e.records = j.records
      BY <1>1, <2>1 DEF Journals
    <2>3. IsJournal(e)
      BY <1>1, <2>2 DEF IsJournal, RecordIds
    <2>4. \A x \in DOMAIN j.scopes : j.scopes[x].open => x # id
      BY <1>3 DEF Open
    <2> QED  BY <1>2, <1>3, <2>2, <2>3, <2>4 DEF e
  <1>4. CASE Open(j, id)
    <2> DEFINE new == [kind |-> "exit", scope |-> id, outcome |-> "success"]
               s   == [j.scopes EXCEPT ![id].open = FALSE]
               r   == Put(j.records, j.nextRecord, new)
    <2>1. id \in DOMAIN j.scopes /\ j.scopes[id].open /\ j.scopes[id] \in ScopeEntry /\ id \in ScopeIds
      BY <1>2, <1>4 DEF Open
    <2>2. new \in RecordEntry /\ new.kind = "exit"
      BY <2>1 DEF RecordEntry
    <2>3. e = [j EXCEPT !.nextRecord = j.nextRecord + 1, !.scopes = s, !.records = r]
      BY <1>4 DEF ExitScope
    <2> HIDE DEF new
    <2>4. /\ r \in Maps(RecordIds, RecordEntry)
          /\ DOMAIN r = DOMAIN j.records \cup {j.nextRecord}
          /\ r[j.nextRecord] = new
          /\ \A x \in DOMAIN j.records : x # j.nextRecord => r[x] = j.records[x]
      <3>1. r \in Maps(RecordIds, RecordEntry)
        BY <1>1, <2>2, PutEntry
      <3> QED  BY <3>1 DEF Put
    <2>5. j.scopes \in [DOMAIN j.scopes -> ScopeEntry]
      BY <1>1 DEF Maps
    <2>6. /\ s \in [DOMAIN j.scopes -> ScopeEntry]
          /\ s[id] = [j.scopes[id] EXCEPT !.open = FALSE]
          /\ \A x \in DOMAIN j.scopes : x # id => s[x] = j.scopes[x]
      BY <2>1, <2>5 DEF ScopeEntry
    <2> HIDE DEF s
    <2>7. s[id].parent = j.scopes[id].parent /\ s[id].open = FALSE
      BY <2>1, <2>6 DEF ScopeEntry
    <2>8. s \in Maps(ScopeIds, ScopeEntry) /\ DOMAIN s = DOMAIN j.scopes
      BY <1>2, <2>6, MapsProperties
    <2> HIDE DEF r, e
    <2>9. /\ e \in Journals /\ e.nextScope = j.nextScope /\ e.nextRecord = j.nextRecord + 1
          /\ e.scopes = s /\ e.records = r
      BY <1>1, <2>3, <2>4, <2>8 DEF Journals
    <2>10. IsJournal(e)
      BY <1>1, <2>4, <2>8, <2>9 DEF IsJournal, RecordIds
    <2>11. j.nextRecord \notin DOMAIN j.records
      BY <1>1 DEF IsJournal, RecordIds
    <2>12. \A x \in DOMAIN j.scopes : s[x].parent = j.scopes[x].parent
                                      /\ (s[x].open <=> j.scopes[x].open /\ x # id)
      BY <1>2, <2>6, <2>7
    <2> QED  BY <1>4, <2>2, <2>4, <2>8, <2>9, <2>10, <2>11, <2>12 DEF e
  <1> QED  BY <1>3, <1>4

(* Trimming forgets records and closed scopes, and nothing else.            *)
LEMMA TrimFields ==
    ASSUME NEW j, IsJournal(j), NEW max
    PROVE  LET e == Trim(j, max)
           IN  /\ IsJournal(e)
               /\ e.nextScope = j.nextScope /\ e.nextRecord = j.nextRecord
               /\ DOMAIN e.scopes \subseteq DOMAIN j.scopes
               /\ \A id \in DOMAIN j.scopes : j.scopes[id].open => id \in DOMAIN e.scopes
               /\ \A id \in DOMAIN e.scopes : e.scopes[id] = j.scopes[id]
               /\ DOMAIN e.records = Newest(DOMAIN j.records, max)
               /\ \A id \in DOMAIN e.records : id \in DOMAIN j.records /\ e.records[id] = j.records[id]
  <1> DEFINE d  == TrimRecords(j, max)
             e  == Trim(j, max)
             rk == Newest(DOMAIN j.records, max)
             sk == (DOMAIN j.scopes \ Closed(j)) \cup Newest(Closed(j), max)
             r  == Retain(j.records, rk)
             s  == Retain(j.scopes, sk)
  <1>1. /\ j \in Journals
        /\ j.scopes \in Maps(ScopeIds, ScopeEntry) /\ j.records \in Maps(RecordIds, RecordEntry)
    BY DEF IsJournal, Journals
  <1>2. /\ rk \in SUBSET DOMAIN j.records /\ sk \in SUBSET DOMAIN j.scopes
        /\ \A id \in DOMAIN j.scopes : j.scopes[id].open => id \in sk
    BY DEF Newest, Closed
  <1> HIDE DEF rk, sk
  <1>3. /\ r \in Maps(RecordIds, RecordEntry) /\ DOMAIN r = rk
        /\ \A x \in rk : r[x] = j.records[x]
    BY <1>1, <1>2, RetainEntries
  <1>4. /\ s \in Maps(ScopeIds, ScopeEntry) /\ DOMAIN s = sk
        /\ \A x \in sk : s[x] = j.scopes[x]
    BY <1>1, <1>2, RetainEntries
  <1>5. d = [j EXCEPT !.records = r]
    BY DEF TrimRecords, rk
  <1> HIDE DEF d, r
  <1>6. /\ d \in Journals /\ d.nextScope = j.nextScope /\ d.nextRecord = j.nextRecord
        /\ d.scopes = j.scopes /\ d.records = r
    BY <1>1, <1>3, <1>5 DEF Journals
  <1>7. Closed(d) = Closed(j)
    BY <1>6 DEF Closed
  <1>8. e = [d EXCEPT !.scopes = s]
    <2>1. e = TrimScopes(d, max)
      BY DEF Trim, d
    <2> QED  BY <1>6, <1>7, <2>1 DEF TrimScopes, sk
  <1> HIDE DEF e, s
  <1>9. /\ e \in Journals /\ e.nextScope = j.nextScope /\ e.nextRecord = j.nextRecord
        /\ e.scopes = s /\ e.records = r
    BY <1>4, <1>6, <1>8 DEF Journals
  <1>10. IsJournal(e)
    BY <1>2, <1>3, <1>4, <1>9 DEF IsJournal
  <1> QED  BY <1>2, <1>3, <1>4, <1>9, <1>10 DEF rk, e

LEMMA ClearFields ==
    ASSUME NEW j, IsJournal(j)
    PROVE  LET e == Clear(j)
           IN  /\ IsJournal(e)
               /\ e.nextScope = j.nextScope /\ e.nextRecord = j.nextRecord
               /\ DOMAIN e.scopes = {} /\ DOMAIN e.records = {}
  <1> DEFINE e == Clear(j)
             nothing == <<>>
  <1>1. /\ nothing \in Maps(ScopeIds, ScopeEntry) /\ nothing \in Maps(RecordIds, RecordEntry)
        /\ DOMAIN nothing = {}
    BY NoEntries
  <1>2. j \in Journals /\ e = [j EXCEPT !.scopes = nothing, !.records = nothing]
    BY DEF Clear, IsJournal
  <1> HIDE DEF e, nothing
  <1>3. /\ e \in Journals /\ e.nextScope = j.nextScope /\ e.nextRecord = j.nextRecord
        /\ e.scopes = nothing /\ e.records = nothing
    BY <1>1, <1>2 DEF Journals
  <1> QED  BY <1>1, <1>3 DEF IsJournal, e

-----------------------------------------------------------------------------
(* Types                                                                    *)

Kinds == {"idle", "panicked", "clear", "reset", "count", "cap", "write", "trim",
          "publish", "drain", "build", "install"}

(* What a place carries, and where the updates of its first field lead.     *)
LEMMA PlaceFields ==
    ASSUME NEW p \in Places
    PROVE  /\ p.at \in Kinds
           /\ p.at = "idle" => p = Idle
           /\ p.at \in {"count", "cap", "write", "trim"} => p.line \in Lines
           /\ p.at = "trim" => p.max \in Caps
           /\ p.at = "publish" => p.id \in ScopeIds /\ p = [at |-> "publish", id |-> p.id]
           /\ p.at \in {"drain", "build", "install"} => p.cfg \in Config /\ p.asked \in Asked
  BY DEF Places, Idle, Kinds

LEMMA PlaceMoves ==
    ASSUME NEW p \in Places
    PROVE  /\ p.at = "clear" => [p EXCEPT !.at = "reset"] = [at |-> "reset"]
           /\ p.at = "count" => /\ [p EXCEPT !.at = "cap"] = [at |-> "cap", line |-> p.line]
                                /\ [p EXCEPT !.at = "write"] = [at |-> "write", line |-> p.line]
           /\ p.at = "drain" => [p EXCEPT !.at = "build"]
                                = [at |-> "build", cfg |-> p.cfg, asked |-> p.asked]
           /\ p.at = "build" => [p EXCEPT !.at = "install"]
                                = [at |-> "install", cfg |-> p.cfg, asked |-> p.asked]
  BY DEF Places, Idle

(* The places a step may lead to.                                           *)
LEMMA PlaceValues ==
    /\ Idle \in Places /\ Idle.at = "idle" /\ [at |-> "panicked"] \in Places
    /\ [at |-> "clear"] \in Places /\ [at |-> "reset"] \in Places
    /\ \A l \in Lines : /\ [at |-> "count", line |-> l] \in Places
                        /\ [at |-> "cap", line |-> l] \in Places
                        /\ [at |-> "write", line |-> l] \in Places
                        /\ \A m \in Caps : [at |-> "trim", line |-> l, max |-> m] \in Places
    /\ \A id \in ScopeIds : [at |-> "publish", id |-> id] \in Places
    /\ \A c \in Config, a \in Asked : /\ [at |-> "drain", cfg |-> c, asked |-> a] \in Places
                                      /\ [at |-> "build", cfg |-> c, asked |-> a] \in Places
                                      /\ [at |-> "install", cfg |-> c, asked |-> a] \in Places
  BY DEF Places, Idle

(* TypeOK, with what it takes to compute the next value of each variable.   *)
Typed ==
    /\ IsJournal(journal)
    /\ stack \in [Threads -> Seq(ScopeIds)] /\ inside \in [Threads -> SUBSET ScopeIds]
    /\ pc \in [Threads -> Places]
    /\ emitCount \in 0..(Interval - 1)
    /\ config \in Config /\ lastCfg \in {<<>>} \cup {<<c>> : c \in Config}
    /\ cfgLock \in Threads \cup {NoThread} /\ writerLock \in Threads \cup {NoThread}
    /\ sink \in Formats /\ handed \in Seq(Lines)
    /\ admin \in 0..MaxAdmin /\ retention \in Caps

LEMMA TypedImpliesTypeOK == Typed => TypeOK
  <1> SUFFICES ASSUME Typed PROVE TypeOK
    OBVIOUS
  <1>1. /\ journal \in Journals
        /\ journal.scopes \in Maps(ScopeIds, ScopeEntry) /\ journal.records \in Maps(RecordIds, RecordEntry)
    BY DEF Typed, IsJournal, Journals
  <1>2. /\ \A id \in DOMAIN journal.scopes : journal.scopes[id] \in ScopeEntry
        /\ \A id \in DOMAIN journal.records : journal.records[id] \in RecordEntry
    BY <1>1, MapsProperties
  <1>3. journal.nextScope \in 0..MaxScopes /\ journal.nextRecord \in 0..MaxRecords
    BY <1>1 DEF Journals
  <1> QED  BY <1>2, <1>3 DEF TypeOK, Typed, IsJournal, ScopeEntry, RecordEntry

LEMMA RetainedScopes ==
    ASSUME Typed
    PROVE  /\ journal.nextScope \in 0..MaxScopes /\ journal.nextRecord \in 0..MaxRecords
           /\ DOMAIN journal.scopes \in SUBSET Nat /\ IsFiniteSet(DOMAIN journal.scopes)
           /\ \A id \in DOMAIN journal.scopes : id < journal.nextScope /\ id \in ScopeIds
           /\ \A id \in DOMAIN journal.scopes : /\ journal.scopes[id].parent \in ScopeRef
                                                /\ journal.scopes[id].open \in BOOLEAN
                                                /\ ScopeLine(id) \in Lines
  <1>1. /\ journal.nextScope \in 0..MaxScopes /\ journal.nextRecord \in 0..MaxRecords
        /\ journal.scopes \in Maps(ScopeIds, ScopeEntry)
        /\ DOMAIN journal.scopes \subseteq 0..(journal.nextScope - 1)
    BY DEF Typed, IsJournal, Journals
  <1>2. \A id \in DOMAIN journal.scopes : id \in ScopeIds /\ journal.scopes[id] \in ScopeEntry
    BY <1>1, MapsProperties
  <1>3. DOMAIN journal.scopes \in SUBSET Nat /\ \A id \in DOMAIN journal.scopes : id < journal.nextScope
    BY <1>1
  <1>4. IsFiniteSet(DOMAIN journal.scopes)
    <2>1. journal.nextScope - 1 \in Int
      BY <1>1
    <2>2. IsFiniteSet(0..(journal.nextScope - 1))
      BY <2>1, FS_Interval
    <2> QED  BY <1>1, <2>2, FS_Subset
  <1>5. \A id \in DOMAIN journal.scopes : /\ journal.scopes[id].parent \in ScopeRef
                                          /\ journal.scopes[id].open \in BOOLEAN
    BY <1>2 DEF ScopeEntry
  <1>6. \A id \in DOMAIN journal.scopes : ScopeLine(id) \in Lines
    BY <1>2, <1>5 DEF ScopeLine, Lines
  <1> QED  BY <1>1, <1>2, <1>3, <1>4, <1>5, <1>6

(* Seeds is a line for each retained scope and for no other, in the order   *)
(* of their identifiers.                                                    *)
LEMMA SeedsProperties ==
    ASSUME Typed
    PROVE  /\ Seeds \in Seq(Lines)
           /\ \A n \in 1..Len(Seeds) : \E id \in DOMAIN journal.scopes : Seeds[n] = ScopeLine(id)
           /\ \A id \in DOMAIN journal.scopes : \E n \in 1..Len(Seeds) : Seeds[n] = ScopeLine(id)
  <1> DEFINE ids == DOMAIN journal.scopes
             Nth(n) == CHOOSE x \in ids : Cardinality({y \in ids : y < x}) = n - 1
  <1>1. ids \in SUBSET Nat /\ IsFiniteSet(ids) /\ \A id \in ids : ScopeLine(id) \in Lines
    BY RetainedScopes
  <1>2. Seeds = [n \in 1..Cardinality(ids) |-> ScopeLine(Nth(n))]
    BY DEF Seeds
  <1> HIDE DEF ids
  <1>3. \A n \in 1..Cardinality(ids) : Nth(n) \in ids /\ Cardinality(Below(ids, Nth(n))) = n - 1
    <2> SUFFICES ASSUME NEW n \in 1..Cardinality(ids)
                 PROVE  Nth(n) \in ids /\ Cardinality(Below(ids, Nth(n))) = n - 1
      OBVIOUS
    <2>1. \E x \in ids : Cardinality({y \in ids : y < x}) = n - 1
      BY <1>1, RankReached DEF Below
    <2> QED  BY <2>1 DEF Below
  <1> HIDE DEF Nth
  <1>4. Cardinality(ids) \in Nat
    BY <1>1, FS_CardinalityType
  <1>5. Seeds \in Seq(Lines) /\ Len(Seeds) = Cardinality(ids)
    <2>1. Seeds \in [1..Cardinality(ids) -> Lines]
      BY <1>1, <1>2, <1>3
    <2> QED  BY <1>4, <2>1
  <1>6. \A n \in 1..Len(Seeds) : \E id \in ids : Seeds[n] = ScopeLine(id)
    BY <1>2, <1>3, <1>5
  <1>7. ASSUME NEW id \in ids PROVE \E n \in 1..Len(Seeds) : Seeds[n] = ScopeLine(id)
    <2> DEFINE n == Cardinality(Below(ids, id)) + 1
    <2>1. n \in 1..Cardinality(ids) /\ n - 1 = Cardinality(Below(ids, id))
      BY <1>1, <1>4, Ranks
    <2> HIDE DEF n
    <2>2. Nth(n) \in ids /\ Cardinality(Below(ids, Nth(n))) = Cardinality(Below(ids, id))
      BY <1>3, <2>1
    <2>3. Nth(n) = id
      <3>1. Nth(n) \in Nat /\ id \in Nat
        BY <1>1, <2>2
      <3>3. Cardinality(Below(ids, id)) \in Int
        BY <1>4, <2>1
      <3>2. ~ (Nth(n) < id) /\ ~ (id < Nth(n))
        BY <1>1, <2>2, <3>1, <3>3, RankGrows
      <3> QED  BY <3>1, <3>2
    <2> QED  BY <1>2, <1>5, <2>1, <2>3
  <1> QED  BY <1>5, <1>6, <1>7 DEF ids

LEMMA TopType ==
    ASSUME NEW s \in Seq(ScopeIds)
    PROVE  Top(s) \in ScopeRef /\ (s # <<>> => Len(s) \in 1..Len(s) /\ Top(s) = s[Len(s)])
  <1>1. CASE s = <<>>
    BY <1>1 DEF Top, ScopeRef
  <1>2. CASE s # <<>>
    <2>1. Len(s) \in 1..Len(s)
      BY <1>2, EmptySeq, LenProperties
    <2>2. s[Len(s)] \in ScopeIds
      BY <2>1, ElementOfSeq
    <2> QED  BY <1>2, <2>1, <2>2 DEF Top, ScopeRef
  <1> QED  BY <1>1, <1>2

(* What remains of a stack without a scope: nothing changes if the scope is *)
(* not there, its last position goes if it is.                              *)
LEMMA WithoutElement ==
    ASSUME NEW S, NEW s \in Seq(S), NEW id
    PROVE  \/ /\ Without(s, id) = s
              /\ \A i \in 1..Len(s) : s[i] # id
           \/ \E p \in 1..Len(s) :
                 /\ s[p] = id
                 /\ Without(s, id) \in Seq(S) /\ Len(Without(s, id)) = Len(s) - 1
                 /\ \A i \in 1..(Len(s) - 1) :
                       Without(s, id)[i] = IF i < p THEN s[i] ELSE s[i + 1]
  <1> DEFINE at == {i \in 1..Len(s) : s[i] = id}
             p  == CHOOSE i \in at : \A k \in at : k <= i
  <1>1. CASE at = {}
    BY <1>1 DEF Without
  <1>2. CASE at # {}
    <2>1. Len(s) \in Nat /\ at \in SUBSET (0..Len(s))
      BY LenProperties
    <2>2. \E i \in at : \A k \in at : k <= i
      BY <1>2, <2>1, GreatestElement
    <2>3. p \in at
      BY <2>2
    <2>4. p \in 1..Len(s) /\ s[p] = id
      BY <2>3
    <2>5. Without(s, id) = SubSeq(s, 1, p - 1) \o SubSeq(s, p + 1, Len(s))
      BY <1>2 DEF Without
    <2> HIDE DEF p
    <2>6. /\ SubSeq(s, 1, p - 1) \o SubSeq(s, p + 1, Len(s)) \in Seq(S)
          /\ Len(SubSeq(s, 1, p - 1) \o SubSeq(s, p + 1, Len(s))) = Len(s) - 1
          /\ \A i \in 1..(Len(s) - 1) :
                (SubSeq(s, 1, p - 1) \o SubSeq(s, p + 1, Len(s)))[i] = IF i < p THEN s[i] ELSE s[i + 1]
      BY <2>4, RemovedAt
    <2> QED  BY <2>4, <2>5, <2>6
  <1> QED  BY <1>1, <1>2

LEMMA WithoutType ==
    ASSUME NEW S, NEW s \in Seq(S), NEW id
    PROVE  Without(s, id) \in Seq(S)
  BY WithoutElement

LEMMA NewLine ==
    ASSUME Typed, NEW t \in Threads, journal.nextRecord < MaxRecords,
           NEW kind \in {"event", "exit"}, NEW scope \in ScopeRef,
           NEW snapshot \in {"open", "closed", "none"}
    PROVE  Line(t, kind, journal.nextRecord, scope, snapshot) \in Lines
  <1>1. journal.nextRecord \in RecordIds
    BY RetainedScopes, RuntimeAssumption DEF RecordIds, RuntimeAssumption
  <1> QED  BY <1>1 DEF Line, Lines

LEMMA CapsPositive ==
    /\ Caps \subseteq Nat \ {0} /\ DefaultRetention \in Caps
    /\ \A n \in Retentions : AtLeastOne(n) \in Caps
  BY RuntimeAssumption DEF Caps, AtLeastOne, RuntimeAssumption

LEMMA RetainedType ==
    ASSUME NEW a \in Asked, NEW r \in Caps
    PROVE  Retained(a, r) \in Caps
  <1>1. CASE a = <<>>
    BY <1>1 DEF Retained
  <1>2. CASE a # <<>>
    <2>1. PICK n \in Retentions : a = <<n>>
      BY <1>2 DEF Asked
    <2>2. Retained(a, r) = AtLeastOne(n)
      BY <1>2, <2>1 DEF Retained
    <2> QED  BY <2>2, CapsPositive
  <1> QED  BY <1>1, <1>2

LEMMA TypedInit == Init => Typed
  <1> SUFFICES ASSUME Init PROVE Typed
    OBVIOUS
  <1>1. config \in Config /\ lastCfg = <<>> /\ retention \in Caps
    BY CapsPositive, FormatsAssumption DEF Init, Config, FormatsAssumption
  <1>2. IsJournal(journal)
    BY NewJournalType DEF Init
  <1>3. pc \in [Threads -> Places] /\ stack \in [Threads -> Seq(ScopeIds)]
    BY PlaceValues DEF Init
  <1> QED  BY <1>1, <1>2, <1>3, RuntimeAssumption, FormatsAssumption
           DEF Init, Typed, RuntimeAssumption, FormatsAssumption

LEMMA TypedStep ==
    ASSUME Typed, NEW t \in Threads, Call(t) \/ Continue(t)
    PROVE  Typed'
  <1> USE DEF Typed
  <1>1. pc[t] \in Places /\ stack[t] \in Seq(ScopeIds) /\ inside[t] \in SUBSET ScopeIds
    OBVIOUS
  <1>2. Top(stack[t]) \in ScopeRef
    BY <1>1, TopType
  <1>3. CASE Emit(t)
    <2>1. journal.nextRecord < MaxRecords /\ journal' = RecordEvent(journal, Top(stack[t]))
      BY <1>3 DEF Emit
    <2>2. IsJournal(journal')
      BY <1>2, <2>1, RecordEventFields
    <2>3. Snapshot(journal, Top(stack[t])) \in {"open", "closed", "none"}
      BY DEF Snapshot
    <2> DEFINE line == Line(t, "event", journal.nextRecord, Top(stack[t]), Snapshot(journal, Top(stack[t])))
    <2>4. line \in Lines
      BY <1>2, <2>1, <2>3, NewLine
    <2>5. pc' = [pc EXCEPT ![t] = [at |-> "count", line |-> line]]
      BY <1>3 DEF Emit
    <2> HIDE DEF line
    <2>6. pc' \in [Threads -> Places]
      BY <2>4, <2>5, PlaceValues
    <2> QED  BY <1>3, <2>2, <2>6 DEF Emit, stackVars, configVars
  <1>4. CASE EmitCount(t)
    <2>1. pc[t].at = "count" /\ pc[t].line \in Lines
      BY <1>1, <1>4, PlaceFields DEF EmitCount
    <2>2. [pc[t] EXCEPT !.at = "cap"] \in Places /\ [pc[t] EXCEPT !.at = "write"] \in Places
      BY <1>1, <2>1, PlaceMoves, PlaceValues
    <2>3. pc' = [pc EXCEPT ![t] = [pc[t] EXCEPT !.at = IF emitCount = 0 THEN "cap" ELSE "write"]]
      BY <1>4 DEF EmitCount
    <2>4. pc' \in [Threads -> Places]
      BY <2>2, <2>3
    <2>5. emitCount' \in 0..(Interval - 1)
      BY <1>4, RuntimeAssumption DEF EmitCount, RuntimeAssumption
    <2> QED  BY <1>4, <2>4, <2>5 DEF EmitCount, stackVars, configVars
  <1>5. CASE EmitCap(t)
    <2>1. pc[t].line \in Lines /\ config.max \in Caps
      BY <1>1, <1>5, PlaceFields DEF EmitCap, Config
    <2>2. pc' \in [Threads -> Places]
      BY <1>5, <2>1, PlaceValues DEF EmitCap
    <2> QED  BY <1>5, <2>2 DEF EmitCap, stackVars, configVars
  <1>6. CASE EmitTrim(t)
    <2>1. pc[t].line \in Lines
      BY <1>1, <1>6, PlaceFields DEF EmitTrim
    <2>2. pc' \in [Threads -> Places]
      BY <1>6, <2>1, PlaceValues DEF EmitTrim
    <2>3. IsJournal(journal')
      BY <1>6, TrimFields DEF EmitTrim
    <2> QED  BY <1>6, <2>2, <2>3 DEF EmitTrim, stackVars, configVars
  <1>7. CASE WriteRecord(t)
    <2>1. pc[t].line \in Lines
      BY <1>1, <1>7, PlaceFields DEF WriteRecord
    <2>2. pc' \in [Threads -> Places]
      BY <1>7, PlaceValues DEF WriteRecord
    <2>3. handed' \in Seq(Lines)
      BY <1>7, <2>1, AppendProperties DEF WriteRecord
    <2> QED  BY <1>7, <2>2, <2>3 DEF WriteRecord, stackVars, configVars
  <1>8. CASE Enter(t)
    <2>1. journal.nextScope < MaxScopes /\ journal' = EnterScope(journal, Top(stack[t]))
      BY <1>8 DEF Enter
    <2>2. IsJournal(journal')
      BY <1>2, <2>1, EnterScopeFields
    <2>3. journal.nextScope \in ScopeIds
      BY <2>1, RetainedScopes, RuntimeAssumption DEF ScopeIds, RuntimeAssumption
    <2>4. pc' \in [Threads -> Places]
      BY <1>8, <2>3, PlaceValues DEF Enter
    <2>5. Append(stack[t], journal.nextScope) \in Seq(ScopeIds)
      BY <1>1, <2>3, AppendProperties
    <2>6. stack' \in [Threads -> Seq(ScopeIds)] /\ inside' \in [Threads -> SUBSET ScopeIds]
      BY <1>8, <2>3, <2>5 DEF Enter
    <2> QED  BY <1>8, <2>2, <2>4, <2>6 DEF Enter, configVars
  <1>9. CASE PublishScope(t)
    <2>1. pc' \in [Threads -> Places]
      BY <1>9, PlaceValues DEF PublishScope
    <2>2. sink = "jsonl" => ScopeLine(pc[t].id) \in Lines
      BY <1>9, RetainedScopes DEF PublishScope
    <2>3. handed' \in Seq(Lines)
      BY <1>9, <2>2, AppendProperties DEF PublishScope
    <2> QED  BY <1>9, <2>1, <2>3 DEF PublishScope, stackVars, configVars
  <1>10. CASE PublishPanics(t)
    <2>1. pc' \in [Threads -> Places]
      BY <1>10, PlaceValues DEF PublishPanics
    <2> QED  BY <1>10, <2>1 DEF PublishPanics, stackVars, configVars
  <1>11. CASE \E id \in 0..(MaxScopes - 1) : Exit(t, id)
    <2> PICK id \in 0..(MaxScopes - 1) : Exit(t, id)
      BY <1>11
    <2>1. journal.nextRecord < MaxRecords /\ journal' = ExitScope(journal, id, "success")
      BY DEF Exit
    <2>2. IsJournal(journal')
      BY <2>1, ExitScopeFields
    <2> DEFINE line == Line(t, "exit", journal.nextRecord, id, "closed")
    <2>3. line \in Lines
      <3>1. id \in ScopeRef
        BY DEF ScopeRef, ScopeIds
      <3> QED  BY <2>1, <3>1, NewLine
    <2>4. pc' = [pc EXCEPT ![t] = [at |-> "write", line |-> line]] \/ pc' = pc
      BY DEF Exit
    <2> HIDE DEF line
    <2>5. pc' \in [Threads -> Places]
      BY <2>3, <2>4, PlaceValues
    <2>6. Without(stack[t], id) \in Seq(ScopeIds)
      BY <1>1, WithoutType
    <2>7. stack' \in [Threads -> Seq(ScopeIds)] /\ inside' \in [Threads -> SUBSET ScopeIds]
      BY <2>6 DEF Exit
    <2> QED  BY <2>2, <2>5, <2>7 DEF Exit, configVars
  <1>12. CASE ClearStart(t)
    <2>1. pc' \in [Threads -> Places]
      BY <1>12, PlaceValues DEF ClearStart
    <2>2. admin' \in 0..MaxAdmin
      BY <1>12, RuntimeAssumption DEF ClearStart, RuntimeAssumption
    <2> QED  BY <1>12, <2>1, <2>2 DEF ClearStart, stackVars, configVars
  <1>13. CASE ClearJournal(t)
    <2>1. [pc[t] EXCEPT !.at = "reset"] \in Places
      BY <1>1, <1>13, PlaceMoves, PlaceValues DEF ClearJournal
    <2>2. pc' = [pc EXCEPT ![t] = [pc[t] EXCEPT !.at = "reset"]]
      BY <1>13 DEF ClearJournal
    <2>3. pc' \in [Threads -> Places]
      BY <2>1, <2>2
    <2>4. IsJournal(journal')
      BY <1>13, ClearFields DEF ClearJournal
    <2> QED  BY <1>13, <2>3, <2>4 DEF ClearJournal, stackVars, configVars
  <1>14. CASE ClearEnd(t)
    <2>1. pc' \in [Threads -> Places]
      BY <1>14, PlaceValues DEF ClearEnd
    <2>2. stack' \in [Threads -> Seq(ScopeIds)] /\ inside' \in [Threads -> SUBSET ScopeIds]
      BY <1>14, EmptySeq DEF ClearEnd
    <2> QED  BY <1>14, <2>1, <2>2, RuntimeAssumption DEF ClearEnd, configVars, RuntimeAssumption
  <1>15. CASE \E n \in Retentions : SetRetention(t, n)
    <2> PICK n \in Retentions : SetRetention(t, n)
      BY <1>15
    <2> DEFINE max == AtLeastOne(n)
    <2>1. max \in Caps
      BY CapsPositive
    <2>2. /\ config' = [config EXCEPT !.max = max]
          /\ lastCfg' = IF lastCfg = <<>> THEN <<>> ELSE <<[lastCfg[1] EXCEPT !.max = max]>>
          /\ retention' = max
      BY DEF SetRetention
    <2> HIDE DEF max
    <2>3. config' \in Config
      BY <2>1, <2>2 DEF Config
    <2>4. lastCfg' \in {<<>>} \cup {<<c>> : c \in Config}
      <3>1. CASE lastCfg = <<>>
        BY <2>2, <3>1
      <3>2. CASE lastCfg # <<>>
        <4>1. PICK c \in Config : lastCfg = <<c>>
          BY <3>2
        <4>2. [c EXCEPT !.max = max] \in Config /\ lastCfg[1] = c
          BY <2>1, <4>1 DEF Config
        <4> QED  BY <2>2, <3>2, <4>2
      <3> QED  BY <3>1, <3>2
    <2>5. admin' \in 0..MaxAdmin
      BY RuntimeAssumption DEF SetRetention, RuntimeAssumption
    <2> QED  BY <2>1, <2>2, <2>3, <2>4, <2>5 DEF SetRetention, stackVars
  <1>16. CASE \E format \in Formats, asked \in Asked, force \in BOOLEAN : Reconfigure(t, format, asked, force)
    <2> PICK format \in Formats, asked \in Asked, force \in BOOLEAN : Reconfigure(t, format, asked, force)
      BY <1>16
    <2> DEFINE cfg == [format |-> format, max |-> Retained(asked, config.max)]
    <2>1. cfg \in Config
      <3>1. config.max \in Caps
        BY DEF Config
      <3> QED  BY <3>1, RetainedType DEF Config
    <2>2. pc' = pc \/ pc' = [pc EXCEPT ![t] = [at |-> "drain", cfg |-> cfg, asked |-> asked]]
      BY DEF Reconfigure
    <2>3. cfgLock' \in Threads \cup {NoThread}
      BY DEF Reconfigure
    <2> HIDE DEF cfg
    <2>4. pc' \in [Threads -> Places]
      BY <2>1, <2>2, PlaceValues
    <2>5. admin' \in 0..MaxAdmin
      BY RuntimeAssumption DEF Reconfigure, RuntimeAssumption
    <2> QED  BY <2>3, <2>4, <2>5 DEF Reconfigure, stackVars
  <1>17. CASE Drain(t)
    <2>1. pc[t].cfg \in Config /\ pc[t].asked \in Asked
      BY <1>1, <1>17, PlaceFields DEF Drain
    <2>2. [pc[t] EXCEPT !.at = "build"] \in Places
      <3>1. [pc[t] EXCEPT !.at = "build"] = [at |-> "build", cfg |-> pc[t].cfg, asked |-> pc[t].asked]
        BY <1>1, <1>17, PlaceMoves DEF Drain
      <3>2. [at |-> "build", cfg |-> pc[t].cfg, asked |-> pc[t].asked] \in Places
        BY <2>1, PlaceValues
      <3> QED  BY <3>1, <3>2
    <2>3. pc' = [pc EXCEPT ![t] = [pc[t] EXCEPT !.at = "build"]]
      BY <1>17 DEF Drain
    <2>4. pc' \in [Threads -> Places]
      BY <2>2, <2>3
    <2> QED  BY <1>17, <2>4 DEF Drain, stackVars, configVars
  <1>18. CASE Build(t)
    <2>1. pc[t].cfg \in Config /\ pc[t].asked \in Asked
      BY <1>1, <1>18, PlaceFields DEF Build
    <2>2. [pc[t] EXCEPT !.at = "install"] \in Places
      <3>1. [pc[t] EXCEPT !.at = "install"] = [at |-> "install", cfg |-> pc[t].cfg, asked |-> pc[t].asked]
        BY <1>1, <1>18, PlaceMoves DEF Build
      <3>2. [at |-> "install", cfg |-> pc[t].cfg, asked |-> pc[t].asked] \in Places
        BY <2>1, PlaceValues
      <3> QED  BY <3>1, <3>2
    <2>3. pc' = [pc EXCEPT ![t] = [pc[t] EXCEPT !.at = "install"]]
      BY <1>18 DEF Build
    <2>4. pc' \in [Threads -> Places]
      BY <2>2, <2>3
    <2>5. handed' \in Seq(Lines)
      BY <1>18, SeedsProperties, ConcatProperties DEF Build
    <2> QED  BY <1>18, <2>4, <2>5 DEF Build, stackVars, configVars
  <1>19. CASE BuildFails(t)
    <2>1. pc' \in [Threads -> Places]
      BY <1>19, PlaceValues DEF BuildFails
    <2>2. \A n \in 0..Len(Seeds) : SubSeq(Seeds, 1, n) \in Seq(Lines)
      BY SeedsProperties, SubSeqProperties, ElementOfSeq
    <2>3. \E n \in 0..Len(Seeds) : handed' = handed \o SubSeq(Seeds, 1, n)
      <3>1. Len(Seeds) \in Nat
        BY SeedsProperties, LenProperties
      <3>2. \E n \in 0..(IF pc[t].cfg.format = "jsonl" THEN Len(Seeds) ELSE 0) :
               handed' = handed \o SubSeq(Seeds, 1, n)
        BY <1>19 DEF BuildFails
      <3>3. 0..(IF pc[t].cfg.format = "jsonl" THEN Len(Seeds) ELSE 0) \subseteq 0..Len(Seeds)
        BY <3>1
      <3> QED  BY <3>2, <3>3
    <2>4. handed' \in Seq(Lines)
      BY <2>2, <2>3, ConcatProperties
    <2> QED  BY <1>19, <2>1, <2>4 DEF BuildFails, stackVars
  <1>20. CASE Install(t)
    <2>1. pc[t].cfg \in Config /\ pc[t].cfg.format \in Formats
      BY <1>1, <1>20, PlaceFields DEF Install, Config
    <2>2. pc' \in [Threads -> Places]
      BY <1>20, PlaceValues DEF Install
    <2>3. retention' \in Caps
      <3>1. pc[t].asked \in Asked /\ retention' = Retained(pc[t].asked, retention)
        BY <1>1, <1>20, PlaceFields DEF Install
      <3> QED  BY <3>1, RetainedType
    <2> QED  BY <1>20, <2>1, <2>2, <2>3 DEF Install, stackVars
  <1> QED  BY <1>3, <1>4, <1>5, <1>6, <1>7, <1>8, <1>9, <1>10, <1>11, <1>12, <1>13, <1>14,
             <1>15, <1>16, <1>17, <1>18, <1>19, <1>20 DEF Call, Continue

LEMMA TypedInvariant == Spec => []Typed
  <1>1. Typed /\ [Next]_vars => Typed'
    <2> SUFFICES ASSUME Typed, [Next]_vars PROVE Typed'
      OBVIOUS
    <2>1. CASE Next
      BY <2>1, TypedStep DEF Next
    <2>2. CASE UNCHANGED vars
      BY <2>2 DEF vars, Typed
    <2> QED  BY <2>1, <2>2
  <1> QED  BY <1>1, TypedInit, PTL DEF Spec

-----------------------------------------------------------------------------
(* The configuration behind its locks                                       *)

(* Each lock is held by the thread at the steps it covers and by no other;  *)
(* the configuration, the retention set last, the installed writer and      *)
(* last_cfg agree even while update_writers runs, and the copy that it      *)
(* works on has the retention its caller asked for, or else the one set     *)
(* last, which no other call changes meanwhile.                             *)
Locks ==
    /\ \A t \in Threads : pc[t].at \in {"drain", "build", "install"} <=> cfgLock = t
    /\ \A t \in Threads : pc[t].at \in {"clear", "reset", "build", "install"} <=> writerLock = t
    /\ config.max = retention /\ config.format = sink
    /\ lastCfg # <<>> => lastCfg = <<config>>
    /\ \A t \in Threads : pc[t].at \in {"drain", "build", "install"} =>
          pc[t].cfg.max = Retained(pc[t].asked, retention)

LEMMA LocksInit == Init => Locks
  BY ThreadsAssumption DEF Init, Locks, Idle, ThreadsAssumption

(* A step that moves a thread between places outside both locks and leaves  *)
(* the configuration alone.                                                 *)
LEMMA LocksElsewhere ==
    ASSUME Typed, Locks, NEW t \in Threads, UNCHANGED <<configVars, writerLock, sink>>,
           pc' = [pc EXCEPT ![t] = pc'[t]],
           pc[t].at \in {"idle", "count", "cap", "trim", "write", "publish"},
           pc'[t].at \in {"idle", "panicked", "count", "cap", "trim", "write", "publish"}
    PROVE  Locks'
  <1>1. pc \in [Threads -> Places]
    BY DEF Typed
  <1>2. \A u \in Threads : u # t => pc'[u] = pc[u]
    BY <1>1
  <1> QED  BY <1>2 DEF Locks, configVars

LEMMA LocksStep ==
    ASSUME Typed, Locks, NEW t \in Threads, Call(t) \/ Continue(t)
    PROVE  Locks'
  <1>1. pc \in [Threads -> Places] /\ pc[t] \in Places /\ NoThread \notin Threads
    BY ThreadsAssumption DEF Typed, ThreadsAssumption
  <1>2. CASE Emit(t) \/ EmitCount(t) \/ EmitCap(t) \/ EmitTrim(t) \/ WriteRecord(t)
             \/ Enter(t) \/ PublishScope(t) \/ PublishPanics(t)
             \/ \E id \in 0..(MaxScopes - 1) : Exit(t, id)
    <2>1. UNCHANGED <<configVars, writerLock, sink>>
      BY <1>2 DEF Emit, EmitCount, EmitCap, EmitTrim, WriteRecord, Enter, PublishScope, PublishPanics, Exit
    <2>2. pc[t].at \in {"idle", "count", "cap", "trim", "write", "publish"}
      BY <1>2 DEF Emit, EmitCount, EmitCap, EmitTrim, WriteRecord, Enter, PublishScope, PublishPanics, Exit, Idle
    <2>3. pc' = [pc EXCEPT ![t] = pc'[t]]
      BY <1>1, <1>2 DEF Emit, EmitCount, EmitCap, EmitTrim, WriteRecord, Enter, PublishScope, PublishPanics, Exit
    <2>4. pc'[t].at \in {"idle", "panicked", "count", "cap", "trim", "write", "publish"}
      <3>1. CASE EmitCount(t)
        <4>1. pc'[t] = [pc[t] EXCEPT !.at = IF emitCount = 0 THEN "cap" ELSE "write"] /\ pc[t].at = "count"
          BY <1>1, <3>1 DEF EmitCount
        <4> QED  BY <1>1, <4>1, PlaceMoves
      <3>2. CASE ~ EmitCount(t)
        BY <1>1, <1>2, <2>2, <3>2 DEF Emit, EmitCap, EmitTrim, WriteRecord, Enter, PublishScope, PublishPanics,
                                      Exit, Idle
      <3> QED  BY <3>1, <3>2
    <2> QED  BY <2>1, <2>2, <2>3, <2>4, LocksElsewhere
  <1>3. CASE ClearStart(t)
    <2>1. pc'[t].at = "clear" /\ \A u \in Threads : u # t => pc'[u] = pc[u]
      BY <1>1, <1>3 DEF ClearStart
    <2> QED  BY <1>1, <1>3, <2>1 DEF ClearStart, Locks, configVars, Idle
  <1>4. CASE ClearJournal(t)
    <2>1. pc'[t] = [pc[t] EXCEPT !.at = "reset"] /\ \A u \in Threads : u # t => pc'[u] = pc[u]
      BY <1>1, <1>4 DEF ClearJournal
    <2>2. pc'[t].at = "reset"
      BY <1>1, <1>4, <2>1, PlaceMoves DEF ClearJournal
    <2> QED  BY <1>1, <1>4, <2>1, <2>2 DEF ClearJournal, Locks, configVars
  <1>5. CASE ClearEnd(t)
    <2>1. pc'[t].at = "idle" /\ \A u \in Threads : u # t => pc'[u] = pc[u]
      BY <1>1, <1>5 DEF ClearEnd, Idle
    <2> QED  BY <1>1, <1>5, <2>1 DEF ClearEnd, Locks, configVars
  <1>6. CASE \E n \in Retentions : SetRetention(t, n)
    <2> PICK n \in Retentions : SetRetention(t, n)
      BY <1>6
    <2> DEFINE max == AtLeastOne(n)
    <2>1. /\ config' = [config EXCEPT !.max = max]
          /\ lastCfg' = IF lastCfg = <<>> THEN <<>> ELSE <<[lastCfg[1] EXCEPT !.max = max]>>
          /\ retention' = max /\ cfgLock = NoThread /\ UNCHANGED <<pc, cfgLock, writerLock, sink>>
      BY DEF SetRetention
    <2> HIDE DEF max
    <2>2. config \in Config
      BY DEF Typed
    <2>3. config'.max = max /\ config'.format = config.format
      BY <2>1, <2>2 DEF Config
    <2>4. lastCfg' # <<>> => lastCfg' = <<config'>>
      BY <2>1 DEF Locks
    <2> QED  BY <1>1, <2>1, <2>3, <2>4 DEF Locks
  <1>7. CASE \E format \in Formats, asked \in Asked, force \in BOOLEAN : Reconfigure(t, format, asked, force)
    <2> PICK format \in Formats, asked \in Asked, force \in BOOLEAN : Reconfigure(t, format, asked, force)
      BY <1>7
    <2> DEFINE cfg == [format |-> format, max |-> Retained(asked, config.max)]
    <2>1. /\ \/ UNCHANGED <<pc, cfgLock>>
             \/ pc' = [pc EXCEPT ![t] = [at |-> "drain", cfg |-> cfg, asked |-> asked]] /\ cfgLock' = t
          /\ cfgLock = NoThread /\ pc[t].at = "idle"
          /\ UNCHANGED <<config, lastCfg, writerLock, sink, retention>>
      BY DEF Reconfigure, Idle
    <2>2. cfg.max = Retained(asked, config.max)
      OBVIOUS
    <2>3. cfg.max = Retained(asked, retention)
      BY <2>2 DEF Locks
    <2> HIDE DEF cfg
    <2>4. CASE UNCHANGED <<pc, cfgLock>>
      BY <2>1, <2>4 DEF Locks
    <2>5. CASE pc' = [pc EXCEPT ![t] = [at |-> "drain", cfg |-> cfg, asked |-> asked]] /\ cfgLock' = t
      <3>1. /\ pc'[t].at = "drain" /\ pc'[t].cfg = cfg /\ pc'[t].asked = asked
            /\ \A u \in Threads : u # t => pc'[u] = pc[u]
        BY <1>1, <2>5
      <3> QED  BY <1>1, <2>1, <2>3, <2>5, <3>1 DEF Locks
    <2> QED  BY <2>1, <2>4, <2>5
  <1>8. CASE Drain(t)
    <2>1. pc'[t] = [pc[t] EXCEPT !.at = "build"] /\ \A u \in Threads : u # t => pc'[u] = pc[u]
      BY <1>1, <1>8 DEF Drain
    <2>2. pc'[t].at = "build" /\ pc'[t].cfg = pc[t].cfg /\ pc'[t].asked = pc[t].asked
      BY <1>1, <1>8, <2>1, PlaceMoves DEF Drain
    <2> QED  BY <1>1, <1>8, <2>1, <2>2 DEF Drain, Locks, configVars
  <1>9. CASE Build(t)
    <2>1. pc'[t] = [pc[t] EXCEPT !.at = "install"] /\ \A u \in Threads : u # t => pc'[u] = pc[u]
      BY <1>1, <1>9 DEF Build
    <2>2. pc'[t].at = "install" /\ pc'[t].cfg = pc[t].cfg /\ pc'[t].asked = pc[t].asked
      BY <1>1, <1>9, <2>1, PlaceMoves DEF Build
    <2> QED  BY <1>1, <1>9, <2>1, <2>2 DEF Build, Locks, configVars
  <1>10. CASE BuildFails(t)
    <2>1. pc'[t].at = "idle" /\ \A u \in Threads : u # t => pc'[u] = pc[u]
      BY <1>1, <1>10 DEF BuildFails, Idle
    <2>2. pc[t].at = "build" /\ writerLock' = NoThread /\ cfgLock' = NoThread
          /\ UNCHANGED <<config, lastCfg, sink, retention>>
      BY <1>10 DEF BuildFails
    <2> QED  BY <1>1, <2>1, <2>2 DEF Locks
  <1>11. CASE Install(t)
    <2>1. pc'[t].at = "idle" /\ \A u \in Threads : u # t => pc'[u] = pc[u]
      BY <1>1, <1>11 DEF Install, Idle
    <2> QED  BY <1>1, <1>11, <2>1 DEF Install, Locks
  <1> QED  BY <1>2, <1>3, <1>4, <1>5, <1>6, <1>7, <1>8, <1>9, <1>10, <1>11 DEF Call, Continue

LEMMA LocksInvariant == Spec => [](Typed /\ Locks)
  <1>1. Typed /\ Locks /\ [Next]_vars => Locks'
    <2> SUFFICES ASSUME Typed, Locks, [Next]_vars PROVE Locks'
      OBVIOUS
    <2>1. CASE Next
      BY <2>1, LocksStep DEF Next
    <2>2. CASE UNCHANGED vars
      BY <2>2 DEF vars, Locks
    <2> QED  BY <2>1, <2>2
  <1> QED  BY <1>1, LocksInit, TypedInvariant, PTL DEF Spec

(* Concurrent set_journal_retention and update_writers calls lose no update *)
(* of the configuration, whatever the threads, formats and caps; and every  *)
(* variable of the runtime keeps its type.                                  *)
THEOREM ConfigurationAgrees == Spec => []ConfigAgrees
  <1>1. Typed /\ Locks => ConfigAgrees
    BY TypedImpliesTypeOK DEF Locks, ConfigAgrees
  <1> QED  BY <1>1, LocksInvariant, PTL

-----------------------------------------------------------------------------
(* The current scope                                                        *)

(* A stack holds the scopes its thread has entered and not left, from the   *)
(* oldest to the newest: identifiers grow, and none is yet to be allocated. *)
Stacks ==
    \A t \in Threads :
        /\ \A i, j \in 1..Len(stack[t]) : i < j => stack[t][i] < stack[t][j]
        /\ \A i \in 1..Len(stack[t]) : stack[t][i] < journal.nextScope
        /\ inside[t] = {stack[t][i] : i \in 1..Len(stack[t])}

(* What the journal is after each step that changes it.                     *)
LEMMA EmitEffect ==
    ASSUME Typed, NEW t \in Threads, Emit(t)
    PROVE  /\ journal'.nextScope = journal.nextScope /\ journal'.scopes = journal.scopes
           /\ journal'.nextRecord = journal.nextRecord + 1
           /\ DOMAIN journal'.records = DOMAIN journal.records \cup {journal.nextRecord}
           /\ journal'.records[journal.nextRecord].kind = "event"
           /\ \A id \in DOMAIN journal.records : journal'.records[id] = journal.records[id]
  <1> DEFINE scope == Top(stack[t])
  <1>1. /\ IsJournal(journal) /\ journal.nextRecord < MaxRecords
        /\ journal' = RecordEvent(journal, scope)
    BY DEF Emit, Typed
  <1>2. scope \in ScopeRef
    BY TopType DEF Typed
  <1> HIDE DEF scope
  <1>3. journal'.records[journal.nextRecord] = [kind |-> "event", scope |-> scope]
    BY <1>1, <1>2, RecordEventFields
  <1>4. journal'.records[journal.nextRecord].kind = "event"
    BY <1>3
  <1> QED  BY <1>1, <1>2, <1>4, RecordEventFields

LEMMA EnterEffect ==
    ASSUME Typed, NEW t \in Threads, Enter(t)
    PROVE  /\ journal.nextScope \in ScopeIds
           /\ journal'.nextScope = journal.nextScope + 1
           /\ journal'.nextRecord = journal.nextRecord /\ journal'.records = journal.records
           /\ DOMAIN journal'.scopes = DOMAIN journal.scopes \cup {journal.nextScope}
           /\ journal'.scopes[journal.nextScope].parent = Top(stack[t])
           /\ journal'.scopes[journal.nextScope].open
           /\ \A id \in DOMAIN journal.scopes : journal'.scopes[id] = journal.scopes[id]
  <1> DEFINE parent == Top(stack[t])
  <1>1. /\ IsJournal(journal) /\ journal.nextScope < MaxScopes
        /\ journal' = EnterScope(journal, parent)
    BY DEF Enter, Typed
  <1>2. parent \in ScopeRef
    BY TopType DEF Typed
  <1>3. journal.nextScope \in ScopeIds
    BY <1>1, RetainedScopes, RuntimeAssumption DEF ScopeIds, RuntimeAssumption
  <1> HIDE DEF parent
  <1> QED  BY <1>1, <1>2, <1>3, EnterScopeFields DEF parent

LEMMA ExitEffect ==
    ASSUME Typed, NEW t \in Threads, NEW id, Exit(t, id)
    PROVE  /\ journal'.nextScope = journal.nextScope
           /\ journal'.nextRecord = journal.nextRecord + 1
           /\ DOMAIN journal'.scopes = DOMAIN journal.scopes
           /\ \A x \in DOMAIN journal.scopes :
                 /\ journal'.scopes[x].parent = journal.scopes[x].parent
                 /\ journal'.scopes[x].open <=> journal.scopes[x].open /\ x # id
           /\ DOMAIN journal'.records
                 = DOMAIN journal.records \cup (IF Open(journal, id) THEN {journal.nextRecord} ELSE {})
           /\ Open(journal, id) => journal'.records[journal.nextRecord].kind = "exit"
           /\ \A x \in DOMAIN journal.records : journal'.records[x] = journal.records[x]
  <1>1. /\ IsJournal(journal) /\ journal.nextRecord < MaxRecords
        /\ journal' = ExitScope(journal, id, "success")
    BY DEF Exit, Typed
  <1> QED  BY <1>1, ExitScopeFields

(* No step takes an identifier back.                                        *)
LEMMA JournalStep ==
    ASSUME Typed, NEW t \in Threads, Call(t) \/ Continue(t)
    PROVE  /\ journal.nextScope <= journal'.nextScope
           /\ journal.nextRecord <= journal'.nextRecord
  <1>1. journal.nextScope \in Nat /\ journal.nextRecord \in Nat /\ IsJournal(journal)
    BY RetainedScopes DEF Typed
  <1>3. CASE Emit(t)
    BY <1>1, <1>3, EmitEffect
  <1>4. CASE Enter(t)
    BY <1>1, <1>4, EnterEffect
  <1>5. CASE \E id \in 0..(MaxScopes - 1) : Exit(t, id)
    BY <1>1, <1>5, ExitEffect
  <1>6. CASE EmitTrim(t)
    BY <1>1, <1>6, TrimFields DEF EmitTrim
  <1>7. CASE ClearJournal(t)
    BY <1>1, <1>7, ClearFields DEF ClearJournal
  <1>8. CASE UNCHANGED journal
    BY <1>1, <1>8
  <1> QED
    BY <1>3, <1>4, <1>5, <1>6, <1>7, <1>8 DEF Call, Continue, EmitCount, EmitCap, WriteRecord, PublishScope,
         PublishPanics, ClearStart, ClearEnd, SetRetention, Reconfigure, Drain, Build, BuildFails, Install

LEMMA StacksStep ==
    ASSUME Typed, Stacks, NEW t \in Threads, Call(t) \/ Continue(t)
    PROVE  Stacks'
  <1>1. /\ stack \in [Threads -> Seq(ScopeIds)] /\ inside \in [Threads -> SUBSET ScopeIds]
        /\ stack[t] \in Seq(ScopeIds) /\ Len(stack[t]) \in Nat
    BY LenProperties DEF Typed
  <1>2. /\ journal.nextScope \in Nat /\ journal'.nextScope \in Nat
        /\ journal.nextScope <= journal'.nextScope
    <2>1. Typed'
      BY TypedStep
    <2>2. journal'.nextScope \in Nat
      BY <2>1 DEF Typed, IsJournal, Journals
    <2> QED  BY <2>2, JournalStep, RetainedScopes
  <1>3. \A u \in Threads : \A i \in 1..Len(stack[u]) : stack[u][i] \in Nat
    <2>1. ScopeIds \subseteq Nat
      BY RuntimeAssumption DEF ScopeIds, RuntimeAssumption
    <2> QED  BY <1>1, <2>1, ElementOfSeq
  <1> DEFINE old == stack[t]
             n   == Len(old)
  <1>old. /\ n \in Nat /\ n = Len(old) /\ \A i \in 1..n : old[i] \in Nat /\ old[i] < journal.nextScope
          /\ \A i, j \in 1..n : i < j => old[i] < old[j]
          /\ inside[t] = {old[i] : i \in 1..n}
    BY <1>1, <1>3 DEF Stacks
  <1>others. ASSUME NEW u \in Threads, stack'[u] = stack[u], inside'[u] = inside[u]
             PROVE  /\ \A i, j \in 1..Len(stack'[u]) : i < j => stack'[u][i] < stack'[u][j]
                    /\ \A i \in 1..Len(stack'[u]) : stack'[u][i] < journal'.nextScope
                    /\ inside'[u] = {stack'[u][i] : i \in 1..Len(stack'[u])}
    <2>1. /\ \A i, j \in 1..Len(stack[u]) : i < j => stack[u][i] < stack[u][j]
          /\ inside[u] = {stack[u][i] : i \in 1..Len(stack[u])}
      BY DEF Stacks
    <2>2. \A i \in 1..Len(stack[u]) : stack[u][i] < journal'.nextScope
      BY <1>2, <1>3 DEF Stacks
    <2> QED  BY <1>others, <2>1, <2>2
  <1>4. CASE UNCHANGED stackVars
    BY <1>2, <1>3, <1>4 DEF Stacks, stackVars
  <1>5. CASE Enter(t)
    <2> DEFINE s == Append(old, journal.nextScope)
    <2>1. stack' = [stack EXCEPT ![t] = s] /\ inside' = [inside EXCEPT ![t] = @ \cup {journal.nextScope}]
      BY <1>5 DEF Enter
    <2>2. journal.nextScope < journal'.nextScope /\ journal.nextScope \in ScopeIds
      BY <1>2, <1>5, EnterEffect
    <2>3. /\ Len(s) = n + 1 /\ s[n + 1] = journal.nextScope
          /\ \A i \in 1..n : s[i] = old[i]
      BY <1>1, <2>2, AppendProperties
    <2> HIDE DEF s, old, n
    <2>4. /\ stack'[t] = s /\ \A u \in Threads : u # t => stack'[u] = stack[u]
          /\ inside'[t] = inside[t] \cup {journal.nextScope}
          /\ \A u \in Threads : u # t => inside'[u] = inside[u]
      BY <1>1, <2>1
    <2>5. \A i, j \in 1..Len(s) : i < j => s[i] < s[j]
      BY <1>old, <2>3
    <2>6. \A i \in 1..Len(s) : s[i] < journal'.nextScope
      BY <1>2, <1>old, <2>2, <2>3
    <2>7. inside'[t] = {s[i] : i \in 1..Len(s)}
      BY <1>old, <2>3, <2>4
    <2> QED  BY <1>others, <2>4, <2>5, <2>6, <2>7 DEF Stacks
  <1>6. CASE \E id \in 0..(MaxScopes - 1) : Exit(t, id)
    <2> PICK id \in 0..(MaxScopes - 1) : Exit(t, id)
      BY <1>6
    <2> DEFINE s == Without(old, id)
    <2>1. stack' = [stack EXCEPT ![t] = s] /\ inside' = [inside EXCEPT ![t] = @ \ {id}]
      BY DEF Exit
    <2>2. \/ /\ s = old
             /\ \A i \in 1..n : old[i] # id
          \/ \E p \in 1..n :
                /\ old[p] = id /\ Len(s) = n - 1
                /\ \A i \in 1..(n - 1) :
                      s[i] = IF i < p THEN old[i] ELSE old[i + 1]
      BY <1>1, WithoutElement
    <2> HIDE DEF s, old, n
    <2>3. /\ stack'[t] = s /\ \A u \in Threads : u # t => stack'[u] = stack[u]
          /\ inside'[t] = inside[t] \ {id}
          /\ \A u \in Threads : u # t => inside'[u] = inside[u]
      BY <1>1, <2>1
    <2>4. \A i, j \in 1..Len(s) : i < j => s[i] < s[j]
      BY <1>old, <2>2
    <2>5. \A i \in 1..Len(s) : s[i] < journal'.nextScope
      <3>1. ASSUME NEW i \in 1..Len(s)  PROVE s[i] \in Nat /\ s[i] < journal.nextScope
        <4>1. \E k \in 1..n : s[i] = old[k]
          <5>1. CASE s = old
            BY <1>old, <5>1
          <5>2. CASE s # old
            <6>1. PICK p \in 1..n : /\ Len(s) = n - 1
                                    /\ \A k \in 1..(n - 1) : s[k] = IF k < p THEN old[k] ELSE old[k + 1]
              BY <2>2, <5>2
            <6>2. i \in 1..n /\ i + 1 \in 1..n /\ i \in 1..(n - 1)
              BY <1>old, <6>1
            <6> QED  BY <6>1, <6>2
          <5> QED  BY <5>1, <5>2
        <4> QED  BY <1>old, <4>1
      <3> QED  BY <1>2, <3>1
    <2>6. inside'[t] = {s[i] : i \in 1..Len(s)}
      <3>1. CASE s = old /\ \A i \in 1..n : old[i] # id
        BY <1>old, <2>3, <3>1
      <3>2. ASSUME NEW p \in 1..n, old[p] = id, Len(s) = n - 1,
                   \A i \in 1..(n - 1) :
                      s[i] = IF i < p THEN old[i] ELSE old[i + 1]
            PROVE  inside'[t] = {s[i] : i \in 1..Len(s)}
        <4>1. ASSUME NEW x \in inside'[t] PROVE \E i \in 1..Len(s) : s[i] = x
          <5>1. PICK k \in 1..n : old[k] = x
            BY <1>old, <2>3
          <5>2. k # p
            BY <2>3, <3>2, <5>1
          <5>3. CASE k < p
            <6>1. k \in 1..Len(s) /\ s[k] = x
              BY <1>old, <3>2, <5>1, <5>3
            <6> QED  BY <6>1
          <5>4. CASE k > p
            <6>1. k - 1 \in 1..Len(s) /\ ~ (k - 1 < p) /\ (k - 1) + 1 = k
              BY <1>old, <3>2, <5>1, <5>4
            <6>2. s[k - 1] = x
              BY <3>2, <5>1, <6>1
            <6> QED  BY <6>1, <6>2
          <5> QED  BY <5>2, <5>3, <5>4
        <4>2. ASSUME NEW i \in 1..Len(s) PROVE s[i] \in inside'[t]
          <5>1. \E k \in 1..n : k # p /\ s[i] = old[k]
            <6>1. CASE i < p
              BY <1>old, <3>2, <6>1
            <6>2. CASE ~ (i < p)
              BY <1>old, <3>2, <6>2
            <6> QED  BY <6>1, <6>2
          <5>2. PICK k \in 1..n : k # p /\ s[i] = old[k]
            BY <5>1
          <5>3. old[k] # id
            BY <1>old, <3>2, <5>2
          <5> QED  BY <1>old, <2>3, <5>2, <5>3
        <4> QED  BY <4>1, <4>2
      <3> QED  BY <2>2, <3>1, <3>2
    <2> QED  BY <1>others, <2>3, <2>4, <2>5, <2>6 DEF Stacks
  <1>7. CASE ClearEnd(t)
    <2>1. /\ stack'[t] = <<>> /\ \A u \in Threads : u # t => stack'[u] = stack[u]
          /\ inside'[t] = {} /\ \A u \in Threads : u # t => inside'[u] = inside[u]
      BY <1>1, <1>7 DEF ClearEnd
    <2>2. 1..Len(stack'[t]) = {}
      BY <2>1
    <2> QED  BY <1>others, <2>1, <2>2 DEF Stacks
  <1> QED
    BY <1>4, <1>5, <1>6, <1>7 DEF Call, Continue, Emit, EmitCount, EmitCap, EmitTrim, WriteRecord, PublishScope,
         PublishPanics, ClearStart, ClearJournal, SetRetention, Reconfigure, Drain, Build, BuildFails, Install

LEMMA StacksInvariant == Spec => [](Typed /\ Locks /\ Stacks)
  <1>1. Init => Stacks
    BY DEF Init, Stacks
  <1>2. Typed /\ Stacks /\ [Next]_vars => Stacks'
    <2> SUFFICES ASSUME Typed, Stacks, [Next]_vars PROVE Stacks'
      OBVIOUS
    <2>1. CASE Next
      BY <2>1, StacksStep DEF Next
    <2>2. CASE UNCHANGED vars
      BY <2>2 DEF vars, Stacks
    <2> QED  BY <2>1, <2>2
  <1> QED  BY <1>1, <1>2, LocksInvariant, PTL DEF Spec

(* Whatever the threads do and in whatever order scopes are left, the       *)
(* current scope of a thread is the innermost one it is inside: the last    *)
(* element of its stack, which is the greatest since stacks grow upwards.   *)
THEOREM CurrentScopeIsInnermost == Spec => []CurrentScope
  <1>1. ASSUME Typed, Stacks PROVE CurrentScope
    <2> SUFFICES ASSUME NEW t \in Threads
                 PROVE  IF inside[t] = {} THEN Top(stack[t]) = NoScope
                        ELSE Top(stack[t]) \in inside[t] /\ \A id \in inside[t] : id <= Top(stack[t])
      BY DEF CurrentScope
    <2>1. stack[t] \in Seq(ScopeIds) /\ Len(stack[t]) \in Nat
      BY <1>1, LenProperties DEF Typed
    <2>2. inside[t] = {stack[t][i] : i \in 1..Len(stack[t])}
      BY <1>1 DEF Stacks
    <2>3. CASE stack[t] = <<>>
      <3>1. inside[t] = {}
        BY <2>2, <2>3
      <3> QED  BY <2>3, <3>1 DEF Top
    <2>4. CASE stack[t] # <<>>
      <3>1. Len(stack[t]) \in 1..Len(stack[t]) /\ Top(stack[t]) = stack[t][Len(stack[t])]
        BY <2>1, <2>4, TopType
      <3>2. \A i \in 1..Len(stack[t]) : stack[t][i] \in Nat
        <4>1. ScopeIds \subseteq Nat
          BY RuntimeAssumption DEF ScopeIds, RuntimeAssumption
        <4> QED  BY <2>1, <4>1, ElementOfSeq
      <3>3. \A i \in 1..Len(stack[t]) : stack[t][i] <= stack[t][Len(stack[t])]
        BY <1>1, <2>1, <3>1, <3>2 DEF Stacks
      <3> QED  BY <2>2, <3>1, <3>3
    <2> QED  BY <2>3, <2>4
  <1> QED  BY <1>1, StacksInvariant, PTL

-----------------------------------------------------------------------------
(* Three kinds of steps: a pending line is written, a line is made, or      *)
(* neither happens and at most scope metadata is handed over.               *)

Pending(t)  == pc[t].at \in {"count", "cap", "trim", "write"}
IsRecord(l) == l.type # "scope"
IsExit(l)   == l.type = "exit"

Writes(t) ==
    /\ Pending(t) /\ ~ Pending(t)'
    /\ handed' = Append(handed, pc[t].line)
    /\ UNCHANGED <<journal, stack, inside>>

Makes(t) ==
    /\ ~ Pending(t) /\ Pending(t)' /\ handed' = handed
    /\ journal'.nextRecord = journal.nextRecord + 1
    /\ \/ /\ pc'[t].line.type = "event" /\ pc'[t].line.scope = Top(stack[t])
          /\ UNCHANGED <<stack, inside>>
       \/ /\ pc'[t].line.type = "exit"
          /\ \E id \in ScopeIds :
                /\ pc'[t].line.scope = id /\ Open(journal, id)
                /\ inside'[t] = inside[t] \ {id} /\ Exit(t, id)
    /\ pc'[t].line.id = journal.nextRecord /\ pc'[t].line.by = t

Neither(t) ==
    /\ Pending(t)' => Pending(t) /\ pc'[t].line = pc[t].line
    /\ Len(handed) <= Len(handed')
    /\ \A i \in 1..Len(handed) : handed'[i] = handed[i]
    /\ \A i \in 1..Len(handed') : i > Len(handed) =>
          /\ \E id \in DOMAIN journal.scopes : handed'[i] = ScopeLine(id)
          /\ journal' = journal

LEMMA LineFields ==
    ASSUME NEW l \in Lines
    PROVE  /\ l.type \in {"scope", "event", "exit"}
           /\ IsRecord(l) => l.id \in Nat /\ l.by \in Threads /\ l.scope \in ScopeRef
           /\ ~ IsRecord(l) => l.scope \in ScopeIds /\ l.parent \in ScopeRef
  <1>1. RecordIds \subseteq Nat
    BY RuntimeAssumption DEF RecordIds, RuntimeAssumption
  <1> QED  BY <1>1 DEF Lines, IsRecord

LEMMA ScopesAreNaturals == ScopeIds \subseteq Nat /\ NoScope \notin Nat
  BY RuntimeAssumption, NoScopeAssumption DEF ScopeIds, RuntimeAssumption, NoScopeAssumption

(* A sequence to which another was appended.                                *)
LEMMA Extension ==
    ASSUME NEW S, NEW s \in Seq(S), NEW r \in Seq(S)
    PROVE  /\ s \o r \in Seq(S)
           /\ Len(s) <= Len(s \o r)
           /\ \A i \in 1..Len(s) : (s \o r)[i] = s[i]
           /\ \A i \in 1..Len(s \o r) : i > Len(s) => \E n \in 1..Len(r) : (s \o r)[i] = r[n]
  <1>1. /\ Len(s) \in Nat /\ Len(r) \in Nat
        /\ Len(s \o r) = Len(s) + Len(r) /\ s \o r \in Seq(S)
        /\ \A i \in 1..(Len(s) + Len(r)) :
              (s \o r)[i] = IF i <= Len(s) THEN s[i] ELSE r[i - Len(s)]
    BY LenProperties, ConcatProperties
  <1>2. ASSUME NEW i \in 1..Len(s \o r), i > Len(s)
        PROVE  \E n \in 1..Len(r) : (s \o r)[i] = r[n]
    <2>1. i - Len(s) \in 1..Len(r) /\ (s \o r)[i] = r[i - Len(s)]
      BY <1>1, <1>2
    <2> QED  BY <2>1
  <1> QED  BY <1>1, <1>2

LEMMA StepKinds ==
    ASSUME Typed, NEW t \in Threads, Call(t) \/ Continue(t)
    PROVE  /\ \A u \in Threads : u # t => pc'[u] = pc[u]
           /\ Writes(t) \/ Makes(t) \/ Neither(t)
  <1>1. /\ pc \in [Threads -> Places] /\ pc[t] \in Places
        /\ handed \in Seq(Lines) /\ Len(handed) \in Nat
        /\ inside \in [Threads -> SUBSET ScopeIds]
    BY LenProperties DEF Typed
  <1>2. ASSUME UNCHANGED handed, Pending(t)' => Pending(t) /\ pc'[t].line = pc[t].line
        PROVE  Neither(t)
    BY <1>1, <1>2 DEF Neither
  <1>3. CASE Emit(t)
    <2> DEFINE line == Line(t, "event", journal.nextRecord, Top(stack[t]), Snapshot(journal, Top(stack[t])))
    <2>1. /\ pc' = [pc EXCEPT ![t] = [at |-> "count", line |-> line]]
          /\ UNCHANGED <<stack, inside, handed>> /\ pc[t].at = "idle"
      BY <1>3 DEF Emit, stackVars, Idle
    <2>2. /\ line.type = "event" /\ line.scope = Top(stack[t])
          /\ line.id = journal.nextRecord /\ line.by = t
      BY DEF Line
    <2> HIDE DEF line
    <2>3. /\ pc'[t].at = "count" /\ pc'[t].line = line
          /\ \A u \in Threads : u # t => pc'[u] = pc[u]
      BY <1>1, <2>1
    <2>4. journal'.nextRecord = journal.nextRecord + 1
      BY <1>3, EmitEffect
    <2> QED  BY <2>1, <2>2, <2>3, <2>4 DEF Makes, Pending
  <1>4. CASE EmitCount(t)
    <2>1. /\ pc[t].at = "count" /\ UNCHANGED handed
          /\ pc'[t] = [pc[t] EXCEPT !.at = IF emitCount = 0 THEN "cap" ELSE "write"]
          /\ \A u \in Threads : u # t => pc'[u] = pc[u]
      BY <1>1, <1>4 DEF EmitCount
    <2>2. pc'[t].line = pc[t].line
      BY <1>1, <2>1, PlaceMoves
    <2> QED  BY <1>2, <2>1, <2>2 DEF Pending
  <1>5. CASE EmitCap(t)
    <2>1. /\ pc[t].at = "cap" /\ UNCHANGED handed
          /\ pc'[t] = [at |-> "trim", line |-> pc[t].line, max |-> config.max]
          /\ \A u \in Threads : u # t => pc'[u] = pc[u]
      BY <1>1, <1>5 DEF EmitCap
    <2> QED  BY <1>2, <2>1 DEF Pending
  <1>6. CASE EmitTrim(t)
    <2>1. /\ pc[t].at = "trim" /\ UNCHANGED handed
          /\ pc'[t] = [at |-> "write", line |-> pc[t].line]
          /\ \A u \in Threads : u # t => pc'[u] = pc[u]
      BY <1>1, <1>6 DEF EmitTrim
    <2> QED  BY <1>2, <2>1 DEF Pending
  <1>7. CASE WriteRecord(t)
    <2>1. /\ pc[t].at = "write" /\ pc'[t].at = "idle"
          /\ \A u \in Threads : u # t => pc'[u] = pc[u]
          /\ UNCHANGED <<journal, stack, inside>>
          /\ handed' = handed \/ handed' = Append(handed, pc[t].line)
      BY <1>1, <1>7 DEF WriteRecord, Idle, stackVars
    <2> QED  BY <1>2, <2>1 DEF Pending, Writes
  <1>8. CASE Enter(t) \/ ClearStart(t) \/ ClearEnd(t) \/ PublishPanics(t) \/ Install(t)
    <2>1. /\ pc'[t].at \notin {"count", "cap", "trim", "write"} /\ UNCHANGED handed
          /\ \A u \in Threads : u # t => pc'[u] = pc[u]
      BY <1>1, <1>8 DEF Enter, ClearStart, ClearEnd, PublishPanics, Install, Idle
    <2> QED  BY <1>2, <2>1 DEF Pending
  <1>9. CASE PublishScope(t)
    <2>1. /\ pc'[t].at = "idle" /\ journal' = journal
          /\ \A u \in Threads : u # t => pc'[u] = pc[u]
          /\ sink = "jsonl" => pc[t].id \in DOMAIN journal.scopes
          /\ handed' = IF sink = "jsonl" THEN Append(handed, ScopeLine(pc[t].id)) ELSE handed
      BY <1>1, <1>9 DEF PublishScope, Idle
    <2>2. CASE sink # "jsonl"
      BY <1>2, <2>1, <2>2 DEF Pending
    <2>3. CASE sink = "jsonl"
      <3> DEFINE l == ScopeLine(pc[t].id)
      <3>1. l \in Lines
        BY <2>1, <2>3, RetainedScopes
      <3>2. handed' = Append(handed, l) /\ \E id \in DOMAIN journal.scopes : l = ScopeLine(id)
        BY <2>1, <2>3
      <3> HIDE DEF l
      <3>3. /\ Len(handed') = Len(handed) + 1 /\ handed'[Len(handed) + 1] = l
            /\ \A i \in 1..Len(handed) : handed'[i] = handed[i]
        BY <1>1, <3>1, <3>2, AppendProperties
      <3>4. \A i \in 1..Len(handed') : i > Len(handed) => i = Len(handed) + 1
        BY <1>1, <3>3
      <3>5. Len(handed) <= Len(handed')
        BY <1>1, <3>3
      <3> QED  BY <2>1, <3>2, <3>3, <3>4, <3>5 DEF Neither, Pending
    <2> QED  BY <2>2, <2>3
  <1>10. CASE \E id \in 0..(MaxScopes - 1) : Exit(t, id)
    <2> PICK id \in 0..(MaxScopes - 1) : Exit(t, id)
      BY <1>10
    <2> DEFINE line == Line(t, "exit", journal.nextRecord, id, "closed")
    <2>1. /\ pc' = IF Open(journal, id) THEN [pc EXCEPT ![t] = [at |-> "write", line |-> line]] ELSE pc
          /\ pc[t].at = "idle" /\ handed' = handed
          /\ inside' = [inside EXCEPT ![t] = @ \ {id}]
      BY DEF Exit, Idle
    <2>2. line.type = "exit" /\ line.scope = id /\ line.id = journal.nextRecord /\ line.by = t
      BY DEF Line
    <2> HIDE DEF line
    <2>3. CASE ~ Open(journal, id)
      BY <1>2, <2>1, <2>3 DEF Pending
    <2>4. CASE Open(journal, id)
      <3>1. /\ pc'[t].at = "write" /\ pc'[t].line = line
            /\ \A u \in Threads : u # t => pc'[u] = pc[u]
            /\ inside'[t] = inside[t] \ {id}
        BY <1>1, <2>1, <2>4
      <3>2. journal'.nextRecord = journal.nextRecord + 1
        BY ExitEffect
      <3> QED  BY <2>1, <2>2, <2>4, <3>1, <3>2 DEF Makes, Pending, ScopeIds
    <2> QED  BY <2>3, <2>4
  <1>11. CASE ClearJournal(t) \/ Drain(t)
    <2>1. /\ \/ pc'[t] = [pc[t] EXCEPT !.at = "reset"] /\ pc[t].at = "clear"
             \/ pc'[t] = [pc[t] EXCEPT !.at = "build"] /\ pc[t].at = "drain"
          /\ UNCHANGED handed /\ \A u \in Threads : u # t => pc'[u] = pc[u]
      BY <1>1, <1>11 DEF ClearJournal, Drain
    <2>2. pc'[t].at \in {"reset", "build"}
      BY <1>1, <2>1, PlaceMoves
    <2> QED  BY <1>2, <2>1, <2>2 DEF Pending
  <1>12. CASE Build(t) \/ BuildFails(t)
    <2>1. Seeds \in Seq(Lines) /\ Len(Seeds) \in Nat
          /\ \A n \in 1..Len(Seeds) : \E id \in DOMAIN journal.scopes : Seeds[n] = ScopeLine(id)
      BY SeedsProperties, LenProperties
    <2>2. /\ ~ Pending(t)' /\ journal' = journal
          /\ \A u \in Threads : u # t => pc'[u] = pc[u]
      <3>1. CASE Build(t)
        <4>1. /\ pc'[t] = [pc[t] EXCEPT !.at = "install"] /\ pc[t].at = "build"
              /\ journal' = journal /\ \A u \in Threads : u # t => pc'[u] = pc[u]
          BY <1>1, <3>1 DEF Build
        <4>2. pc'[t].at = "install"
          BY <1>1, <4>1, PlaceMoves
        <4> QED  BY <4>1, <4>2 DEF Pending
      <3>2. CASE BuildFails(t)
        BY <1>1, <3>2 DEF BuildFails, Idle, Pending
      <3> QED  BY <1>12, <3>1, <3>2
    <2>3. \/ handed' = handed \/ handed' = handed \o Seeds
          \/ \E n \in 0..Len(Seeds) : handed' = handed \o SubSeq(Seeds, 1, n)
      <3>1. CASE Build(t)
        BY <3>1 DEF Build
      <3>2. CASE BuildFails(t)
        <4>1. \E n \in 0..(IF pc[t].cfg.format = "jsonl" THEN Len(Seeds) ELSE 0) :
                 handed' = handed \o SubSeq(Seeds, 1, n)
          BY <3>2 DEF BuildFails
        <4>2. 0..(IF pc[t].cfg.format = "jsonl" THEN Len(Seeds) ELSE 0) \subseteq 0..Len(Seeds)
          BY <2>1
        <4> QED  BY <4>1, <4>2
      <3> QED  BY <1>12, <3>1, <3>2
    <2>4. ASSUME NEW s \in Seq(Lines), handed' = handed \o s,
                 \A n \in 1..Len(s) : \E id \in DOMAIN journal.scopes : s[n] = ScopeLine(id)
          PROVE  Neither(t)
      <3>1. /\ Len(handed) <= Len(handed') /\ \A i \in 1..Len(handed) : handed'[i] = handed[i]
            /\ \A i \in 1..Len(handed') : i > Len(handed) => \E n \in 1..Len(s) : handed'[i] = s[n]
        BY <1>1, <2>4, Extension
      <3> QED  BY <2>2, <2>4, <3>1 DEF Neither
    <2>5. CASE handed' = handed
      BY <1>2, <2>2, <2>5
    <2>6. CASE handed' = handed \o Seeds
      BY <2>1, <2>2, <2>4, <2>6
    <2>7. CASE \E n \in 0..Len(Seeds) : handed' = handed \o SubSeq(Seeds, 1, n)
      <3>1. PICK n \in 0..Len(Seeds) : handed' = handed \o SubSeq(Seeds, 1, n)
        BY <2>7
      <3> DEFINE s == SubSeq(Seeds, 1, n)
      <3>2. s \in Seq(Lines) /\ \A k \in 1..Len(s) : k \in 1..Len(Seeds) /\ s[k] = Seeds[k]
        <4>1. \A k \in 1..n : Seeds[k] \in Lines
          BY <2>1, ElementOfSeq
        <4>2. 1 \in Int /\ n \in Int
          BY <2>1
        <4>3. /\ SubSeq(Seeds, 1, n) \in Seq(Lines)
              /\ Len(SubSeq(Seeds, 1, n)) = IF 1 <= n THEN n - 1 + 1 ELSE 0
              /\ \A k \in 1..(n - 1 + 1) : SubSeq(Seeds, 1, n)[k] = Seeds[1 + k - 1]
          BY <4>1, <4>2, SubSeqProperties
        <4> QED  BY <2>1, <4>3
      <3> HIDE DEF s
      <3>3. \A k \in 1..Len(s) : \E id \in DOMAIN journal.scopes : s[k] = ScopeLine(id)
        BY <2>1, <3>2
      <3> QED  BY <2>2, <2>4, <3>1, <3>2, <3>3 DEF s
    <2> QED  BY <2>2, <2>3, <2>5, <2>6, <2>7
  <1>13. CASE \E n \in Retentions : SetRetention(t, n)
    <2>1. pc' = pc /\ handed' = handed
      BY <1>13 DEF SetRetention
    <2>2. Pending(t)' => Pending(t) /\ pc'[t].line = pc[t].line
      BY <2>1 DEF Pending
    <2> QED  BY <1>2, <2>1, <2>2
  <1>14. CASE \E format \in Formats, asked \in Asked, force \in BOOLEAN : Reconfigure(t, format, asked, force)
    <2>1. /\ pc' = pc \/ \E c, a : pc' = [pc EXCEPT ![t] = [at |-> "drain", cfg |-> c, asked |-> a]]
          /\ handed' = handed
      BY <1>14 DEF Reconfigure
    <2>2. CASE pc' = pc
      <3>1. Pending(t)' => Pending(t) /\ pc'[t].line = pc[t].line
        BY <2>2 DEF Pending
      <3> QED  BY <1>2, <2>1, <2>2, <3>1
    <2>3. CASE \E c, a : pc' = [pc EXCEPT ![t] = [at |-> "drain", cfg |-> c, asked |-> a]]
      <3>1. pc'[t].at = "drain" /\ \A u \in Threads : u # t => pc'[u] = pc[u]
        BY <1>1, <2>3
      <3> QED  BY <1>2, <2>1, <3>1 DEF Pending
    <2> QED  BY <2>1, <2>2, <2>3
  <1> QED  BY <1>3, <1>4, <1>5, <1>6, <1>7, <1>8, <1>9, <1>10, <1>11, <1>12, <1>13, <1>14 DEF Call, Continue

(* The same for what the proofs below read of the lines handed over and of  *)
(* those still pending.                                                     *)
LEMMA KnownLines ==
    ASSUME Typed
    PROVE  /\ Len(handed) \in Nat
           /\ \A i \in 1..Len(handed) : handed[i] \in Lines
           /\ \A t \in Threads : Pending(t) => pc[t].line \in Lines
           /\ journal.nextRecord \in Nat /\ journal.nextScope \in Nat
  <1>1. handed \in Seq(Lines) /\ pc \in [Threads -> Places]
    BY DEF Typed
  <1>2. journal.nextRecord \in Nat /\ journal.nextScope \in Nat
    BY RetainedScopes
  <1>3. \A t \in Threads : Pending(t) => pc[t].line \in Lines
    BY <1>1, PlaceFields DEF Pending
  <1> QED  BY <1>1, <1>2, <1>3, LenProperties, ElementOfSeq

LEMMA WritesLines ==
    ASSUME Typed, NEW t \in Threads, Writes(t)
    PROVE  /\ Len(handed') = Len(handed) + 1
           /\ \A i \in 1..Len(handed') : \/ i \in 1..Len(handed) /\ handed'[i] = handed[i]
                                         \/ i = Len(handed) + 1 /\ handed'[i] = pc[t].line
  <1>1. handed \in Seq(Lines) /\ Len(handed) \in Nat /\ pc[t].line \in Lines /\ handed' = Append(handed, pc[t].line)
    BY KnownLines DEF Typed, Writes
  <1>2. /\ Len(handed') = Len(handed) + 1
        /\ \A i \in 1..Len(handed) : handed'[i] = handed[i]
        /\ handed'[Len(handed) + 1] = pc[t].line
    BY <1>1, AppendProperties
  <1>3. \A i \in 1..Len(handed') : i \in 1..Len(handed) \/ i = Len(handed) + 1
    BY <1>1, <1>2
  <1> QED  BY <1>2, <1>3

LEMMA NeitherLines ==
    ASSUME Typed, NEW t \in Threads, Neither(t)
    PROVE  \A i \in 1..Len(handed') :
              \/ i \in 1..Len(handed) /\ handed'[i] = handed[i]
              \/ /\ i > Len(handed) /\ ~ IsRecord(handed'[i]) /\ journal' = journal
                 /\ \E id \in DOMAIN journal.scopes : handed'[i] = ScopeLine(id)
  <1>1. Len(handed) \in Nat
    BY KnownLines
  <1>2. ASSUME NEW i \in 1..Len(handed'), i > Len(handed)
        PROVE  ~ IsRecord(handed'[i])
    <2>1. PICK id \in DOMAIN journal.scopes : handed'[i] = ScopeLine(id)
      BY <1>2 DEF Neither
    <2>2. ScopeLine(id).type = "scope"
      BY DEF ScopeLine
    <2> QED  BY <2>1, <2>2 DEF IsRecord
  <1> QED  BY <1>1, <1>2 DEF Neither

-----------------------------------------------------------------------------
(* Records: identifiers are used once, and those of a thread are handed     *)
(* over in the order of their allocation, the pending one being the last.   *)
RecordsOrdered ==
    /\ \A t \in Threads : Pending(t) =>
          IsRecord(pc[t].line) /\ pc[t].line.by = t /\ pc[t].line.id < journal.nextRecord
    /\ \A t, u \in Threads : Pending(t) /\ Pending(u) /\ u # t => pc[u].line.id # pc[t].line.id
    /\ \A t \in Threads, i \in 1..Len(handed) : Pending(t) /\ IsRecord(handed[i]) =>
          handed[i].id # pc[t].line.id /\ (handed[i].by = t => handed[i].id < pc[t].line.id)
    /\ \A i \in 1..Len(handed) : IsRecord(handed[i]) => handed[i].id < journal.nextRecord
    /\ \A i, j \in 1..Len(handed) : IsRecord(handed[i]) /\ IsRecord(handed[j]) =>
          /\ i # j => handed[i].id # handed[j].id
          /\ i < j /\ handed[i].by = handed[j].by => handed[i].id < handed[j].id

LEMMA RecordsStep ==
    ASSUME Typed, RecordsOrdered, NEW t \in Threads, Call(t) \/ Continue(t)
    PROVE  RecordsOrdered'
  <1>1. /\ Len(handed) \in Nat /\ journal.nextRecord \in Nat /\ journal'.nextRecord \in Nat
        /\ journal.nextRecord <= journal'.nextRecord
    <2>1. Typed'
      BY TypedStep
    <2>2. journal'.nextRecord \in Nat
      BY <2>1 DEF Typed, IsJournal, Journals
    <2> QED  BY <2>2, KnownLines, JournalStep
  <1>2. /\ \A i \in 1..Len(handed) : IsRecord(handed[i]) => handed[i].id \in Nat
        /\ \A u \in Threads : Pending(u) => IsRecord(pc[u].line) /\ pc[u].line.id \in Nat
    BY KnownLines, LineFields DEF RecordsOrdered
  <1>3. /\ \A u \in Threads : u # t => pc'[u] = pc[u]
        /\ Writes(t) \/ Makes(t) \/ Neither(t)
    BY StepKinds
  <1>4. \A u \in Threads : u # t => (Pending(u)' <=> Pending(u)) /\ pc'[u].line = pc[u].line
    BY <1>3 DEF Pending
  <1>5. CASE Neither(t)
    <2>1. \A i \in 1..Len(handed') : IsRecord(handed'[i]) => i \in 1..Len(handed) /\ handed'[i] = handed[i]
      BY <1>5, NeitherLines
    <2>2. \A u \in Threads : Pending(u)' => Pending(u) /\ pc'[u].line = pc[u].line
      BY <1>4, <1>5 DEF Neither
    <2>3. \A u \in Threads : Pending(u)' => pc'[u].line.id < journal'.nextRecord
      BY <1>1, <1>2, <2>2 DEF RecordsOrdered
    <2>4. \A i \in 1..Len(handed') : IsRecord(handed'[i]) => handed'[i].id < journal'.nextRecord
      BY <1>1, <1>2, <2>1 DEF RecordsOrdered
    <2> QED  BY <2>1, <2>2, <2>3, <2>4 DEF RecordsOrdered
  <1>6. CASE Makes(t)
    <2>1. /\ handed' = handed /\ ~ Pending(t) /\ Pending(t)'
          /\ IsRecord(pc'[t].line) /\ pc'[t].line.by = t
          /\ pc'[t].line.id = journal.nextRecord /\ journal.nextRecord < journal'.nextRecord
      BY <1>1, <1>6 DEF Makes, IsRecord
    <2>2. \A u \in Threads : u # t /\ Pending(u) => pc[u].line.id < journal.nextRecord
      BY DEF RecordsOrdered
    <2>3. \A i \in 1..Len(handed) : IsRecord(handed[i]) => handed[i].id < journal.nextRecord
      BY DEF RecordsOrdered
    <2>4. \A u \in Threads : Pending(u)' =>
             IsRecord(pc'[u].line) /\ pc'[u].line.by = u /\ pc'[u].line.id < journal'.nextRecord
      BY <1>1, <1>2, <1>4, <2>1, <2>2 DEF RecordsOrdered
    <2>5. \A u, v \in Threads : Pending(u)' /\ Pending(v)' /\ u # v => pc'[u].line.id # pc'[v].line.id
      BY <1>1, <1>2, <1>4, <2>1, <2>2 DEF RecordsOrdered
    <2>6. \A u \in Threads, i \in 1..Len(handed) : Pending(u)' /\ IsRecord(handed[i]) =>
             handed[i].id # pc'[u].line.id /\ (handed[i].by = u => handed[i].id < pc'[u].line.id)
      BY <1>1, <1>2, <1>4, <2>1, <2>3 DEF RecordsOrdered
    <2>7. \A i \in 1..Len(handed) : IsRecord(handed[i]) => handed[i].id < journal'.nextRecord
      BY <1>1, <1>2, <2>3
    <2>8. \A i, j \in 1..Len(handed) : IsRecord(handed[i]) /\ IsRecord(handed[j]) =>
             /\ i # j => handed[i].id # handed[j].id
             /\ i < j /\ handed[i].by = handed[j].by => handed[i].id < handed[j].id
      BY DEF RecordsOrdered
    <2> QED  BY <2>1, <2>4, <2>5, <2>6, <2>7, <2>8 DEF RecordsOrdered
  <1>7. CASE Writes(t)
    <2> DEFINE n == Len(handed) + 1
               l == pc[t].line
    <2>1. /\ Pending(t) /\ ~ Pending(t)' /\ journal' = journal
          /\ \A i \in 1..Len(handed') : \/ i \in 1..Len(handed) /\ handed'[i] = handed[i]
                                        \/ i = n /\ handed'[i] = l
      BY <1>7, WritesLines DEF Writes
    <2>2. \A u \in Threads : Pending(u)' => u # t /\ Pending(u) /\ pc'[u].line = pc[u].line
      BY <1>4, <2>1
    <2>3. \A i \in 1..Len(handed) : i < n /\ i # n
      BY <1>1
    <2>4. IsRecord(l) /\ l.by = t /\ l.id < journal.nextRecord /\ l.id \in Nat
      BY <1>2, <2>1 DEF RecordsOrdered
    <2>5. \A u \in Threads : u # t /\ Pending(u) => pc[u].line.by = u /\ pc[u].line.id # l.id
      BY <2>1 DEF RecordsOrdered
    <2>6. \A i \in 1..Len(handed) : IsRecord(handed[i]) =>
             handed[i].id # l.id /\ (handed[i].by = t => handed[i].id < l.id)
      BY <2>1 DEF RecordsOrdered
    <2> HIDE DEF n, l
    <2>7. \A u \in Threads : Pending(u)' =>
             IsRecord(pc'[u].line) /\ pc'[u].line.by = u /\ pc'[u].line.id < journal'.nextRecord
      BY <2>1, <2>2 DEF RecordsOrdered
    <2>8. \A u, v \in Threads : Pending(u)' /\ Pending(v)' /\ u # v => pc'[u].line.id # pc'[v].line.id
      BY <2>2 DEF RecordsOrdered
    <2>9. \A u \in Threads, i \in 1..Len(handed') : Pending(u)' /\ IsRecord(handed'[i]) =>
             handed'[i].id # pc'[u].line.id /\ (handed'[i].by = u => handed'[i].id < pc'[u].line.id)
      <3> SUFFICES ASSUME NEW u \in Threads, NEW i \in 1..Len(handed'), Pending(u)', IsRecord(handed'[i])
                   PROVE  handed'[i].id # pc'[u].line.id /\ (handed'[i].by = u => handed'[i].id < pc'[u].line.id)
        OBVIOUS
      <3>1. CASE i \in 1..Len(handed) /\ handed'[i] = handed[i]
        BY <2>2, <3>1 DEF RecordsOrdered
      <3>2. CASE i = n /\ handed'[i] = l
        BY <2>2, <2>4, <2>5, <3>2
      <3> QED  BY <2>1, <3>1, <3>2
    <2>10. \A i \in 1..Len(handed') : IsRecord(handed'[i]) => handed'[i].id < journal'.nextRecord
      BY <2>1, <2>4 DEF RecordsOrdered
    <2>11. ASSUME NEW i \in 1..Len(handed'), NEW j \in 1..Len(handed'), IsRecord(handed'[i]), IsRecord(handed'[j])
           PROVE  /\ i # j => handed'[i].id # handed'[j].id
                  /\ i < j /\ handed'[i].by = handed'[j].by => handed'[i].id < handed'[j].id
      <3>1. CASE i \in 1..Len(handed) /\ handed'[i] = handed[i] /\ j \in 1..Len(handed) /\ handed'[j] = handed[j]
        BY <2>11, <3>1 DEF RecordsOrdered
      <3>2. CASE i \in 1..Len(handed) /\ handed'[i] = handed[i] /\ j = n /\ handed'[j] = l
        BY <2>4, <2>6, <2>11, <3>2
      <3>3. CASE i = n /\ handed'[i] = l /\ j \in 1..Len(handed) /\ handed'[j] = handed[j]
        <4>1. ~ (i < j) /\ handed[j].id # l.id
          BY <1>1, <2>3, <2>6, <2>11, <3>3
        <4> QED  BY <3>3, <4>1
      <3>4. CASE i = n /\ j = n
        BY <1>1, <3>4 DEF n
      <3> QED  BY <2>1, <3>1, <3>2, <3>3, <3>4
    <2> QED  BY <2>7, <2>8, <2>9, <2>10, <2>11 DEF RecordsOrdered
  <1> QED  BY <1>3, <1>5, <1>6, <1>7

-----------------------------------------------------------------------------
(* Scopes: what a step does to those the journal retains, and what it never *)
(* does to one that is closed or forgotten.                                 *)
LEMMA ScopesStep ==
    ASSUME Typed, NEW t \in Threads, Call(t) \/ Continue(t)
    PROVE  \A id \in DOMAIN journal'.scopes :
              \/ /\ id \in DOMAIN journal.scopes
                 /\ journal'.scopes[id].parent = journal.scopes[id].parent
                 /\ journal'.scopes[id].open => journal.scopes[id].open
              \/ /\ Enter(t) /\ id = journal.nextScope
                 /\ journal'.nextScope = journal.nextScope + 1
                 /\ journal'.scopes[id].parent = Top(stack[t])
  <1>1. CASE Emit(t)
    BY <1>1, EmitEffect
  <1>2. CASE Enter(t)
    BY <1>2, EnterEffect
  <1>3. CASE \E id \in 0..(MaxScopes - 1) : Exit(t, id)
    BY <1>3, ExitEffect
  <1>4. CASE EmitTrim(t)
    <2>1. IsJournal(journal) /\ journal' = Trim(journal, pc[t].max)
      BY <1>4 DEF EmitTrim, Typed
    <2>2. /\ DOMAIN journal'.scopes \subseteq DOMAIN journal.scopes
          /\ \A id \in DOMAIN journal'.scopes : journal'.scopes[id] = journal.scopes[id]
      BY <2>1, TrimFields
    <2> QED  BY <2>2
  <1>5. CASE ClearJournal(t)
    <2>1. IsJournal(journal) /\ journal' = Clear(journal)
      BY <1>5 DEF ClearJournal, Typed
    <2> QED  BY <2>1, ClearFields
  <1>6. CASE journal' = journal
    BY <1>6
  <1> QED
    BY <1>1, <1>2, <1>3, <1>4, <1>5, <1>6 DEF Call, Continue, EmitCount, EmitCap, WriteRecord, PublishScope,
         PublishPanics, ClearStart, ClearEnd, SetRetention, Reconfigure, Drain, Build, BuildFails, Install

LeftScopes == {id \in ScopeIds : id < journal.nextScope /\ ~ Open(journal, id)}

LEMMA LeftForGood ==
    ASSUME Typed, NEW t \in Threads, Call(t) \/ Continue(t)
    PROVE  LeftScopes \subseteq LeftScopes'
  <1> SUFFICES ASSUME NEW id \in LeftScopes PROVE id \in LeftScopes'
    OBVIOUS
  <1>1. journal.nextScope \in Nat /\ journal'.nextScope \in Nat /\ journal.nextScope <= journal'.nextScope
    <2>1. Typed'
      BY TypedStep
    <2>2. journal'.nextScope \in Nat
      BY <2>1 DEF Typed, IsJournal, Journals
    <2> QED  BY <2>2, KnownLines, JournalStep
  <1>2. id \in Nat /\ id < journal.nextScope /\ ~ Open(journal, id)
    BY ScopesAreNaturals DEF LeftScopes
  <1>3. id < journal'.nextScope /\ id # journal.nextScope
    BY <1>1, <1>2
  <1>4. Open(journal', id) => Open(journal, id)
    BY <1>3, ScopesStep DEF Open
  <1> QED  BY <1>2, <1>3, <1>4 DEF LeftScopes

(* Exits: one line for a scope, and only for one that is left for good.     *)
Leaving(t) == Pending(t) /\ IsExit(pc[t].line)

ExitsOnce ==
    /\ \A t \in Threads : Leaving(t) => pc[t].line.scope \in LeftScopes
    /\ \A t, u \in Threads : Leaving(t) /\ Leaving(u) /\ u # t => pc[u].line.scope # pc[t].line.scope
    /\ \A t \in Threads, i \in 1..Len(handed) :
          Leaving(t) /\ IsExit(handed[i]) => handed[i].scope # pc[t].line.scope
    /\ \A i \in 1..Len(handed) : IsExit(handed[i]) => handed[i].scope \in LeftScopes
    /\ \A i, j \in 1..Len(handed) :
          IsExit(handed[i]) /\ IsExit(handed[j]) /\ i # j => handed[i].scope # handed[j].scope

LEMMA ExitsStep ==
    ASSUME Typed, ExitsOnce, NEW t \in Threads, Call(t) \/ Continue(t)
    PROVE  ExitsOnce'
  <1>1. LeftScopes \subseteq LeftScopes'
    BY LeftForGood
  <1>2. Len(handed) \in Nat
    BY KnownLines
  <1>3. /\ \A u \in Threads : u # t => pc'[u] = pc[u]
        /\ Writes(t) \/ Makes(t) \/ Neither(t)
    BY StepKinds
  <1>4. \A u \in Threads : u # t => (Leaving(u)' <=> Leaving(u)) /\ pc'[u].line = pc[u].line
    BY <1>3 DEF Pending, Leaving
  <1>5. CASE Neither(t)
    <2>1. \A i \in 1..Len(handed') : IsExit(handed'[i]) => i \in 1..Len(handed) /\ handed'[i] = handed[i]
      BY <1>5, NeitherLines DEF IsRecord, IsExit
    <2>2. \A u \in Threads : Leaving(u)' => Leaving(u) /\ pc'[u].line = pc[u].line
      BY <1>4, <1>5 DEF Neither, Leaving
    <2> QED  BY <1>1, <2>1, <2>2 DEF ExitsOnce
  <1>6. CASE Makes(t)
    <2>1. handed' = handed /\ ~ Leaving(t)
      BY <1>6 DEF Makes, Leaving
    <2>2. CASE ~ Leaving(t)'
      <3>1. \A u \in Threads : Leaving(u)' => Leaving(u) /\ pc'[u].line = pc[u].line
        BY <1>4, <2>2
      <3> QED  BY <1>1, <2>1, <3>1 DEF ExitsOnce
    <2>3. CASE Leaving(t)'
      <3>1. PICK id \in ScopeIds : pc'[t].line.scope = id /\ Open(journal, id) /\ Exit(t, id)
        BY <1>6, <2>3 DEF Makes, Leaving, IsExit
      <3>2. id \in LeftScopes'
        <4>1. id \in DOMAIN journal.scopes /\ journal'.nextScope = journal.nextScope
          BY <3>1, ExitEffect DEF Open
        <4>2. id < journal.nextScope
          BY <4>1, RetainedScopes
        <4>3. ~ Open(journal', id)
          BY <3>1, ExitEffect DEF Open
        <4> QED  BY <4>1, <4>2, <4>3 DEF LeftScopes
      <3>3. id \notin LeftScopes
        BY <3>1 DEF LeftScopes
      <3>4. \A u \in Threads : Leaving(u)' => u = t \/ (Leaving(u) /\ pc'[u].line = pc[u].line)
        BY <1>4
      <3>5. \A u \in Threads : Leaving(u)' => pc'[u].line.scope \in LeftScopes'
        BY <1>1, <3>1, <3>2, <3>4 DEF ExitsOnce
      <3>6. \A u, v \in Threads : Leaving(u)' /\ Leaving(v)' /\ v # u => pc'[v].line.scope # pc'[u].line.scope
        BY <3>1, <3>3, <3>4 DEF ExitsOnce
      <3>7. \A u \in Threads, i \in 1..Len(handed) :
               Leaving(u)' /\ IsExit(handed[i]) => handed[i].scope # pc'[u].line.scope
        BY <3>1, <3>3, <3>4 DEF ExitsOnce
      <3>8. /\ \A i \in 1..Len(handed) : IsExit(handed[i]) => handed[i].scope \in LeftScopes'
            /\ \A i, j \in 1..Len(handed) :
                  IsExit(handed[i]) /\ IsExit(handed[j]) /\ i # j => handed[i].scope # handed[j].scope
        BY <1>1 DEF ExitsOnce
      <3> QED  BY <2>1, <3>5, <3>6, <3>7, <3>8 DEF ExitsOnce
    <2> QED  BY <2>2, <2>3
  <1>7. CASE Writes(t)
    <2> DEFINE n == Len(handed) + 1
               l == pc[t].line
    <2>1. /\ Pending(t) /\ ~ Leaving(t)'
          /\ \A i \in 1..Len(handed') : \/ i \in 1..Len(handed) /\ handed'[i] = handed[i]
                                        \/ i = n /\ handed'[i] = l
      BY <1>7, WritesLines DEF Writes, Leaving
    <2>2. \A u \in Threads : Leaving(u)' => u # t /\ Leaving(u) /\ pc'[u].line = pc[u].line
      BY <1>4, <2>1
    <2>3. IsExit(l) => /\ l.scope \in LeftScopes
                       /\ \A u \in Threads : u # t /\ Leaving(u) => pc[u].line.scope # l.scope
                       /\ \A i \in 1..Len(handed) : IsExit(handed[i]) => handed[i].scope # l.scope
      BY <2>1 DEF ExitsOnce, Leaving
    <2> HIDE DEF n, l
    <2>4. /\ \A u \in Threads : Leaving(u)' => pc'[u].line.scope \in LeftScopes'
          /\ \A u, v \in Threads : Leaving(u)' /\ Leaving(v)' /\ v # u => pc'[v].line.scope # pc'[u].line.scope
      BY <1>1, <2>2 DEF ExitsOnce
    <2>5. \A i \in 1..Len(handed') : IsExit(handed'[i]) => handed'[i].scope \in LeftScopes'
      BY <1>1, <2>1, <2>3 DEF ExitsOnce
    <2>6. \A u \in Threads, i \in 1..Len(handed') :
             Leaving(u)' /\ IsExit(handed'[i]) => handed'[i].scope # pc'[u].line.scope
      BY <2>1, <2>2, <2>3 DEF ExitsOnce
    <2>7. \A i, j \in 1..Len(handed') :
             IsExit(handed'[i]) /\ IsExit(handed'[j]) /\ i # j => handed'[i].scope # handed'[j].scope
      BY <2>1, <2>3 DEF ExitsOnce
    <2> QED  BY <2>4, <2>5, <2>6, <2>7 DEF ExitsOnce
  <1> QED  BY <1>3, <1>5, <1>6, <1>7

-----------------------------------------------------------------------------
(* Parents: one for each scope whose metadata is handed over, the one the   *)
(* journal has while it retains the scope, and always an older scope.       *)
IsScope(l) == l.type = "scope"

ParentsAgree ==
    /\ \A id \in DOMAIN journal.scopes :
          journal.scopes[id].parent # NoScope => journal.scopes[id].parent < id
    /\ \A i \in 1..Len(handed) : IsScope(handed[i]) =>
          /\ handed[i].scope < journal.nextScope
          /\ handed[i].parent # NoScope => handed[i].parent < handed[i].scope
          /\ handed[i].scope \in DOMAIN journal.scopes => handed[i].parent = journal.scopes[handed[i].scope].parent
    /\ \A i, j \in 1..Len(handed) :
          IsScope(handed[i]) /\ IsScope(handed[j]) /\ handed[i].scope = handed[j].scope
          => handed[i].parent = handed[j].parent

LEMMA ParentsStep ==
    ASSUME Typed, Stacks, RecordsOrdered, ParentsAgree, NEW t \in Threads, Call(t) \/ Continue(t)
    PROVE  ParentsAgree'
  <1>1. /\ journal.nextScope \in Nat /\ journal'.nextScope \in Nat
        /\ journal.nextScope <= journal'.nextScope /\ Len(handed) \in Nat
    <2>1. Typed'
      BY TypedStep
    <2>2. journal'.nextScope \in Nat
      BY <2>1 DEF Typed, IsJournal, Journals
    <2> QED  BY <2>2, KnownLines, JournalStep
  <1>2. Top(stack[t]) # NoScope => Top(stack[t]) < journal.nextScope
    <2>1. CASE stack[t] = <<>>
      BY <2>1 DEF Top
    <2>2. CASE stack[t] # <<>>
      <3>1. Len(stack[t]) \in 1..Len(stack[t]) /\ Top(stack[t]) = stack[t][Len(stack[t])]
        BY <2>2, TopType DEF Typed
      <3> QED  BY <3>1 DEF Stacks
    <2> QED  BY <2>1, <2>2
  <1>3. \A id \in DOMAIN journal'.scopes :
           journal'.scopes[id].parent # NoScope => journal'.scopes[id].parent < id
    BY <1>2, ScopesStep DEF ParentsAgree
  <1>4. \A i \in 1..Len(handed) : IsScope(handed[i]) => handed[i].scope \in Nat
    BY KnownLines, LineFields, ScopesAreNaturals DEF IsScope, IsRecord
  (* What is already there stays true of the next journal.                  *)
  <1>5. ASSUME NEW i \in 1..Len(handed), IsScope(handed[i])
        PROVE  /\ handed[i].scope < journal'.nextScope
               /\ handed[i].parent # NoScope => handed[i].parent < handed[i].scope
               /\ handed[i].scope \in DOMAIN journal'.scopes
                     => handed[i].parent = journal'.scopes[handed[i].scope].parent
    <2>1. /\ handed[i].scope \in Nat /\ handed[i].scope < journal.nextScope
          /\ handed[i].parent # NoScope => handed[i].parent < handed[i].scope
          /\ handed[i].scope \in DOMAIN journal.scopes => handed[i].parent = journal.scopes[handed[i].scope].parent
      BY <1>4, <1>5 DEF ParentsAgree
    <2>2. handed[i].scope < journal'.nextScope /\ handed[i].scope # journal.nextScope
      BY <1>1, <2>1
    <2> QED  BY <2>1, <2>2, ScopesStep
  <1>6. Writes(t) \/ Makes(t) \/ Neither(t)
    BY StepKinds
  <1>7. CASE Writes(t) \/ Makes(t)
    <2>1. \A i \in 1..Len(handed') : IsScope(handed'[i]) => i \in 1..Len(handed) /\ handed'[i] = handed[i]
      <3>1. CASE Makes(t)
        BY <3>1 DEF Makes
      <3>2. CASE Writes(t)
        <4>1. ~ IsScope(pc[t].line)
          BY <3>2 DEF Writes, RecordsOrdered, IsRecord, IsScope
        <4> QED  BY <3>2, <4>1, WritesLines
      <3> QED  BY <1>7, <3>1, <3>2
    <2>2. \A i, j \in 1..Len(handed) :
             IsScope(handed[i]) /\ IsScope(handed[j]) /\ handed[i].scope = handed[j].scope
             => handed[i].parent = handed[j].parent
      BY DEF ParentsAgree
    <2> QED  BY <1>3, <1>5, <2>1, <2>2 DEF ParentsAgree
  <1>8. CASE Neither(t)
    <2>1. ASSUME NEW i \in 1..Len(handed')
          PROVE  \/ i \in 1..Len(handed) /\ handed'[i] = handed[i]
                 \/ /\ journal' = journal /\ handed'[i].scope \in DOMAIN journal.scopes
                    /\ handed'[i].parent = journal.scopes[handed'[i].scope].parent
      <3>1. \A id : ScopeLine(id).scope = id /\ ScopeLine(id).parent = journal.scopes[id].parent
        BY DEF ScopeLine
      <3> QED  BY <1>8, <3>1, NeitherLines
    <2>2. ASSUME NEW i \in 1..Len(handed'), IsScope(handed'[i])
          PROVE  /\ handed'[i].scope < journal'.nextScope
                 /\ handed'[i].parent # NoScope => handed'[i].parent < handed'[i].scope
                 /\ handed'[i].scope \in DOMAIN journal'.scopes
                       => handed'[i].parent = journal'.scopes[handed'[i].scope].parent
      <3>1. CASE i \in 1..Len(handed) /\ handed'[i] = handed[i]
        BY <1>5, <2>2, <3>1
      <3>2. CASE /\ journal' = journal /\ handed'[i].scope \in DOMAIN journal.scopes
                 /\ handed'[i].parent = journal.scopes[handed'[i].scope].parent
        <4>1. handed'[i].scope < journal.nextScope
          BY <3>2, RetainedScopes
        <4> QED  BY <1>3, <3>2, <4>1
      <3> QED  BY <2>1, <3>1, <3>2
    <2>3. ASSUME NEW i \in 1..Len(handed'), NEW j \in 1..Len(handed'), IsScope(handed'[i]), IsScope(handed'[j]),
                 handed'[i].scope = handed'[j].scope
          PROVE  handed'[i].parent = handed'[j].parent
      <3>1. CASE /\ i \in 1..Len(handed) /\ handed'[i] = handed[i]
                 /\ j \in 1..Len(handed) /\ handed'[j] = handed[j]
        BY <2>3, <3>1 DEF ParentsAgree
      <3>2. CASE journal' = journal /\ handed'[i].scope \in DOMAIN journal.scopes
        BY <2>2, <2>3, <3>2
      <3> QED  BY <2>1, <2>3, <3>1, <3>2
    <2> QED  BY <1>3, <2>2, <2>3 DEF ParentsAgree
  <1> QED  BY <1>6, <1>7, <1>8

-----------------------------------------------------------------------------
(* After its exit of a scope a thread is not inside it, has no record of it *)
(* pending and none was handed over behind the exit.                        *)
ExitsLeave ==
    /\ \A t \in Threads : Leaving(t) => pc[t].line.scope \notin inside[t]
    /\ \A t \in Threads, i \in 1..Len(handed) : IsExit(handed[i]) /\ handed[i].by = t =>
          /\ handed[i].scope \notin inside[t]
          /\ Pending(t) => pc[t].line.scope # handed[i].scope
    /\ \A i, j \in 1..Len(handed) :
          i < j /\ IsExit(handed[i]) /\ IsRecord(handed[j]) /\ handed[i].by = handed[j].by
          => handed[j].scope # handed[i].scope

LEMMA InsideStep ==
    ASSUME Typed, NEW t \in Threads, Call(t) \/ Continue(t), NEW u \in Threads
    PROVE  \A id \in inside'[u] : id \in inside[u] \/ id = journal.nextScope
  <1>1. inside \in [Threads -> SUBSET ScopeIds]
    BY DEF Typed
  <1>2. CASE Enter(t)
    BY <1>1, <1>2 DEF Enter
  <1>3. CASE \E id \in 0..(MaxScopes - 1) : Exit(t, id)
    BY <1>1, <1>3 DEF Exit
  <1>4. CASE ClearEnd(t)
    BY <1>1, <1>4 DEF ClearEnd
  <1>5. CASE UNCHANGED stackVars
    BY <1>5 DEF stackVars
  <1> QED
    BY <1>2, <1>3, <1>4, <1>5 DEF Call, Continue, Emit, EmitCount, EmitCap, EmitTrim, WriteRecord, PublishScope,
         PublishPanics, ClearStart, ClearJournal, SetRetention, Reconfigure, Drain, Build, BuildFails, Install

LEMMA TopIsInside ==
    ASSUME Typed, Stacks, NEW t \in Threads
    PROVE  Top(stack[t]) = NoScope \/ Top(stack[t]) \in inside[t]
  <1>1. CASE stack[t] = <<>>
    BY <1>1 DEF Top
  <1>2. CASE stack[t] # <<>>
    <2>1. Len(stack[t]) \in 1..Len(stack[t]) /\ Top(stack[t]) = stack[t][Len(stack[t])]
      BY <1>2, TopType DEF Typed
    <2> QED  BY <2>1 DEF Stacks
  <1> QED  BY <1>1, <1>2

LEMMA ExitsLeaveStep ==
    ASSUME Typed, Stacks, RecordsOrdered, ExitsOnce, ExitsLeave,
           NEW t \in Threads, Call(t) \/ Continue(t)
    PROVE  ExitsLeave'
  <1>1. Len(handed) \in Nat
    BY KnownLines
  <1>2. /\ \A u \in Threads : u # t => pc'[u] = pc[u]
        /\ Writes(t) \/ Makes(t) \/ Neither(t)
    BY StepKinds
  <1>3. \A u \in Threads : u # t => /\ Leaving(u)' <=> Leaving(u)
                                    /\ Pending(u)' <=> Pending(u)
                                    /\ pc'[u].line = pc[u].line
    BY <1>2 DEF Pending, Leaving
  (* A scope that was left is not entered again.                            *)
  <1>4. \A u \in Threads, id \in LeftScopes : id \notin inside[u] => id \notin inside'[u]
    <2>1. \A id \in LeftScopes : id # journal.nextScope
      BY KnownLines, ScopesAreNaturals DEF LeftScopes
    <2> QED  BY <2>1, InsideStep
  <1>5. \A u \in Threads, i \in 1..Len(handed) :
           IsExit(handed[i]) /\ handed[i].by = u => handed[i].scope \notin inside'[u]
    BY <1>4 DEF ExitsLeave, ExitsOnce
  <1>6. CASE Neither(t)
    <2>1. \A i \in 1..Len(handed') : IsRecord(handed'[i]) => i \in 1..Len(handed) /\ handed'[i] = handed[i]
      BY <1>6, NeitherLines
    <2>2. \A i \in 1..Len(handed') : IsExit(handed'[i]) => IsRecord(handed'[i])
      BY DEF IsExit, IsRecord
    <2>3. \A u \in Threads : Pending(u)' => Pending(u) /\ pc'[u].line = pc[u].line
      BY <1>3, <1>6 DEF Neither
    <2>4. \A u \in Threads : Leaving(u)' => Leaving(u) /\ pc'[u].line = pc[u].line
      BY <2>3 DEF Leaving
    <2>5. \A u \in Threads : Leaving(u)' => pc'[u].line.scope \notin inside'[u]
      BY <1>4, <2>4 DEF ExitsLeave, ExitsOnce
    <2> QED  BY <1>5, <2>1, <2>2, <2>3, <2>5 DEF ExitsLeave
  <1>7. CASE Makes(t)
    <2>1. handed' = handed /\ ~ Pending(t) /\ Pending(t)'
      BY <1>7 DEF Makes
    <2>2. \A i \in 1..Len(handed) : IsExit(handed[i]) /\ handed[i].by = t => pc'[t].line.scope # handed[i].scope
      <3> SUFFICES ASSUME NEW i \in 1..Len(handed), IsExit(handed[i]), handed[i].by = t
                   PROVE  pc'[t].line.scope # handed[i].scope
        OBVIOUS
      <3>1. handed[i].scope \in LeftScopes /\ handed[i].scope \notin inside[t]
        BY DEF ExitsOnce, ExitsLeave
      <3>2. CASE pc'[t].line.scope = Top(stack[t])
        <4>1. NoScope \notin LeftScopes
          BY ScopesAreNaturals DEF LeftScopes
        <4> QED  BY <3>1, <3>2, <4>1, TopIsInside
      <3>3. CASE \E id \in ScopeIds : pc'[t].line.scope = id /\ Open(journal, id)
        BY <3>1, <3>3 DEF LeftScopes
      <3> QED  BY <1>7, <3>2, <3>3 DEF Makes
    <2>3. Leaving(t)' => pc'[t].line.scope \notin inside'[t]
      BY <1>7 DEF Makes, Leaving, IsExit
    <2>4. \A u \in Threads : Leaving(u)' => pc'[u].line.scope \notin inside'[u]
      BY <1>3, <1>4, <2>3 DEF ExitsLeave, ExitsOnce
    <2>5. \A u \in Threads, i \in 1..Len(handed) : IsExit(handed[i]) /\ handed[i].by = u =>
             /\ handed[i].scope \notin inside'[u]
             /\ Pending(u)' => pc'[u].line.scope # handed[i].scope
      BY <1>3, <1>5, <2>2 DEF ExitsLeave
    <2>6. \A i, j \in 1..Len(handed) :
             i < j /\ IsExit(handed[i]) /\ IsRecord(handed[j]) /\ handed[i].by = handed[j].by
             => handed[j].scope # handed[i].scope
      BY DEF ExitsLeave
    <2> QED  BY <2>1, <2>4, <2>5, <2>6 DEF ExitsLeave
  <1>8. CASE Writes(t)
    <2> DEFINE n == Len(handed) + 1
               l == pc[t].line
    <2>1. /\ Pending(t) /\ ~ Pending(t)' /\ inside' = inside
          /\ \A i \in 1..Len(handed') : \/ i \in 1..Len(handed) /\ handed'[i] = handed[i]
                                        \/ i = n /\ handed'[i] = l
      BY <1>8, WritesLines DEF Writes
    <2>2. \A u \in Threads : Pending(u)' => u # t /\ Pending(u) /\ pc'[u].line = pc[u].line
      BY <1>3, <2>1
    <2>3. /\ l.by = t
          /\ IsExit(l) => l.scope \notin inside[t]
          /\ \A i \in 1..Len(handed) : IsExit(handed[i]) /\ handed[i].by = t => l.scope # handed[i].scope
      BY <2>1 DEF ExitsLeave, Leaving, RecordsOrdered
    <2>4. \A i \in 1..Len(handed') : i < n => i \in 1..Len(handed)
      BY <1>1, <2>1
    <2>5. \A i \in 1..Len(handed), j \in 1..Len(handed') : j = n => ~ (j < i)
      BY <1>1
    <2>6. ~ (n < n)
      BY <1>1
    <2> HIDE DEF n, l
    <2>7. \A u \in Threads : Leaving(u)' => pc'[u].line.scope \notin inside'[u]
      BY <2>1, <2>2 DEF ExitsLeave, Leaving
    <2>8. \A u \in Threads, i \in 1..Len(handed') : IsExit(handed'[i]) /\ handed'[i].by = u =>
             /\ handed'[i].scope \notin inside'[u]
             /\ Pending(u)' => pc'[u].line.scope # handed'[i].scope
      <3> SUFFICES ASSUME NEW u \in Threads, NEW i \in 1..Len(handed'), IsExit(handed'[i]), handed'[i].by = u
                   PROVE  /\ handed'[i].scope \notin inside'[u]
                          /\ Pending(u)' => pc'[u].line.scope # handed'[i].scope
        OBVIOUS
      <3>1. CASE i \in 1..Len(handed) /\ handed'[i] = handed[i]
        BY <2>1, <2>2, <3>1 DEF ExitsLeave
      <3>2. CASE i = n /\ handed'[i] = l
        BY <2>1, <2>3, <3>2
      <3> QED  BY <2>1, <3>1, <3>2
    <2>9. ASSUME NEW i \in 1..Len(handed'), NEW j \in 1..Len(handed'),
                 i < j, IsExit(handed'[i]), IsRecord(handed'[j]), handed'[i].by = handed'[j].by
          PROVE  handed'[j].scope # handed'[i].scope
      <3>1. CASE i \in 1..Len(handed) /\ handed'[i] = handed[i] /\ j \in 1..Len(handed) /\ handed'[j] = handed[j]
        BY <2>9, <3>1 DEF ExitsLeave
      <3>2. CASE i \in 1..Len(handed) /\ handed'[i] = handed[i] /\ j = n /\ handed'[j] = l
        BY <2>3, <2>9, <3>2
      <3>3. i # n
        BY <2>1, <2>5, <2>6, <2>9 DEF n
      <3> QED  BY <2>1, <3>1, <3>2, <3>3
    <2> QED  BY <2>7, <2>8, <2>9 DEF ExitsLeave
  <1> QED  BY <1>2, <1>6, <1>7, <1>8

-----------------------------------------------------------------------------
(* The lines handed over                                                    *)
Recorded == RecordsOrdered /\ ExitsOnce /\ ParentsAgree /\ ExitsLeave

LEMMA RecordedInit == Init => Recorded
  <1> SUFFICES ASSUME Init PROVE Recorded
    OBVIOUS
  <1>1. /\ \A t \in Threads : ~ Pending(t) /\ ~ Leaving(t)
        /\ 1..Len(handed) = {} /\ DOMAIN journal.scopes = {}
    BY DEF Init, Idle, Pending, Leaving, NewJournal
  <1> QED  BY <1>1 DEF Recorded, RecordsOrdered, ExitsOnce, ParentsAgree, ExitsLeave

LEMMA RecordedStutter ==
    ASSUME Recorded, UNCHANGED vars
    PROVE  Recorded'
  <1>1. RecordsOrdered'
    BY DEF Recorded, RecordsOrdered, vars, Pending
  <1>2. LeftScopes' = LeftScopes
    BY DEF LeftScopes, Open, vars
  <1>3. ExitsOnce'
    BY <1>2 DEF Recorded, ExitsOnce, vars, Leaving, Pending
  <1>4. ParentsAgree'
    BY DEF Recorded, ParentsAgree, vars
  <1>5. ExitsLeave'
    BY DEF Recorded, ExitsLeave, vars, Leaving, Pending
  <1> QED  BY <1>1, <1>3, <1>4, <1>5 DEF Recorded

LEMMA RecordedInvariant == Spec => [](Typed /\ Locks /\ Stacks /\ Recorded)
  <1>1. Typed /\ Stacks /\ Recorded /\ [Next]_vars => Recorded'
    <2> SUFFICES ASSUME Typed, Stacks, Recorded, [Next]_vars PROVE Recorded'
      OBVIOUS
    <2>1. CASE Next
      <3>1. PICK t \in Threads : Call(t) \/ Continue(t)
        BY <2>1 DEF Next
      <3>2. RecordsOrdered' /\ ExitsOnce' /\ ParentsAgree' /\ ExitsLeave'
        BY <3>1, RecordsStep, ExitsStep, ParentsStep, ExitsLeaveStep DEF Recorded
      <3> QED  BY <3>2 DEF Recorded
    <2>2. CASE UNCHANGED vars
      BY <2>2, RecordedStutter
    <2> QED  BY <2>1, <2>2
  <1> QED  BY <1>1, RecordedInit, StacksInvariant, PTL DEF Spec

(* Replay finds no conflict in what the runtime handed over, nor in what a  *)
(* writer that drops lines left of it: record identifiers and exits of a    *)
(* scope are unique, the parent of a scope is one and older than the scope, *)
(* however threads enter, leave, clear, reconfigure and fail to reconfigure.*)
THEOREM OutputWithoutConflict == Spec => []NoReplayConflict
  <1>1. Typed /\ Recorded => NoReplayConflict
    <2> SUFFICES ASSUME Typed, Recorded, NEW i \in 1..Len(handed), NEW j \in 1..Len(handed)
                 PROVE  /\ handed[i].type = "scope" /\ handed[i].parent # NoScope => handed[i].parent < handed[i].scope
                        /\ i # j /\ handed[i].type = "exit" /\ handed[j].type = "exit" => handed[i].scope # handed[j].scope
                        /\ i # j /\ handed[i].type # "scope" /\ handed[j].type # "scope" => handed[i].id # handed[j].id
                        /\ handed[i].type = "scope" /\ handed[j].type = "scope" /\ handed[i].scope = handed[j].scope
                              => handed[i].parent = handed[j].parent
      BY DEF NoReplayConflict
    <2>1. handed[i].type = "scope" /\ handed[i].parent # NoScope => handed[i].parent < handed[i].scope
      BY DEF Recorded, ParentsAgree, IsScope
    <2>2. i # j /\ handed[i].type = "exit" /\ handed[j].type = "exit" => handed[i].scope # handed[j].scope
      BY DEF Recorded, ExitsOnce, IsExit
    <2>3. i # j /\ handed[i].type # "scope" /\ handed[j].type # "scope" => handed[i].id # handed[j].id
      BY DEF Recorded, RecordsOrdered, IsRecord
    <2>4. handed[i].type = "scope" /\ handed[j].type = "scope" /\ handed[i].scope = handed[j].scope
             => handed[i].parent = handed[j].parent
      BY DEF Recorded, ParentsAgree, IsScope
    <2> QED  BY <2>1, <2>2, <2>3, <2>4
  <1> QED  BY <1>1, RecordedInvariant, PTL

(* Each thread's records are handed over in the order in which the thread   *)
(* made them, and none of a scope after the thread's own exit of it.        *)
THEOREM RecordsInThreadOrder == Spec => []ThreadOrder
  <1>1. Typed /\ Recorded => ThreadOrder
    <2> SUFFICES ASSUME Typed, Recorded, NEW i \in 1..Len(handed), NEW j \in 1..Len(handed),
                        i < j, handed[i].type # "scope", handed[j].type # "scope", handed[i].by = handed[j].by
                 PROVE  /\ handed[i].id < handed[j].id
                        /\ handed[i].type = "exit" => handed[j].scope # handed[i].scope
      BY DEF ThreadOrder
    <2>1. handed[i].id < handed[j].id
      BY DEF Recorded, RecordsOrdered, IsRecord
    <2>2. handed[i].type = "exit" => handed[j].scope # handed[i].scope
      BY DEF Recorded, ExitsLeave, IsRecord, IsExit
    <2> QED  BY <2>1, <2>2
  <1> QED  BY <1>1, RecordedInvariant, PTL

-----------------------------------------------------------------------------
(* Scope metadata                                                           *)

OpenScopes       == {id \in DOMAIN journal.scopes : journal.scopes[id].open}
HandedScopes     == {id \in ScopeIds : HandedScope(id)}
PublishingScopes == {id \in ScopeIds : \E t \in Threads : pc[t].at = "publish" /\ pc[t].id = id}

(* The metadata of every open scope has gone to a JSONL log or is about to: *)
(* from the moment the log is seeded, before its writer is installed, since *)
(* nothing that is published can go to the old writer in between.           *)
OpenPublished ==
    /\ sink = "jsonl" => OpenScopes \subseteq HandedScopes \cup PublishingScopes
    /\ \A t \in Threads : pc[t].at = "install" /\ pc[t].cfg.format = "jsonl"
          => OpenScopes \subseteq HandedScopes \cup PublishingScopes

LEMMA HandedForGood ==
    ASSUME Typed, NEW t \in Threads, Call(t) \/ Continue(t)
    PROVE  HandedScopes \subseteq HandedScopes'
  <1>1. Len(handed) \in Nat
    BY KnownLines
  <1>2. Writes(t) \/ Makes(t) \/ Neither(t)
    BY StepKinds
  <1>3. Len(handed) <= Len(handed') /\ \A i \in 1..Len(handed) : i \in 1..Len(handed') /\ handed'[i] = handed[i]
    <2>1. CASE Makes(t)
      BY <1>1, <2>1 DEF Makes
    <2>2. CASE Neither(t)
      <3>1. Len(handed') \in Nat
        BY TypedStep, LenProperties DEF Typed
      <3> QED  BY <1>1, <2>2, <3>1 DEF Neither
    <2>3. CASE Writes(t)
      <3>1. handed \in Seq(Lines) /\ pc[t].line \in Lines /\ handed' = Append(handed, pc[t].line)
        BY <2>3, KnownLines DEF Typed, Writes
      <3>2. Len(handed') = Len(handed) + 1 /\ \A i \in 1..Len(handed) : handed'[i] = handed[i]
        BY <3>1, AppendProperties
      <3> QED  BY <1>1, <3>2
    <2> QED  BY <1>2, <2>1, <2>2, <2>3
  <1> QED  BY <1>3 DEF HandedScopes, HandedScope

LEMMA OpenStep ==
    ASSUME Typed, NEW t \in Threads, Call(t) \/ Continue(t)
    PROVE  \A id \in OpenScopes' : id \in OpenScopes \/ (Enter(t) /\ id = journal.nextScope)
  BY ScopesStep DEF OpenScopes

LEMMA OpenPublishedStep ==
    ASSUME Typed, Locks, OpenPublished, NEW t \in Threads, Call(t) \/ Continue(t)
    PROVE  OpenPublished'
  <1>1. /\ pc \in [Threads -> Places] /\ pc[t] \in Places
        /\ \A u \in Threads : u # t => pc'[u] = pc[u]
    BY StepKinds DEF Typed
  <1>2. HandedScopes \subseteq HandedScopes'
    BY HandedForGood
  <1>3. \A id \in PublishingScopes : id \in PublishingScopes' \/ (pc[t].at = "publish" /\ pc[t].id = id)
    BY <1>1 DEF PublishingScopes
  (* Steps that leave the writer alone and are none of those below.         *)
  <1>4. ASSUME sink' = sink, pc[t].at # "publish", ~ Enter(t), pc'[t].at # "install"
        PROVE  OpenPublished'
    <2>1. OpenScopes' \subseteq OpenScopes
      BY <1>4, OpenStep
    <2>2. PublishingScopes \subseteq PublishingScopes'
      BY <1>3, <1>4
    <2> QED  BY <1>1, <1>2, <1>4, <2>1, <2>2 DEF OpenPublished
  <1>5. CASE Enter(t)
    <2>1. /\ pc'[t] = [at |-> "publish", id |-> journal.nextScope] /\ sink' = sink
          /\ pc[t].at = "idle"
      BY <1>1, <1>5 DEF Enter, Idle
    <2>2. journal.nextScope \in ScopeIds
      BY <1>5, EnterEffect
    <2>3. journal.nextScope \in PublishingScopes'
      BY <2>1, <2>2 DEF PublishingScopes
    <2>4. PublishingScopes \subseteq PublishingScopes'
      BY <1>3, <2>1
    <2>5. OpenScopes' \subseteq OpenScopes \cup {journal.nextScope}
      BY OpenStep
    <2> QED  BY <1>1, <1>2, <2>1, <2>3, <2>4, <2>5 DEF OpenPublished
  <1>6. CASE PublishScope(t) \/ PublishPanics(t)
    <2>1. pc[t].at = "publish" /\ writerLock = NoThread /\ sink' = sink /\ journal' = journal
          /\ pc'[t].at # "install"
      BY <1>1, <1>6 DEF PublishScope, PublishPanics, Idle
    <2>2. \A u \in Threads : pc'[u].at # "install"
      BY <1>1, <2>1, ThreadsAssumption DEF Locks, ThreadsAssumption
    <2>3. OpenScopes' = OpenScopes
      BY <2>1 DEF OpenScopes
    <2>4. sink = "jsonl" /\ pc[t].id \in OpenScopes => pc[t].id \in HandedScopes'
      <3> SUFFICES ASSUME sink = "jsonl", pc[t].id \in OpenScopes PROVE pc[t].id \in HandedScopes'
        OBVIOUS
      <3> DEFINE l == ScopeLine(pc[t].id)
      <3>1. pc[t].id \in DOMAIN journal.scopes
        BY DEF OpenScopes
      <3>2. l \in Lines /\ l.type = "scope" /\ l.scope = pc[t].id /\ pc[t].id \in ScopeIds
        BY <3>1, RetainedScopes DEF ScopeLine
      <3>3. handed' = Append(handed, l)
        BY <1>6, <3>1 DEF PublishScope, PublishPanics
      <3> HIDE DEF l
      <3>4. Len(handed') = Len(handed) + 1 /\ handed'[Len(handed) + 1] = l /\ Len(handed) \in Nat
        BY <3>2, <3>3, AppendProperties, KnownLines DEF Typed
      <3>5. Len(handed) + 1 \in 1..Len(handed')
        BY <3>4
      <3> QED  BY <3>2, <3>4, <3>5 DEF HandedScopes, HandedScope
    <2> QED  BY <1>2, <1>3, <2>1, <2>2, <2>3, <2>4 DEF OpenPublished
  <1>7. CASE Build(t)
    <2>1. /\ pc'[t] = [pc[t] EXCEPT !.at = "install"] /\ pc[t].at = "build"
          /\ sink' = sink /\ journal' = journal
          /\ handed' = IF pc[t].cfg.format = "jsonl" THEN handed \o Seeds ELSE handed
      BY <1>1, <1>7 DEF Build
    <2>2. pc'[t].cfg = pc[t].cfg
      BY <1>1, <2>1, PlaceMoves
    <2>3. OpenScopes' = OpenScopes /\ PublishingScopes \subseteq PublishingScopes'
      BY <1>3, <2>1 DEF OpenScopes
    <2>4. pc[t].cfg.format = "jsonl" => OpenScopes \subseteq HandedScopes'
      <3> SUFFICES ASSUME pc[t].cfg.format = "jsonl", NEW id \in OpenScopes PROVE id \in HandedScopes'
        OBVIOUS
      <3>1. id \in DOMAIN journal.scopes /\ id \in ScopeIds
        BY RetainedScopes DEF OpenScopes
      <3>2. PICK n \in 1..Len(Seeds) : Seeds[n] = ScopeLine(id)
        BY <3>1, SeedsProperties
      <3>3. /\ Len(handed) \in Nat /\ Len(Seeds) \in Nat /\ Len(handed') = Len(handed) + Len(Seeds)
            /\ \A i \in 1..(Len(handed) + Len(Seeds)) :
                  handed'[i] = IF i <= Len(handed) THEN handed[i] ELSE Seeds[i - Len(handed)]
        <4>1. handed \in Seq(Lines) /\ Seeds \in Seq(Lines) /\ handed' = handed \o Seeds
          BY <2>1, SeedsProperties DEF Typed
        <4> QED  BY <4>1, ConcatProperties, LenProperties
      <3>4. /\ Len(handed) + n \in 1..(Len(handed) + Len(Seeds)) /\ ~ (Len(handed) + n <= Len(handed))
            /\ (Len(handed) + n) - Len(handed) = n
        BY <3>3
      <3>5. Len(handed) + n \in 1..Len(handed') /\ handed'[Len(handed) + n] = ScopeLine(id)
        BY <3>2, <3>3, <3>4
      <3>6. ScopeLine(id).type = "scope" /\ ScopeLine(id).scope = id
        BY DEF ScopeLine
      <3> QED  BY <3>1, <3>5, <3>6 DEF HandedScopes, HandedScope
    <2> QED  BY <1>1, <1>2, <2>1, <2>2, <2>3, <2>4 DEF OpenPublished
  <1>8. CASE Install(t)
    <2>1. /\ pc[t].at = "install" /\ pc'[t].at = "idle" /\ sink' = pc[t].cfg.format /\ journal' = journal
      BY <1>1, <1>8 DEF Install, Idle
    <2>2. OpenScopes' = OpenScopes /\ PublishingScopes \subseteq PublishingScopes'
      BY <1>3, <2>1 DEF OpenScopes
    <2> QED  BY <1>1, <1>2, <2>1, <2>2 DEF OpenPublished
  <1>9. CASE EmitCount(t) \/ ClearJournal(t) \/ Drain(t)
    <2>1. /\ pc[t].at \in {"count", "clear", "drain"} /\ sink' = sink
          /\ pc'[t] = [pc[t] EXCEPT !.at = "cap"] \/ pc'[t] = [pc[t] EXCEPT !.at = "write"]
             \/ pc'[t] = [pc[t] EXCEPT !.at = "reset"] \/ pc'[t] = [pc[t] EXCEPT !.at = "build"]
      BY <1>1, <1>9 DEF EmitCount, ClearJournal, Drain
    <2>2. /\ [pc[t] EXCEPT !.at = "cap"].at = "cap" /\ [pc[t] EXCEPT !.at = "write"].at = "write"
          /\ [pc[t] EXCEPT !.at = "reset"].at = "reset" /\ [pc[t] EXCEPT !.at = "build"].at = "build"
      BY <1>1 DEF Places, Idle
    <2>3. ~ Enter(t)
      BY <2>1 DEF Enter, Idle
    <2> QED  BY <1>4, <2>1, <2>2, <2>3
  <1>10. CASE Emit(t) \/ EmitCap(t) \/ EmitTrim(t) \/ WriteRecord(t) \/ ClearStart(t) \/ ClearEnd(t) \/ BuildFails(t)
    <2>1. sink' = sink /\ pc[t].at \notin {"publish", "install"} /\ pc'[t].at # "install"
      BY <1>1, <1>10 DEF Emit, EmitCap, EmitTrim, WriteRecord, ClearStart, ClearEnd, BuildFails, Idle
    <2>2. CASE ~ Enter(t)
      BY <1>4, <2>1, <2>2
    <2> QED  BY <1>5, <2>2
  <1>11. CASE \E id \in 0..(MaxScopes - 1) : Exit(t, id)
    <2>1. sink' = sink /\ pc[t].at = "idle" /\ pc'[t].at # "install"
      BY <1>1, <1>11 DEF Exit, Idle
    <2> QED  BY <1>4, <1>5, <2>1
  <1>12. CASE \E n \in Retentions : SetRetention(t, n)
    <2>1. sink' = sink /\ pc[t].at = "idle" /\ pc'[t].at # "install"
      BY <1>1, <1>12 DEF SetRetention, Idle
    <2> QED  BY <1>4, <1>5, <2>1
  <1>13. CASE \E format \in Formats, asked \in Asked, force \in BOOLEAN : Reconfigure(t, format, asked, force)
    <2>1. sink' = sink /\ pc[t].at = "idle" /\ pc'[t].at # "install"
      BY <1>1, <1>13 DEF Reconfigure, Idle
    <2> QED  BY <1>4, <1>5, <2>1
  <1> QED  BY <1>5, <1>6, <1>7, <1>8, <1>9, <1>10, <1>11, <1>12, <1>13 DEF Call, Continue

(* Whenever a JSONL writer is installed, the metadata of every open scope   *)
(* whose enter_scope has returned has been handed over, whether the scope   *)
(* was there before the writer or not.  The theorem ends there: what a full *)
(* queue drops or a dying process loses never reaches the file.             *)
THEOREM OpenScopesAreHanded == Spec => []OpenScopesHanded
  <1>1. Init => OpenPublished
    <2>1. Init => OpenScopes = {}
      BY DEF Init, OpenScopes, NewJournal
    <2> QED  BY <2>1 DEF OpenPublished
  <1>2. Typed /\ Locks /\ OpenPublished /\ [Next]_vars => OpenPublished'
    <2> SUFFICES ASSUME Typed, Locks, OpenPublished, [Next]_vars PROVE OpenPublished'
      OBVIOUS
    <2>1. CASE Next
      BY <2>1, OpenPublishedStep DEF Next
    <2>2. CASE UNCHANGED vars
      BY <2>2 DEF vars, OpenPublished, OpenScopes, HandedScopes, HandedScope, PublishingScopes
    <2> QED  BY <2>1, <2>2
  <1>3. Typed /\ OpenPublished => OpenScopesHanded
    <2> SUFFICES ASSUME Typed, OpenPublished, sink = "jsonl",
                        NEW id \in DOMAIN journal.scopes, Open(journal, id), Returned(id)
                 PROVE  HandedScope(id)
      BY DEF OpenScopesHanded
    <2>1. id \in HandedScopes \/ id \in PublishingScopes
      BY DEF OpenScopes, OpenPublished, Open
    <2>2. id \notin PublishingScopes
      <3>1. ASSUME NEW t \in Threads, pc[t].at = "publish", pc[t].id = id PROVE FALSE
        <4>1. pc[t] = [at |-> "publish", id |-> id]
          BY <3>1, PlaceFields DEF Typed
        <4> QED  BY <4>1 DEF Returned
      <3> QED  BY <3>1 DEF PublishingScopes
    <2> QED  BY <2>1, <2>2 DEF HandedScopes
  <1> QED  BY <1>1, <1>2, <1>3, LocksInvariant, PTL DEF Spec

-----------------------------------------------------------------------------
(* Events                                                                   *)

Events   == {n \in DOMAIN journal.records : journal.records[n].kind = "event"}
Counting == {t \in Threads : pc[t].at = "count"}
Due      == {t \in Threads : pc[t].at \in {"cap", "trim"}}
Since    == IF emitCount = 0 THEN Interval ELSE emitCount

(* An event makes room for itself: by the thread that is about to count it, *)
(* then by the count, and every Interval-th count by a trim that is due.    *)
(* When all threads have a trim due, the last count was the one that made   *)
(* the last of them so.                                                     *)
Counted ==
    /\ Cardinality(Events) + 1
          <= LargestCap + Cardinality(Counting) + Interval * Cardinality(Due) + Since
    /\ Threads # {} /\ Due = Threads => Since = 1
    /\ Threads = {} => Events = {}

LEMMA LargestCapProperties ==
    LargestCap \in Caps /\ LargestCap \in Nat /\ \A q \in Caps : q <= LargestCap
  <1>1. IsFiniteSet(Caps) /\ Caps \in SUBSET Nat /\ Caps # {}
    <2>1. IsFiniteSet(Retentions \ {0})
      <3>1. IsFiniteSet(Retentions) /\ (Retentions \ {0}) \in SUBSET Retentions
        BY RuntimeAssumption DEF RuntimeAssumption
      <3> QED  BY <3>1, FS_Subset
    <2>2. IsFiniteSet((Retentions \ {0}) \cup {1})
      BY <2>1, FS_AddElement
    <2>3. IsFiniteSet(((Retentions \ {0}) \cup {1}) \cup {DefaultRetention})
      BY <2>2, FS_AddElement
    <2>4. Caps = ((Retentions \ {0}) \cup {1}) \cup {DefaultRetention}
      BY DEF Caps
    <2> QED  BY <2>3, <2>4, CapsPositive
  <1>2. \E r \in Caps : \A q \in Caps : q <= r
    BY <1>1, FiniteGreatest
  <1>3. LargestCap \in Caps /\ \A q \in Caps : q <= LargestCap
    BY <1>2 DEF LargestCap
  <1> QED  BY <1>1, <1>3

LEMMA EventsOf ==
    ASSUME NEW j, IsJournal(j)
    PROVE  LET events == {n \in DOMAIN j.records : j.records[n].kind = "event"}
           IN  /\ DOMAIN j.records \in SUBSET Nat /\ IsFiniteSet(DOMAIN j.records)
               /\ IsFiniteSet(events) /\ Cardinality(events) \in Nat
               /\ j.nextRecord \notin DOMAIN j.records
  <1> DEFINE events == {n \in DOMAIN j.records : j.records[n].kind = "event"}
  <1>1. j.nextRecord \in Nat /\ DOMAIN j.records \subseteq 0..(j.nextRecord - 1)
    BY DEF IsJournal, Journals
  <1>2. IsFiniteSet(0..(j.nextRecord - 1))
    BY <1>1, FS_Interval
  <1>3. IsFiniteSet(DOMAIN j.records)
    BY <1>1, <1>2, FS_Subset
  <1>4. events \in SUBSET DOMAIN j.records
    OBVIOUS
  <1> HIDE DEF events
  <1>5. IsFiniteSet(events) /\ Cardinality(events) \in Nat
    BY <1>3, <1>4, FS_Subset, FS_CardinalityType
  <1> QED  BY <1>1, <1>3, <1>5 DEF events

LEMMA EventsFinite ==
    ASSUME Typed
    PROVE  /\ DOMAIN journal.records \in SUBSET Nat /\ IsFiniteSet(DOMAIN journal.records)
           /\ IsFiniteSet(Events) /\ Cardinality(Events) \in Nat
           /\ journal.nextRecord \notin DOMAIN journal.records
  BY EventsOf DEF Typed, Events

LEMMA EventsFiniteNext ==
    ASSUME Typed, NEW t \in Threads, Call(t) \/ Continue(t)
    PROVE  Cardinality(Events') \in Nat
  <1>1. IsJournal(journal')
    BY TypedStep DEF Typed
  <1> QED  BY <1>1, EventsOf DEF Events

(* The sets of threads that the bound counts.                               *)
LEMMA ThreadCounts ==
    /\ IsFiniteSet(Counting) /\ Cardinality(Counting) \in Nat
    /\ IsFiniteSet(Due) /\ Cardinality(Due) \in Nat
    /\ IsFiniteSet(Threads) /\ Cardinality(Threads) \in Nat
    /\ Cardinality(Counting) + Cardinality(Due) <= Cardinality(Threads)
    /\ Cardinality(Due) = Cardinality(Threads) => Due = Threads
  <1>1. IsFiniteSet(Threads) /\ Counting \in SUBSET Threads /\ Due \in SUBSET Threads
    BY ThreadsAssumption DEF ThreadsAssumption, Counting, Due
  <1>2. Counting \cap Due = {}
    BY DEF Counting, Due
  <1>3. IsFiniteSet(Counting) /\ IsFiniteSet(Due)
    BY <1>1, FS_Subset
  <1>4. /\ Cardinality(Counting) \in Nat /\ Cardinality(Due) \in Nat /\ Cardinality(Threads) \in Nat
    BY <1>1, <1>3, FS_CardinalityType
  <1>5. /\ IsFiniteSet(Counting \cup Due)
        /\ Cardinality(Counting \cup Due)
              = Cardinality(Counting) + Cardinality(Due) - Cardinality(Counting \cap Due)
    BY <1>3, FS_Union
  <1>6. Cardinality(Counting \cap Due) = 0
    BY <1>2, FS_EmptySet
  <1>7. Cardinality(Counting \cup Due) <= Cardinality(Threads)
    <2>1. Counting \cup Due \in SUBSET Threads
      BY <1>1
    <2> QED  BY <1>1, <2>1, FS_Subset
  <1>8. Cardinality(Due) = Cardinality(Threads) => Due = Threads
    BY <1>1, FS_Subset
  <1> QED  BY <1>1, <1>3, <1>4, <1>5, <1>6, <1>7, <1>8

(* What a step of thread t does to the two sets, from where it is and where *)
(* it goes.                                                                 *)
LEMMA CountsStep ==
    ASSUME NEW t \in Threads, \A u \in Threads : u # t => pc'[u] = pc[u]
    PROVE  /\ pc[t].at = "count" /\ pc'[t].at # "count"
                 => Counting' = Counting \ {t} /\ t \in Counting
           /\ pc[t].at # "count" /\ pc'[t].at = "count"
                 => Counting' = Counting \cup {t} /\ t \notin Counting
           /\ pc[t].at # "count" /\ pc'[t].at # "count" => Counting' = Counting
           /\ pc[t].at \in {"cap", "trim"} /\ pc'[t].at \notin {"cap", "trim"}
                 => Due' = Due \ {t} /\ t \in Due
           /\ pc[t].at \notin {"cap", "trim"} /\ pc'[t].at \in {"cap", "trim"}
                 => Due' = Due \cup {t} /\ t \notin Due
           /\ pc[t].at \in {"cap", "trim"} /\ pc'[t].at \in {"cap", "trim"} => Due' = Due
           /\ pc[t].at \notin {"cap", "trim"} /\ pc'[t].at \notin {"cap", "trim"} => Due' = Due
  BY DEF Counting, Due

LEMMA CountedStep ==
    ASSUME Typed, Counted, NEW t \in Threads, Call(t) \/ Continue(t)
    PROVE  Counted'
  <1> DEFINE e == Cardinality(Events)
             c == Cardinality(Counting)
             k == Cardinality(Due)
  <1>1. /\ e \in Nat /\ c \in Nat /\ k \in Nat /\ Interval \in Nat \ {0} /\ LargestCap \in Nat
        /\ IsFiniteSet(Events) /\ IsFiniteSet(Counting) /\ IsFiniteSet(Due)
        /\ emitCount \in 0..(Interval - 1) /\ Since \in 1..Interval /\ Interval * k \in Nat
    <2>1. e \in Nat /\ c \in Nat /\ k \in Nat /\ Interval \in Nat \ {0} /\ LargestCap \in Nat
          /\ emitCount \in 0..(Interval - 1)
      BY EventsFinite, ThreadCounts, LargestCapProperties, RuntimeAssumption DEF Typed, RuntimeAssumption
    <2> HIDE DEF e, c, k
    <2>2. Since \in 1..Interval /\ Interval * k \in Nat
      BY <2>1 DEF Since
    <2> QED  BY <2>1, <2>2, EventsFinite, ThreadCounts
  <1>2. /\ pc \in [Threads -> Places] /\ pc[t] \in Places
        /\ \A u \in Threads : u # t => pc'[u] = pc[u]
    BY StepKinds DEF Typed
  <1>3. /\ e + 1 <= LargestCap + c + Interval * k + Since
        /\ Due = Threads => Since = 1
        /\ Threads # {}
    BY DEF Counted
  (* Steps that add no event, change neither set and keep or reset the      *)
  (* count; with all threads' trims due none of them is a reset.            *)
  <1>4. ASSUME Events' \subseteq Events, Counting' = Counting, Due' = Due,
               emitCount' = emitCount \/ (emitCount' = 0 /\ t \notin Due)
        PROVE  Counted'
    <2>1. Cardinality(Events') <= e
      BY <1>1, <1>4, FS_Subset
    <2>2. Cardinality(Events') \in Nat
      BY EventsFiniteNext
    <2>3. Since' = Since \/ (Since' = Interval /\ Due' # Threads)
      BY <1>4 DEF Since
    <2>4. Cardinality(Counting') = c /\ Cardinality(Due') = k
      BY <1>4
    <2> HIDE DEF e, c, k
    <2>5. Since' \in Nat /\ Since <= Since'
      BY <1>1, <2>3
    <2>6. Cardinality(Events') + 1 <= LargestCap + c + Interval * k + Since'
      BY <1>1, <1>3, <2>1, <2>2, <2>5
    <2> QED  BY <1>3, <1>4, <2>3, <2>4, <2>6 DEF Counted
  <1>5. CASE Emit(t)
    <2>1. /\ pc[t].at = "idle" /\ pc'[t].at = "count" /\ emitCount' = emitCount
      BY <1>2, <1>5 DEF Emit, Idle
    <2>2. Counting' = Counting \cup {t} /\ t \notin Counting /\ Due' = Due
      BY <1>2, <2>1, CountsStep
    <2>3. Events' = Events \cup {journal.nextRecord} /\ journal.nextRecord \notin Events
      BY <1>5, EmitEffect, EventsFinite DEF Events
    <2>4. Cardinality(Events') = e + 1 /\ Cardinality(Counting') = c + 1 /\ Cardinality(Due') = k
      BY <1>1, <2>2, <2>3, FS_AddElement
    <2>5. Since' = Since
      BY <2>1 DEF Since
    <2> HIDE DEF e, c, k
    <2>6. (e + 1) + 1 <= LargestCap + (c + 1) + Interval * k + Since
      BY <1>1, <1>3
    <2> QED  BY <1>3, <2>2, <2>4, <2>5, <2>6 DEF Counted
  <1>6. CASE EmitCount(t)
    <2>1. /\ pc[t].at = "count" /\ pc'[t] = [pc[t] EXCEPT !.at = IF emitCount = 0 THEN "cap" ELSE "write"]
          /\ emitCount' = (emitCount + 1) % Interval /\ journal' = journal
      BY <1>2, <1>6 DEF EmitCount
    <2>2. pc'[t].at = IF emitCount = 0 THEN "cap" ELSE "write"
      BY <1>2, <2>1, PlaceMoves
    <2>3. Counting' = Counting \ {t} /\ t \in Counting /\ Events' = Events
      BY <1>2, <2>1, <2>2, CountsStep DEF Events
    <2>4. Cardinality(Counting') = c - 1 /\ Cardinality(Events') = e
      BY <1>1, <2>3, FS_RemoveElement
    <2>5. CASE emitCount = 0
      <3>1. Due' = Due \cup {t} /\ t \notin Due
        BY <1>2, <2>1, <2>2, <2>5, CountsStep
      <3>2. Cardinality(Due') = k + 1
        BY <1>1, <3>1, FS_AddElement
      <3>3. Since = Interval /\ Since' = 1
        <4>1. Since = Interval
          BY <2>5 DEF Since
        <4>2. emitCount' = IF Interval = 1 THEN 0 ELSE 1
          BY <1>1, <2>1, <2>5
        <4> QED  BY <4>1, <4>2 DEF Since
      <3> HIDE DEF e, c, k
      <3>4. Interval * (k + 1) = Interval * k + Interval
        BY <1>1
      <3>5. e + 1 <= LargestCap + (c - 1) + Interval * (k + 1) + 1
        BY <1>1, <1>3, <3>3, <3>4
      <3> QED  BY <1>3, <2>4, <3>2, <3>3, <3>5 DEF Counted
    <2>6. CASE emitCount # 0
      <3>1. Due' = Due
        BY <1>2, <2>1, <2>2, <2>6, CountsStep
      <3>2. Since' = Since + 1
        <4>1. emitCount' = IF emitCount + 1 = Interval THEN 0 ELSE emitCount + 1
          BY <1>1, <2>1
        <4> QED  BY <1>1, <2>6, <4>1 DEF Since
      <3>3. Due # Threads
        BY <2>1 DEF Due
      <3> HIDE DEF e, c, k
      <3>4. e + 1 <= LargestCap + (c - 1) + Interval * k + (Since + 1)
        BY <1>1, <1>3
      <3>5. Cardinality(Due') = k
        BY <3>1 DEF k
      <3> QED  BY <1>3, <2>4, <3>1, <3>2, <3>3, <3>4, <3>5 DEF Counted
    <2> QED  BY <2>5, <2>6
  <1>7. CASE EmitCap(t)
    <2>1. /\ pc[t].at = "cap" /\ pc'[t].at = "trim" /\ emitCount' = emitCount /\ journal' = journal
      BY <1>2, <1>7 DEF EmitCap
    <2>2. Counting' = Counting /\ Due' = Due /\ Events' = Events
      BY <1>2, <2>1, CountsStep DEF Events
    <2> QED  BY <1>4, <2>1, <2>2
  <1>8. CASE EmitTrim(t)
    <2> DEFINE max == pc[t].max
    <2>1. /\ pc[t].at = "trim" /\ pc'[t].at = "write" /\ emitCount' = emitCount
          /\ journal' = Trim(journal, max)
      BY <1>2, <1>8 DEF EmitTrim
    <2>2. max \in Caps /\ max \in Nat /\ max <= LargestCap
      BY <1>2, <2>1, PlaceFields, CapsPositive, LargestCapProperties
    <2> HIDE DEF max
    <2>3. Counting' = Counting /\ Due' = Due \ {t} /\ t \in Due
      BY <1>2, <2>1, CountsStep
    <2>4. Cardinality(Due') = k - 1
      BY <1>1, <2>3, FS_RemoveElement
    <2>5. Cardinality(Events') <= max
      <3>1. DOMAIN journal'.records = Newest(DOMAIN journal.records, max)
        BY <2>1, TrimFields DEF Typed
      <3>2. /\ IsFiniteSet(Newest(DOMAIN journal.records, max))
            /\ Cardinality(Newest(DOMAIN journal.records, max)) <= max
        BY <2>2, EventsFinite, FewAbove DEF Newest
      <3>3. Events' \in SUBSET Newest(DOMAIN journal.records, max)
        BY <3>1 DEF Events
      <3>4. Cardinality(Events') <= Cardinality(Newest(DOMAIN journal.records, max))
        BY <3>2, <3>3, FS_Subset
      <3>5. Cardinality(Events') \in Nat /\ Cardinality(Newest(DOMAIN journal.records, max)) \in Nat
        BY <3>2, EventsFiniteNext, FS_CardinalityType
      <3> QED  BY <2>2, <3>2, <3>4, <3>5
    <2>6. Cardinality(Events') \in Nat /\ Cardinality(Due') \in Nat
      <3>1. IsFiniteSet(Due')
        BY <1>1, <2>3, FS_RemoveElement
      <3> QED  BY <3>1, EventsFiniteNext, FS_CardinalityType
    <2>7. Since' = Since
      BY <2>1 DEF Since
    <2>8. Cardinality(Counting') = c
      BY <2>3
    <2> HIDE DEF e, c, k
    <2>9. Interval * Cardinality(Due') \in Nat
      BY <1>1, <2>6
    <2>10. Cardinality(Events') + 1 <= LargestCap + c + Interval * Cardinality(Due') + Since
      BY <1>1, <2>2, <2>5, <2>6, <2>9
    <2>11. Due' # Threads
      BY <2>3
    <2> QED  BY <1>3, <2>7, <2>8, <2>10, <2>11 DEF Counted
  <1>9. CASE \E id \in 0..(MaxScopes - 1) : Exit(t, id)
    <2> PICK id \in 0..(MaxScopes - 1) : Exit(t, id)
      BY <1>9
    <2>1. /\ pc[t].at = "idle" /\ pc'[t].at \notin {"count", "cap", "trim"} /\ emitCount' = emitCount
      BY <1>2 DEF Exit, Idle
    <2>2. Counting' = Counting /\ Due' = Due
      BY <1>2, <2>1, CountsStep
    <2>3. Events' \subseteq Events
      BY ExitEffect DEF Events
    <2> QED  BY <1>4, <2>1, <2>2, <2>3
  <1>10. CASE WriteRecord(t) \/ PublishScope(t) \/ PublishPanics(t) \/ Install(t) \/ BuildFails(t) \/ ClearStart(t)
              \/ ClearEnd(t)
    <2>1. /\ pc[t].at \in {"write", "publish", "install", "build", "idle", "reset"}
          /\ pc'[t].at \in {"idle", "panicked", "clear"}
          /\ journal' = journal /\ emitCount' \in {emitCount, 0}
      BY <1>2, <1>10 DEF WriteRecord, PublishScope, PublishPanics, Install, BuildFails, ClearStart, ClearEnd, Idle
    <2>2. Counting' = Counting /\ Due' = Due /\ Events' = Events /\ t \notin Due
      BY <1>2, <2>1, CountsStep DEF Events, Due
    <2> QED  BY <1>4, <2>1, <2>2
  <1>11. CASE Enter(t)
    <2>1. pc[t].at = "idle" /\ pc'[t].at = "publish" /\ emitCount' = emitCount
      BY <1>2, <1>11 DEF Enter, Idle
    <2>2. Counting' = Counting /\ Due' = Due
      BY <1>2, <2>1, CountsStep
    <2>3. Events' = Events
      BY <1>11, EnterEffect DEF Events
    <2> QED  BY <1>4, <2>1, <2>2, <2>3
  <1>12. CASE ClearJournal(t) \/ Drain(t) \/ Build(t)
    <2>1. /\ pc[t].at \in {"clear", "drain", "build"} /\ emitCount' = emitCount
          /\ \/ pc[t].at = "clear" /\ pc'[t] = [pc[t] EXCEPT !.at = "reset"]
             \/ pc[t].at = "drain" /\ pc'[t] = [pc[t] EXCEPT !.at = "build"]
             \/ pc[t].at = "build" /\ pc'[t] = [pc[t] EXCEPT !.at = "install"]
          /\ journal' = journal \/ journal' = Clear(journal)
      BY <1>2, <1>12 DEF ClearJournal, Drain, Build
    <2>2. pc'[t].at \in {"reset", "build", "install"}
      BY <1>2, <2>1, PlaceMoves
    <2>3. Counting' = Counting /\ Due' = Due
      BY <1>2, <2>1, <2>2, CountsStep
    <2>4. Events' \subseteq Events
      <3>1. CASE journal' = journal
        BY <3>1 DEF Events
      <3>2. CASE journal' = Clear(journal)
        <4>1. DOMAIN journal'.records = {}
          BY <3>2, ClearFields DEF Typed
        <4> QED  BY <4>1 DEF Events
      <3> QED  BY <2>1, <3>1, <3>2
    <2> QED  BY <1>4, <2>1, <2>3, <2>4
  <1>13. CASE \E n \in Retentions : SetRetention(t, n)
    <2>1. pc' = pc /\ journal' = journal /\ emitCount' = emitCount
      BY <1>13 DEF SetRetention
    <2>2. Counting' = Counting /\ Due' = Due /\ Events' = Events
      BY <2>1 DEF Counting, Due, Events
    <2> QED  BY <1>4, <2>1, <2>2
  <1>14. CASE \E format \in Formats, asked \in Asked, force \in BOOLEAN : Reconfigure(t, format, asked, force)
    <2>1. pc[t].at = "idle" /\ pc'[t].at \in {"idle", "drain"} /\ journal' = journal /\ emitCount' = emitCount
      BY <1>2, <1>14 DEF Reconfigure, Idle
    <2>2. Counting' = Counting /\ Due' = Due /\ Events' = Events
      BY <1>2, <2>1, CountsStep DEF Events
    <2> QED  BY <1>4, <2>1, <2>2
  <1> QED  BY <1>5, <1>6, <1>7, <1>8, <1>9, <1>10, <1>11, <1>12, <1>13, <1>14 DEF Call, Continue

(* Between trims the journal holds no more events than the largest cap and  *)
(* Interval for each thread, for any number of threads and any interval,    *)
(* though caps are read before they are used and trims may be overtaken.    *)
THEOREM EventsStayBounded == Spec => []EventsBounded
  <1>1. Init => Counted
    <2> SUFFICES ASSUME Init PROVE Counted
      OBVIOUS
    <2>1. Events = {} /\ Counting = {} /\ Due = {} /\ Since = Interval
      BY DEF Init, Events, Counting, Due, Since, NewJournal, Idle
    <2>2. Cardinality({}) = 0
      BY FS_EmptySet
    <2>3. Interval * 0 = 0 /\ Interval \in Nat \ {0} /\ LargestCap \in Nat
      BY LargestCapProperties, RuntimeAssumption DEF RuntimeAssumption
    <2> QED  BY <2>1, <2>2, <2>3 DEF Counted
  <1>2. Typed /\ Counted /\ [Next]_vars => Counted'
    <2> SUFFICES ASSUME Typed, Counted, [Next]_vars PROVE Counted'
      OBVIOUS
    <2>1. CASE Next
      BY <2>1, CountedStep DEF Next
    <2>2. CASE UNCHANGED vars
      BY <2>2 DEF vars, Counted, Events, Counting, Due, Since
    <2> QED  BY <2>1, <2>2
  <1>3. Typed /\ Counted => EventsBounded
    <2> SUFFICES ASSUME Typed, Counted PROVE EventsBounded
      OBVIOUS
    <2> DEFINE e == Cardinality(Events)
               c == Cardinality(Counting)
               k == Cardinality(Due)
               n == Cardinality(Threads)
    <2>1. /\ e \in Nat /\ c \in Nat /\ k \in Nat /\ n \in Nat /\ Interval \in Nat \ {0} /\ LargestCap \in Nat
          /\ c + k <= n /\ (k = n => Due = Threads)
      BY EventsFinite, ThreadCounts, LargestCapProperties, RuntimeAssumption DEF RuntimeAssumption
    <2>2. Since \in 1..Interval
      BY <2>1 DEF Since, Typed
    <2>3. e + 1 <= LargestCap + c + Interval * k + Since
      BY DEF Counted
    <2>4. EventCount = e /\ Bound = LargestCap + n * Interval
      BY DEF EventCount, Bound, Events
    <2>5. CASE Threads = {}
      <3>1. e = 0 /\ n = 0
        BY <2>5, FS_EmptySet DEF Counted
      <3> QED  BY <2>1, <2>4, <3>1 DEF EventsBounded
    <2>6. CASE Threads # {} /\ k = n
      <3>1. Since = 1
        BY <2>1, <2>6 DEF Counted
      <3> HIDE DEF e, c, k, n
      <3>2. c = 0
        BY <2>1, <2>6
      <3> QED  BY <2>1, <2>3, <2>4, <2>6, <3>1, <3>2 DEF EventsBounded
    <2>7. CASE k # n
      <3> HIDE DEF e, c, k, n
      <3> DEFINE m == n - k
      <3>1. m \in Nat /\ m >= 1 /\ n = k + m /\ c <= m
        BY <2>1, <2>7
      <3> HIDE DEF m
      <3>2. (k + m) * Interval = Interval * k + m * Interval
        BY <2>1, <3>1
      <3>3. m + Interval - 1 <= m * Interval
        <4>1. (m - 1) * (Interval - 1) \in Nat
          <5>1. m - 1 \in Nat /\ Interval - 1 \in Nat
            BY <2>1, <3>1
          <5> QED  BY <5>1
        <4>2. (m - 1) * (Interval - 1) = m * Interval - m - Interval + 1
          BY <2>1, <3>1
        <4>3. m * Interval \in Nat
          BY <2>1, <3>1
        <4> QED  BY <2>1, <3>1, <4>1, <4>2, <4>3
      <3>4. m * Interval \in Nat /\ Interval * k \in Nat
        BY <2>1, <3>1
      <3>5. e <= LargestCap + (k + m) * Interval
        BY <2>1, <2>2, <2>3, <3>1, <3>2, <3>3, <3>4
      <3> QED  BY <2>4, <3>1, <3>5 DEF EventsBounded
    <2> QED  BY <2>5, <2>6, <2>7
  <1> QED  BY <1>1, <1>2, <1>3, TypedInvariant, PTL DEF Spec
=============================================================================
