----------------------------- MODULE ReplayProofs -----------------------------
(***************************************************************************)
(* Whatever the lines of its input hold and in whatever order they come,   *)
(* the loader of saved journals loses no valid line, reports every         *)
(* contradiction, keeps runs apart, and says of a scope's exit what its    *)
(* run's lines say; and what it loads of a journal's file is what the      *)
(* journal did, whatever became of the writes.                             *)
(*                                                                         *)
(* A run is compared with its view: the entries of the lines that went to  *)
(* it, by line number.  A line extends the view of its run and leaves the  *)
(* other views alone, so that each property is a fact about one run, one   *)
(* view and one call of AddEntry.                                          *)
(***************************************************************************)
EXTENDS SavedJournal, ProofLemmas

(* The entries the loader meets: those of the input model, those of a       *)
(* journal, and those that were in the file already.                        *)
JournalEntries ==
    [run : ToSet(RunIds), scope : ScopeValues \cup {None}, record : RecordValues \cup {None}]
ForeignEntries == {EntryOf(l) : l \in {m \in ToSet(Foreign) : m # Header /\ Issue(m) = None}}

Entries == Lines \cup JournalEntries \cup ForeignEntries

RecordSet == {e.record : e \in Entries} \ {None}
ScopeSet  ==
    [id : Nat, parent : Nat \cup {None}, about : {e.scope.about : e \in Entries} \cup {None},
     exited : {e.scope.exited : e \in Entries} \cup {None},
     message : {e.scope.message : e \in Entries} \cup {None}]

IsRun(run) ==
    run \in [id : {run.id}, headers : Nat, records : Seq(RecordSet), scopes : Seq(ScopeSet),
             outcomes : {run.outcomes}, missing : {run.missing}]

LEMMA EntriesAre == ASSUME NEW e \in Entries PROVE IsEntry(e)
  <1>1. CASE e \in Lines
    BY <1>1, ReplayAssumption
  <1>2. CASE e \in JournalEntries
    <2>1. e.scope \in ScopeValues \cup {None} /\ e.record \in RecordValues \cup {None}
      BY <1>2 DEF JournalEntries
    <2>2. ASSUME e.scope # None
          PROVE  e.scope \in [id : Nat, parent : Nat \cup {None}, about : {e.scope.about},
                              exited : {e.scope.exited}, message : {e.scope.message}]
      BY <2>1, <2>2 DEF ScopeValues
    <2>3. e.record # None => e.record.scope \in Nat \cup {None}
      BY <2>1 DEF RecordValues
    <2> QED  BY <2>2, <2>3 DEF IsEntry
  <1>3. CASE e \in ForeignEntries
    BY <1>3, SavedAssumption DEF ForeignEntries
  <1> QED  BY <1>1, <1>2, <1>3 DEF Entries

LEMMA EntryParts ==
    ASSUME NEW e \in Entries
    PROVE  /\ e.scope # None => e.scope \in ScopeSet
           /\ e.record # None => e.record \in RecordSet /\ e.record.scope \in Nat \cup {None}
  <1>1. ASSUME e.scope # None PROVE e.scope \in ScopeSet
    <2>1. e.scope \in [id : Nat, parent : Nat \cup {None}, about : {e.scope.about},
                       exited : {e.scope.exited}, message : {e.scope.message}]
      BY <1>1, EntriesAre DEF IsEntry
    <2> QED  BY <2>1 DEF ScopeSet
  <1> QED  BY <1>1, EntriesAre DEF RecordSet, IsEntry

LEMMA RecordSetScopes ==
    \A r \in RecordSet : r.scope \in Nat \cup {None}
  BY EntriesAre DEF RecordSet, IsEntry

LEMMA MergeIs ==
    ASSUME NEW old \in ScopeSet, NEW new \in ScopeSet
    PROVE  /\ Merge(old, new) \in ScopeSet
           /\ Merge(old, new).id = old.id /\ Merge(old, new).parent = old.parent
           /\ Merge(old, new).about = old.about
           /\ Merge(old, new).exited = Or(old.exited, new.exited)
           /\ Merge(old, new).message =
                 IF (old.exited = None \/ new.exited # None) /\ new.message # None
                 THEN new.message ELSE old.message
  BY DEF Merge, Or, ScopeSet

(* An added scope: kept as it is, contradicted, or merged into the one      *)
(* that has its identifier.                                                 *)
ScopesBecome(run, new, scopes, raised) ==
    \/ ScopeIndex(run, new.id) = {} /\ scopes = Append(run.scopes, new) /\ raised = {}
    \/ \E k \in ScopeIndex(run, new.id) :
          \/ Contradicts(run.scopes[k], new) /\ scopes = run.scopes /\ raised # {}
          \/ /\ ~Contradicts(run.scopes[k], new) /\ raised = {}
             /\ scopes = [run.scopes EXCEPT ![k] = Merge(run.scopes[k], new)]

LEMMA TheIn == ASSUME NEW S, S # {} PROVE The(S) \in S
  BY DEF The

LEMMA AddScopeIs ==
    ASSUME NEW run, IsRun(run), NEW new \in ScopeSet
    PROVE  LET a == AddScope(run, new)
           IN  /\ ScopesBecome(run, new, a.run.scopes, a.issues)
               /\ IsRun(a.run)
               /\ a.run.id = run.id /\ a.run.headers = run.headers
               /\ a.run.records = run.records /\ a.run.outcomes = run.outcomes
               /\ a.run.missing = run.missing
               /\ a.issues \in SUBSET {"ConflictingScope"}
  <1> DEFINE at == ScopeIndex(run, new.id)
             k  == The(at)
             a  == AddScope(run, new)
  <1>1. run.scopes \in Seq(ScopeSet) /\ Len(run.scopes) \in Nat
    BY LenProperties DEF IsRun
  <1>2. CASE at = {}
    <2>1. a = [run |-> [run EXCEPT !.scopes = Append(run.scopes, new)], issues |-> {}]
      BY <1>2 DEF AddScope
    <2>2. Append(run.scopes, new) \in Seq(ScopeSet)
      BY <1>1, AppendProperties
    <2> DEFINE x == Append(run.scopes, new)
    <2>3. x \in Seq(ScopeSet) /\ a = [run |-> [run EXCEPT !.scopes = x], issues |-> {}]
      BY <2>1, <2>2
    <2>4. ScopesBecome(run, new, x, {})
      BY <1>2 DEF ScopesBecome
    <2> HIDE DEF x, a
    <2>5. /\ a.run.scopes = x /\ a.issues = {} /\ IsRun(a.run)
          /\ a.run.id = run.id /\ a.run.headers = run.headers
          /\ a.run.records = run.records /\ a.run.outcomes = run.outcomes
          /\ a.run.missing = run.missing
      BY <2>3 DEF IsRun
    <2>6. ScopesBecome(run, new, a.run.scopes, a.issues)
      BY <2>4, <2>5
    <2> QED  BY <2>5, <2>6 DEF a
  <1>3. CASE at # {}
    <2>1. k \in at /\ k \in 1..Len(run.scopes)
      BY <1>3, TheIn DEF ScopeIndex
    <2>2. run.scopes[k] \in ScopeSet
      BY <1>1, <2>1, ElementOfSeq
    <2>3. CASE Contradicts(run.scopes[k], new)
      <3>1. a = [run |-> run, issues |-> {"ConflictingScope"}]
        BY <1>3, <2>3 DEF AddScope
      <3>2. ScopesBecome(run, new, run.scopes, {"ConflictingScope"})
        BY <2>1, <2>3 DEF ScopesBecome
      <3> HIDE DEF a
      <3>3. a.run = run /\ a.issues = {"ConflictingScope"}
        BY <3>1
      <3> QED  BY <3>2, <3>3 DEF a
    <2>4. CASE ~Contradicts(run.scopes[k], new)
      <3>1. Merge(run.scopes[k], new) \in ScopeSet
        BY <2>2, MergeIs
      <3> DEFINE m == Merge(run.scopes[k], new)
                 x == [run.scopes EXCEPT ![k] = m]
      <3>2. a = [run |-> [run EXCEPT !.scopes = x], issues |-> {}]
        <4>1. a = [run |-> [run EXCEPT !.scopes[k] = m], issues |-> {}]
          BY <1>3, <2>4 DEF AddScope
        <4> HIDE DEF k, m
        <4> QED  BY <4>1
      <3>3. x \in Seq(ScopeSet)
        <4> HIDE DEF k, m
        <4> QED  BY <1>1, <2>1, <3>1, ExceptSeq DEF m
      <3>4. ScopesBecome(run, new, x, {})
        BY <2>1, <2>4 DEF ScopesBecome
      <3> HIDE DEF x, a
      <3>5. /\ a.run.scopes = x /\ a.issues = {} /\ IsRun(a.run)
            /\ a.run.id = run.id /\ a.run.headers = run.headers
            /\ a.run.records = run.records /\ a.run.outcomes = run.outcomes
            /\ a.run.missing = run.missing
        BY <3>2, <3>3 DEF IsRun
      <3>6. ScopesBecome(run, new, a.run.scopes, a.issues)
        BY <3>4, <3>5
      <3> QED  BY <3>5, <3>6 DEF a
    <2> QED  BY <2>3, <2>4
  <1> QED  BY <1>2, <1>3

(* An added record: a repetition of the first with its identifier, or one   *)
(* more; a second one, and a second opinion on an outcome, are reported.    *)
RecordObjects(run, r) ==
    \/ RecordIndex(run, r.id) # {} /\ run.records[Least(RecordIndex(run, r.id))] # r
    \/ r.exit # None /\ Known(run, r.scope) /\ run.outcomes[r.scope] # r.exit
RecordsBecome(run, r, records, outcomes, raised) ==
    LET at == RecordIndex(run, r.id)
    IN  \/ /\ at # {} /\ run.records[Least(at)] = r /\ raised = {}
           /\ records = run.records /\ outcomes = run.outcomes
        \/ /\ records = Append(run.records, r) /\ outcomes = Observe(run, r)
           /\ at # {} => raised # {}
           /\ r.exit # None /\ Known(run, r.scope) /\ run.outcomes[r.scope] # r.exit => raised # {}
           /\ raised # {} => RecordObjects(run, r)

LEMMA AddRecordIs ==
    ASSUME NEW run, IsRun(run), NEW r \in RecordSet
    PROVE  LET a == AddRecord(run, r)
           IN  /\ RecordsBecome(run, r, a.run.records, a.run.outcomes, a.issues)
               /\ IsRun(a.run)
               /\ a.run.id = run.id /\ a.run.headers = run.headers
               /\ a.run.scopes = run.scopes /\ a.run.missing = run.missing
               /\ a.issues \in SUBSET {"ConflictingRecord", "ConflictingScope"}
  <1> DEFINE at == RecordIndex(run, r.id)
             a  == AddRecord(run, r)
             x  == Append(run.records, r)
             o  == Observe(run, r)
             w  == IF at # {} THEN {"ConflictingRecord"}
                   ELSE IF r.exit # None /\ Known(run, r.scope) /\ run.outcomes[r.scope] # r.exit
                   THEN {"ConflictingScope"} ELSE {}
  <1>1. x \in Seq(RecordSet)
    <2>1. run.records \in Seq(RecordSet)
      BY DEF IsRun
    <2> QED  BY <2>1, AppendProperties
  <1>2. CASE at # {} /\ run.records[Least(at)] = r
    <2>1. a = [run |-> run, issues |-> {}]
      BY <1>2 DEF AddRecord
    <2>2. RecordsBecome(run, r, run.records, run.outcomes, {})
      BY <1>2 DEF RecordsBecome
    <2> HIDE DEF a, at, x, o, w
    <2>3. a.run = run /\ a.issues = {}
      BY <2>1
    <2> QED  BY <2>2, <2>3 DEF a
  <1>3. CASE ~ (at # {} /\ run.records[Least(at)] = r)
    <2>1. a = [run |-> [run EXCEPT !.records = x, !.outcomes = o], issues |-> w]
      BY <1>3 DEF AddRecord
    <2>2. RecordsBecome(run, r, x, o, w)
      <3>1. at # {} => w # {}
        OBVIOUS
      <3>2. r.exit # None /\ Known(run, r.scope) /\ run.outcomes[r.scope] # r.exit => w # {}
        OBVIOUS
      <3>3. w # {} => RecordObjects(run, r)
        <4>1. at # {} => run.records[Least(at)] # r
          BY <1>3
        <4>2. w # {} => at # {} \/ (r.exit # None /\ Known(run, r.scope) /\ run.outcomes[r.scope] # r.exit)
          OBVIOUS
        <4> HIDE DEF w
        <4> QED  BY <4>1, <4>2 DEF RecordObjects
      <3> HIDE DEF w
      <3> QED  BY <3>1, <3>2, <3>3 DEF RecordsBecome
    <2>3. w \in SUBSET {"ConflictingRecord", "ConflictingScope"}
      OBVIOUS
    <2> HIDE DEF a, at, x, o, w
    <2>4. a.run = [[run EXCEPT !.records = x] EXCEPT !.outcomes = o] /\ a.issues = w
      BY <2>1
    <2>5. /\ a.run.records = x /\ a.run.outcomes = o /\ IsRun(a.run)
          /\ a.run.id = run.id /\ a.run.headers = run.headers
          /\ a.run.scopes = run.scopes /\ a.run.missing = run.missing
      BY <1>1, <2>4 DEF IsRun
    <2> QED  BY <2>2, <2>3, <2>4, <2>5 DEF a
  <1> QED  BY <1>2, <1>3

(* What AddEntry makes of a run, a, and the issues it raises, which are     *)
(* none unless the entry is at odds with the run.                           *)
ScopeObjects(run, new) == \E k \in ScopeIndex(run, new.id) : Contradicts(run.scopes[k], new)
Objects(run, e) ==
    \/ e.scope # None /\ ScopeObjects(run, e.scope)
    \/ e.record # None /\ RecordObjects(run, e.record)
EntryAdded(run, e, a, raised) ==
    /\ IsRun(run) /\ IsRun(a)
    /\ a.id = run.id /\ a.headers = run.headers /\ a.missing = run.missing
    /\ raised \in SUBSET {"ConflictingRecord", "ConflictingScope"}
    /\ e.scope = None => a.scopes = run.scopes
    /\ e.scope # None => \E some \in SUBSET raised : ScopesBecome(run, e.scope, a.scopes, some)
    /\ e.record = None => a.records = run.records /\ a.outcomes = run.outcomes
    /\ e.record # None => \E some \in SUBSET raised :
                             RecordsBecome(run, e.record, a.records, a.outcomes, some)
    /\ raised # {} => Objects(run, e)

LEMMA AddEntryIs ==
    ASSUME NEW run, IsRun(run), NEW e \in Entries
    PROVE  EntryAdded(run, e, AddEntry(run, e).run, AddEntry(run, e).issues)
  <1> DEFINE s == IF e.scope = None THEN [run |-> run, issues |-> {}] ELSE AddScope(run, e.scope)
             r == IF e.record = None THEN [run |-> s.run, issues |-> {}]
                  ELSE AddRecord(s.run, e.record)
             a == AddEntry(run, e)
  <1>1. a = [run |-> r.run, issues |-> s.issues \cup r.issues]
    BY DEF AddEntry
  <1>2. /\ IsRun(s.run) /\ s.run.id = run.id /\ s.run.headers = run.headers
        /\ s.run.records = run.records /\ s.run.outcomes = run.outcomes
        /\ s.run.missing = run.missing
        /\ s.issues \in SUBSET {"ConflictingRecord", "ConflictingScope"}
        /\ e.scope = None => s.run.scopes = run.scopes
        /\ e.scope # None => ScopesBecome(run, e.scope, s.run.scopes, s.issues)
        /\ e.scope = None => s.issues = {}
    <2>1. CASE e.scope = None
      <3>1. s = [run |-> run, issues |-> {}]
        BY <2>1
      <3> HIDE DEF s
      <3>2. s.run = run /\ s.issues = {}
        BY <3>1
      <3> QED  BY <2>1, <3>2
    <2>2. CASE e.scope # None
      <3>1. s = AddScope(run, e.scope) /\ e.scope \in ScopeSet
        BY <2>2, EntryParts
      <3> HIDE DEF s
      <3> QED  BY <2>2, <3>1, AddScopeIs
    <2> QED  BY <2>1, <2>2
  <1>3. /\ IsRun(r.run) /\ r.run.id = s.run.id /\ r.run.headers = s.run.headers
        /\ r.run.scopes = s.run.scopes /\ r.run.missing = s.run.missing
        /\ r.issues \in SUBSET {"ConflictingRecord", "ConflictingScope"}
        /\ e.record = None => r.run.records = s.run.records /\ r.run.outcomes = s.run.outcomes
        /\ e.record # None =>
              RecordsBecome(s.run, e.record, r.run.records, r.run.outcomes, r.issues)
        /\ e.record = None => r.issues = {}
    <2> HIDE DEF s
    <2>1. CASE e.record = None
      <3>1. r = [run |-> s.run, issues |-> {}]
        BY <2>1
      <3> HIDE DEF r
      <3>2. r.run = s.run /\ r.issues = {}
        BY <3>1
      <3> QED  BY <1>2, <2>1, <3>2
    <2>2. CASE e.record # None
      <3>1. r = AddRecord(s.run, e.record) /\ e.record \in RecordSet
        BY <2>2, EntryParts
      <3> HIDE DEF r
      <3> QED  BY <1>2, <2>2, <3>1, AddRecordIs
    <2> QED  BY <2>1, <2>2
  <1> HIDE DEF s, r, a
  <1>4. a.run = r.run /\ a.issues = s.issues \cup r.issues
    BY <1>1
  <1>5. ASSUME e.record # None
        PROVE  \E some \in SUBSET a.issues :
                  RecordsBecome(run, e.record, a.run.records, a.run.outcomes, some)
    <2>1. RecordsBecome(s.run, e.record, a.run.records, a.run.outcomes, r.issues)
      BY <1>3, <1>4, <1>5
    <2>2. RecordsBecome(run, e.record, a.run.records, a.run.outcomes, r.issues)
      BY <1>2, <2>1 DEF RecordsBecome, RecordObjects, RecordIndex, Observe, Known
    <2> QED  BY <1>4, <2>2
  <1>6. ASSUME e.scope # None
        PROVE  \E some \in SUBSET a.issues : ScopesBecome(run, e.scope, a.run.scopes, some)
    <2>1. ScopesBecome(run, e.scope, a.run.scopes, s.issues)
      BY <1>2, <1>3, <1>4, <1>6
    <2> QED  BY <1>4, <2>1
  <1>7. ASSUME a.issues # {} PROVE Objects(run, e)
    <2>1. CASE s.issues # {}
      <3>1. e.scope # None /\ ScopesBecome(run, e.scope, s.run.scopes, s.issues)
        BY <1>2, <2>1
      <3>2. ScopeObjects(run, e.scope)
        BY <2>1, <3>1 DEF ScopesBecome, ScopeObjects
      <3> QED  BY <3>1, <3>2 DEF Objects
    <2>2. CASE r.issues # {}
      <3>1. e.record # None /\ RecordObjects(s.run, e.record)
        BY <1>3, <2>2 DEF RecordsBecome
      <3>2. RecordObjects(run, e.record)
        BY <1>2, <3>1 DEF RecordObjects, RecordIndex, Known
      <3> QED  BY <3>1, <3>2 DEF Objects
    <2> QED  BY <1>4, <1>7, <2>1, <2>2
  <1>8. EntryAdded(run, e, a.run, a.issues)
    BY <1>2, <1>3, <1>4, <1>5, <1>6, <1>7 DEF EntryAdded
  <1> QED  BY <1>8 DEF a

-----------------------------------------------------------------------------
(* The view of a run, and the lines of it that are reported.                *)

View(in, i) == [n \in {m \in 1..Len(in) : in[m].run = i} |-> in[n].entry]
Reports(in, raised, i) ==
    {n \in {m \in 1..Len(in) : in[m].run = i} : \E issue \in raised :
        issue.line = n /\ issue.kind \in {"ConflictingRecord", "ConflictingScope"}}

(* W is V and, at the later line N, the entry e.                            *)
Extends(W, V, N, e) ==
    /\ DOMAIN V \in SUBSET Nat /\ N \in Nat /\ \A n \in DOMAIN V : n < N
    /\ DOMAIN W = DOMAIN V \cup {N}
    /\ W[N] = e /\ \A n \in DOMAIN V : W[n] = V[n]

(* Q is R and, if something was raised, the line N.                         *)
Adds(Q, R, N, raised) == R \in SUBSET Q /\ Q \in SUBSET (R \cup {N}) /\ (raised # {} <=> N \in Q)

-----------------------------------------------------------------------------
(* What a run keeps of its view: every record, and no other.                *)

RecordsKept(run, V) ==
    /\ \A n \in DOMAIN V : V[n].record # None =>
          \E k \in 1..Len(run.records) : run.records[k] = V[n].record
    /\ \A k \in 1..Len(run.records) : \E n \in DOMAIN V :
          V[n].record # None /\ V[n].record = run.records[k]

LEMMA RecordsStayKept ==
    ASSUME NEW run, NEW e \in Entries, NEW a, NEW w, EntryAdded(run, e, a, w),
           NEW V, NEW N, NEW W, Extends(W, V, N, e), RecordsKept(run, V)
    PROVE  RecordsKept(a, W)
  <1> DEFINE r == e.record
  <1>1. /\ DOMAIN W = DOMAIN V \cup {N} /\ W[N] = e
        /\ \A n \in DOMAIN V : W[n] = V[n]
    BY DEF Extends
  <1>2. run.records \in Seq(RecordSet) /\ Len(run.records) \in Nat
    BY LenProperties DEF IsRun, EntryAdded
  <1>3. \/ r = None /\ a.records = run.records
        \/ r # None /\ a.records = run.records
           /\ \E k \in 1..Len(run.records) : run.records[k] = r
        \/ r # None /\ a.records = Append(run.records, r)
    <2>1. CASE r = None
      BY <2>1 DEF EntryAdded
    <2>2. CASE r # None
      <3>1. PICK raised : RecordsBecome(run, r, a.records, a.outcomes, raised)
        BY <2>2 DEF EntryAdded
      <3> HIDE DEF r
      <3>2. CASE RecordIndex(run, r.id) # {} /\ run.records[Least(RecordIndex(run, r.id))] = r
                 /\ a.records = run.records
        <4>1. RecordIndex(run, r.id) \in SUBSET Nat
          BY <1>2 DEF RecordIndex
        <4>2. Least(RecordIndex(run, r.id)) \in RecordIndex(run, r.id)
          BY <3>2, <4>1, LeastElement DEF Least
        <4> QED  BY <2>2, <3>2, <4>2 DEF RecordIndex
      <3>3. CASE a.records = Append(run.records, r)
        BY <2>2, <3>3
      <3> QED  BY <3>1, <3>2, <3>3 DEF RecordsBecome
    <2> QED  BY <2>1, <2>2
  <1>4. CASE a.records = run.records /\ (r # None => \E k \in 1..Len(run.records) : run.records[k] = r)
    BY <1>1, <1>4 DEF RecordsKept
  <1>5. CASE r # None /\ a.records = Append(run.records, r)
    <2>1. r \in RecordSet
      BY <1>5, EntryParts
    <2>2. /\ Len(a.records) = Len(run.records) + 1
          /\ \A i \in 1..Len(run.records) : a.records[i] = run.records[i]
          /\ a.records[Len(run.records) + 1] = r
      BY <1>2, <1>5, <2>1, AppendProperties
    <2> HIDE DEF r
    <2>3. \A n \in DOMAIN W : W[n].record # None =>
             \E k \in 1..Len(a.records) : a.records[k] = W[n].record
      <3> SUFFICES ASSUME NEW n \in DOMAIN W, W[n].record # None
                   PROVE  \E k \in 1..Len(a.records) : a.records[k] = W[n].record
        OBVIOUS
      <3>1. CASE n = N
        <4>1. Len(run.records) + 1 \in 1..Len(a.records) /\ W[n].record = r
          BY <1>1, <1>2, <2>2, <3>1 DEF r
        <4> QED  BY <2>2, <4>1
      <3>2. CASE n \in DOMAIN V
        <4>1. PICK k \in 1..Len(run.records) : run.records[k] = W[n].record
          BY <1>1, <3>2 DEF RecordsKept
        <4>2. k \in 1..Len(a.records) /\ a.records[k] = run.records[k]
          BY <1>2, <2>2
        <4> QED  BY <4>1, <4>2
      <3> QED  BY <1>1, <3>1, <3>2
    <2>4. \A k \in 1..Len(a.records) : \E n \in DOMAIN W :
             W[n].record # None /\ W[n].record = a.records[k]
      <3> SUFFICES ASSUME NEW k \in 1..Len(a.records)
                   PROVE  \E n \in DOMAIN W : W[n].record # None /\ W[n].record = a.records[k]
        OBVIOUS
      <3>1. CASE k = Len(run.records) + 1
        BY <1>1, <1>5, <2>2, <3>1 DEF r
      <3>2. CASE k \in 1..Len(run.records)
        <4>1. PICK n \in DOMAIN V : V[n].record # None /\ V[n].record = run.records[k]
          BY <3>2 DEF RecordsKept
        <4> QED  BY <1>1, <2>2, <3>2, <4>1
      <3>3. k = Len(run.records) + 1 \/ k \in 1..Len(run.records)
        BY <1>2, <2>2
      <3> QED  BY <3>1, <3>2, <3>3
    <2> QED  BY <2>3, <2>4 DEF RecordsKept
  <1> QED  BY <1>3, <1>4, <1>5

(* The first record with an identifier is never displaced, and any other is *)
(* reported.                                                                *)
FirstTold(run, V, R) ==
    \A n \in DOMAIN V : V[n].record # None =>
        \/ /\ RecordIndex(run, V[n].record.id) # {}
           /\ run.records[Least(RecordIndex(run, V[n].record.id))] = V[n].record
        \/ n \in R

LEMMA LeastIs ==
    ASSUME NEW S \in SUBSET Nat, NEW x \in S, \A y \in S : x <= y
    PROVE  Least(S) = x
  <1>1. Least(S) \in S /\ \A y \in S : Least(S) <= y
    BY DEF Least
  <1>2. Least(S) \in Nat /\ x \in Nat /\ Least(S) <= x /\ x <= Least(S)
    BY <1>1
  <1> QED  BY <1>2

(* An appended record is the first with its identifier, or leaves the first *)
(* one where it was.                                                        *)
Appended(a, run, r) == a.records = Append(run.records, r)

LEMMA FirstStays ==
    ASSUME NEW run, IsRun(run), NEW a, NEW r \in RecordSet, Appended(a, run, r), NEW id
    PROVE  /\ RecordIndex(run, id) # {} =>
                 /\ RecordIndex(a, id) # {}
                 /\ a.records[Least(RecordIndex(a, id))] = run.records[Least(RecordIndex(run, id))]
           /\ RecordIndex(run, r.id) = {} =>
                 RecordIndex(a, r.id) # {} /\ a.records[Least(RecordIndex(a, r.id))] = r
  <1>1. run.records \in Seq(RecordSet) /\ Len(run.records) \in Nat
    BY LenProperties DEF IsRun
  <1>2. /\ Len(a.records) = Len(run.records) + 1
        /\ \A i \in 1..Len(run.records) : a.records[i] = run.records[i]
        /\ a.records[Len(run.records) + 1] = r
    BY <1>1, AppendProperties DEF Appended
  <1>3. ASSUME RecordIndex(run, id) # {}
        PROVE  /\ RecordIndex(a, id) # {}
               /\ a.records[Least(RecordIndex(a, id))] = run.records[Least(RecordIndex(run, id))]
    <2>1. RecordIndex(run, id) \in SUBSET Nat
      BY <1>1 DEF RecordIndex
    <2>2. PICK x \in RecordIndex(run, id) : \A y \in RecordIndex(run, id) : x <= y
      BY <1>3, <2>1, LeastElement
    <2>3. x \in 1..Len(run.records) /\ run.records[x].id = id
      BY <2>2 DEF RecordIndex
    <2>4. /\ RecordIndex(a, id) \in SUBSET Nat /\ x \in RecordIndex(a, id)
          /\ a.records[x] = run.records[x]
      BY <1>1, <1>2, <2>3 DEF RecordIndex
    <2>5. ASSUME NEW y \in RecordIndex(a, id) PROVE x <= y
      <3>1. y \in 1..(Len(run.records) + 1) /\ a.records[y].id = id
        BY <1>2 DEF RecordIndex
      <3>2. CASE y = Len(run.records) + 1
        BY <1>1, <2>3, <3>2
      <3>3. CASE y \in 1..Len(run.records)
        <4>1. y \in RecordIndex(run, id)
          BY <1>2, <3>1, <3>3 DEF RecordIndex
        <4> QED  BY <2>2, <4>1
      <3> QED  BY <1>1, <3>1, <3>2, <3>3
    <2>6. Least(RecordIndex(a, id)) = x
      BY <2>4, <2>5, LeastIs
    <2>7. Least(RecordIndex(run, id)) = x
      BY <2>1, <2>2, LeastIs
    <2> QED  BY <2>4, <2>6, <2>7
  <1>4. ASSUME RecordIndex(run, r.id) = {}
        PROVE  RecordIndex(a, r.id) # {} /\ a.records[Least(RecordIndex(a, r.id))] = r
    <2>1. RecordIndex(a, r.id) = {Len(run.records) + 1}
      BY <1>1, <1>2, <1>4 DEF RecordIndex
    <2>2. Least(RecordIndex(a, r.id)) = Len(run.records) + 1
      BY <1>1, <2>1, LeastIs
    <2> QED  BY <1>2, <2>1, <2>2
  <1> QED  BY <1>3, <1>4

LEMMA FirstStaysTold ==
    ASSUME NEW run, NEW e \in Entries, NEW a, NEW w, EntryAdded(run, e, a, w),
           NEW V, NEW N, NEW W, Extends(W, V, N, e),
           NEW R, NEW Q, Adds(Q, R, N, w), FirstTold(run, V, R)
    PROVE  FirstTold(a, W, Q)
  <1> DEFINE r == e.record
  <1>1. /\ DOMAIN W = DOMAIN V \cup {N} /\ W[N] = e
        /\ \A n \in DOMAIN V : W[n] = V[n]
    BY DEF Extends
  <1>2. R \in SUBSET Q /\ (w # {} => N \in Q)
    BY DEF Adds
  <1>3. CASE r = None
    <2>1. a.records = run.records
      BY <1>3 DEF EntryAdded
    <2> QED  BY <1>1, <1>2, <1>3, <2>1 DEF FirstTold, RecordIndex
  <1>4. CASE r # None
    <2>1. PICK raised \in SUBSET w : RecordsBecome(run, r, a.records, a.outcomes, raised)
      BY <1>4 DEF EntryAdded
    <2>2. r \in RecordSet
      BY <1>4, EntryParts
    <2> HIDE DEF r
    <2>5. IsRun(run)
      BY DEF EntryAdded
    <2>3. CASE /\ RecordIndex(run, r.id) # {} /\ run.records[Least(RecordIndex(run, r.id))] = r
               /\ a.records = run.records
      BY <1>1, <1>2, <2>3 DEF FirstTold, RecordIndex, r
    <2>4. CASE /\ a.records = Append(run.records, r)
               /\ RecordIndex(run, r.id) # {} => raised # {}
      <3>0. Appended(a, run, r)
        BY <2>4 DEF Appended
      <3>1. \A id : RecordIndex(run, id) # {} =>
               /\ RecordIndex(a, id) # {}
               /\ a.records[Least(RecordIndex(a, id))] = run.records[Least(RecordIndex(run, id))]
        BY <2>2, <2>5, <3>0, FirstStays
      <3>2. RecordIndex(run, r.id) = {} =>
               RecordIndex(a, r.id) # {} /\ a.records[Least(RecordIndex(a, r.id))] = r
        BY <2>2, <2>5, <3>0, FirstStays
      <3>3. RecordIndex(run, r.id) # {} => N \in Q
        BY <1>2, <2>1, <2>4
      <3> SUFFICES ASSUME NEW n \in DOMAIN W, W[n].record # None, n \notin Q
                   PROVE  /\ RecordIndex(a, W[n].record.id) # {}
                          /\ a.records[Least(RecordIndex(a, W[n].record.id))] = W[n].record
        BY DEF FirstTold
      <3>4. CASE n = N
        BY <1>1, <3>2, <3>3, <3>4 DEF r
      <3>5. CASE n \in DOMAIN V
        <4>1. W[n] = V[n] /\ n \notin R
          BY <1>1, <1>2, <3>5
        <4>2. /\ RecordIndex(run, W[n].record.id) # {}
              /\ run.records[Least(RecordIndex(run, W[n].record.id))] = W[n].record
          BY <3>5, <4>1 DEF FirstTold
        <4> QED  BY <3>1, <4>2
      <3> QED  BY <1>1, <3>4, <3>5
    <2> QED  BY <2>1, <2>3, <2>4 DEF RecordsBecome
  <1> QED  BY <1>3, <1>4

(* The first outcome of a scope is never displaced, and any other is        *)
(* reported.                                                                *)
OutcomesTold(run, V, R) ==
    \A n \in DOMAIN V : V[n].record # None /\ V[n].record.exit # None =>
        /\ Known(run, V[n].record.scope)
        /\ \/ run.outcomes[V[n].record.scope] = V[n].record.exit
           \/ \E m \in R : m \in DOMAIN V /\ V[m].record = V[n].record

LEMMA ObserveIs ==
    ASSUME NEW run, NEW r, NEW id, Known(run, id)
    PROVE  id \in DOMAIN Observe(run, r) /\ Observe(run, r)[id] = run.outcomes[id]
  BY DEF Observe, Known

LEMMA ObserveOwn ==
    ASSUME NEW run, NEW r, r.exit # None
    PROVE  /\ r.scope \in DOMAIN Observe(run, r)
           /\ ~Known(run, r.scope) => Observe(run, r)[r.scope] = r.exit
  BY DEF Observe, Known

LEMMA OutcomesStayTold ==
    ASSUME NEW run, NEW e \in Entries, NEW a, NEW w, EntryAdded(run, e, a, w),
           NEW V, NEW N, NEW W, Extends(W, V, N, e), RecordsKept(run, V),
           NEW R, NEW Q, Adds(Q, R, N, w), OutcomesTold(run, V, R)
    PROVE  OutcomesTold(a, W, Q)
  <1> DEFINE r == e.record
  <1>1. /\ DOMAIN W = DOMAIN V \cup {N} /\ W[N] = e
        /\ \A n \in DOMAIN V : W[n] = V[n]
    BY DEF Extends
  <1>2. R \in SUBSET Q /\ (w # {} => N \in Q)
    BY DEF Adds
  <1> SUFFICES ASSUME NEW n \in DOMAIN W, W[n].record # None, W[n].record.exit # None
               PROVE  /\ Known(a, W[n].record.scope)
                      /\ \/ a.outcomes[W[n].record.scope] = W[n].record.exit
                         \/ \E m \in Q : m \in DOMAIN W /\ W[m].record = W[n].record
    BY DEF OutcomesTold
  <1>3. CASE n \in DOMAIN V
    <2> DEFINE id == V[n].record.scope
    <2>1. /\ Known(run, id)
          /\ \/ run.outcomes[id] = V[n].record.exit
             \/ \E m \in R : m \in DOMAIN V /\ V[m].record = V[n].record
      BY <1>1, <1>3 DEF OutcomesTold
    <2>2. Known(a, id) /\ a.outcomes[id] = run.outcomes[id]
      <3>1. CASE a.outcomes = run.outcomes
        BY <2>1, <3>1 DEF Known
      <3>2. CASE r # None /\ a.outcomes = Observe(run, r)
        BY <2>1, <3>2, ObserveIs DEF Known
      <3>3. r # None => a.outcomes = run.outcomes \/ a.outcomes = Observe(run, r)
        BY DEF EntryAdded, RecordsBecome
      <3> QED  BY <3>1, <3>2, <3>3 DEF EntryAdded
    <2> HIDE DEF id
    <2>3. CASE run.outcomes[id] = V[n].record.exit
      BY <1>1, <1>3, <2>2, <2>3 DEF id
    <2>4. CASE \E m \in R : m \in DOMAIN V /\ V[m].record = V[n].record
      BY <1>1, <1>2, <1>3, <2>2, <2>4 DEF id
    <2> QED  BY <2>1, <2>3, <2>4
  <1>4. CASE n = N
    <2>1. W[n].record = r /\ r # None /\ r.exit # None
      BY <1>1, <1>4
    <2>2. PICK some \in SUBSET w : RecordsBecome(run, r, a.records, a.outcomes, some)
      BY <2>1 DEF EntryAdded
    <2> HIDE DEF r
    <2>3. CASE /\ a.outcomes = run.outcomes /\ RecordIndex(run, r.id) # {}
               /\ run.records[Least(RecordIndex(run, r.id))] = r
      <3>1. run.records \in Seq(RecordSet) /\ Len(run.records) \in Nat
        BY LenProperties DEF IsRun, EntryAdded
      <3>2. RecordIndex(run, r.id) \in SUBSET Nat
        BY <3>1 DEF RecordIndex
      <3>3. Least(RecordIndex(run, r.id)) \in RecordIndex(run, r.id)
        BY <2>3, <3>2, LeastElement DEF Least
      <3>4. PICK m \in DOMAIN V : V[m].record = r
        BY <2>3, <3>3 DEF RecordsKept, RecordIndex
      <3>5. /\ Known(run, r.scope)
            /\ \/ run.outcomes[r.scope] = r.exit
               \/ \E l \in R : l \in DOMAIN V /\ V[l].record = r
        BY <2>1, <3>4 DEF OutcomesTold
      <3>6. Known(a, r.scope) /\ a.outcomes[r.scope] = run.outcomes[r.scope]
        BY <2>3, <3>5 DEF Known
      <3>7. (\E l \in R : l \in DOMAIN V /\ V[l].record = r) =>
               \E l \in Q : l \in DOMAIN W /\ W[l].record = r
        BY <1>1, <1>2
      <3> QED  BY <2>1, <3>5, <3>6, <3>7
    <2>4. CASE /\ a.outcomes = Observe(run, r)
               /\ Known(run, r.scope) /\ run.outcomes[r.scope] # r.exit => some # {}
      <3>1. Known(a, r.scope)
        BY <2>1, <2>4, ObserveOwn DEF Known
      <3>2. CASE Known(run, r.scope)
        <4>1. a.outcomes[r.scope] = run.outcomes[r.scope]
          BY <2>4, <3>2, ObserveIs
        <4>2. a.outcomes[r.scope] # r.exit => N \in Q
          BY <1>2, <2>2, <2>4, <3>2, <4>1
        <4> QED  BY <1>1, <1>4, <2>1, <3>1, <4>2
      <3>3. CASE ~Known(run, r.scope)
        BY <2>1, <2>4, <3>1, <3>3, ObserveOwn
      <3> QED  BY <3>2, <3>3
    <2> QED  BY <2>1, <2>2, <2>3, <2>4 DEF RecordsBecome
  <1> QED  BY <1>1, <1>3, <1>4

(* A scope stands once, keeps the identity it was first read with and its   *)
(* first exit time; metadata that says otherwise is reported.               *)
Agrees(scope, new) ==
    /\ scope.parent = new.parent /\ scope.about = new.about
    /\ new.exited # None => scope.exited = new.exited

ScopesOnce(run) ==
    \A j, k \in 1..Len(run.scopes) : run.scopes[j].id = run.scopes[k].id => j = k

ScopesTold(run, V, R) ==
    \A n \in DOMAIN V : V[n].scope # None =>
        \E k \in ScopeIndex(run, V[n].scope.id) : n \notin R => Agrees(run.scopes[k], V[n].scope)

(* What becomes of the scopes that were there before, and of the new one.   *)
ScopeTaken(run, new, scopes, raised) ==
    \/ /\ ScopeIndex(run, new.id) = {} /\ raised = {}
       /\ Len(scopes) = Len(run.scopes) + 1 /\ scopes[Len(run.scopes) + 1] = new
       /\ \A k \in 1..Len(run.scopes) : scopes[k] = run.scopes[k]
    \/ /\ Len(scopes) = Len(run.scopes)
       /\ \E k \in ScopeIndex(run, new.id) :
             \/ raised # {} /\ scopes = run.scopes /\ Contradicts(run.scopes[k], new)
             \/ /\ ~Contradicts(run.scopes[k], new)
                /\ scopes[k] = Merge(run.scopes[k], new)

LEMMA ScopesBecomeIs ==
    ASSUME NEW run, IsRun(run), NEW new \in ScopeSet, NEW scopes, NEW raised,
           ScopesBecome(run, new, scopes, raised)
    PROVE  /\ Len(run.scopes) \in Nat /\ Len(scopes) \in Nat
           /\ \A k \in 1..Len(run.scopes) :
                 /\ run.scopes[k] \in ScopeSet
                 /\ k \in 1..Len(scopes) /\ scopes[k].id = run.scopes[k].id
                 /\ \/ scopes[k] = run.scopes[k]
                    \/ /\ run.scopes[k].id = new.id /\ ~Contradicts(run.scopes[k], new)
                       /\ scopes[k] = Merge(run.scopes[k], new)
           /\ ScopeTaken(run, new, scopes, raised)
  <1>1. run.scopes \in Seq(ScopeSet) /\ Len(run.scopes) \in Nat
    BY LenProperties DEF IsRun
  <1>2. \A k \in 1..Len(run.scopes) : run.scopes[k] \in ScopeSet
    BY <1>1, ElementOfSeq
  <1>3. CASE ScopeIndex(run, new.id) = {} /\ scopes = Append(run.scopes, new) /\ raised = {}
    <2>1. /\ Len(scopes) = Len(run.scopes) + 1 /\ scopes[Len(run.scopes) + 1] = new
          /\ \A k \in 1..Len(run.scopes) : scopes[k] = run.scopes[k]
      BY <1>1, <1>3, AppendProperties
    <2> QED  BY <1>1, <1>2, <1>3, <2>1 DEF ScopeTaken
  <1>4. CASE \E k \in ScopeIndex(run, new.id) :
                Contradicts(run.scopes[k], new) /\ scopes = run.scopes /\ raised # {}
    BY <1>1, <1>2, <1>4 DEF ScopeTaken
  <1>5. CASE \E k \in ScopeIndex(run, new.id) :
                /\ ~Contradicts(run.scopes[k], new)
                /\ scopes = [run.scopes EXCEPT ![k] = Merge(run.scopes[k], new)]
    <2>1. PICK k \in ScopeIndex(run, new.id) :
                /\ ~Contradicts(run.scopes[k], new)
                /\ scopes = [run.scopes EXCEPT ![k] = Merge(run.scopes[k], new)]
      BY <1>5
    <2>2. k \in 1..Len(run.scopes) /\ run.scopes[k].id = new.id
      BY DEF ScopeIndex
    <2>3. /\ Merge(run.scopes[k], new) \in ScopeSet
          /\ Merge(run.scopes[k], new).id = run.scopes[k].id
      BY <1>2, <2>2, MergeIs
    <2>4. /\ Len(scopes) = Len(run.scopes)
          /\ \A j \in 1..Len(run.scopes) :
                scopes[j] = IF j = k THEN Merge(run.scopes[k], new) ELSE run.scopes[j]
      BY <1>1, <2>1, <2>2, <2>3, ExceptSeq
    <2> QED  BY <1>1, <1>2, <2>1, <2>2, <2>3, <2>4 DEF ScopeTaken
  <1> QED  BY <1>3, <1>4, <1>5 DEF ScopesBecome

LEMMA MergeAgrees ==
    ASSUME NEW old \in ScopeSet, NEW new \in ScopeSet, ~Contradicts(old, new)
    PROVE  /\ Agrees(Merge(old, new), new)
           /\ \A s : Agrees(old, s) => Agrees(Merge(old, new), s)
  <1>1. /\ Merge(old, new).parent = old.parent /\ Merge(old, new).about = old.about
        /\ Merge(old, new).exited = Or(old.exited, new.exited)
    BY MergeIs
  <1>2. old.parent = new.parent /\ old.about = new.about
        /\ (old.exited = None \/ new.exited = None \/ old.exited = new.exited)
    BY DEF Contradicts
  <1> QED  BY <1>1, <1>2 DEF Agrees, Or

LEMMA ScopesStayOnce ==
    ASSUME NEW run, NEW e \in Entries, NEW a, NEW w, EntryAdded(run, e, a, w), ScopesOnce(run)
    PROVE  ScopesOnce(a)
  <1>1. CASE e.scope = None
    BY <1>1 DEF EntryAdded, ScopesOnce
  <1>2. CASE e.scope # None
    <2> DEFINE new == e.scope
    <2>1. PICK some \in SUBSET w : ScopesBecome(run, new, a.scopes, some)
      BY <1>2 DEF EntryAdded
    <2>2. new \in ScopeSet /\ IsRun(run)
      BY <1>2, EntryParts DEF EntryAdded
    <2> HIDE DEF new
    <2>3. Len(run.scopes) \in Nat /\ \A k \in 1..Len(run.scopes) : a.scopes[k].id = run.scopes[k].id
      BY <2>1, <2>2, ScopesBecomeIs DEF ScopeTaken
    <2>4. \/ /\ ScopeIndex(run, new.id) = {}
             /\ Len(a.scopes) = Len(run.scopes) + 1 /\ a.scopes[Len(run.scopes) + 1] = new
          \/ Len(a.scopes) = Len(run.scopes)
      BY <2>1, <2>2, ScopesBecomeIs DEF ScopeTaken
    <2>5. CASE Len(a.scopes) = Len(run.scopes)
      BY <2>3, <2>5 DEF ScopesOnce
    <2>6. CASE /\ ScopeIndex(run, new.id) = {}
               /\ Len(a.scopes) = Len(run.scopes) + 1 /\ a.scopes[Len(run.scopes) + 1] = new
      <3>1. \A k \in 1..Len(run.scopes) : a.scopes[k].id # new.id
        BY <2>3, <2>6 DEF ScopeIndex
      <3>2. \A k \in 1..Len(a.scopes) : k \in 1..Len(run.scopes) \/ k = Len(run.scopes) + 1
        BY <2>3, <2>6
      <3> QED  BY <2>3, <2>6, <3>1, <3>2 DEF ScopesOnce
    <2> QED  BY <2>4, <2>5, <2>6
  <1> QED  BY <1>1, <1>2

LEMMA ScopesStayTold ==
    ASSUME NEW run, NEW e \in Entries, NEW a, NEW w, EntryAdded(run, e, a, w),
           NEW V, NEW N, NEW W, Extends(W, V, N, e),
           NEW R, NEW Q, Adds(Q, R, N, w), ScopesTold(run, V, R)
    PROVE  ScopesTold(a, W, Q)
  <1>1. /\ DOMAIN W = DOMAIN V \cup {N} /\ W[N] = e
        /\ \A n \in DOMAIN V : W[n] = V[n]
    BY DEF Extends
  <1>2. R \in SUBSET Q /\ (w # {} => N \in Q)
    BY DEF Adds
  <1> SUFFICES ASSUME NEW n \in DOMAIN W, W[n].scope # None
               PROVE  \E k \in ScopeIndex(a, W[n].scope.id) :
                         n \notin Q => Agrees(a.scopes[k], W[n].scope)
    BY DEF ScopesTold
  <1>3. CASE n \in DOMAIN V
    <2>1. PICK k \in ScopeIndex(run, W[n].scope.id) : n \notin R => Agrees(run.scopes[k], W[n].scope)
      BY <1>1, <1>3 DEF ScopesTold
    <2>2. k \in 1..Len(run.scopes) /\ run.scopes[k].id = W[n].scope.id
      BY DEF ScopeIndex
    <2>3. k \in 1..Len(a.scopes) /\ a.scopes[k].id = run.scopes[k].id
          /\ \A s : Agrees(run.scopes[k], s) => Agrees(a.scopes[k], s)
      <3>1. CASE e.scope = None
        BY <2>2, <3>1 DEF EntryAdded
      <3>2. CASE e.scope # None
        <4> DEFINE new == e.scope
        <4>1. PICK some \in SUBSET w : ScopesBecome(run, new, a.scopes, some)
          BY <3>2 DEF EntryAdded
        <4>2. new \in ScopeSet /\ IsRun(run)
          BY <3>2, EntryParts DEF EntryAdded
        <4> HIDE DEF new
        <4>3. /\ run.scopes[k] \in ScopeSet
              /\ k \in 1..Len(a.scopes) /\ a.scopes[k].id = run.scopes[k].id
              /\ \/ a.scopes[k] = run.scopes[k]
                 \/ /\ ~Contradicts(run.scopes[k], new)
                    /\ a.scopes[k] = Merge(run.scopes[k], new)
          BY <2>2, <4>1, <4>2, ScopesBecomeIs DEF ScopeTaken
        <4> QED  BY <4>2, <4>3, MergeAgrees
      <3> QED  BY <3>1, <3>2
    <2>4. k \in ScopeIndex(a, W[n].scope.id)
      BY <2>2, <2>3 DEF ScopeIndex
    <2> QED  BY <1>2, <2>1, <2>3, <2>4
  <1>4. CASE n = N
    <2> DEFINE new == e.scope
    <2>1. PICK some \in SUBSET w : ScopesBecome(run, new, a.scopes, some)
      BY <1>1, <1>4 DEF EntryAdded
    <2>2. new \in ScopeSet /\ IsRun(run) /\ W[n].scope = new
      BY <1>1, <1>4, EntryParts DEF EntryAdded
    <2> HIDE DEF new
    <2>3. /\ Len(run.scopes) \in Nat
          /\ \A k \in 1..Len(run.scopes) :
                /\ run.scopes[k] \in ScopeSet
                /\ k \in 1..Len(a.scopes) /\ a.scopes[k].id = run.scopes[k].id
          /\ \/ /\ Len(a.scopes) = Len(run.scopes) + 1 /\ a.scopes[Len(run.scopes) + 1] = new
             \/ \E k \in ScopeIndex(run, new.id) :
                   \/ some # {}
                   \/ /\ ~Contradicts(run.scopes[k], new)
                      /\ a.scopes[k] = Merge(run.scopes[k], new)
      BY <2>1, <2>2, ScopesBecomeIs DEF ScopeTaken
    <2>4. CASE Len(a.scopes) = Len(run.scopes) + 1 /\ a.scopes[Len(run.scopes) + 1] = new
      <3>1. Len(run.scopes) + 1 \in ScopeIndex(a, new.id)
        BY <2>3, <2>4 DEF ScopeIndex
      <3>2. Agrees(new, new)
        BY DEF Agrees
      <3> QED  BY <2>2, <2>4, <3>1, <3>2
    <2>5. CASE \E k \in ScopeIndex(run, new.id) :
                   \/ some # {}
                   \/ /\ ~Contradicts(run.scopes[k], new)
                      /\ a.scopes[k] = Merge(run.scopes[k], new)
      <3>1. PICK k \in ScopeIndex(run, new.id) :
                   \/ some # {}
                   \/ /\ ~Contradicts(run.scopes[k], new)
                      /\ a.scopes[k] = Merge(run.scopes[k], new)
        BY <2>5
      <3>2. k \in 1..Len(run.scopes) /\ run.scopes[k].id = new.id
        BY DEF ScopeIndex
      <3>3. k \in ScopeIndex(a, new.id)
        BY <2>3, <3>2 DEF ScopeIndex
      <3>4. CASE some # {}
        BY <1>2, <1>4, <2>1, <2>2, <3>3, <3>4
      <3>5. CASE /\ ~Contradicts(run.scopes[k], new)
                 /\ a.scopes[k] = Merge(run.scopes[k], new)
        <4>1. Agrees(a.scopes[k], new)
          BY <2>2, <2>3, <3>2, <3>5, MergeAgrees
        <4> QED  BY <2>2, <3>3, <4>1
      <3> QED  BY <3>1, <3>4, <3>5
    <2> QED  BY <2>3, <2>4, <2>5
  <1> QED  BY <1>1, <1>3, <1>4

(* What a run's lines say of a scope: its metadata, and of that the one     *)
(* with an exit time and the identity first read.                           *)
Meta(V, id)   == {n \in DOMAIN V : V[n].scope # None /\ V[n].scope.id = id}
Closing(V, s) == {n \in Meta(V, s.id) : /\ V[n].scope.exited # None
                                        /\ V[n].scope.parent = s.parent
                                        /\ V[n].scope.about = s.about}
Final(V, s)   == {n \in Closing(V, s) : V[n].scope.exited = s.exited /\ V[n].scope.message # None}

Said(s, V) ==
    /\ \E n \in Meta(V, s.id) : /\ \A m \in Meta(V, s.id) : n <= m
                                /\ V[n].scope.parent = s.parent /\ V[n].scope.about = s.about
    /\ Closing(V, s) = {} => s.exited = None
    /\ Closing(V, s) # {} => \E n \in Closing(V, s) : /\ \A m \in Closing(V, s) : n <= m
                                                     /\ V[n].scope.exited = s.exited
    /\ \A n \in Final(V, s) : (\A m \in Final(V, s) : m <= n) => s.message = V[n].scope.message

ScopesSaid(run, V) == \A k \in 1..Len(run.scopes) : Said(run.scopes[k], V)

(* Metadata of another scope changes nothing.                               *)
LEMMA SaidByOthers ==
    ASSUME NEW e, NEW V, NEW N, NEW W, Extends(W, V, N, e), NEW s, Said(s, V),
           e.scope = None \/ e.scope.id # s.id
    PROVE  Said(s, W)
  <1>1. /\ DOMAIN W = DOMAIN V \cup {N} /\ W[N] = e
        /\ \A n \in DOMAIN V : W[n] = V[n]
    BY DEF Extends
  <1>2. Meta(W, s.id) = Meta(V, s.id) /\ \A n \in Meta(V, s.id) : W[n] = V[n]
    BY <1>1 DEF Meta
  <1>3. Closing(W, s) = Closing(V, s) /\ Closing(V, s) \in SUBSET Meta(V, s.id)
    BY <1>2 DEF Closing
  <1>4. Final(W, s) = Final(V, s) /\ Final(V, s) \in SUBSET Meta(V, s.id)
    BY <1>2, <1>3 DEF Final
  <1> QED  BY <1>2, <1>3, <1>4 DEF Said

(* The first metadata of a scope is all that is said of it.                 *)
LEMMA SaidFirst ==
    ASSUME NEW e, NEW V, NEW N, NEW W, Extends(W, V, N, e), e.scope \in ScopeSet,
           e.scope # None, Meta(V, e.scope.id) = {}
    PROVE  Said(e.scope, W)
  <1> DEFINE s == e.scope
  <1>1. /\ DOMAIN W = DOMAIN V \cup {N} /\ W[N] = e /\ N \in Nat
        /\ \A n \in DOMAIN V : W[n] = V[n]
    BY DEF Extends
  <1>2. Meta(W, s.id) = {N} /\ W[N].scope = s
    BY <1>1 DEF Meta
  <1> HIDE DEF s
  <1>3. Closing(W, s) \in SUBSET {N} /\ (Closing(W, s) = {} => s.exited = None)
    BY <1>2 DEF Closing
  <1>4. Final(W, s) \in SUBSET {N}
    BY <1>3 DEF Final
  <1>5. Said(s, W)
    BY <1>1, <1>2, <1>3, <1>4 DEF Said
  <1> QED  BY <1>5 DEF s

(* Metadata that contradicts a scope leaves it and what is said of it.      *)
LEMMA SaidAgainst ==
    ASSUME NEW e, NEW V, NEW N, NEW W, Extends(W, V, N, e), NEW s, Said(s, V),
           e.scope # None, e.scope.id = s.id, Contradicts(s, e.scope)
    PROVE  Said(s, W)
  <1> DEFINE new == e.scope
  <1>1. /\ DOMAIN V \in SUBSET Nat /\ N \in Nat /\ \A n \in DOMAIN V : n < N
        /\ DOMAIN W = DOMAIN V \cup {N} /\ W[N] = e
        /\ \A n \in DOMAIN V : W[n] = V[n]
    BY DEF Extends
  <1>2. /\ Meta(W, s.id) = Meta(V, s.id) \cup {N} /\ Meta(V, s.id) \in SUBSET DOMAIN V
        /\ \A n \in Meta(V, s.id) : W[n] = V[n] /\ n < N /\ n \in Nat
        /\ W[N].scope = new
    BY <1>1 DEF Meta
  <1> HIDE DEF new
  <1>3. \/ Closing(W, s) = Closing(V, s)
        \/ /\ Closing(W, s) = Closing(V, s) \cup {N}
           /\ s.exited # None /\ new.exited # s.exited
    BY <1>2 DEF Closing, Contradicts, new
  <1>4. Closing(V, s) \in SUBSET Meta(V, s.id)
    BY DEF Closing
  <1>5. Final(W, s) = Final(V, s) /\ Final(V, s) \in SUBSET Meta(V, s.id)
    BY <1>2, <1>3, <1>4 DEF Final
  <1>6. \E n \in Meta(W, s.id) : /\ \A m \in Meta(W, s.id) : n <= m
                                 /\ W[n].scope.parent = s.parent /\ W[n].scope.about = s.about
    <2>1. PICK n \in Meta(V, s.id) : /\ \A m \in Meta(V, s.id) : n <= m
                                     /\ V[n].scope.parent = s.parent /\ V[n].scope.about = s.about
      BY DEF Said
    <2>2. n \in Meta(W, s.id) /\ n <= N /\ W[n] = V[n]
      BY <1>1, <1>2
    <2> QED  BY <1>2, <2>1, <2>2
  <1>7. Closing(W, s) = {} => s.exited = None
    BY <1>3 DEF Said
  <1>8. ASSUME Closing(W, s) # {}
        PROVE  \E n \in Closing(W, s) : /\ \A m \in Closing(W, s) : n <= m
                                        /\ W[n].scope.exited = s.exited
    <2>1. Closing(V, s) # {}
      BY <1>3, <1>8 DEF Said
    <2>2. PICK n \in Closing(V, s) : /\ \A m \in Closing(V, s) : n <= m
                                     /\ V[n].scope.exited = s.exited
      BY <2>1 DEF Said
    <2>3. n \in Closing(W, s) /\ n <= N /\ W[n] = V[n]
      BY <1>1, <1>2, <1>3, <1>4
    <2> QED  BY <1>3, <2>2, <2>3
  <1>9. \A n \in Final(W, s) : (\A m \in Final(W, s) : m <= n) => s.message = W[n].scope.message
    BY <1>2, <1>5 DEF Said
  <1> QED  BY <1>6, <1>7, <1>8, <1>9 DEF Said

(* Metadata that does not is merged: it may close the scope, and a message  *)
(* of it counts while the scope is open or if it closes the scope itself.   *)
LEMMA SaidMerged ==
    ASSUME NEW e, NEW V, NEW N, NEW W, Extends(W, V, N, e), NEW s \in ScopeSet, Said(s, V),
           e.scope # None, e.scope \in ScopeSet, e.scope.id = s.id, ~Contradicts(s, e.scope)
    PROVE  Said(Merge(s, e.scope), W)
  <1> DEFINE new == e.scope
             t   == Merge(s, new)
  <1>1. /\ DOMAIN V \in SUBSET Nat /\ N \in Nat /\ \A n \in DOMAIN V : n < N
        /\ DOMAIN W = DOMAIN V \cup {N} /\ W[N] = e
        /\ \A n \in DOMAIN V : W[n] = V[n]
    BY DEF Extends
  <1>2. /\ Meta(W, s.id) = Meta(V, s.id) \cup {N} /\ Meta(V, s.id) \in SUBSET DOMAIN V
        /\ \A n \in Meta(V, s.id) : W[n] = V[n] /\ n < N /\ n \in Nat
        /\ W[N].scope = new
    BY <1>1 DEF Meta
  <1>3. /\ t.id = s.id /\ t.parent = s.parent /\ t.about = s.about
        /\ t.exited = Or(s.exited, new.exited)
        /\ t.message = IF (s.exited = None \/ new.exited # None) /\ new.message # None
                       THEN new.message ELSE s.message
    BY MergeIs
  <1>4. /\ new.parent = s.parent /\ new.about = s.about
        /\ s.exited = None \/ new.exited = None \/ s.exited = new.exited
    BY DEF Contradicts
  <1> HIDE DEF new, t
  <1>5. Closing(W, t) = Closing(V, s) \cup (IF new.exited # None THEN {N} ELSE {})
    BY <1>2, <1>3, <1>4 DEF Closing
  <1>6. Closing(V, s) \in SUBSET Meta(V, s.id)
    BY DEF Closing
  <1>7. \E n \in Meta(W, t.id) : /\ \A m \in Meta(W, t.id) : n <= m
                                 /\ W[n].scope.parent = t.parent /\ W[n].scope.about = t.about
    <2>1. PICK n \in Meta(V, s.id) : /\ \A m \in Meta(V, s.id) : n <= m
                                     /\ V[n].scope.parent = s.parent /\ V[n].scope.about = s.about
      BY DEF Said
    <2>2. n \in Meta(W, s.id) /\ n <= N /\ W[n] = V[n]
      BY <1>1, <1>2
    <2> QED  BY <1>2, <1>3, <2>1, <2>2
  <1>8. Closing(W, t) = {} => t.exited = None
    BY <1>3, <1>5 DEF Said, Or
  <1>9. ASSUME Closing(W, t) # {}
        PROVE  \E n \in Closing(W, t) : /\ \A m \in Closing(W, t) : n <= m
                                        /\ W[n].scope.exited = t.exited
    <2>1. CASE Closing(V, s) # {}
      <3>1. PICK n \in Closing(V, s) : /\ \A m \in Closing(V, s) : n <= m
                                       /\ V[n].scope.exited = s.exited
        BY <2>1 DEF Said
      <3>2. n \in Closing(W, t) /\ n <= N /\ W[n] = V[n]
        BY <1>1, <1>2, <1>5, <1>6
      <3>3. V[n].scope.exited # None
        BY DEF Closing
      <3>4. t.exited = s.exited
        BY <1>3, <3>1, <3>3 DEF Or
      <3> QED  BY <1>5, <3>1, <3>2, <3>4
    <2>2. CASE Closing(V, s) = {}
      <3>1. s.exited = None
        BY <2>2 DEF Said
      <3>2. Closing(W, t) = {N} /\ t.exited = new.exited
        BY <1>3, <1>5, <1>9, <2>2, <3>1 DEF Or
      <3> QED  BY <1>1, <1>2, <3>2
    <2> QED  BY <2>1, <2>2
  <1>10. \A n \in Final(W, t) : (\A m \in Final(W, t) : m <= n) => t.message = W[n].scope.message
    <2>1. CASE new.exited # None /\ new.message # None
      <3>1. t.message = new.message /\ t.exited = new.exited
        BY <1>3, <1>4, <2>1 DEF Or
      <3>2. N \in Final(W, t)
        BY <1>2, <1>5, <2>1, <3>1 DEF Final
      <3>3. \A n \in Final(W, t) : n = N \/ (n < N /\ n \in Nat)
        BY <1>2, <1>5, <1>6 DEF Final
      <3>4. ASSUME NEW n \in Final(W, t), \A m \in Final(W, t) : m <= n PROVE n = N
        BY <1>1, <3>2, <3>3, <3>4
      <3> QED  BY <1>2, <3>1, <3>4
    <2>2. CASE ~ (new.exited # None /\ new.message # None)
      <3>1. CASE s.exited = None
        <4>1. Closing(V, s) = {}
          <5>1. Closing(V, s) # {} => \E n \in Closing(V, s) : V[n].scope.exited = s.exited
            BY DEF Said
          <5>2. \A n \in Closing(V, s) : V[n].scope.exited # None
            BY DEF Closing
          <5> QED  BY <3>1, <5>1, <5>2
        <4>2. Final(W, t) = {}
          BY <1>2, <1>5, <2>2, <4>1 DEF Final
        <4> QED  BY <4>2
      <3>2. CASE s.exited # None
        <4>1. t.exited = s.exited /\ t.message = s.message
          BY <1>3, <2>2, <3>2 DEF Or
        <4>2. Final(W, t) = Final(V, s)
          BY <1>2, <1>5, <1>6, <2>2, <4>1 DEF Final
        <4>3. Final(V, s) \in SUBSET Meta(V, s.id)
          BY <1>6 DEF Final
        <4> QED  BY <1>2, <4>1, <4>2, <4>3 DEF Said
      <3> QED  BY <3>1, <3>2
    <2> QED  BY <2>1, <2>2
  <1>11. Said(t, W)
    BY <1>7, <1>8, <1>9, <1>10 DEF Said
  <1> QED  BY <1>11 DEF t, new

LEMMA ScopesStaySaid ==
    ASSUME NEW run, NEW e \in Entries, NEW a, NEW w, EntryAdded(run, e, a, w),
           NEW V, NEW N, NEW W, Extends(W, V, N, e), NEW R, ScopesTold(run, V, R),
           ScopesOnce(run), ScopesSaid(run, V)
    PROVE  ScopesSaid(a, W)
  <1>1. CASE e.scope = None
    BY <1>1, SaidByOthers DEF EntryAdded, ScopesSaid
  <1>2. CASE e.scope # None
    <2>1. PICK some \in SUBSET w : ScopesBecome(run, e.scope, a.scopes, some)
      BY <1>2 DEF EntryAdded
    <2>2. e.scope \in ScopeSet /\ IsRun(run)
      BY <1>2, EntryParts DEF EntryAdded
    <2>3. /\ Len(run.scopes) \in Nat /\ Len(a.scopes) \in Nat
          /\ \A k \in 1..Len(run.scopes) :
                /\ run.scopes[k] \in ScopeSet
                /\ \/ a.scopes[k] = run.scopes[k]
                   \/ /\ run.scopes[k].id = e.scope.id /\ ~Contradicts(run.scopes[k], e.scope)
                      /\ a.scopes[k] = Merge(run.scopes[k], e.scope)
      BY <2>1, <2>2, ScopesBecomeIs DEF ScopeTaken
    <2>4. \/ /\ ScopeIndex(run, e.scope.id) = {}
             /\ Len(a.scopes) = Len(run.scopes) + 1 /\ a.scopes[Len(run.scopes) + 1] = e.scope
             /\ \A k \in 1..Len(run.scopes) : a.scopes[k] = run.scopes[k]
          \/ /\ Len(a.scopes) = Len(run.scopes)
             /\ \E k \in ScopeIndex(run, e.scope.id) :
                   \/ a.scopes = run.scopes /\ Contradicts(run.scopes[k], e.scope)
                   \/ /\ ~Contradicts(run.scopes[k], e.scope)
                      /\ a.scopes[k] = Merge(run.scopes[k], e.scope)
      <3>1. ScopeTaken(run, e.scope, a.scopes, some)
        BY <2>1, <2>2, ScopesBecomeIs
      <3> QED  BY <3>1 DEF ScopeTaken
    <2>5. CASE /\ ScopeIndex(run, e.scope.id) = {}
               /\ Len(a.scopes) = Len(run.scopes) + 1 /\ a.scopes[Len(run.scopes) + 1] = e.scope
               /\ \A k \in 1..Len(run.scopes) : a.scopes[k] = run.scopes[k]
      <3>1. \A k \in 1..Len(run.scopes) : run.scopes[k].id # e.scope.id
        BY <2>5 DEF ScopeIndex
      <3>2. \A k \in 1..Len(run.scopes) : Said(a.scopes[k], W)
        BY <2>5, <3>1, SaidByOthers DEF ScopesSaid
      <3>3. Meta(V, e.scope.id) = {}
        BY <2>5 DEF Meta, ScopesTold
      <3>4. Said(e.scope, W)
        BY <1>2, <2>2, <3>3, SaidFirst
      <3>5. \A k \in 1..Len(a.scopes) : k \in 1..Len(run.scopes) \/ k = Len(run.scopes) + 1
        BY <2>3, <2>5
      <3> QED  BY <2>5, <3>2, <3>4, <3>5 DEF ScopesSaid
    <2>6. CASE /\ Len(a.scopes) = Len(run.scopes)
               /\ \E k \in ScopeIndex(run, e.scope.id) :
                   \/ a.scopes = run.scopes /\ Contradicts(run.scopes[k], e.scope)
                   \/ /\ ~Contradicts(run.scopes[k], e.scope)
                      /\ a.scopes[k] = Merge(run.scopes[k], e.scope)
      <3>1. PICK k \in ScopeIndex(run, e.scope.id) :
                   \/ a.scopes = run.scopes /\ Contradicts(run.scopes[k], e.scope)
                   \/ /\ ~Contradicts(run.scopes[k], e.scope)
                      /\ a.scopes[k] = Merge(run.scopes[k], e.scope)
        BY <2>6
      <3>2. k \in 1..Len(run.scopes) /\ run.scopes[k].id = e.scope.id
        BY DEF ScopeIndex
      <3> SUFFICES ASSUME NEW j \in 1..Len(run.scopes) PROVE Said(a.scopes[j], W)
        BY <2>6 DEF ScopesSaid
      <3>3. Said(run.scopes[j], V) /\ run.scopes[j] \in ScopeSet
        BY <2>3 DEF ScopesSaid
      <3>4. CASE j = k
        <4>1. CASE a.scopes = run.scopes /\ Contradicts(run.scopes[k], e.scope)
          BY <1>2, <3>2, <3>3, <3>4, <4>1, SaidAgainst
        <4>2. CASE /\ ~Contradicts(run.scopes[k], e.scope)
                   /\ a.scopes[k] = Merge(run.scopes[k], e.scope)
          BY <1>2, <2>2, <3>2, <3>3, <3>4, <4>2, SaidMerged
        <4> QED  BY <3>1, <4>1, <4>2
      <3>5. CASE j # k
        <4>1. run.scopes[j].id # e.scope.id
          BY <3>2, <3>5 DEF ScopesOnce
        <4>2. a.scopes[j] = run.scopes[j]
          BY <2>3, <4>1
        <4> QED  BY <3>3, <4>1, <4>2, SaidByOthers
      <3> QED  BY <3>4, <3>5
    <2> QED  BY <2>4, <2>5, <2>6
  <1> QED  BY <1>1, <1>2

-----------------------------------------------------------------------------
(* A run has nothing to object that its lines do not say: an outcome it     *)
(* knows is that of an exit it was told, and a line is reported only if an  *)
(* earlier one disagrees with it.                                           *)

OutcomesHeard(run, V) ==
    \A id \in DOMAIN run.outcomes : \E n \in DOMAIN V :
        /\ V[n].record # None /\ V[n].record.exit # None /\ V[n].record.scope = id
        /\ V[n].record.exit = run.outcomes[id]

Disagree(e, f) ==
    \/ /\ e.record # None /\ f.record # None
       /\ \/ e.record.id = f.record.id /\ e.record # f.record
          \/ /\ e.record.exit # None /\ f.record.exit # None
             /\ e.record.scope = f.record.scope /\ e.record.exit # f.record.exit
    \/ /\ e.scope # None /\ f.scope # None
       /\ e.scope.id = f.scope.id /\ Contradicts(e.scope, f.scope)

ReportsDue(V, R) == \A n \in R : \E m \in DOMAIN V : n \in DOMAIN V /\ m < n /\ Disagree(V[n], V[m])

LEMMA OutcomesStayHeard ==
    ASSUME NEW run, NEW e \in Entries, NEW a, NEW w, EntryAdded(run, e, a, w),
           NEW V, NEW N, NEW W, Extends(W, V, N, e), OutcomesHeard(run, V)
    PROVE  OutcomesHeard(a, W)
  <1>1. /\ DOMAIN W = DOMAIN V \cup {N} /\ W[N] = e
        /\ \A n \in DOMAIN V : W[n] = V[n]
    BY DEF Extends
  <1> SUFFICES ASSUME NEW id \in DOMAIN a.outcomes
               PROVE  \E n \in DOMAIN W : /\ W[n].record # None /\ W[n].record.exit # None
                                          /\ W[n].record.scope = id
                                          /\ W[n].record.exit = a.outcomes[id]
    BY DEF OutcomesHeard
  <1>2. CASE id \in DOMAIN run.outcomes /\ a.outcomes[id] = run.outcomes[id]
    BY <1>1, <1>2 DEF OutcomesHeard
  <1>3. CASE ~ (id \in DOMAIN run.outcomes /\ a.outcomes[id] = run.outcomes[id])
    <2> DEFINE r == e.record
    <2>1. r # None /\ a.outcomes = Observe(run, r)
      BY <1>3 DEF EntryAdded, RecordsBecome
    <2> HIDE DEF r
    <2>2. r.exit # None /\ ~Known(run, r.scope)
      BY <1>3, <2>1 DEF Observe
    <2> DEFINE D == DOMAIN run.outcomes \cup {r.scope}
               o == [x \in D |-> IF x = r.scope THEN r.exit ELSE run.outcomes[x]]
    <2>3. a.outcomes = o
      BY <2>1, <2>2 DEF Observe
    <2>4. id = r.scope /\ a.outcomes[id] = r.exit
      BY <1>3, <2>3
    <2> QED  BY <1>1, <2>1, <2>2, <2>4 DEF r
  <1> QED  BY <1>2, <1>3

(* What a run holds against an entry, one of its lines says.                *)
LEMMA ObjectionsAreSaid ==
    ASSUME NEW run, NEW e \in Entries, Objects(run, e),
           NEW V, DOMAIN V \in SUBSET Nat, RecordsKept(run, V), OutcomesHeard(run, V), ScopesSaid(run, V)
    PROVE  \E m \in DOMAIN V : Disagree(e, V[m])
  <1>1. ASSUME e.scope # None, ScopeObjects(run, e.scope)
        PROVE  \E m \in DOMAIN V : Disagree(e, V[m])
    <2> DEFINE new == e.scope
    <2>1. PICK k \in ScopeIndex(run, new.id) : Contradicts(run.scopes[k], new)
      BY <1>1 DEF ScopeObjects
    <2> DEFINE s == run.scopes[k]
    <2>2. k \in 1..Len(run.scopes) /\ s.id = new.id
      BY <2>1 DEF ScopeIndex
    <2>3. Said(s, V)
      BY <2>2 DEF ScopesSaid
    <2> HIDE DEF new, s
    <2>4. Contradicts(s, new)
      BY <2>1 DEF s
    <2>5. CASE s.parent # new.parent \/ s.about # new.about
      <3>1. PICK n \in Meta(V, s.id) : V[n].scope.parent = s.parent /\ V[n].scope.about = s.about
        BY <2>3 DEF Said
      <3>2. n \in DOMAIN V /\ V[n].scope # None /\ V[n].scope.id = new.id
        BY <2>2, <3>1 DEF Meta
      <3>3. Contradicts(new, V[n].scope)
        BY <2>5, <3>1 DEF Contradicts
      <3> QED  BY <1>1, <3>2, <3>3 DEF Disagree, new
    <2>6. CASE s.exited # None /\ new.exited # None /\ s.exited # new.exited
      <3>1. PICK n \in Closing(V, s) : V[n].scope.exited = s.exited
        BY <2>3, <2>6 DEF Said
      <3>2. n \in Meta(V, s.id)
        BY DEF Closing
      <3>3. n \in DOMAIN V /\ V[n].scope # None /\ V[n].scope.id = new.id
        BY <2>2, <3>2 DEF Meta
      <3>4. Contradicts(new, V[n].scope)
        BY <2>6, <3>1 DEF Contradicts
      <3> QED  BY <1>1, <3>3, <3>4 DEF Disagree, new
    <2> QED  BY <2>4, <2>5, <2>6 DEF Contradicts
  <1>2. ASSUME e.record # None, RecordObjects(run, e.record)
        PROVE  \E m \in DOMAIN V : Disagree(e, V[m])
    <2> DEFINE r == e.record
               at == RecordIndex(run, r.id)
    <2>1. CASE at # {} /\ run.records[Least(at)] # r
      <3>1. at \in SUBSET Nat
        BY DEF RecordIndex
      <3>2. Least(at) \in at
        BY <2>1, <3>1, LeastElement DEF Least
      <3> DEFINE k == Least(at)
      <3>3. k \in 1..Len(run.records) /\ run.records[k].id = r.id
        BY <3>2 DEF RecordIndex
      <3>4. PICK n \in DOMAIN V : V[n].record # None /\ V[n].record = run.records[k]
        BY <3>3 DEF RecordsKept
      <3>5. V[n].record.id = r.id /\ V[n].record # r
        BY <2>1, <3>3, <3>4
      <3> QED  BY <1>2, <3>4, <3>5 DEF Disagree
    <2>2. CASE r.exit # None /\ Known(run, r.scope) /\ run.outcomes[r.scope] # r.exit
      <3>1. PICK n \in DOMAIN V :
                /\ V[n].record # None /\ V[n].record.exit # None /\ V[n].record.scope = r.scope
                /\ V[n].record.exit = run.outcomes[r.scope]
        BY <2>2 DEF OutcomesHeard, Known
      <3> QED  BY <1>2, <2>2, <3>1 DEF Disagree
    <2> QED  BY <1>2, <2>1, <2>2 DEF RecordObjects
  <1> QED  BY <1>1, <1>2 DEF Objects

-----------------------------------------------------------------------------
(* What is true of a run and its view, and stays so when a line is added.   *)

RunSays(run, V, R) ==
    /\ IsRun(run) /\ RecordsKept(run, V) /\ FirstTold(run, V, R) /\ OutcomesTold(run, V, R)
    /\ ScopesOnce(run) /\ ScopesTold(run, V, R) /\ ScopesSaid(run, V)
    /\ OutcomesHeard(run, V) /\ ReportsDue(V, R)

LEMMA EntrySays ==
    ASSUME NEW run, NEW e \in Entries, NEW a, NEW w, EntryAdded(run, e, a, w),
           NEW V, NEW N, NEW W, Extends(W, V, N, e),
           NEW R, NEW Q, Adds(Q, R, N, w), RunSays(run, V, R)
    PROVE  RunSays(a, W, Q)
  <1>1. /\ RecordsKept(run, V) /\ FirstTold(run, V, R) /\ OutcomesTold(run, V, R)
        /\ ScopesOnce(run) /\ ScopesTold(run, V, R) /\ ScopesSaid(run, V)
    BY DEF RunSays
  <1>2. RecordsKept(a, W)
    BY <1>1, RecordsStayKept
  <1>3. FirstTold(a, W, Q)
    BY <1>1, FirstStaysTold
  <1>4. OutcomesTold(a, W, Q)
    BY <1>1, OutcomesStayTold
  <1>5. ScopesOnce(a)
    BY <1>1, ScopesStayOnce
  <1>6. ScopesTold(a, W, Q)
    BY <1>1, ScopesStayTold
  <1>7. ScopesSaid(a, W)
    BY <1>1, ScopesStaySaid
  <1>8. IsRun(a)
    BY DEF EntryAdded
  <1>9. OutcomesHeard(run, V) /\ ReportsDue(V, R)
    BY DEF RunSays
  <1>10. OutcomesHeard(a, W)
    BY <1>9, OutcomesStayHeard
  <1>11. ReportsDue(W, Q)
    <2>1. /\ DOMAIN W = DOMAIN V \cup {N} /\ W[N] = e /\ DOMAIN V \in SUBSET Nat
          /\ \A n \in DOMAIN V : n < N /\ W[n] = V[n]
      BY DEF Extends
    <2> SUFFICES ASSUME NEW n \in Q
                 PROVE  \E m \in DOMAIN W : n \in DOMAIN W /\ m < n /\ Disagree(W[n], W[m])
      BY DEF ReportsDue
    <2>2. CASE n \in R
      BY <1>9, <2>1, <2>2 DEF ReportsDue
    <2>3. CASE n \notin R
      <3>1. n = N /\ Objects(run, e)
        BY <2>3 DEF Adds, EntryAdded
      <3>2. PICK m \in DOMAIN V : Disagree(e, V[m])
        BY <1>1, <1>9, <2>1, <3>1, ObjectionsAreSaid
      <3> QED  BY <2>1, <3>1, <3>2
    <2> QED  BY <2>2, <2>3
  <1> QED  BY <1>2, <1>3, <1>4, <1>5, <1>6, <1>7, <1>8, <1>10, <1>11 DEF RunSays

LEMMA NewRunSays ==
    ASSUME NEW id
    PROVE  /\ IsRun(NewRun(id)) /\ NewRun(id).id = id /\ NewRun(id).headers = 0
           /\ NewRun(id).records = <<>>
           /\ \A V, R : DOMAIN V = {} /\ R \in SUBSET DOMAIN V => RunSays(NewRun(id), V, R)
  <1>1. <<>> \in Seq(RecordSet) /\ <<>> \in Seq(ScopeSet)
    OBVIOUS
  <1>2. /\ IsRun(NewRun(id)) /\ NewRun(id).id = id /\ NewRun(id).headers = 0
        /\ NewRun(id).records = <<>> /\ NewRun(id).scopes = <<>> /\ NewRun(id).outcomes = <<>>
    BY <1>1 DEF IsRun, NewRun
  <1>3. Len(<<>>) = 0
    OBVIOUS
  <1> SUFFICES ASSUME NEW V, NEW R, DOMAIN V = {}, R \in SUBSET DOMAIN V
               PROVE  RunSays(NewRun(id), V, R)
    BY <1>2
  <1> HIDE DEF NewRun
  <1>4. RecordsKept(NewRun(id), V) /\ FirstTold(NewRun(id), V, R) /\ OutcomesTold(NewRun(id), V, R)
    BY <1>2, <1>3 DEF RecordsKept, FirstTold, OutcomesTold
  <1>5. ScopesOnce(NewRun(id)) /\ ScopesTold(NewRun(id), V, R) /\ ScopesSaid(NewRun(id), V)
    BY <1>2, <1>3 DEF ScopesOnce, ScopesTold, ScopesSaid
  <1>6. OutcomesHeard(NewRun(id), V) /\ ReportsDue(V, R)
    <2>1. DOMAIN <<>> = {}
      OBVIOUS
    <2> QED  BY <1>2, <2>1 DEF OutcomesHeard, ReportsDue
  <1> QED  BY <1>2, <1>4, <1>5, <1>6 DEF RunSays

(* The headers of a run are apart from the rest of it.                      *)
WithHeaders(run, h) == [run EXCEPT !.headers = h]

LEMMA WithHeadersIs ==
    ASSUME NEW run, IsRun(run), NEW h \in Nat
    PROVE  /\ IsRun(WithHeaders(run, h)) /\ WithHeaders(run, h).headers = h
           /\ WithHeaders(run, h).id = run.id /\ WithHeaders(run, h).records = run.records
           /\ WithHeaders(run, h).scopes = run.scopes
           /\ WithHeaders(run, h).outcomes = run.outcomes
           /\ WithHeaders(run, h).missing = run.missing
           /\ \A g \in Nat : WithHeaders(WithHeaders(run, h), g) = WithHeaders(run, g)
  BY DEF WithHeaders, IsRun

LEMMA SameParts ==
    ASSUME NEW a, NEW b, IsRun(a), IsRun(b), a.id = b.id, a.headers = b.headers,
           a.records = b.records, a.scopes = b.scopes, a.outcomes = b.outcomes,
           a.missing = b.missing
    PROVE  a = b
  BY DEF IsRun

LEMMA HeadersSay ==
    ASSUME NEW run, NEW h \in Nat, NEW V, NEW R, RunSays(run, V, R)
    PROVE  RunSays(WithHeaders(run, h), V, R)
  <1>1. /\ IsRun(run) /\ RecordsKept(run, V) /\ FirstTold(run, V, R) /\ OutcomesTold(run, V, R)
        /\ ScopesOnce(run) /\ ScopesTold(run, V, R) /\ ScopesSaid(run, V)
    BY DEF RunSays
  <1> DEFINE a == WithHeaders(run, h)
  <1>2. /\ IsRun(a) /\ a.records = run.records
        /\ a.scopes = run.scopes /\ a.outcomes = run.outcomes
    BY <1>1, WithHeadersIs
  <1> HIDE DEF a
  <1>3. RecordsKept(a, V)
    BY <1>1, <1>2 DEF RecordsKept
  <1>7. FirstTold(a, V, R)
    <2>1. \A id : RecordIndex(a, id) = RecordIndex(run, id)
      BY <1>2 DEF RecordIndex
    <2> QED  BY <1>1, <1>2, <2>1 DEF FirstTold
  <1>4. OutcomesTold(a, V, R)
    BY <1>1, <1>2 DEF OutcomesTold, Known
  <1>5. ScopesOnce(a) /\ ScopesTold(a, V, R) /\ ScopesSaid(a, V)
    BY <1>1, <1>2 DEF ScopesOnce, ScopesTold, ScopesSaid, ScopeIndex
  <1>8. OutcomesHeard(a, V) /\ ReportsDue(V, R)
    BY <1>2 DEF RunSays, OutcomesHeard
  <1>6. RunSays(a, V, R)
    BY <1>2, <1>3, <1>4, <1>5, <1>7, <1>8 DEF RunSays
  <1> QED  BY <1>6 DEF a

LEMMA ScopeHeadersApart ==
    ASSUME NEW run, IsRun(run), NEW h \in Nat, NEW new \in ScopeSet
    PROVE  /\ AddScope(WithHeaders(run, h), new).run = WithHeaders(AddScope(run, new).run, h)
           /\ AddScope(WithHeaders(run, h), new).issues = AddScope(run, new).issues
  <1> DEFINE b == WithHeaders(run, h)
             at == ScopeIndex(run, new.id)
             k  == The(at)
             a == AddScope(run, new)
             c == AddScope(b, new)
  <1>1. /\ IsRun(b) /\ b.headers = h /\ b.id = run.id /\ b.records = run.records
        /\ b.scopes = run.scopes /\ b.outcomes = run.outcomes /\ b.missing = run.missing
    BY WithHeadersIs
  <1>2. ScopeIndex(b, new.id) = at
    BY <1>1 DEF ScopeIndex
  <1>3. IsRun(a.run) /\ IsRun(c.run)
    BY <1>1, AddScopeIs
  <1>4. /\ a.run.id = run.id /\ a.run.records = run.records /\ a.run.outcomes = run.outcomes
        /\ a.run.missing = run.missing
        /\ c.run.id = run.id /\ c.run.headers = h /\ c.run.records = run.records
        /\ c.run.outcomes = run.outcomes /\ c.run.missing = run.missing
    BY <1>1, AddScopeIs
  <1>5. c.run.scopes = a.run.scopes /\ c.issues = a.issues
    <2> HIDE DEF b
    <2>1. CASE at = {}
      <3> DEFINE x == Append(run.scopes, new)
      <3>1. /\ a = [run |-> [run EXCEPT !.scopes = x], issues |-> {}]
            /\ c = [run |-> [b EXCEPT !.scopes = x], issues |-> {}]
        BY <1>1, <1>2, <2>1 DEF AddScope
      <3> HIDE DEF a, c, x
      <3>2. a.run.scopes = x /\ c.run.scopes = x /\ a.issues = {} /\ c.issues = {}
        BY <1>1, <3>1 DEF IsRun
      <3> QED  BY <3>2
    <2>2. CASE at # {} /\ Contradicts(run.scopes[k], new)
      <3>1. /\ a = [run |-> run, issues |-> {"ConflictingScope"}]
            /\ c = [run |-> b, issues |-> {"ConflictingScope"}]
        BY <1>1, <1>2, <2>2 DEF AddScope
      <3> HIDE DEF a, c
      <3> QED  BY <1>1, <3>1
    <2>3. CASE at # {} /\ ~Contradicts(run.scopes[k], new)
      <3> DEFINE m == Merge(run.scopes[k], new)
                 x == [run.scopes EXCEPT ![k] = m]
      <3>1. /\ a = [run |-> [run EXCEPT !.scopes[k] = m], issues |-> {}]
            /\ c = [run |-> [b EXCEPT !.scopes[k] = m], issues |-> {}]
        BY <1>1, <1>2, <2>3 DEF AddScope
      <3> HIDE DEF a, c, k, m
      <3>2. /\ a = [run |-> [run EXCEPT !.scopes = x], issues |-> {}]
            /\ c = [run |-> [b EXCEPT !.scopes = x], issues |-> {}]
        BY <1>1, <3>1
      <3> HIDE DEF x
      <3>3. a.run.scopes = x /\ c.run.scopes = x /\ a.issues = {} /\ c.issues = {}
        BY <1>1, <3>2 DEF IsRun
      <3> QED  BY <3>3
    <2> QED  BY <2>1, <2>2, <2>3
  <1>6. c.run = WithHeaders(a.run, h)
    <2> DEFINE d == WithHeaders(a.run, h)
               f == c.run
               g == a.run
    <2>1. IsRun(g) /\ IsRun(f)
      BY <1>3
    <2> HIDE DEF f, g
    <2>2. /\ IsRun(WithHeaders(g, h)) /\ WithHeaders(g, h).headers = h
          /\ WithHeaders(g, h).id = g.id /\ WithHeaders(g, h).records = g.records
          /\ WithHeaders(g, h).scopes = g.scopes /\ WithHeaders(g, h).outcomes = g.outcomes
          /\ WithHeaders(g, h).missing = g.missing
      BY <2>1, WithHeadersIs
    <2>3. /\ f.id = g.id /\ f.headers = h /\ f.records = g.records /\ f.scopes = g.scopes
          /\ f.outcomes = g.outcomes /\ f.missing = g.missing
      BY <1>4, <1>5 DEF f, g
    <2>4. f = WithHeaders(g, h)
      BY <2>1, <2>2, <2>3, SameParts
    <2> QED  BY <2>4 DEF f, g
  <1> QED  BY <1>5, <1>6 DEF a, b, c

LEMMA RecordHeadersApart ==
    ASSUME NEW run, IsRun(run), NEW h \in Nat, NEW r \in RecordSet
    PROVE  /\ AddRecord(WithHeaders(run, h), r).run = WithHeaders(AddRecord(run, r).run, h)
           /\ AddRecord(WithHeaders(run, h), r).issues = AddRecord(run, r).issues
  <1> DEFINE b == WithHeaders(run, h)
             at == RecordIndex(run, r.id)
             a == AddRecord(run, r)
             c == AddRecord(b, r)
  <1>1. /\ IsRun(b) /\ b.headers = h /\ b.id = run.id /\ b.records = run.records
        /\ b.scopes = run.scopes /\ b.outcomes = run.outcomes /\ b.missing = run.missing
    BY WithHeadersIs
  <1>2. /\ RecordIndex(b, r.id) = at /\ Known(b, r.scope) = Known(run, r.scope)
        /\ Observe(b, r) = Observe(run, r)
    BY <1>1 DEF RecordIndex, Observe, Known
  <1>3. IsRun(a.run) /\ IsRun(c.run)
    BY <1>1, AddRecordIs
  <1>4. /\ a.run.id = run.id /\ a.run.scopes = run.scopes /\ a.run.missing = run.missing
        /\ c.run.id = run.id /\ c.run.headers = h /\ c.run.scopes = run.scopes
        /\ c.run.missing = run.missing
    BY <1>1, AddRecordIs
  <1>5. /\ c.run.records = a.run.records /\ c.run.outcomes = a.run.outcomes
        /\ c.issues = a.issues
    <2> HIDE DEF b
    <2>1. CASE at # {} /\ run.records[Least(at)] = r
      <3>1. a = [run |-> run, issues |-> {}] /\ c = [run |-> b, issues |-> {}]
        BY <1>1, <1>2, <2>1 DEF AddRecord
      <3> HIDE DEF a, c
      <3> QED  BY <1>1, <3>1
    <2>2. CASE ~ (at # {} /\ run.records[Least(at)] = r)
      <3> DEFINE x == Append(run.records, r)
                 o == Observe(run, r)
                 w == IF at # {} THEN {"ConflictingRecord"}
                      ELSE IF r.exit # None /\ Known(run, r.scope) /\ run.outcomes[r.scope] # r.exit
                      THEN {"ConflictingScope"} ELSE {}
      <3>1. a = [run |-> [run EXCEPT !.records = x, !.outcomes = o], issues |-> w]
        BY <2>2 DEF AddRecord
      <3>2. c = [run |-> [b EXCEPT !.records = x, !.outcomes = o], issues |-> w]
        BY <1>1, <1>2, <2>2 DEF AddRecord
      <3> HIDE DEF a, c, x, o, w
      <3>3. /\ a.run = [[run EXCEPT !.records = x] EXCEPT !.outcomes = o] /\ a.issues = w
            /\ c.run = [[b EXCEPT !.records = x] EXCEPT !.outcomes = o] /\ c.issues = w
        BY <3>1, <3>2
      <3>4. a.run.records = x /\ a.run.outcomes = o /\ c.run.records = x /\ c.run.outcomes = o
        BY <1>1, <3>3 DEF IsRun
      <3> QED  BY <3>3, <3>4
    <2> QED  BY <2>1, <2>2
  <1>6. c.run = WithHeaders(a.run, h)
    <2> DEFINE f == c.run
               g == a.run
    <2>1. IsRun(g) /\ IsRun(f)
      BY <1>3
    <2>2. /\ f.id = g.id /\ f.headers = h /\ f.records = g.records /\ f.scopes = g.scopes
          /\ f.outcomes = g.outcomes /\ f.missing = g.missing
      BY <1>4, <1>5
    <2> HIDE DEF f, g
    <2>3. /\ IsRun(WithHeaders(g, h)) /\ WithHeaders(g, h).headers = h
          /\ WithHeaders(g, h).id = g.id /\ WithHeaders(g, h).records = g.records
          /\ WithHeaders(g, h).scopes = g.scopes /\ WithHeaders(g, h).outcomes = g.outcomes
          /\ WithHeaders(g, h).missing = g.missing
      BY <2>1, WithHeadersIs
    <2>4. f = WithHeaders(g, h)
      BY <2>1, <2>2, <2>3, SameParts
    <2> QED  BY <2>4 DEF f, g
  <1> QED  BY <1>5, <1>6 DEF a, b, c

LEMMA HeadersApart ==
    ASSUME NEW run, IsRun(run), NEW h \in Nat, NEW e \in Entries
    PROVE  /\ AddEntry(WithHeaders(run, h), e).run = WithHeaders(AddEntry(run, e).run, h)
           /\ AddEntry(WithHeaders(run, h), e).issues = AddEntry(run, e).issues
  <1> DEFINE b == WithHeaders(run, h)
             s(x) == IF e.scope = None THEN [run |-> x, issues |-> {}] ELSE AddScope(x, e.scope)
             r(y) == IF e.record = None THEN [run |-> y, issues |-> {}] ELSE AddRecord(y, e.record)
  <1>1. s(b).run = WithHeaders(s(run).run, h) /\ s(b).issues = s(run).issues /\ IsRun(s(run).run)
    <2>1. CASE e.scope = None
      BY <2>1
    <2>2. CASE e.scope # None
      <3>1. e.scope \in ScopeSet
        BY <2>2, EntryParts
      <3>2. /\ AddScope(b, e.scope).run = WithHeaders(AddScope(run, e.scope).run, h)
            /\ AddScope(b, e.scope).issues = AddScope(run, e.scope).issues
        BY <3>1, ScopeHeadersApart
      <3>3. IsRun(AddScope(run, e.scope).run)
        BY <3>1, AddScopeIs
      <3> QED  BY <2>2, <3>2, <3>3
    <2> QED  BY <2>1, <2>2
  <1> DEFINE y == s(run).run
  <1>2. IsRun(y)
    BY <1>1
  <1>3. r(WithHeaders(y, h)).run = WithHeaders(r(y).run, h)
        /\ r(WithHeaders(y, h)).issues = r(y).issues
    <2> HIDE DEF y
    <2>1. CASE e.record = None
      BY <2>1
    <2>2. CASE e.record # None
      <3>1. e.record \in RecordSet
        BY <2>2, EntryParts
      <3>2. /\ AddRecord(WithHeaders(y, h), e.record).run = WithHeaders(AddRecord(y, e.record).run, h)
            /\ AddRecord(WithHeaders(y, h), e.record).issues = AddRecord(y, e.record).issues
        BY <1>2, <3>1, RecordHeadersApart
      <3> QED  BY <2>2, <3>2
    <2> QED  BY <2>1, <2>2
  <1>4. \A x : AddEntry(x, e) = [run |-> r(s(x).run).run,
                                 issues |-> s(x).issues \cup r(s(x).run).issues]
    BY DEF AddEntry
  <1>5. s(b).run = WithHeaders(y, h)
    BY <1>1
  <1> HIDE DEF s, r
  <1>6. AddEntry(b, e).run = r(s(b).run).run
        /\ AddEntry(b, e).issues = s(b).issues \cup r(s(b).run).issues
    BY <1>4
  <1>7. AddEntry(run, e).run = r(y).run
        /\ AddEntry(run, e).issues = s(run).issues \cup r(y).issues
    BY <1>4
  <1> HIDE DEF y, b
  <1>8. AddEntry(b, e).run = WithHeaders(r(y).run, h)
        /\ AddEntry(b, e).issues = s(run).issues \cup r(y).issues
    BY <1>1, <1>3, <1>5, <1>6
  <1> QED  BY <1>7, <1>8 DEF b

-----------------------------------------------------------------------------
(* Loops as functions of the turns made, and the value after the last one.  *)

(* A run that reads every line of the input that is its own.                *)
AloneTurns(id, in, n, turn) ==
    turn = [k \in 0..n |-> IF k = 0 THEN NewRun(id) ELSE Take(id, turn[k - 1], in[k])]

LEMMA AloneTurnsExist ==
    ASSUME NEW id, NEW in, NEW n \in Nat
    PROVE  \E turn : AloneTurns(id, in, n, turn)
  <1> DEFINE T == {k \in Nat : \E turn : AloneTurns(id, in, k, turn)}
  <1>1. 0 \in T
    <2> DEFINE f == [k \in 0..0 |-> NewRun(id)]
    <2>1. AloneTurns(id, in, 0, f)
      BY DEF AloneTurns
    <2> QED  BY <2>1
  <1>2. ASSUME NEW k \in T PROVE k + 1 \in T
    <2>1. PICK turn : AloneTurns(id, in, k, turn)
      OBVIOUS
    <2> DEFINE f == [j \in 0..(k + 1) |-> IF j <= k THEN turn[j] ELSE Take(id, turn[k], in[k + 1])]
    <2>2. k \in Nat /\ turn[0] = NewRun(id) /\ \A j \in 1..k : turn[j] = Take(id, turn[j - 1], in[j])
      BY <2>1 DEF AloneTurns
    <2>3. ASSUME NEW j \in 0..(k + 1)
          PROVE  f[j] = IF j = 0 THEN NewRun(id) ELSE Take(id, f[j - 1], in[j])
      <3>1. CASE j = 0
        BY <2>2, <3>1
      <3>2. CASE j \in 1..k
        <4>1. f[j] = turn[j] /\ f[j - 1] = turn[j - 1]
          BY <2>2, <3>2
        <4> QED  BY <2>2, <3>2, <4>1
      <3>3. CASE j = k + 1
        <4>1. j \in 0..(k + 1) /\ ~ (j <= k) /\ j - 1 = k /\ k \in 0..(k + 1) /\ k <= k /\ j # 0
          BY <2>2, <3>3
        <4>2. f[j] = Take(id, turn[k], in[k + 1]) /\ f[j - 1] = turn[k]
          BY <4>1
        <4> QED  BY <3>3, <4>1, <4>2
      <3> QED  BY <2>2, <3>1, <3>2, <3>3
    <2>4. f = [j \in 0..(k + 1) |-> f[j]]
      OBVIOUS
    <2> HIDE DEF f
    <2>5. AloneTurns(id, in, k + 1, f)
      BY <2>3, <2>4 DEF AloneTurns
    <2> QED  BY <2>2, <2>5
  <1>3. n \in T
    <2> HIDE DEF T
    <2>1. T \in SUBSET Nat
      BY DEF T
    <2> QED  BY <1>1, <1>2, <2>1, SetInduction
  <1> QED  BY <1>3

LEMMA AloneIs ==
    ASSUME NEW id, NEW in, Len(in) \in Nat
    PROVE  \E turn : AloneTurns(id, in, Len(in), turn) /\ Alone(id, in) = turn[Len(in)]
  <1>1. PICK g : AloneTurns(id, in, Len(in), g)
    BY AloneTurnsExist
  <1> DEFINE turn == CHOOSE f : f = [k \in 0..Len(in) |->
                        IF k = 0 THEN NewRun(id) ELSE Take(id, f[k - 1], in[k])]
  <1>2. turn = [k \in 0..Len(in) |-> IF k = 0 THEN NewRun(id) ELSE Take(id, turn[k - 1], in[k])]
    BY <1>1 DEF AloneTurns
  <1>3. Alone(id, in) = turn[Len(in)]
    BY DEF Alone
  <1> QED  BY <1>2, <1>3 DEF AloneTurns

LEMMA AloneStep ==
    ASSUME NEW id, NEW S, NEW in \in Seq(S), NEW x \in S
    PROVE  Alone(id, Append(in, x)) = Take(id, Alone(id, in), x)
  <1> DEFINE y == Append(in, x)
  <1>1. Len(in) \in Nat /\ Len(y) = Len(in) + 1 /\ y[Len(in) + 1] = x
        /\ \A k \in 1..Len(in) : y[k] = in[k]
    BY LenProperties, AppendProperties
  <1> HIDE DEF y
  <1>2. PICK s : AloneTurns(id, in, Len(in), s) /\ Alone(id, in) = s[Len(in)]
    BY <1>1, AloneIs
  <1>3. PICK t : AloneTurns(id, y, Len(y), t) /\ Alone(id, y) = t[Len(y)]
    BY <1>1, AloneIs
  <1>4. s[0] = NewRun(id) /\ \A k \in 1..Len(in) : s[k] = Take(id, s[k - 1], in[k])
    BY <1>1, <1>2 DEF AloneTurns
  <1>5. t[0] = NewRun(id) /\ \A k \in 1..(Len(in) + 1) : t[k] = Take(id, t[k - 1], y[k])
    BY <1>1, <1>3 DEF AloneTurns
  <1> DEFINE T == {k \in Nat : k <= Len(in) => s[k] = t[k]}
  <1>6. 0 \in T
    BY <1>4, <1>5
  <1>7. ASSUME NEW k \in T PROVE k + 1 \in T
    <2>1. CASE k + 1 <= Len(in)
      <3>1. k \in Nat /\ k + 1 \in 1..Len(in) /\ k + 1 \in 1..(Len(in) + 1) /\ k <= Len(in)
            /\ (k + 1) - 1 = k
        BY <1>1, <2>1
      <3>2. s[k + 1] = Take(id, s[k], in[k + 1]) /\ t[k + 1] = Take(id, t[k], in[k + 1])
        BY <1>1, <1>4, <1>5, <3>1
      <3> QED  BY <3>1, <3>2
    <2> QED  BY <2>1
  <1>8. Len(in) \in T
    <2>1. T \in SUBSET Nat
      OBVIOUS
    <2> HIDE DEF T
    <2> QED  BY <1>1, <1>6, <1>7, <2>1, SetInduction
  <1>9. t[Len(in) + 1] = Take(id, t[Len(in)], x)
    <2>1. Len(in) + 1 \in 1..(Len(in) + 1) /\ (Len(in) + 1) - 1 = Len(in)
      BY <1>1
    <2> QED  BY <1>1, <1>5, <2>1
  <1>10. s[Len(in)] = t[Len(in)]
    BY <1>1, <1>8
  <1> QED  BY <1>1, <1>2, <1>3, <1>9, <1>10 DEF y

LEMMA AloneEmpty ==
    ASSUME NEW id
    PROVE  Alone(id, <<>>) = NewRun(id)
  <1>1. Len(<<>>) = 0 /\ 0 \in Nat
    OBVIOUS
  <1> DEFINE in == <<>>
  <1>2. Len(in) = 0
    BY <1>1
  <1> HIDE DEF in
  <1>3. PICK s : AloneTurns(id, in, Len(in), s) /\ Alone(id, in) = s[Len(in)]
    BY <1>1, <1>2, AloneIs
  <1>4. Alone(id, in) = NewRun(id)
    BY <1>2, <1>3 DEF AloneTurns
  <1> QED  BY <1>4 DEF in

(* The sum of the headers of the runs.                                      *)
HeaderTurns(rs, n, turn) ==
    turn = [k \in 0..n |-> IF k = 0 THEN 0 ELSE turn[k - 1] + rs[k].headers]

LEMMA HeaderTurnsExist ==
    ASSUME NEW rs, NEW n \in Nat
    PROVE  \E turn : HeaderTurns(rs, n, turn)
  <1> DEFINE T == {k \in Nat : \E turn : HeaderTurns(rs, k, turn)}
  <1>1. 0 \in T
    <2> DEFINE f == [k \in 0..0 |-> 0]
    <2>1. HeaderTurns(rs, 0, f)
      BY DEF HeaderTurns
    <2> QED  BY <2>1
  <1>2. ASSUME NEW k \in T PROVE k + 1 \in T
    <2>1. PICK turn : HeaderTurns(rs, k, turn)
      OBVIOUS
    <2> DEFINE f == [j \in 0..(k + 1) |-> IF j <= k THEN turn[j] ELSE turn[k] + rs[k + 1].headers]
    <2>2. k \in Nat /\ turn[0] = 0 /\ \A j \in 1..k : turn[j] = turn[j - 1] + rs[j].headers
      BY <2>1 DEF HeaderTurns
    <2>3. ASSUME NEW j \in 0..(k + 1)
          PROVE  f[j] = IF j = 0 THEN 0 ELSE f[j - 1] + rs[j].headers
      <3>1. CASE j = 0
        BY <2>2, <3>1
      <3>2. CASE j \in 1..k
        <4>1. f[j] = turn[j] /\ f[j - 1] = turn[j - 1]
          BY <2>2, <3>2
        <4> QED  BY <2>2, <3>2, <4>1
      <3>3. CASE j = k + 1
        <4>1. j \in 0..(k + 1) /\ ~ (j <= k) /\ j - 1 = k /\ k \in 0..(k + 1) /\ k <= k /\ j # 0
          BY <2>2, <3>3
        <4>2. f[j] = turn[k] + rs[k + 1].headers /\ f[j - 1] = turn[k]
          BY <4>1
        <4> QED  BY <3>3, <4>1, <4>2
      <3> QED  BY <2>2, <3>1, <3>2, <3>3
    <2>4. f = [j \in 0..(k + 1) |-> f[j]]
      OBVIOUS
    <2> HIDE DEF f
    <2>5. HeaderTurns(rs, k + 1, f)
      BY <2>3, <2>4 DEF HeaderTurns
    <2> QED  BY <2>2, <2>5
  <1>3. n \in T
    <2> HIDE DEF T
    <2>1. T \in SUBSET Nat
      BY DEF T
    <2> QED  BY <1>1, <1>2, <2>1, SetInduction
  <1> QED  BY <1>3

LEMMA HeadersInIs ==
    ASSUME NEW rs, Len(rs) \in Nat
    PROVE  \E turn : HeaderTurns(rs, Len(rs), turn) /\ HeadersIn(rs) = turn[Len(rs)]
  <1>1. PICK g : HeaderTurns(rs, Len(rs), g)
    BY HeaderTurnsExist
  <1> DEFINE turn == CHOOSE f : f = [k \in 0..Len(rs) |->
                        IF k = 0 THEN 0 ELSE f[k - 1] + rs[k].headers]
  <1>2. turn = [k \in 0..Len(rs) |-> IF k = 0 THEN 0 ELSE turn[k - 1] + rs[k].headers]
    BY <1>1 DEF HeaderTurns
  <1>3. HeadersIn(rs) = turn[Len(rs)]
    BY DEF HeadersIn
  <1> QED  BY <1>2, <1>3 DEF HeaderTurns

(* Two sums up to l, where one position may have d more.                    *)
OneHasMore(rs, qs, l, i, d) ==
    /\ \A j \in 1..l : rs[j].headers \in Nat
    /\ \A j \in 1..l : j # i => qs[j].headers = rs[j].headers
    /\ i \in 1..l => qs[i].headers = rs[i].headers + d

LEMMA HeaderSums ==
    ASSUME NEW rs, NEW n \in Nat, NEW s, HeaderTurns(rs, n, s),
           NEW qs, NEW m \in Nat, NEW t, HeaderTurns(qs, m, t),
           NEW l \in Nat, l <= n, l <= m, NEW i \in Nat, NEW d \in Nat,
           OneHasMore(rs, qs, l, i, d)
    PROVE  s[l] \in Nat /\ (i \in 1..l => t[l] = s[l] + d) /\ (i \notin 1..l => t[l] = s[l])
  <1>1. s[0] = 0 /\ \A k \in 1..l : s[k] = s[k - 1] + rs[k].headers
    BY DEF HeaderTurns
  <1>2. t[0] = 0 /\ \A k \in 1..l : t[k] = t[k - 1] + qs[k].headers
    BY DEF HeaderTurns
  <1> DEFINE T == {k \in Nat : k <= l => s[k] \in Nat /\ t[k] = s[k] + (IF i \in 1..k THEN d ELSE 0)}
  <1>3. 0 \in T
    BY <1>1, <1>2
  <1>4. ASSUME NEW k \in T PROVE k + 1 \in T
    <2>1. CASE k + 1 <= l
      <3>1. k \in Nat /\ k + 1 \in 1..l /\ k <= l /\ (k + 1) - 1 = k
        BY <2>1
      <3>2. s[k] \in Nat /\ t[k] = s[k] + (IF i \in 1..k THEN d ELSE 0)
        BY <3>1
      <3>3. s[k + 1] = s[k] + rs[k + 1].headers /\ t[k + 1] = t[k] + qs[k + 1].headers
        BY <1>1, <1>2, <3>1
      <3>4. /\ rs[k + 1].headers \in Nat
            /\ k + 1 # i => qs[k + 1].headers = rs[k + 1].headers
            /\ k + 1 = i => qs[k + 1].headers = rs[k + 1].headers + d
        BY <3>1 DEF OneHasMore
      <3>5. CASE k + 1 = i
        <4>1. ~ (i \in 1..k) /\ i \in 1..(k + 1)
          BY <3>1, <3>5
        <4>2. t[k] = s[k] /\ qs[k + 1].headers = rs[k + 1].headers + d
          BY <3>2, <3>4, <3>5, <4>1
        <4>3. s[k + 1] \in Nat /\ t[k + 1] = s[k + 1] + d
          BY <3>2, <3>3, <3>4, <4>2
        <4> QED  BY <3>1, <4>1, <4>3
      <3>6. CASE k + 1 # i
        <4>1. (i \in 1..k) <=> (i \in 1..(k + 1))
          BY <3>1, <3>6
        <4>2. qs[k + 1].headers = rs[k + 1].headers
          BY <3>4, <3>6
        <4> DEFINE x == IF i \in 1..k THEN d ELSE 0
        <4>3. x \in Nat /\ t[k] = s[k] + x /\ x = IF i \in 1..(k + 1) THEN d ELSE 0
          BY <3>2, <4>1
        <4> HIDE DEF x
        <4>4. s[k + 1] \in Nat /\ t[k + 1] = s[k + 1] + x
          BY <3>2, <3>3, <3>4, <4>2, <4>3
        <4> QED  BY <3>1, <4>3, <4>4
      <3> QED  BY <3>5, <3>6
    <2>2. CASE ~ (k + 1 <= l)
      BY <2>2
    <2> QED  BY <2>1, <2>2
  <1>5. l \in T
    <2>1. T \in SUBSET Nat
      OBVIOUS
    <2> HIDE DEF T
    <2> QED  BY <1>3, <1>4, <2>1, SetInduction
  <1>6. s[l] \in Nat /\ t[l] = s[l] + (IF i \in 1..l THEN d ELSE 0)
    BY <1>5
  <1> QED  BY <1>6

LEMMA HeadersMore ==
    ASSUME NEW rs, Len(rs) \in Nat, NEW qs, Len(qs) = Len(rs), NEW i \in Nat, NEW d \in Nat,
           OneHasMore(rs, qs, Len(rs), i, d)
    PROVE  /\ HeadersIn(rs) \in Nat
           /\ i \in 1..Len(rs) => HeadersIn(qs) = HeadersIn(rs) + d
           /\ i \notin 1..Len(rs) => HeadersIn(qs) = HeadersIn(rs)
  <1>1. PICK s : HeaderTurns(rs, Len(rs), s) /\ HeadersIn(rs) = s[Len(rs)]
    BY HeadersInIs
  <1>2. PICK t : HeaderTurns(qs, Len(rs), t) /\ HeadersIn(qs) = t[Len(rs)]
    BY HeadersInIs
  <1> DEFINE n == Len(rs)
  <1>3. n \in Nat /\ n <= n /\ HeaderTurns(rs, n, s) /\ HeaderTurns(qs, n, t)
    BY <1>1, <1>2
  <1>4. OneHasMore(rs, qs, n, i, d)
    OBVIOUS
  <1> HIDE DEF n
  <1>5. s[n] \in Nat /\ (i \in 1..n => t[n] = s[n] + d) /\ (i \notin 1..n => t[n] = s[n])
    BY <1>3, <1>4, HeaderSums
  <1> QED  BY <1>1, <1>2, <1>5 DEF n

LEMMA HeadersNat ==
    ASSUME NEW rs, Len(rs) \in Nat, \A j \in 1..Len(rs) : rs[j].headers \in Nat
    PROVE  HeadersIn(rs) \in Nat
  <1>1. OneHasMore(rs, rs, Len(rs), 0, 0)
    BY DEF OneHasMore
  <1> DEFINE qs == rs
             z  == 0
  <1>2. OneHasMore(rs, qs, Len(rs), z, z) /\ Len(qs) = Len(rs) /\ z \in Nat
    BY <1>1
  <1> HIDE DEF qs, z
  <1> QED  BY <1>2, HeadersMore

LEMMA HeadersAppend ==
    ASSUME NEW S, NEW rs \in Seq(S), NEW r \in S, r.headers \in Nat,
           \A j \in 1..Len(rs) : rs[j].headers \in Nat
    PROVE  HeadersIn(rs) \in Nat /\ HeadersIn(Append(rs, r)) = HeadersIn(rs) + r.headers
  <1> DEFINE qs == Append(rs, r)
             n  == Len(rs)
  <1>1. n \in Nat /\ Len(qs) = n + 1 /\ qs[n + 1] = r /\ \A j \in 1..n : qs[j] = rs[j]
    BY LenProperties, AppendProperties
  <1> HIDE DEF qs
  <1>2. PICK s : HeaderTurns(rs, n, s) /\ HeadersIn(rs) = s[n]
    BY <1>1, HeadersInIs
  <1>3. PICK t : HeaderTurns(qs, n + 1, t) /\ HeadersIn(qs) = t[n + 1]
    BY <1>1, HeadersInIs
  <1>4. s[n] \in Nat /\ t[n] = s[n]
    <2>1. n + 1 \in Nat /\ n <= n /\ n <= n + 1 /\ 0 \in Nat
      BY <1>1
    <2>2. \A j \in 1..n : rs[j].headers \in Nat
      OBVIOUS
    <2>3. (\A j \in 1..n : j # 0 => qs[j].headers = rs[j].headers) /\ 0 \notin 1..n
      BY <1>1
    <2>4. OneHasMore(rs, qs, n, 0, 0)
      BY <2>2, <2>3 DEF OneHasMore
    <2> HIDE DEF n
    <2> QED  BY <1>1, <1>2, <1>3, <2>1, <2>3, <2>4, HeaderSums
  <1>5. t[n + 1] = t[n] + r.headers
    <2>1. n + 1 \in 0..(n + 1) /\ n + 1 # 0 /\ (n + 1) - 1 = n
      BY <1>1
    <2>2. t[n + 1] = t[(n + 1) - 1] + qs[n + 1].headers
      BY <1>3, <2>1 DEF HeaderTurns
    <2> QED  BY <1>1, <2>1, <2>2
  <1>6. t[n] = s[n]
    BY <1>4
  <1> QED  BY <1>2, <1>3, <1>4, <1>5, <1>6 DEF qs

-----------------------------------------------------------------------------
(* A sequence of anything.                                                  *)

IsSeq(s) == s \in Seq({s[i] : i \in 1..Len(s)})

LEMMA SeqIs ==
    ASSUME NEW S, NEW s \in Seq(S)
    PROVE  IsSeq(s)
  <1> DEFINE T == {s[i] : i \in 1..Len(s)}
  <1>1. Len(s) \in Nat /\ s \in [1..Len(s) -> S]
    BY LenProperties
  <1>2. s \in [1..Len(s) -> T]
    BY <1>1
  <1> HIDE DEF T
  <1>3. s \in Seq(T)
    BY <1>1, <1>2, SeqDef
  <1> QED  BY <1>3 DEF IsSeq, T

LEMMA SeqGrows ==
    ASSUME NEW s, IsSeq(s), NEW x
    PROVE  /\ Len(s) \in Nat /\ IsSeq(Append(s, x)) /\ Len(Append(s, x)) = Len(s) + 1
           /\ Append(s, x)[Len(s) + 1] = x /\ \A j \in 1..Len(s) : Append(s, x)[j] = s[j]
  <1> DEFINE T == {s[i] : i \in 1..Len(s)} \cup {x}
  <1>1. s \in Seq(T)
    <2>1. s \in Seq({s[i] : i \in 1..Len(s)})
      BY DEF IsSeq
    <2> QED  BY <2>1, SeqMonotonic
  <1>2. x \in T
    OBVIOUS
  <1> HIDE DEF T
  <1>3. /\ Append(s, x) \in Seq(T) /\ Len(Append(s, x)) = Len(s) + 1
        /\ Append(s, x)[Len(s) + 1] = x /\ \A j \in 1..Len(s) : Append(s, x)[j] = s[j]
    BY <1>1, <1>2, AppendProperties
  <1>4. IsSeq(Append(s, x))
    BY <1>3, SeqIs
  <1> QED  BY <1>1, <1>3, <1>4, LenProperties

Changed(s, i, x) == [s EXCEPT ![i] = x]

LEMMA SeqChanges ==
    ASSUME NEW s, IsSeq(s), NEW i \in 1..Len(s), NEW x
    PROVE  /\ Len(s) \in Nat /\ IsSeq(Changed(s, i, x)) /\ Len(Changed(s, i, x)) = Len(s)
           /\ Changed(s, i, x)[i] = x
           /\ \A j \in 1..Len(s) : j # i => Changed(s, i, x)[j] = s[j]
  <1> DEFINE T == {s[j] : j \in 1..Len(s)} \cup {x}
             r == [s EXCEPT ![i] = x]
  <1>1. s \in Seq(T)
    <2>1. s \in Seq({s[j] : j \in 1..Len(s)})
      BY DEF IsSeq
    <2> QED  BY <2>1, SeqMonotonic
  <1>2. x \in T
    OBVIOUS
  <1> HIDE DEF T
  <1>3. r \in Seq(T) /\ Len(r) = Len(s) /\ \A j \in 1..Len(s) : r[j] = IF j = i THEN x ELSE s[j]
    BY <1>1, <1>2, ExceptSeq
  <1> HIDE DEF r
  <1>4. IsSeq(r)
    BY <1>3, SeqIs
  <1>5. Changed(s, i, x) = r
    BY DEF Changed, r
  <1> QED  BY <1>1, <1>3, <1>4, <1>5, LenProperties

-----------------------------------------------------------------------------
(* The loader                                                               *)

InputSet == [what : {"header", "skipped", "entry"}, entry : Entries \cup {None}, run : Nat]
Conflicts == {"ConflictingRecord", "ConflictingScope"}
IssuesUpTo(raised, n) == raised \in SUBSET [line : 1..n, kind : IssueKinds]

IsLoader(s) ==
    /\ s \in [runs : {s.runs}, legacy : {s.legacy}, headers : {s.headers}, issues : {s.issues},
              input : {s.input}]
    /\ IsSeq(s.runs) /\ s.input \in Seq(InputSet)
    /\ s.legacy \in 0..Len(s.runs) /\ s.headers \in 0..Len(s.input)
    /\ IssuesUpTo(s.issues, Len(s.input))

(* Each run says what its lines do.                                         *)
RunsSay(s) ==
    \A i \in 1..Len(s.runs) : RunSays(s.runs[i], View(s.input, i), Reports(s.input, s.issues, i))

(* A line is with a run of its identity.                                    *)
LinesPlaced(s) ==
    \A n \in 1..Len(s.input) : s.input[n].run # 0 =>
        /\ s.input[n].run \in 1..Len(s.runs) /\ s.input[n].entry \in Entries
        /\ s.runs[s.input[n].run].id = s.input[n].entry.run

RunsOnce(s) ==
    \A i, j \in 1..Len(s.runs) :
        s.runs[i].id = s.runs[j].id /\ s.runs[i].id # Legacy => i = j

(* A run has read its own lines and no others; one that is not there has    *)
(* none.                                                                    *)
RunsAlone(s) ==
    /\ \A i \in 1..Len(s.runs) : s.runs[i].id # Legacy =>
          WithHeaders(s.runs[i], 0) = Alone(s.runs[i].id, s.input)
    /\ \A id : id # Legacy /\ RunIndex(s.runs, id) = {} => Alone(id, s.input) = NewRun(id)

(* An unversioned run holds an identifier once, and the current one is one. *)
RecordsOnce(run) ==
    \A j, k \in 1..Len(run.records) : run.records[j].id = run.records[k].id => j = k
LegacyOnce(s) ==
    /\ s.legacy # 0 => s.runs[s.legacy].id = Legacy
    /\ \A i \in 1..Len(s.runs) : s.runs[i].id = Legacy => RecordsOnce(s.runs[i])

HeaderLines(in) == {n \in 1..Len(in) : in[n].what = "header"}
HeadersCounted(s) == Cardinality(HeaderLines(s.input)) = HeadersIn(s.runs) + s.headers

Sound(s) ==
    /\ IsLoader(s) /\ RunsSay(s) /\ LinesPlaced(s) /\ RunsOnce(s) /\ RunsAlone(s)
    /\ LegacyOnce(s) /\ HeadersCounted(s)

-----------------------------------------------------------------------------
(* One line more                                                            *)

(* What happens to the views when x is read and kinds are reported.         *)
Raised(raised, n, kinds) == raised \cup {[line |-> n, kind |-> k] : k \in kinds}

LEMMA IssuesGrow ==
    ASSUME NEW n \in Nat, NEW raised, IssuesUpTo(raised, n), NEW kinds \in SUBSET IssueKinds
    PROVE  IssuesUpTo(Raised(raised, n + 1, kinds), n + 1)
  <1> SUFFICES ASSUME NEW x \in Raised(raised, n + 1, kinds)
               PROVE  x \in [line : 1..(n + 1), kind : IssueKinds]
    BY DEF IssuesUpTo
  <1>1. CASE x \in raised
    <2>1. x \in [line : 1..n, kind : IssueKinds]
      BY <1>1 DEF IssuesUpTo
    <2>2. 1..n \in SUBSET (1..(n + 1))
      OBVIOUS
    <2> HIDE DEF IssueKinds
    <2> QED  BY <2>1, <2>2
  <1>2. CASE x \in {[line |-> n + 1, kind |-> k] : k \in kinds}
    <2>1. PICK k \in kinds : x = [line |-> n + 1, kind |-> k]
      BY <1>2
    <2>2. k \in IssueKinds /\ n + 1 \in 1..(n + 1)
      OBVIOUS
    <2> QED  BY <2>1, <2>2
  <1> QED  BY <1>1, <1>2 DEF Raised

LEMMA ViewsGrow ==
    ASSUME NEW in \in Seq(InputSet), NEW x \in InputSet, NEW i \in Nat
    PROVE  LET N == Len(in) + 1
           IN  /\ x.run # i => View(Append(in, x), i) = View(in, i)
               /\ x.run = i => Extends(View(Append(in, x), i), View(in, i), N, x.entry)
  <1> DEFINE y == Append(in, x)
             N == Len(in) + 1
  <1>1. /\ Len(in) \in Nat /\ Len(y) = N /\ y[N] = x /\ \A n \in 1..Len(in) : y[n] = in[n]
    BY LenProperties, AppendProperties
  <1> HIDE DEF y
  <1> DEFINE A == {m \in 1..Len(in) : in[m].run = i}
             B == {m \in 1..Len(y) : y[m].run = i}
  <1>2. A \in SUBSET (1..Len(in)) /\ \A n \in 1..Len(y) : n \in 1..Len(in) \/ n = N
    BY <1>1
  <1>3. ASSUME x.run # i PROVE View(y, i) = View(in, i)
    <2>1. B = A
      BY <1>1, <1>2, <1>3
    <2>2. \A n \in A : y[n].entry = in[n].entry
      BY <1>1
    <2> HIDE DEF A, B
    <2>3. [n \in B |-> y[n].entry] = [n \in A |-> in[n].entry]
      BY <2>1, <2>2
    <2> QED  BY <2>3 DEF View, A, B
  <1>4. ASSUME x.run = i PROVE Extends(View(y, i), View(in, i), N, x.entry)
    <2>1. B = A \cup {N}
      BY <1>1, <1>2, <1>4
    <2>2. View(y, i) = [n \in B |-> y[n].entry] /\ View(in, i) = [n \in A |-> in[n].entry]
      BY DEF View
    <2>3. A \in SUBSET Nat /\ N \in Nat /\ \A n \in A : n < N /\ y[n] = in[n]
      BY <1>1
    <2> HIDE DEF A, B
    <2>4. /\ DOMAIN View(y, i) = B /\ \A n \in B : View(y, i)[n] = y[n].entry
          /\ DOMAIN View(in, i) = A /\ \A n \in A : View(in, i)[n] = in[n].entry
      BY <2>2
    <2> HIDE DEF N
    <2>5. /\ View(y, i)[N] = x.entry
          /\ \A n \in A : View(y, i)[n] = View(in, i)[n]
      BY <1>1, <2>1, <2>3, <2>4
    <2>6. DOMAIN View(y, i) = DOMAIN View(in, i) \cup {N}
      BY <2>1, <2>4
    <2> QED  BY <2>3, <2>4, <2>5, <2>6 DEF Extends
  <1> QED  BY <1>3, <1>4 DEF y

LEMMA ReportsGrow ==
    ASSUME NEW in \in Seq(InputSet), NEW x \in InputSet, NEW i \in Nat,
           NEW raised, IssuesUpTo(raised, Len(in)),
           NEW kinds, NEW w \in SUBSET kinds, w \in SUBSET Conflicts
    PROVE  LET Q == Reports(Append(in, x), Raised(raised, Len(in) + 1, kinds), i)
               R == Reports(in, raised, i)
           IN  /\ x.run # i => Q = R
               /\ x.run = i /\ kinds \cap Conflicts \in SUBSET w => Adds(Q, R, Len(in) + 1, w)
  <1> DEFINE y == Append(in, x)
             N == Len(in) + 1
             more == Raised(raised, N, kinds)
             Q == Reports(y, more, i)
             R == Reports(in, raised, i)
             Told(n, from) == \E issue \in from : issue.line = n /\ issue.kind \in Conflicts
  <1>1. /\ Len(in) \in Nat /\ Len(y) = N /\ y[N] = x /\ \A n \in 1..Len(in) : y[n] = in[n]
    BY LenProperties, AppendProperties
  <1>2. \A n \in 1..Len(in) : Told(n, more) <=> Told(n, raised)
    <2> SUFFICES ASSUME NEW n \in 1..Len(in) PROVE Told(n, more) <=> Told(n, raised)
      OBVIOUS
    <2>1. n # N
      BY <1>1
    <2>2. \A k : [line |-> N, kind |-> k].line = N
      OBVIOUS
    <2>3. \A issue \in more : issue \in raised \/ issue.line = N
      BY <2>2 DEF Raised
    <2>4. raised \in SUBSET more
      BY DEF Raised
    <2> HIDE DEF more
    <2> QED  BY <2>1, <2>3, <2>4
  <1>3. ASSUME w # {} PROVE Told(N, more)
    <2>1. PICK k \in w : TRUE
      BY <1>3
    <2> DEFINE issue == [line |-> N, kind |-> k]
    <2>2. issue.line = N /\ issue.kind = k /\ k \in Conflicts /\ k \in kinds
      BY <2>1
    <2>3. issue \in more
      BY <2>2 DEF Raised
    <2> HIDE DEF issue, more
    <2> QED  BY <2>2, <2>3
  <1>4. Q = {n \in {m \in 1..Len(y) : y[m].run = i} : Told(n, more)}
    BY DEF Reports, Conflicts
  <1>5. R = {n \in {m \in 1..Len(in) : in[m].run = i} : Told(n, raised)}
    BY DEF Reports, Conflicts
  <1>9. ASSUME kinds \cap Conflicts \in SUBSET w, Told(N, more) PROVE w # {}
    <2>1. PICK issue \in more : issue.line = N /\ issue.kind \in Conflicts
      BY <1>9
    <2>2. \A x1 \in raised : x1.line \in 1..Len(in)
      BY DEF IssuesUpTo
    <2>3. issue \notin raised
      BY <1>1, <2>1, <2>2
    <2>4. PICK k \in kinds : issue = [line |-> N, kind |-> k]
      BY <2>1, <2>3 DEF Raised
    <2>5. k \in Conflicts
      BY <2>1, <2>4
    <2> QED  BY <1>9, <2>5
  <1> HIDE DEF y, more, Q, R, Told
  <1>6. \A n \in 1..Len(y) : n \in 1..Len(in) \/ n = N
    BY <1>1
  <1>7. x.run # i => Q = R
    <2>1. 1..Len(in) \in SUBSET (1..Len(y))
      BY <1>1
    <2> QED  BY <1>1, <1>2, <1>4, <1>5, <1>6, <2>1
  <1>8. ASSUME x.run = i, kinds \cap Conflicts \in SUBSET w PROVE Adds(Q, R, N, w)
    <2>1. 1..Len(in) \in SUBSET (1..Len(y)) /\ N \in 1..Len(y)
      BY <1>1
    <2>2. R \in SUBSET Q
      BY <1>1, <1>2, <1>4, <1>5, <2>1
    <2>3. w # {} => N \in Q
      BY <1>1, <1>3, <1>4, <1>8, <2>1
    <2>4. Q \in SUBSET (R \cup {N})
      BY <1>1, <1>2, <1>4, <1>5, <1>6
    <2>5. N \in Q => w # {}
      BY <1>4, <1>8, <1>9
    <2> QED  BY <2>2, <2>3, <2>4, <2>5 DEF Adds
  <1> QED  BY <1>7, <1>8 DEF Q, R, y, more

LEMMA HeaderLinesGrow ==
    ASSUME NEW in \in Seq(InputSet), NEW x \in InputSet
    PROVE  /\ Cardinality(HeaderLines(in)) \in Nat
           /\ x.what = "header" =>
                 Cardinality(HeaderLines(Append(in, x))) = Cardinality(HeaderLines(in)) + 1
           /\ x.what # "header" =>
                 Cardinality(HeaderLines(Append(in, x))) = Cardinality(HeaderLines(in))
  <1> DEFINE y == Append(in, x)
             N == Len(in) + 1
  <1>1. /\ Len(in) \in Nat /\ Len(y) = N /\ y[N] = x /\ \A n \in 1..Len(in) : y[n] = in[n]
    BY LenProperties, AppendProperties
  <1> HIDE DEF y
  <1>2. \A n : n \in 1..Len(y) <=> n \in 1..Len(in) \/ n = N
    BY <1>1
  <1>3. IsFiniteSet(HeaderLines(in)) /\ N \notin HeaderLines(in)
    <2>1. IsFiniteSet(1..Len(in)) /\ HeaderLines(in) \in SUBSET (1..Len(in))
      BY <1>1, FS_Interval DEF HeaderLines
    <2>2. N \notin 1..Len(in)
      BY <1>1
    <2> QED  BY <2>1, <2>2, FS_Subset
  <1>4. x.what = "header" => HeaderLines(y) = HeaderLines(in) \cup {N}
    BY <1>1, <1>2 DEF HeaderLines
  <1>5. x.what # "header" => HeaderLines(y) = HeaderLines(in)
    BY <1>1, <1>2 DEF HeaderLines
  <1>6. Cardinality(HeaderLines(in) \cup {N}) = Cardinality(HeaderLines(in)) + 1
    BY <1>3, FS_AddElement
  <1> QED  BY <1>3, <1>4, <1>5, <1>6, FS_CardinalityType DEF y

(* A line that goes to no run.                                              *)
LEMMA NoRunSound ==
    ASSUME NEW s, Sound(s), NEW x \in InputSet, x.run = 0, NEW kinds \in SUBSET IssueKinds,
           NEW t, IsLoader(t), t.runs = s.runs, t.legacy \in {s.legacy, 0},
           t.input = Append(s.input, x), t.issues = Raised(s.issues, Len(s.input) + 1, kinds),
           x.what = "header" => t.headers = s.headers + 1,
           x.what # "header" => t.headers = s.headers
    PROVE  Sound(t)
  <1>1. /\ IsLoader(s) /\ RunsSay(s) /\ LinesPlaced(s) /\ RunsOnce(s) /\ RunsAlone(s)
        /\ LegacyOnce(s) /\ HeadersCounted(s)
    BY DEF Sound
  <1>2. /\ IsSeq(s.runs) /\ s.input \in Seq(InputSet) /\ s.headers \in Nat
        /\ IssuesUpTo(s.issues, Len(s.input))
        /\ Len(s.runs) \in Nat
    <2>1. Len(s.runs) \in Nat
      BY <1>1, LenProperties DEF IsLoader, IsSeq
    <2> QED  BY <1>1, <2>1 DEF IsLoader
  <1>3. /\ Len(s.input) \in Nat /\ Len(t.input) = Len(s.input) + 1
        /\ t.input[Len(s.input) + 1] = x
        /\ \A n \in 1..Len(s.input) : t.input[n] = s.input[n]
    BY <1>2, LenProperties, AppendProperties
  <1>4. RunsSay(t)
    <2> SUFFICES ASSUME NEW i \in 1..Len(s.runs)
                 PROVE  RunSays(s.runs[i], View(t.input, i), Reports(t.input, t.issues, i))
      BY DEF RunsSay
    <2>1. i \in Nat /\ x.run # i
      BY <1>2
    <2>2. View(t.input, i) = View(s.input, i)
      BY <1>2, <2>1, ViewsGrow
    <2>3. Reports(t.input, t.issues, i) = Reports(s.input, s.issues, i)
      <3> DEFINE in == s.input
                 w  == {}
                 Q  == Reports(Append(in, x), Raised(s.issues, Len(in) + 1, kinds), i)
      <3>1. w \in SUBSET kinds /\ w \in SUBSET Conflicts /\ in \in Seq(InputSet)
            /\ IssuesUpTo(s.issues, Len(in))
        BY <1>2
      <3>2. Reports(t.input, t.issues, i) = Q
        OBVIOUS
      <3> HIDE DEF w, in
      <3>3. Q = Reports(in, s.issues, i)
        BY <2>1, <3>1, ReportsGrow
      <3> QED  BY <3>2, <3>3 DEF in
    <2> QED  BY <1>1, <2>2, <2>3 DEF RunsSay
  <1>5. LinesPlaced(t)
    <2>1. \A n \in 1..Len(t.input) : n \in 1..Len(s.input) \/ n = Len(s.input) + 1
      BY <1>3
    <2> QED  BY <1>1, <1>3, <2>1 DEF LinesPlaced
  <1>6. RunsOnce(t)
    BY <1>1 DEF RunsOnce
  <1>7. RunsAlone(t)
    <2>1. \A id : Alone(id, t.input) = Alone(id, s.input)
      <3> SUFFICES ASSUME NEW id PROVE Alone(id, t.input) = Alone(id, s.input)
        OBVIOUS
      <3>1. Alone(id, t.input) = Take(id, Alone(id, s.input), x)
        BY <1>2, AloneStep
      <3> QED  BY <3>1 DEF Take
    <2> QED  BY <1>1, <2>1 DEF RunsAlone
  <1>8. LegacyOnce(t)
    BY <1>1 DEF LegacyOnce
  <1>9. HeadersCounted(t)
    <2>1. Cardinality(HeaderLines(s.input)) = HeadersIn(s.runs) + s.headers
      BY <1>1 DEF HeadersCounted
    <2>2. HeadersIn(s.runs) \in Nat
      <3>1. \A i \in 1..Len(s.runs) : s.runs[i].headers \in Nat
        BY <1>1 DEF RunsSay, RunSays, IsRun
      <3> QED  BY <1>2, <3>1, HeadersNat
    <2>3. /\ x.what = "header" =>
                 Cardinality(HeaderLines(t.input)) = Cardinality(HeaderLines(s.input)) + 1
          /\ x.what # "header" =>
                 Cardinality(HeaderLines(t.input)) = Cardinality(HeaderLines(s.input))
      BY <1>2, HeaderLinesGrow
    <2>4. CASE x.what = "header"
      <3>1. Cardinality(HeaderLines(t.input)) = HeadersIn(t.runs) + t.headers
        BY <1>2, <2>1, <2>2, <2>3, <2>4
      <3> QED  BY <3>1 DEF HeadersCounted
    <2>5. CASE x.what # "header"
      BY <2>1, <2>3, <2>5 DEF HeadersCounted
    <2> QED  BY <2>4, <2>5
  <1> QED  BY <1>4, <1>5, <1>6, <1>7, <1>8, <1>9 DEF Sound

LEMMA HeaderSound ==
    ASSUME NEW s, Sound(s)
    PROVE  Sound(AfterHeader(s))
  <1> DEFINE x == [what |-> "header", entry |-> None, run |-> 0]
             t == AfterHeader(s)
             y == Append(s.input, x)
  <1>1. IsLoader(s)
    BY DEF Sound
  <1>2. x \in InputSet /\ x.run = 0 /\ x.what = "header"
    BY DEF InputSet
  <1>3. t = [s EXCEPT !.headers = s.headers + 1, !.legacy = 0, !.input = y]
    BY DEF AfterHeader, Consume
  <1>4. s.input \in Seq(InputSet)
    BY <1>1 DEF IsLoader
  <1>5. y \in Seq(InputSet) /\ Len(y) = Len(s.input) + 1 /\ Len(s.input) \in Nat
    BY <1>2, <1>4, AppendProperties, LenProperties
  <1>6. s.issues = Raised(s.issues, Len(s.input) + 1, {})
    BY DEF Raised
  <1> HIDE DEF x, y, t
  <1>7. /\ t \in [runs : {t.runs}, legacy : {t.legacy}, headers : {t.headers}, issues : {t.issues},
                  input : {t.input}]
        /\ t.runs = s.runs /\ t.legacy = 0 /\ t.headers = s.headers + 1 /\ t.issues = s.issues
        /\ t.input = y
    BY <1>1, <1>3 DEF IsLoader
  <1>8. IsLoader(t)
    <2>1. IsSeq(t.runs) /\ t.input \in Seq(InputSet)
      BY <1>1, <1>5, <1>7 DEF IsLoader
    <2>2. s.headers \in 0..Len(s.input) /\ Len(s.runs) \in Nat
      BY <1>1, LenProperties DEF IsLoader, IsSeq
    <2>3. t.legacy \in 0..Len(t.runs) /\ t.headers \in 0..Len(t.input)
      BY <1>5, <1>7, <2>2
    <2>4. IssuesUpTo(s.issues, Len(s.input)) /\ {} \in SUBSET IssueKinds
      BY <1>1 DEF IsLoader
    <2>5. IssuesUpTo(t.issues, Len(t.input))
      BY <1>5, <1>6, <1>7, <2>4, IssuesGrow
    <2> QED  BY <1>7, <2>1, <2>3, <2>5 DEF IsLoader
  <1>9. {} \in SUBSET IssueKinds /\ t.legacy \in {s.legacy, 0} /\ t.input = Append(s.input, x)
        /\ t.issues = Raised(s.issues, Len(s.input) + 1, {})
    BY <1>6, <1>7 DEF y
  <1>10. Sound(t)
    BY <1>2, <1>7, <1>8, <1>9, NoRunSound
  <1> QED  BY <1>10 DEF t

LEMMA SkipSound ==
    ASSUME NEW s, Sound(s), NEW kind \in IssueKinds
    PROVE  Sound(AfterSkip(s, kind))
  <1> DEFINE x == [what |-> "skipped", entry |-> None, run |-> 0]
             t == AfterSkip(s, kind)
             y == Append(s.input, x)
             more == Raised(s.issues, Len(s.input) + 1, {kind})
  <1>1. IsLoader(s)
    BY DEF Sound
  <1>2. x \in InputSet /\ x.run = 0 /\ x.what # "header"
    BY DEF InputSet
  <1>3. t = [s EXCEPT !.issues = more, !.input = y]
    BY DEF AfterSkip, Consume, Report, Raised
  <1>4. s.input \in Seq(InputSet)
    BY <1>1 DEF IsLoader
  <1>5. y \in Seq(InputSet) /\ Len(y) = Len(s.input) + 1 /\ Len(s.input) \in Nat
    BY <1>2, <1>4, AppendProperties, LenProperties
  <1> HIDE DEF x, y, t, more
  <1>7. /\ t \in [runs : {t.runs}, legacy : {t.legacy}, headers : {t.headers}, issues : {t.issues},
                  input : {t.input}]
        /\ t.runs = s.runs /\ t.legacy = s.legacy /\ t.headers = s.headers /\ t.issues = more
        /\ t.input = y
    BY <1>1, <1>3 DEF IsLoader
  <1>8. IsLoader(t)
    <2>1. IsSeq(t.runs) /\ t.input \in Seq(InputSet)
      BY <1>1, <1>5, <1>7 DEF IsLoader
    <2>2. s.headers \in 0..Len(s.input) /\ s.legacy \in 0..Len(s.runs)
      BY <1>1 DEF IsLoader
    <2>3. t.legacy \in 0..Len(t.runs) /\ t.headers \in 0..Len(t.input)
      BY <1>5, <1>7, <2>2
    <2>4. IssuesUpTo(s.issues, Len(s.input)) /\ {kind} \in SUBSET IssueKinds
      BY <1>1 DEF IsLoader
    <2>5. IssuesUpTo(t.issues, Len(t.input))
      BY <1>5, <1>7, <2>4, IssuesGrow DEF more
    <2> QED  BY <1>7, <2>1, <2>3, <2>5 DEF IsLoader
  <1>9. {kind} \in SUBSET IssueKinds /\ t.legacy \in {s.legacy, 0} /\ t.input = Append(s.input, x)
        /\ t.issues = Raised(s.issues, Len(s.input) + 1, {kind})
    BY <1>7 DEF y, more
  <1>10. Sound(t)
    BY <1>2, <1>7, <1>8, <1>9, NoRunSound
  <1> QED  BY <1>10 DEF t

(* An entry goes to a run b of its identity, at i, which is new or there.   *)
EntryPlaced(s, e, i, b, rs) ==
    /\ i \in 1..(Len(s.runs) + 1) /\ IsSeq(rs) /\ IsRun(b) /\ b.id = e.run
    /\ i \in 1..Len(s.runs) => b = s.runs[i] /\ Len(rs) = Len(s.runs)
    /\ i = Len(s.runs) + 1 => b = NewRun(e.run) /\ Len(rs) = i
    /\ \A j \in 1..Len(s.runs) : j # i => rs[j] = s.runs[j]
    /\ rs[i] = WithHeaders(AddEntry(b, e).run, b.headers + s.headers)
    /\ e.run # Legacy /\ i = Len(s.runs) + 1 => RunIndex(s.runs, e.run) = {}
    /\ e.run = Legacy /\ e.record # None /\ i \in 1..Len(s.runs) =>
          RecordIndex(s.runs[i], e.record.id) = {}

LEMMA TargetIs ==
    ASSUME NEW s, Sound(s), NEW e \in Entries
    PROVE  LET i == Target(s, e)
           IN  /\ i \in 1..(Len(s.runs) + 1)
               /\ i \in 1..Len(s.runs) => s.runs[i].id = e.run
               /\ e.run # Legacy /\ i = Len(s.runs) + 1 => RunIndex(s.runs, e.run) = {}
               /\ e.run = Legacy /\ e.record # None /\ i \in 1..Len(s.runs) =>
                     RecordIndex(s.runs[i], e.record.id) = {}
  <1>1. Len(s.runs) \in Nat /\ s.legacy \in 0..Len(s.runs)
        /\ (s.legacy # 0 => s.runs[s.legacy].id = Legacy)
    BY LenProperties DEF Sound, IsLoader, IsSeq, LegacyOnce
  <1> DEFINE i == Target(s, e)
             n == Len(s.runs)
  <1>2. CASE e.run # Legacy /\ RunIndex(s.runs, e.run) = {}
    <2>1. i = n + 1
      BY <1>2 DEF Target
    <2> QED  BY <1>1, <1>2, <2>1
  <1>3. CASE e.run # Legacy /\ RunIndex(s.runs, e.run) # {}
    <2>1. i = The(RunIndex(s.runs, e.run))
      BY <1>3 DEF Target
    <2>2. i \in RunIndex(s.runs, e.run)
      BY <1>3, <2>1, TheIn
    <2>3. i \in 1..n /\ s.runs[i].id = e.run
      BY <2>2 DEF RunIndex
    <2> QED  BY <1>1, <1>3, <2>3
  <1>4. CASE e.run = Legacy /\ (s.legacy = 0 \/ Restarts(s, e))
    <2>1. i = n + 1
      BY <1>4 DEF Target
    <2> QED  BY <1>1, <1>4, <2>1
  <1>5. CASE e.run = Legacy /\ ~ (s.legacy = 0 \/ Restarts(s, e))
    <2>1. i = s.legacy
      BY <1>5 DEF Target
    <2>2. i \in 1..n /\ s.runs[i].id = e.run
      BY <1>1, <1>5, <2>1
    <2>3. e.record # None => RecordIndex(s.runs[i], e.record.id) = {}
      BY <1>5, <2>1 DEF Restarts
    <2> HIDE DEF i
    <2>4. i \in 1..(n + 1) /\ i # n + 1
      BY <1>1, <2>2
    <2> QED  BY <1>5, <2>2, <2>3, <2>4 DEF i
  <1> QED  BY <1>2, <1>3, <1>4, <1>5

LEMMA AfterEntryIs ==
    ASSUME NEW s, Sound(s), NEW e \in Entries
    PROVE  LET t == AfterEntry(s, e)
           IN  /\ t \in [runs : {t.runs}, legacy : {t.legacy}, headers : {t.headers},
                         issues : {t.issues}, input : {t.input}]
               /\ t.headers = 0
               /\ t.input = Append(s.input, [what |-> "entry", entry |-> e, run |-> Target(s, e)])
               /\ t.legacy = IF e.run = Legacy THEN Target(s, e) ELSE 0
               /\ \E b : /\ EntryPlaced(s, e, Target(s, e), b, t.runs)
                         /\ \E kinds \in SUBSET IssueKinds :
                               /\ AddEntry(b, e).issues \in SUBSET kinds
                               /\ kinds \cap Conflicts \in SUBSET AddEntry(b, e).issues
                               /\ t.issues = Raised(s.issues, Len(s.input) + 1, kinds)
  <1> DEFINE i     == Target(s, e)
             n     == Len(s.runs)
             known == IF i > n THEN Append(s.runs, NewRun(e.run)) ELSE s.runs
             b     == known[i]
             added == AddEntry([b EXCEPT !.headers = @ + s.headers], e)
             t     == AfterEntry(s, e)
             kinds == added.issues \cup
                        IF e.run = Legacy /\ Restarts(s, e) THEN {"InferredRunBoundary"} ELSE {}
             rs    == [known EXCEPT ![i] = added.run]
             more  == Raised(s.issues, Len(s.input) + 1, kinds)
             lg    == IF e.run = Legacy THEN i ELSE 0
             in    == Append(s.input, [what |-> "entry", entry |-> e, run |-> i])
  <1>1. t = [runs |-> rs, legacy |-> lg, headers |-> 0, issues |-> more, input |-> in]
    BY DEF AfterEntry, Report, Consume, Raised
  <1>2. IsLoader(s) /\ IsSeq(s.runs) /\ n \in Nat /\ s.headers \in Nat
    <2>1. IsLoader(s)
      BY DEF Sound
    <2>2. n \in Nat
      BY <2>1, LenProperties DEF IsLoader, IsSeq
    <2> QED  BY <2>1, <2>2 DEF IsLoader
  <1>3. /\ i \in 1..(n + 1)
        /\ i \in 1..n => s.runs[i].id = e.run
        /\ e.run # Legacy /\ i = n + 1 => RunIndex(s.runs, e.run) = {}
        /\ e.run = Legacy /\ e.record # None /\ i \in 1..n => RecordIndex(s.runs[i], e.record.id) = {}
    BY TargetIs
  <1> HIDE DEF i
  <1>4. /\ IsSeq(known) /\ i \in 1..Len(known)
        /\ i \in 1..n => b = s.runs[i] /\ Len(known) = n
        /\ i = n + 1 => b = NewRun(e.run) /\ Len(known) = i
        /\ \A j \in 1..n : known[j] = s.runs[j]
    <2>1. CASE i \in 1..n
      BY <1>2, <2>1
    <2>2. CASE i = n + 1
      <3>1. known = Append(s.runs, NewRun(e.run))
        BY <1>2, <2>2
      <3> HIDE DEF known
      <3>2. /\ IsSeq(known) /\ Len(known) = n + 1 /\ known[n + 1] = NewRun(e.run)
            /\ \A j \in 1..n : known[j] = s.runs[j]
        BY <1>2, <3>1, SeqGrows
      <3> QED  BY <1>2, <2>2, <3>2
    <2> QED  BY <1>2, <1>3, <2>1, <2>2
  <1>5. IsRun(b) /\ b.id = e.run
    <2>1. CASE i \in 1..n
      <3>1. IsRun(s.runs[i])
        BY <2>1 DEF Sound, RunsSay, RunSays
      <3> QED  BY <1>3, <1>4, <2>1, <3>1
    <2>2. CASE i = n + 1
      BY <1>4, <2>2, NewRunSays
    <2> QED  BY <1>2, <1>3, <2>1, <2>2
  <1> HIDE DEF b, known
  <1>6. b.headers \in Nat /\ b.headers + s.headers \in Nat
    BY <1>2, <1>5 DEF IsRun
  <1>7. /\ added.run = WithHeaders(AddEntry(b, e).run, b.headers + s.headers)
        /\ added.issues = AddEntry(b, e).issues
    <2>1. added = AddEntry(WithHeaders(b, b.headers + s.headers), e)
      BY DEF WithHeaders
    <2> QED  BY <1>5, <1>6, <2>1, HeadersApart
  <1> HIDE DEF added
  <1>8. /\ IsSeq(rs) /\ Len(rs) = Len(known) /\ rs[i] = added.run
        /\ \A j \in 1..Len(known) : j # i => rs[j] = known[j]
    <2> DEFINE x == added.run
    <2>1. rs = Changed(known, i, x)
      BY DEF Changed
    <2> HIDE DEF x, rs
    <2>2. /\ IsSeq(rs) /\ Len(rs) = Len(known) /\ rs[i] = x
          /\ \A j \in 1..Len(known) : j # i => rs[j] = known[j]
      BY <1>4, <2>1, SeqChanges
    <2> QED  BY <2>2 DEF x
  <1> HIDE DEF rs
  <1>9. EntryPlaced(s, e, i, b, rs)
    <2>1. 1..n \in SUBSET (1..Len(known))
      BY <1>2, <1>3, <1>4
    <2>2. \A j \in 1..n : j # i => rs[j] = s.runs[j]
      BY <1>4, <1>8, <2>1
    <2>3. rs[i] = WithHeaders(AddEntry(b, e).run, b.headers + s.headers)
      BY <1>4, <1>7, <1>8
    <2> QED  BY <1>3, <1>4, <1>5, <1>8, <2>2, <2>3 DEF EntryPlaced
  <1>10. /\ kinds \in SUBSET IssueKinds /\ AddEntry(b, e).issues \in SUBSET kinds
         /\ kinds \cap Conflicts \in SUBSET AddEntry(b, e).issues
    <2>1. AddEntry(b, e).issues \in SUBSET {"ConflictingRecord", "ConflictingScope"}
      BY <1>5, AddEntryIs DEF EntryAdded
    <2>2. "InferredRunBoundary" \notin Conflicts
      BY DEF Conflicts
    <2> QED  BY <1>7, <2>1, <2>2 DEF IssueKinds
  <1> HIDE DEF kinds, more, lg, in, t
  <1>11. /\ t \in [runs : {t.runs}, legacy : {t.legacy}, headers : {t.headers},
                   issues : {t.issues}, input : {t.input}]
         /\ t.runs = rs /\ t.legacy = lg /\ t.headers = 0 /\ t.issues = more /\ t.input = in
    BY <1>1
  <1>12. t.issues = Raised(s.issues, Len(s.input) + 1, kinds)
    BY <1>11 DEF more
  <1>13. \E c : /\ EntryPlaced(s, e, i, c, t.runs)
                /\ \E k \in SUBSET IssueKinds :
                      /\ AddEntry(c, e).issues \in SUBSET k
                      /\ k \cap Conflicts \in SUBSET AddEntry(c, e).issues
                      /\ t.issues = Raised(s.issues, Len(s.input) + 1, k)
    <2> WITNESS b
    <2>1. EntryPlaced(s, e, i, b, t.runs)
      BY <1>9, <1>11
    <2> QED  BY <1>10, <1>12, <2>1
  <1>14. t.input = in /\ t.legacy = lg
    BY <1>11
  <1> QED  BY <1>11, <1>13, <1>14 DEF t, in, lg, i

(* What an entry leaves: a the run it was added to, w what it raised.       *)
EntryLine(e, i) == [what |-> "entry", entry |-> e, run |-> i]
EntryTaken(s, e, i, b, a, h, w, kinds, t) ==
    /\ t \in [runs : {t.runs}, legacy : {t.legacy}, headers : {t.headers}, issues : {t.issues},
              input : {t.input}]
    /\ t.headers = 0 /\ t.input = Append(s.input, EntryLine(e, i))
    /\ e.run = Legacy => t.legacy = i
    /\ e.run # Legacy => t.legacy = 0
    /\ EntryPlaced(s, e, i, b, t.runs)
    /\ a = AddEntry(b, e).run /\ w = AddEntry(b, e).issues /\ h = b.headers + s.headers
    /\ kinds \in SUBSET IssueKinds /\ w \in SUBSET kinds /\ w \in SUBSET Conflicts
    /\ kinds \cap Conflicts \in SUBSET w
    /\ t.issues = Raised(s.issues, Len(s.input) + 1, kinds)
    /\ EntryAdded(b, e, a, w)
    /\ h \in Nat /\ t.runs[i] = WithHeaders(a, h)
    /\ EntryLine(e, i) \in InputSet

LEMMA EntryIsTaken ==
    ASSUME NEW s, Sound(s), NEW e \in Entries
    PROVE  \E i, b, a, h, w, kinds : EntryTaken(s, e, i, b, a, h, w, kinds, AfterEntry(s, e))
  <1> DEFINE t == AfterEntry(s, e)
             i == Target(s, e)
  <1>1. /\ t \in [runs : {t.runs}, legacy : {t.legacy}, headers : {t.headers},
                  issues : {t.issues}, input : {t.input}]
        /\ t.headers = 0
        /\ t.input = Append(s.input, EntryLine(e, i))
        /\ t.legacy = IF e.run = Legacy THEN i ELSE 0
        /\ \E b : /\ EntryPlaced(s, e, i, b, t.runs)
                  /\ \E kinds \in SUBSET IssueKinds :
                        /\ AddEntry(b, e).issues \in SUBSET kinds
                        /\ kinds \cap Conflicts \in SUBSET AddEntry(b, e).issues
                        /\ t.issues = Raised(s.issues, Len(s.input) + 1, kinds)
    BY AfterEntryIs DEF EntryLine
  <1> HIDE DEF t, i
  <1>2. PICK b : /\ EntryPlaced(s, e, i, b, t.runs)
                 /\ \E kinds \in SUBSET IssueKinds :
                       /\ AddEntry(b, e).issues \in SUBSET kinds
                       /\ kinds \cap Conflicts \in SUBSET AddEntry(b, e).issues
                       /\ t.issues = Raised(s.issues, Len(s.input) + 1, kinds)
    BY <1>1
  <1>3. PICK kinds \in SUBSET IssueKinds :
            /\ AddEntry(b, e).issues \in SUBSET kinds
            /\ kinds \cap Conflicts \in SUBSET AddEntry(b, e).issues
            /\ t.issues = Raised(s.issues, Len(s.input) + 1, kinds)
    BY <1>2
  <1> DEFINE a == AddEntry(b, e).run
             w == AddEntry(b, e).issues
             h == b.headers + s.headers
  <1>4. IsRun(b) /\ i \in 1..(Len(s.runs) + 1) /\ t.runs[i] = WithHeaders(a, h)
    BY <1>2 DEF EntryPlaced
  <1>5. EntryAdded(b, e, a, w) /\ w \in SUBSET Conflicts
    <2>1. EntryAdded(b, e, a, w)
      BY <1>4, AddEntryIs
    <2> QED  BY <2>1 DEF EntryAdded, Conflicts
  <1>6. h \in Nat /\ i \in Nat
    <2>1. s.headers \in Nat /\ Len(s.runs) \in Nat
      BY LenProperties DEF Sound, IsLoader, IsSeq
    <2> QED  BY <1>4, <2>1 DEF IsRun
  <1>7. EntryLine(e, i) \in InputSet
    BY <1>6 DEF EntryLine, InputSet
  <1>8. (e.run = Legacy => t.legacy = i) /\ (e.run # Legacy => t.legacy = 0)
    BY <1>1
  <1>9. EntryTaken(s, e, i, b, a, h, w, kinds, t)
    <2> HIDE DEF a, w, h
    <2>1. a = AddEntry(b, e).run /\ w = AddEntry(b, e).issues /\ h = b.headers + s.headers
      BY DEF a, w, h
    <2>2. w \in SUBSET kinds /\ kinds \cap Conflicts \in SUBSET w
      BY <1>3, <2>1
    <2> QED  BY <1>1, <1>2, <1>3, <1>4, <1>5, <1>6, <1>7, <1>8, <2>1, <2>2 DEF EntryTaken
  <1> HIDE DEF a, w, h
  <1> QED  BY <1>9 DEF t

(* The parts every step below uses.                                         *)
LEMMA TakenIs ==
    ASSUME NEW s, Sound(s), NEW e \in Entries,
           NEW i, NEW b, NEW a, NEW h, NEW w, NEW kinds, NEW t,
           EntryTaken(s, e, i, b, a, h, w, kinds, t)
    PROVE  /\ IsSeq(s.runs) /\ IsSeq(t.runs) /\ Len(s.runs) \in Nat /\ Len(t.runs) \in Nat
           /\ i \in 1..Len(t.runs) /\ i \in Nat /\ b.id = e.run /\ IsRun(b) /\ IsRun(a)
           /\ a.id = e.run /\ t.runs[i].id = e.run
           /\ (i \in 1..Len(s.runs) /\ Len(t.runs) = Len(s.runs) /\ b = s.runs[i])
              \/ (i = Len(s.runs) + 1 /\ Len(t.runs) = i /\ b = NewRun(e.run))
           /\ \A j \in 1..Len(t.runs) : j # i => j \in 1..Len(s.runs)
           /\ \A j \in 1..Len(t.runs) : j # i => t.runs[j] = s.runs[j]
           /\ \A j \in 1..Len(s.runs) : j \in 1..Len(t.runs)
           /\ s.input \in Seq(InputSet) /\ Len(s.input) \in Nat
           /\ Len(t.input) = Len(s.input) + 1
           /\ t.input[Len(s.input) + 1] = EntryLine(e, i)
           /\ \A n \in 1..Len(s.input) : t.input[n] = s.input[n]
  <1>1. IsLoader(s)
    BY DEF Sound
  <1>2. IsSeq(s.runs) /\ Len(s.runs) \in Nat /\ s.input \in Seq(InputSet) /\ Len(s.input) \in Nat
    BY <1>1, LenProperties DEF IsLoader, IsSeq
  <1>3. EntryPlaced(s, e, i, b, t.runs) /\ EntryAdded(b, e, a, w) /\ h \in Nat
        /\ t.runs[i] = WithHeaders(a, h) /\ t.input = Append(s.input, EntryLine(e, i))
        /\ EntryLine(e, i) \in InputSet
    BY DEF EntryTaken
  <1>4. IsSeq(t.runs) /\ Len(t.runs) \in Nat /\ b.id = e.run /\ IsRun(b)
        /\ i \in 1..(Len(s.runs) + 1)
    BY <1>3, LenProperties DEF EntryPlaced, IsSeq
  <1>5. (i \in 1..Len(s.runs) /\ Len(t.runs) = Len(s.runs) /\ b = s.runs[i])
        \/ (i = Len(s.runs) + 1 /\ Len(t.runs) = i /\ b = NewRun(e.run))
    <2>1. i \in 1..Len(s.runs) \/ i = Len(s.runs) + 1
      BY <1>2, <1>4
    <2> QED  BY <1>3, <2>1 DEF EntryPlaced
  <1>6. i \in 1..Len(t.runs) /\ i \in Nat
    BY <1>2, <1>4, <1>5
  <1>7. \A j \in 1..Len(t.runs) : j # i => j \in 1..Len(s.runs)
    BY <1>2, <1>5
  <1>8. \A j \in 1..Len(t.runs) : j # i => t.runs[j] = s.runs[j]
    BY <1>3, <1>7 DEF EntryPlaced
  <1>9. \A j \in 1..Len(s.runs) : j \in 1..Len(t.runs)
    BY <1>2, <1>5
  <1>10. IsRun(a) /\ a.id = e.run
    BY <1>3, <1>4 DEF EntryAdded
  <1>11. t.runs[i].id = e.run
    BY <1>3, <1>10, WithHeadersIs
  <1>12. /\ Len(t.input) = Len(s.input) + 1
         /\ t.input[Len(s.input) + 1] = EntryLine(e, i)
         /\ \A n \in 1..Len(s.input) : t.input[n] = s.input[n]
    BY <1>2, <1>3, AppendProperties
  <1> QED  BY <1>2, <1>4, <1>5, <1>6, <1>7, <1>8, <1>9, <1>10, <1>11, <1>12

LEMMA EntryLoads ==
    ASSUME NEW s, Sound(s), NEW e \in Entries,
           NEW i, NEW b, NEW a, NEW h, NEW w, NEW kinds, NEW t,
           EntryTaken(s, e, i, b, a, h, w, kinds, t)
    PROVE  IsLoader(t)
  <1>1. t \in [runs : {t.runs}, legacy : {t.legacy}, headers : {t.headers}, issues : {t.issues},
               input : {t.input}]
    BY DEF EntryTaken
  <1>2. IsSeq(t.runs) /\ i \in 1..Len(t.runs) /\ s.input \in Seq(InputSet) /\ Len(s.input) \in Nat
        /\ Len(t.input) = Len(s.input) + 1 /\ Len(t.runs) \in Nat
    BY TakenIs
  <1>3. t.input \in Seq(InputSet)
    <2>1. t.input = Append(s.input, EntryLine(e, i)) /\ EntryLine(e, i) \in InputSet
      BY DEF EntryTaken
    <2> QED  BY <1>2, <2>1, AppendProperties
  <1>4. t.legacy \in 0..Len(t.runs)
    <2>1. t.legacy = i \/ t.legacy = 0
      BY DEF EntryTaken
    <2> QED  BY <1>2, <2>1
  <1>5. t.headers \in 0..Len(t.input)
    <2>1. t.headers = 0
      BY DEF EntryTaken
    <2> QED  BY <1>2, <2>1
  <1>6. IssuesUpTo(t.issues, Len(t.input))
    <2>1. IssuesUpTo(s.issues, Len(s.input))
      BY DEF Sound, IsLoader
    <2>2. kinds \in SUBSET IssueKinds /\ t.issues = Raised(s.issues, Len(s.input) + 1, kinds)
      BY DEF EntryTaken
    <2> QED  BY <1>2, <2>1, <2>2, IssuesGrow
  <1> QED  BY <1>1, <1>2, <1>3, <1>4, <1>5, <1>6 DEF IsLoader

LEMMA EntryRunsSay ==
    ASSUME NEW s, Sound(s), NEW e \in Entries,
           NEW i, NEW b, NEW a, NEW h, NEW w, NEW kinds, NEW t,
           EntryTaken(s, e, i, b, a, h, w, kinds, t)
    PROVE  RunsSay(t)
  <1> DEFINE x == EntryLine(e, i)
             N == Len(s.input) + 1
  <1>1. s.input \in Seq(InputSet) /\ x \in InputSet /\ w \in SUBSET kinds /\ w \in SUBSET Conflicts
        /\ kinds \cap Conflicts \in SUBSET w /\ IssuesUpTo(s.issues, Len(s.input))
        /\ t.input = Append(s.input, x) /\ t.issues = Raised(s.issues, N, kinds)
    <2>1. s.input \in Seq(InputSet)
      BY TakenIs
    <2>2. IssuesUpTo(s.issues, Len(s.input))
      BY DEF Sound, IsLoader
    <2> QED  BY <2>1, <2>2 DEF EntryTaken
  <1>2. x.run = i /\ x.entry = e
    BY DEF EntryLine
  <1>3. RunsSay(s)
    BY DEF Sound
  <1> HIDE DEF x
  <1> SUFFICES ASSUME NEW j \in 1..Len(t.runs)
               PROVE  RunSays(t.runs[j], View(t.input, j), Reports(t.input, t.issues, j))
    BY DEF RunsSay
  <1>4. j \in Nat
    OBVIOUS
  <1>5. /\ x.run # j => View(t.input, j) = View(s.input, j)
        /\ x.run = j => Extends(View(t.input, j), View(s.input, j), N, x.entry)
    BY <1>1, <1>4, ViewsGrow
  <1>6. /\ x.run # j => Reports(t.input, t.issues, j) = Reports(s.input, s.issues, j)
        /\ x.run = j => Adds(Reports(t.input, t.issues, j), Reports(s.input, s.issues, j), N, w)
    <2> DEFINE in == s.input
               raised == s.issues
               Q == Reports(Append(in, x), Raised(raised, Len(in) + 1, kinds), j)
               R == Reports(in, raised, j)
    <2>1. Q = Reports(t.input, t.issues, j) /\ R = Reports(s.input, s.issues, j)
      BY <1>1
    <2>2. in \in Seq(InputSet) /\ x \in InputSet /\ w \in SUBSET kinds /\ w \in SUBSET Conflicts
          /\ kinds \cap Conflicts \in SUBSET w /\ IssuesUpTo(raised, Len(in))
      BY <1>1
    <2> HIDE DEF in, raised
    <2>3. (x.run # j => Q = R) /\ (x.run = j => Adds(Q, R, Len(in) + 1, w))
      BY <1>4, <2>2, ReportsGrow
    <2> HIDE DEF Q, R
    <2> QED  BY <2>1, <2>3 DEF in
  <1>7. CASE j # i
    <2>1. j \in 1..Len(s.runs) /\ t.runs[j] = s.runs[j]
      BY <1>7, TakenIs
    <2>2. RunSays(s.runs[j], View(s.input, j), Reports(s.input, s.issues, j))
      BY <1>3, <2>1 DEF RunsSay
    <2> QED  BY <1>2, <1>5, <1>6, <1>7, <2>1, <2>2
  <1>8. CASE j = i
    <2>1. RunSays(b, View(s.input, i), Reports(s.input, s.issues, i))
      <3>1. CASE i \in 1..Len(s.runs) /\ b = s.runs[i]
        BY <1>3, <3>1 DEF RunsSay
      <3>2. CASE i = Len(s.runs) + 1 /\ b = NewRun(e.run)
        <4>1. LinesPlaced(s) /\ Len(s.runs) \in Nat
          BY TakenIs DEF Sound
        <4>2. i # 0 /\ i \notin 1..Len(s.runs)
          BY <3>2, <4>1
        <4>3. \A n \in 1..Len(s.input) : s.input[n].run # i
          BY <4>1, <4>2 DEF LinesPlaced
        <4>4. DOMAIN View(s.input, i) = {} /\ Reports(s.input, s.issues, i) \in SUBSET {}
          BY <4>3 DEF View, Reports
        <4> QED  BY <3>2, <4>4, NewRunSays
      <3> QED  BY <3>1, <3>2, TakenIs
    <2>2. EntryAdded(b, e, a, w) /\ h \in Nat /\ t.runs[i] = WithHeaders(a, h)
      BY DEF EntryTaken
    <2>3. Extends(View(t.input, i), View(s.input, i), N, e)
      BY <1>2, <1>5, <1>8
    <2>4. Adds(Reports(t.input, t.issues, i), Reports(s.input, s.issues, i), N, w)
      BY <1>2, <1>6, <1>8
    <2> DEFINE W == View(t.input, i)
               V == View(s.input, i)
               Q == Reports(t.input, t.issues, i)
               R == Reports(s.input, s.issues, i)
    <2> HIDE DEF W, V, Q, R
    <2>5. RunSays(a, W, Q)
      <3>1. RunSays(b, V, R) /\ Extends(W, V, N, e) /\ Adds(Q, R, N, w)
        BY <2>1, <2>3, <2>4 DEF W, V, Q, R
      <3> HIDE DEF N
      <3> QED  BY <2>2, <3>1, EntrySays
    <2>6. RunSays(WithHeaders(a, h), W, Q)
      BY <2>2, <2>5, HeadersSay
    <2> QED  BY <1>8, <2>2, <2>6 DEF W, Q
  <1> QED  BY <1>7, <1>8

LEMMA EntryLinesPlaced ==
    ASSUME NEW s, Sound(s), NEW e \in Entries,
           NEW i, NEW b, NEW a, NEW h, NEW w, NEW kinds, NEW t,
           EntryTaken(s, e, i, b, a, h, w, kinds, t)
    PROVE  LinesPlaced(t) /\ RunsOnce(t)
  <1>1. LinesPlaced(s) /\ RunsOnce(s)
    BY DEF Sound
  <1>2. i \in 1..Len(t.runs) /\ t.runs[i].id = e.run
        /\ (\A j \in 1..Len(t.runs) : j # i => j \in 1..Len(s.runs) /\ t.runs[j] = s.runs[j])
        /\ (\A j \in 1..Len(s.runs) : j \in 1..Len(t.runs))
    BY TakenIs
  <1>3. i \in 1..Len(s.runs) => s.runs[i].id = e.run
    BY TakenIs DEF EntryPlaced
  <1>4. \A j \in 1..Len(s.runs) : t.runs[j].id = s.runs[j].id
    BY <1>2, <1>3
  <1>5. LinesPlaced(t)
    <2> SUFFICES ASSUME NEW n \in 1..Len(t.input), t.input[n].run # 0
                 PROVE  /\ t.input[n].run \in 1..Len(t.runs) /\ t.input[n].entry \in Entries
                        /\ t.runs[t.input[n].run].id = t.input[n].entry.run
      BY DEF LinesPlaced
    <2>1. n \in 1..Len(s.input) \/ n = Len(s.input) + 1
      BY TakenIs
    <2>2. CASE n \in 1..Len(s.input)
      <3>1. t.input[n] = s.input[n]
        BY <2>2, TakenIs
      <3>2. /\ s.input[n].run \in 1..Len(s.runs) /\ s.input[n].entry \in Entries
            /\ s.runs[s.input[n].run].id = s.input[n].entry.run
        BY <1>1, <2>2, <3>1 DEF LinesPlaced
      <3> QED  BY <1>2, <1>4, <3>1, <3>2
    <2>3. CASE n = Len(s.input) + 1
      <3>1. t.input[n] = EntryLine(e, i)
        BY <2>3, TakenIs
      <3>2. t.input[n].run = i /\ t.input[n].entry = e
        BY <3>1 DEF EntryLine
      <3> QED  BY <1>2, <3>2
    <2> QED  BY <2>1, <2>2, <2>3
  <1>6. RunsOnce(t)
    <2>1. e.run # Legacy /\ i \notin 1..Len(s.runs) => \A j \in 1..Len(s.runs) : s.runs[j].id # e.run
      <3>1. e.run # Legacy /\ i = Len(s.runs) + 1 => RunIndex(s.runs, e.run) = {}
        BY DEF EntryTaken, EntryPlaced
      <3>2. i \in 1..Len(s.runs) \/ i = Len(s.runs) + 1
        BY TakenIs
      <3> QED  BY <3>1, <3>2 DEF RunIndex
    <2>2. \A j \in 1..Len(t.runs) : j # i /\ t.runs[j].id = e.run => e.run = Legacy
      BY <1>1, <1>2, <1>3, <2>1 DEF RunsOnce
    <2> SUFFICES ASSUME NEW j \in 1..Len(t.runs), NEW k \in 1..Len(t.runs),
                        t.runs[j].id = t.runs[k].id, t.runs[j].id # Legacy
                 PROVE  j = k
      BY DEF RunsOnce
    <2>3. CASE j = i \/ k = i
      BY <1>2, <2>2, <2>3
    <2>4. CASE j # i /\ k # i
      BY <1>1, <1>2, <2>4 DEF RunsOnce
    <2> QED  BY <2>3, <2>4
  <1> QED  BY <1>5, <1>6

LEMMA EntryRunsAlone ==
    ASSUME NEW s, Sound(s), NEW e \in Entries,
           NEW i, NEW b, NEW a, NEW h, NEW w, NEW kinds, NEW t,
           EntryTaken(s, e, i, b, a, h, w, kinds, t)
    PROVE  RunsAlone(t)
  <1> DEFINE x == EntryLine(e, i)
  <1>1. RunsAlone(s) /\ RunsOnce(t)
    BY EntryLinesPlaced DEF Sound
  <1>2. i \in 1..Len(t.runs) /\ i \in Nat /\ i # 0 /\ t.runs[i].id = e.run
        /\ (\A j \in 1..Len(t.runs) : j # i => j \in 1..Len(s.runs) /\ t.runs[j] = s.runs[j])
        /\ (\A j \in 1..Len(s.runs) : j \in 1..Len(t.runs))
    BY TakenIs
  <1>3. \A id : /\ id # e.run => Alone(id, t.input) = Alone(id, s.input)
                /\ id = e.run => Alone(id, t.input) = AddEntry(Alone(id, s.input), e).run
    <2> SUFFICES ASSUME NEW id
                 PROVE  /\ id # e.run => Alone(id, t.input) = Alone(id, s.input)
                        /\ id = e.run => Alone(id, t.input) = AddEntry(Alone(id, s.input), e).run
      OBVIOUS
    <2>1. s.input \in Seq(InputSet) /\ x \in InputSet /\ t.input = Append(s.input, x)
      <3>1. s.input \in Seq(InputSet)
        BY TakenIs
      <3> QED  BY <3>1 DEF EntryTaken
    <2>2. x.run = i /\ x.entry = e
      BY DEF EntryLine
    <2> HIDE DEF x
    <2>3. Alone(id, t.input) = Take(id, Alone(id, s.input), x)
      BY <2>1, AloneStep
    <2> QED  BY <1>2, <2>2, <2>3 DEF Take
  <1>4. ASSUME NEW j \in 1..Len(t.runs), t.runs[j].id # Legacy
        PROVE  WithHeaders(t.runs[j], 0) = Alone(t.runs[j].id, t.input)
    <2>1. CASE j # i
      <3>1. t.runs[j] = s.runs[j] /\ j \in 1..Len(s.runs)
        BY <1>2, <2>1
      <3>2. t.runs[j].id # e.run
        BY <1>1, <1>2, <1>4, <2>1 DEF RunsOnce
      <3>3. WithHeaders(s.runs[j], 0) = Alone(s.runs[j].id, s.input)
        BY <1>1, <1>4, <3>1 DEF RunsAlone
      <3> QED  BY <1>3, <3>1, <3>2, <3>3
    <2>2. CASE j = i
      <3>1. e.run # Legacy
        BY <1>2, <1>4, <2>2
      <3>2. a = AddEntry(b, e).run /\ h \in Nat /\ t.runs[i] = WithHeaders(a, h) /\ 0 \in Nat
        BY DEF EntryTaken
      <3>3. IsRun(a) /\ IsRun(b)
        BY TakenIs
      <3>4. WithHeaders(t.runs[i], 0) = WithHeaders(a, 0)
        BY <3>2, <3>3, WithHeadersIs
      <3>5. AddEntry(WithHeaders(b, 0), e).run = WithHeaders(a, 0)
        BY <3>2, <3>3, HeadersApart
      <3>6. WithHeaders(b, 0) = Alone(e.run, s.input)
        <4>1. CASE i \in 1..Len(s.runs) /\ b = s.runs[i]
          <5>1. b.id = e.run
            BY TakenIs
          <5> QED  BY <1>1, <3>1, <4>1, <5>1 DEF RunsAlone
        <4>2. CASE i = Len(s.runs) + 1 /\ b = NewRun(e.run)
          <5>1. RunIndex(s.runs, e.run) = {}
            BY <3>1, <4>2 DEF EntryTaken, EntryPlaced
          <5>2. Alone(e.run, s.input) = NewRun(e.run)
            BY <1>1, <3>1, <5>1 DEF RunsAlone
          <5>3. WithHeaders(b, 0) = b
            <6>1. b.headers = 0
              BY <4>2, NewRunSays
            <6> QED  BY <3>2, <3>3, <6>1, WithHeadersIs, SameParts
          <5> QED  BY <4>2, <5>2, <5>3
        <4> QED  BY <4>1, <4>2, TakenIs
      <3> QED  BY <1>2, <1>3, <2>2, <3>4, <3>5, <3>6
    <2> QED  BY <2>1, <2>2
  <1>5. ASSUME NEW id, id # Legacy, RunIndex(t.runs, id) = {}
        PROVE  Alone(id, t.input) = NewRun(id)
    <2>1. id # e.run
      BY <1>2, <1>5 DEF RunIndex
    <2>2. RunIndex(s.runs, id) = {}
      <3> SUFFICES ASSUME NEW j \in 1..Len(s.runs), s.runs[j].id = id PROVE FALSE
        BY DEF RunIndex
      <3>1. j \in 1..Len(t.runs) /\ t.runs[j].id # id
        BY <1>2, <1>5 DEF RunIndex
      <3>2. j = i
        BY <1>2, <3>1
      <3>3. b = s.runs[i] /\ b.id = e.run
        BY <3>2, TakenIs DEF EntryPlaced
      <3> QED  BY <2>1, <3>2, <3>3
    <2> QED  BY <1>1, <1>3, <1>5, <2>1, <2>2 DEF RunsAlone
  <1> QED  BY <1>4, <1>5 DEF RunsAlone

LEMMA OneRecordMore ==
    ASSUME NEW run, NEW e, NEW a, NEW w, EntryAdded(run, e, a, w),
           RecordsOnce(run), e.record # None => RecordIndex(run, e.record.id) = {},
           e.record # None => e.record \in RecordSet
    PROVE  RecordsOnce(a)
  <1>1. CASE a.records = run.records
    BY <1>1 DEF RecordsOnce
  <1>2. CASE e.record # None /\ a.records = Append(run.records, e.record)
    <2> DEFINE l == Len(run.records)
               r == e.record
    <2>1. run.records \in Seq(RecordSet)
      BY DEF EntryAdded, IsRun
    <2>2. /\ l \in Nat /\ Len(a.records) = l + 1 /\ a.records[l + 1] = r
          /\ \A j \in 1..l : a.records[j] = run.records[j]
      BY <1>2, <2>1, AppendProperties, LenProperties
    <2>3. \A j \in 1..l : run.records[j].id # r.id
      BY <1>2 DEF RecordIndex
    <2>4. \A j \in 1..(l + 1) : j \in 1..l \/ j = l + 1
      BY <2>2
    <2> HIDE DEF r
    <2> QED  BY <2>2, <2>3, <2>4 DEF RecordsOnce
  <1>3. a.records = run.records \/ (e.record # None /\ a.records = Append(run.records, e.record))
    BY DEF EntryAdded, RecordsBecome
  <1> QED  BY <1>1, <1>2, <1>3

LEMMA EntryLegacyOnce ==
    ASSUME NEW s, Sound(s), NEW e \in Entries,
           NEW i, NEW b, NEW a, NEW h, NEW w, NEW kinds, NEW t,
           EntryTaken(s, e, i, b, a, h, w, kinds, t)
    PROVE  LegacyOnce(t)
  <1>1. LegacyOnce(s)
    BY DEF Sound
  <1>2. t.runs[i].id = e.run
        /\ (\A j \in 1..Len(t.runs) : j # i => j \in 1..Len(s.runs) /\ t.runs[j] = s.runs[j])
    BY TakenIs
  <1>3. t.legacy # 0 => t.runs[t.legacy].id = Legacy
    BY <1>2 DEF EntryTaken
  <1>4. ASSUME e.run = Legacy PROVE RecordsOnce(t.runs[i])
    <2>1. RecordsOnce(b) /\ (e.record # None => RecordIndex(b, e.record.id) = {})
      <3>1. CASE i \in 1..Len(s.runs) /\ b = s.runs[i]
        <4>1. b.id = Legacy
          BY <1>4, TakenIs
        <4>2. e.record # None => RecordIndex(s.runs[i], e.record.id) = {}
          BY <1>4, <3>1 DEF EntryTaken, EntryPlaced
        <4> QED  BY <1>1, <3>1, <4>1, <4>2 DEF LegacyOnce
      <3>2. CASE b = NewRun(e.run)
        <4>1. b.records = <<>> /\ Len(<<>>) = 0
          BY <3>2, NewRunSays
        <4> QED  BY <4>1 DEF RecordsOnce, RecordIndex
      <3> QED  BY <3>1, <3>2, TakenIs
    <2>2. EntryAdded(b, e, a, w) /\ h \in Nat /\ t.runs[i] = WithHeaders(a, h)
      BY DEF EntryTaken
    <2>3. RecordsOnce(a)
      BY <2>1, <2>2, EntryParts, OneRecordMore
    <2>4. t.runs[i].records = a.records
      BY <2>2, WithHeadersIs DEF EntryAdded
    <2> QED  BY <2>3, <2>4 DEF RecordsOnce
  <1>5. \A j \in 1..Len(t.runs) : t.runs[j].id = Legacy => RecordsOnce(t.runs[j])
    <2> SUFFICES ASSUME NEW j \in 1..Len(t.runs), t.runs[j].id = Legacy
                 PROVE  RecordsOnce(t.runs[j])
      OBVIOUS
    <2>1. CASE j # i
      BY <1>1, <1>2, <2>1 DEF LegacyOnce
    <2>2. CASE j = i
      BY <1>2, <1>4, <2>2
    <2> QED  BY <2>1, <2>2
  <1> QED  BY <1>3, <1>5 DEF LegacyOnce

LEMMA EntryHeadersCounted ==
    ASSUME NEW s, Sound(s), NEW e \in Entries,
           NEW i, NEW b, NEW a, NEW h, NEW w, NEW kinds, NEW t,
           EntryTaken(s, e, i, b, a, h, w, kinds, t)
    PROVE  HeadersCounted(t)
  <1> DEFINE n == Len(s.runs)
             d == s.headers
  <1>1. Cardinality(HeaderLines(s.input)) = HeadersIn(s.runs) + d /\ d \in Nat
    BY DEF Sound, HeadersCounted, IsLoader
  <1>2. Cardinality(HeaderLines(t.input)) = Cardinality(HeaderLines(s.input))
    <2>1. s.input \in Seq(InputSet)
      BY TakenIs
    <2>2. t.input = Append(s.input, EntryLine(e, i)) /\ EntryLine(e, i) \in InputSet
      BY DEF EntryTaken
    <2>3. EntryLine(e, i).what # "header"
      BY DEF EntryLine
    <2> QED  BY <2>1, <2>2, <2>3, HeaderLinesGrow
  <1>3. \A j \in 1..n : s.runs[j].headers \in Nat
    BY DEF Sound, RunsSay, RunSays, IsRun
  <1>4. n \in Nat /\ IsSeq(s.runs) /\ i \in Nat
    BY TakenIs
  <1>5. t.runs[i].headers = b.headers + d
    <2>1. h = b.headers + d /\ h \in Nat /\ t.runs[i] = WithHeaders(a, h) /\ IsRun(a)
      BY TakenIs DEF EntryTaken, EntryAdded
    <2> QED  BY <2>1, WithHeadersIs
  <1>6. \A j \in 1..Len(t.runs) : j # i => j \in 1..n /\ t.runs[j] = s.runs[j]
    BY TakenIs
  <1> HIDE DEF n, d
  <1>7. HeadersIn(s.runs) \in Nat /\ HeadersIn(t.runs) = HeadersIn(s.runs) + d
    <2>1. CASE i \in 1..n /\ Len(t.runs) = n /\ b = s.runs[i]
      <3> DEFINE rs == s.runs
                 qs == t.runs
      <3>1. OneHasMore(rs, qs, n, i, d)
        BY <1>3, <1>5, <1>6, <2>1 DEF OneHasMore
      <3>2. Len(rs) = n /\ Len(qs) = n
        BY <2>1 DEF n
      <3> HIDE DEF rs, qs
      <3>3. HeadersIn(rs) \in Nat /\ HeadersIn(qs) = HeadersIn(rs) + d
        BY <1>1, <1>4, <2>1, <3>1, <3>2, HeadersMore
      <3> QED  BY <3>3 DEF rs, qs
    <2>2. CASE i = n + 1 /\ Len(t.runs) = i /\ b = NewRun(e.run)
      <3> DEFINE S  == {s.runs[j] : j \in 1..Len(s.runs)} \cup {b}
                 rs == s.runs
                 qs == t.runs
                 ps == Append(s.runs, b)
      <3>1. b.headers = 0
        BY <2>2, NewRunSays
      <3>2. rs \in Seq(S)
        <4>1. rs \in Seq({s.runs[j] : j \in 1..Len(s.runs)})
          BY <1>4 DEF IsSeq
        <4> QED  BY <4>1, SeqMonotonic
      <3>3. b \in S /\ \A j \in 1..Len(rs) : rs[j].headers \in Nat
        BY <1>3 DEF n
      <3> HIDE DEF S, rs
      <3>4. HeadersIn(rs) \in Nat /\ HeadersIn(Append(rs, b)) = HeadersIn(rs) + b.headers
        BY <3>1, <3>2, <3>3, HeadersAppend
      <3>5. HeadersIn(ps) = HeadersIn(rs)
        BY <3>1, <3>4 DEF rs
      <3>6. /\ Len(ps) = n + 1 /\ ps[n + 1] = b
            /\ \A j \in 1..n : ps[j] = s.runs[j]
        BY <1>4, SeqGrows DEF n
      <3>7. OneHasMore(ps, qs, n + 1, i, d)
        <4>1. \A j \in 1..(n + 1) : j # i => j \in 1..n
          BY <1>4, <2>2
        <4>2. \A j \in 1..(n + 1) : ps[j].headers \in Nat
          BY <1>3, <2>2, <3>1, <3>6, <4>1
        <4>3. \A j \in 1..(n + 1) : j # i => qs[j].headers = ps[j].headers
          BY <1>6, <2>2, <3>6, <4>1
        <4>4. qs[i].headers = ps[i].headers + d
          BY <1>5, <2>2, <3>6
        <4> QED  BY <4>2, <4>3, <4>4 DEF OneHasMore
      <3>8. Len(ps) = n + 1 /\ Len(qs) = n + 1 /\ n + 1 \in Nat /\ i \in 1..(n + 1)
        BY <1>4, <2>2, <3>6
      <3> HIDE DEF ps, qs
      <3>9. HeadersIn(qs) = HeadersIn(ps) + d
        BY <1>1, <1>4, <3>7, <3>8, HeadersMore
      <3> QED  BY <3>4, <3>5, <3>9 DEF qs, rs
    <2> QED  BY <2>1, <2>2, TakenIs DEF n
  <1>8. t.headers = 0
    BY DEF EntryTaken
  <1>9. Cardinality(HeaderLines(t.input)) = HeadersIn(t.runs) + t.headers
    BY <1>1, <1>2, <1>7, <1>8
  <1> QED  BY <1>9 DEF HeadersCounted

LEMMA EntrySound ==
    ASSUME NEW s, Sound(s), NEW e \in Entries
    PROVE  Sound(AfterEntry(s, e))
  <1> DEFINE t == AfterEntry(s, e)
  <1>1. PICK i, b, a, h, w, kinds : EntryTaken(s, e, i, b, a, h, w, kinds, t)
    BY EntryIsTaken
  <1> HIDE DEF t
  <1>2. IsLoader(t)
    BY <1>1, EntryLoads
  <1>3. RunsSay(t)
    BY <1>1, EntryRunsSay
  <1>4. LinesPlaced(t) /\ RunsOnce(t)
    BY <1>1, EntryLinesPlaced
  <1>5. RunsAlone(t)
    BY <1>1, EntryRunsAlone
  <1>6. LegacyOnce(t)
    BY <1>1, EntryLegacyOnce
  <1>7. HeadersCounted(t)
    BY <1>1, EntryHeadersCounted
  <1>8. Sound(t)
    BY <1>2, <1>3, <1>4, <1>5, <1>6, <1>7 DEF Sound
  <1> QED  BY <1>8 DEF t

-----------------------------------------------------------------------------
(* The end of the input                                                     *)

(* What the repair of parent links leaves alone.                            *)
SameScope(a, b) == a.id = b.id /\ a.exited = b.exited /\ a.message = b.message
Relinked(after, scopes) ==
    /\ after \in Seq(ScopeSet) /\ Len(after) = Len(scopes)
    /\ \A k \in 1..Len(scopes) : SameScope(after[k], scopes[k])

LEMMA DetachIs ==
    ASSUME NEW scopes \in Seq(ScopeSet), NEW id
    PROVE  Relinked(Detach(scopes, id), scopes)
  <1> DEFINE d == Detach(scopes, id)
             l == Len(scopes)
             One(x) == IF x.id = id THEN [x EXCEPT !.parent = None] ELSE x
  <1>1. l \in Nat /\ \A k \in 1..l : scopes[k] \in ScopeSet
    BY LenProperties
  <1>2. d = [k \in 1..l |-> One(scopes[k])]
    BY DEF Detach
  <1>3. ASSUME NEW x \in ScopeSet PROVE One(x) \in ScopeSet /\ SameScope(One(x), x)
    <2>1. CASE x.id = id
      <3>1. One(x) = [x EXCEPT !.parent = None]
        BY <2>1
      <3> QED  BY <3>1 DEF ScopeSet, SameScope
    <2>2. CASE x.id # id
      BY <2>2 DEF SameScope
    <2> QED  BY <2>1, <2>2
  <1> HIDE DEF One, d
  <1>4. \A k \in 1..l : d[k] = One(scopes[k])
    BY <1>2
  <1>5. d \in [1..l -> ScopeSet]
    BY <1>1, <1>2, <1>3
  <1>6. d \in Seq(ScopeSet) /\ Len(d) = l
    <2>1. d \in Seq(ScopeSet)
      BY <1>1, <1>5, SeqDef
    <2>2. DOMAIN d = 1..l
      BY <1>5
    <2> QED  BY <1>1, <2>1, <2>2, LenProperties
  <1>7. \A k \in 1..l : SameScope(d[k], scopes[k])
    BY <1>1, <1>3, <1>4
  <1> QED  BY <1>6, <1>7 DEF Relinked, d

LEMMA RelinkedAgain ==
    ASSUME NEW a, NEW b, NEW c, Relinked(a, b), Relinked(b, c)
    PROVE  Relinked(a, c)
  BY DEF Relinked, SameScope

LEMMA WalkUpIs ==
    ASSUME NEW s, s.scopes \in Seq(ScopeSet), NEW start
    PROVE  Relinked(WalkUp(s, start).scopes, s.scopes)
  <1>1. Relinked(s.scopes, s.scopes)
    BY DEF Relinked, SameScope
  <1>2. WalkUp(s, start).scopes = s.scopes
        \/ \E id : WalkUp(s, start).scopes = Detach(s.scopes, id)
    BY DEF WalkUp
  <1> QED  BY <1>1, <1>2, DetachIs

(* The scopes after each of the walks.                                      *)
Unwalked(scopes) == [scopes |-> scopes, done |-> {}]
RepairTurns(scopes, n, turn) ==
    turn = [k \in 0..n |-> IF k = 0 THEN Unwalked(scopes) ELSE WalkUp(turn[k - 1], scopes[k].id)]

LEMMA RepairTurnsExist ==
    ASSUME NEW scopes, NEW n \in Nat
    PROVE  \E turn : RepairTurns(scopes, n, turn)
  <1> DEFINE T == {k \in Nat : \E turn : RepairTurns(scopes, k, turn)}
  <1>1. 0 \in T
    <2> DEFINE f == [k \in 0..0 |-> Unwalked(scopes)]
    <2>1. RepairTurns(scopes, 0, f)
      BY DEF RepairTurns
    <2> QED  BY <2>1
  <1>2. ASSUME NEW k \in T PROVE k + 1 \in T
    <2>1. PICK turn : RepairTurns(scopes, k, turn)
      OBVIOUS
    <2> DEFINE f == [j \in 0..(k + 1) |-> IF j <= k THEN turn[j] ELSE WalkUp(turn[k], scopes[k + 1].id)]
    <2>2. k \in Nat /\ turn[0] = Unwalked(scopes) /\ \A j \in 1..k : turn[j] = WalkUp(turn[j - 1], scopes[j].id)
      BY <2>1 DEF RepairTurns
    <2>3. ASSUME NEW j \in 0..(k + 1)
          PROVE  f[j] = IF j = 0 THEN Unwalked(scopes) ELSE WalkUp(f[j - 1], scopes[j].id)
      <3>1. CASE j = 0
        BY <2>2, <3>1
      <3>2. CASE j \in 1..k
        <4>1. f[j] = turn[j] /\ f[j - 1] = turn[j - 1]
          BY <2>2, <3>2
        <4> QED  BY <2>2, <3>2, <4>1
      <3>3. CASE j = k + 1
        <4>1. j \in 0..(k + 1) /\ ~ (j <= k) /\ j - 1 = k /\ k \in 0..(k + 1) /\ k <= k /\ j # 0
          BY <2>2, <3>3
        <4>2. f[j] = WalkUp(turn[k], scopes[k + 1].id) /\ f[j - 1] = turn[k]
          BY <4>1
        <4> QED  BY <3>3, <4>1, <4>2
      <3> QED  BY <2>2, <3>1, <3>2, <3>3
    <2>4. f = [j \in 0..(k + 1) |-> f[j]]
      OBVIOUS
    <2> HIDE DEF f
    <2>5. RepairTurns(scopes, k + 1, f)
      BY <2>3, <2>4 DEF RepairTurns
    <2> QED  BY <2>2, <2>5
  <1>3. n \in T
    <2> HIDE DEF T
    <2>1. T \in SUBSET Nat
      BY DEF T
    <2> QED  BY <1>1, <1>2, <2>1, SetInduction
  <1> QED  BY <1>3

LEMMA RepairIs ==
    ASSUME NEW scopes \in Seq(ScopeSet)
    PROVE  Relinked(Repair(scopes), scopes)
  <1> DEFINE l == Len(scopes)
  <1>1. l \in Nat
    BY LenProperties
  <1>2. PICK g : RepairTurns(scopes, l, g)
    BY <1>1, RepairTurnsExist
  <1> DEFINE turn == CHOOSE f : f = [k \in 0..l |->
                        IF k = 0 THEN Unwalked(scopes)
                        ELSE WalkUp(f[k - 1], scopes[k].id)]
  <1>3. turn = [k \in 0..l |-> IF k = 0 THEN Unwalked(scopes)
                               ELSE WalkUp(turn[k - 1], scopes[k].id)]
    BY <1>2 DEF RepairTurns
  <1>4. Repair(scopes) = turn[l].scopes
    BY DEF Repair, Unwalked
  <1> HIDE DEF turn
  <1>5. turn[0] = Unwalked(scopes) /\ Unwalked(scopes).scopes = scopes
    BY <1>1, <1>3 DEF Unwalked
  <1>6. \A k \in 1..l : turn[k] = WalkUp(turn[k - 1], scopes[k].id)
    BY <1>1, <1>3
  <1> DEFINE T == {k \in Nat : k \in 0..l => Relinked(turn[k].scopes, scopes)}
  <1>7. 0 \in T
    <2>1. Relinked(scopes, scopes)
      BY DEF Relinked, SameScope
    <2> QED  BY <1>5, <2>1
  <1>8. ASSUME NEW k \in T PROVE k + 1 \in T
    <2> SUFFICES ASSUME k + 1 \in 0..l PROVE Relinked(turn[k + 1].scopes, scopes)
      OBVIOUS
    <2>1. k \in 0..l /\ k + 1 \in 1..l /\ (k + 1) - 1 = k
      BY <1>1
    <2>2. Relinked(turn[k].scopes, scopes)
      BY <2>1
    <2>3. turn[k].scopes \in Seq(ScopeSet)
      BY <2>2 DEF Relinked
    <2>4. turn[k + 1] = WalkUp(turn[k], scopes[k + 1].id)
      BY <1>6, <2>1
    <2>5. Relinked(turn[k + 1].scopes, turn[k].scopes)
      BY <2>3, <2>4, WalkUpIs
    <2> QED  BY <2>2, <2>5, RelinkedAgain
  <1>9. l \in T
    <2> HIDE DEF T
    <2>1. T \in SUBSET Nat
      BY DEF T
    <2> QED  BY <1>1, <1>7, <1>8, <2>1, SetInduction
  <1>10. l \in 0..l
    BY <1>1
  <1> QED  BY <1>4, <1>9, <1>10

(* The scopes a run needs placeholders for are finitely many.               *)
LEMMA NeededIs ==
    ASSUME NEW run, IsRun(run)
    PROVE  /\ Needed(run) \in SUBSET Nat /\ IsFiniteSet(Needed(run))
           /\ \A k \in 1..Len(run.scopes) : run.scopes[k].id \notin Needed(run)
  <1> DEFINE P == {run.scopes[i].parent : i \in 1..Len(run.scopes)}
             Q == {run.records[i].scope : i \in 1..Len(run.records)}
             I == {run.scopes[i].id : i \in 1..Len(run.scopes)}
  <1>1. run.scopes \in Seq(ScopeSet) /\ run.records \in Seq(RecordSet)
    BY DEF IsRun
  <1>2. /\ Len(run.scopes) \in Nat /\ Len(run.records) \in Nat
        /\ \A i \in 1..Len(run.scopes) : run.scopes[i] \in ScopeSet
        /\ \A i \in 1..Len(run.records) : run.records[i] \in RecordSet
    BY <1>1, LenProperties
  <1>3. P \in SUBSET (Nat \cup {None})
    BY <1>2 DEF ScopeSet
  <1>4. Q \in SUBSET (Nat \cup {None})
    BY <1>2, RecordSetScopes
  <1>5. IsFiniteSet(P) /\ IsFiniteSet(Q)
    <2> DEFINE f == [i \in 1..Len(run.scopes) |-> run.scopes[i].parent]
               g == [i \in 1..Len(run.records) |-> run.records[i].scope]
    <2>1. \A l \in Nat : IsFiniteSet(1..l)
      BY FS_Interval
    <2>2. IsFiniteSet(1..Len(run.scopes)) /\ IsFiniteSet(1..Len(run.records))
      BY <1>2, <2>1
    <2>3. f \in Surjection(1..Len(run.scopes), P)
      BY DEF Surjection
    <2>4. g \in Surjection(1..Len(run.records), Q)
      BY DEF Surjection
    <2> HIDE DEF f, g, P, Q
    <2> QED  BY <2>2, <2>3, <2>4, FS_Surjection
  <1>6. Needed(run) = (P \cup Q) \ (I \cup {None})
    BY DEF Needed
  <1>7. \A k \in 1..Len(run.scopes) : run.scopes[k].id \in I
    OBVIOUS
  <1> HIDE DEF P, Q, I
  <1>8. IsFiniteSet(P \cup Q)
    BY <1>5, FS_Union
  <1>9. IsFiniteSet(Needed(run))
    BY <1>6, <1>8, FS_Subset
  <1> QED  BY <1>3, <1>4, <1>6, <1>7, <1>9

(* What finish leaves alone of a run, and what it may add.                  *)
Completes(after, run) ==
    /\ after.id = run.id /\ after.headers = run.headers /\ after.records = run.records
    /\ Len(run.scopes) \in Nat /\ Len(after.scopes) \in Nat /\ Len(run.scopes) <= Len(after.scopes)
    /\ \A k \in 1..Len(run.scopes) : SameScope(after.scopes[k], run.scopes[k])
    /\ \A k \in 1..Len(after.scopes) : k \notin 1..Len(run.scopes) =>
          /\ after.scopes[k].exited = None /\ after.scopes[k].message = None
          /\ \A j \in 1..Len(run.scopes) : run.scopes[j].id # after.scopes[k].id
    /\ ScopesOnce(after)

(* The added scopes, each of its own identity.                              *)
LEMMA PlaceholdersAre ==
    ASSUME NEW ids \in SUBSET Nat, IsFiniteSet(ids)
    PROVE  LET Nth(n) == CHOOSE x \in ids : Cardinality({y \in ids : y < x}) = n - 1
               more   == [n \in 1..Cardinality(ids) |-> Placeholder(Nth(n))]
           IN  /\ more \in Seq(ScopeSet)
               /\ \A k \in 1..Len(more) : /\ more[k].id \in ids
                                          /\ more[k].parent = None
                                          /\ more[k].exited = None /\ more[k].message = None
               /\ \A j, k \in 1..Len(more) : more[j].id = more[k].id => j = k
               /\ \A x \in ids : \E k \in 1..Len(more) : more[k].id = x
  <1> DEFINE Nth(n) == CHOOSE x \in ids : Cardinality({y \in ids : y < x}) = n - 1
             c      == Cardinality(ids)
             more   == [n \in 1..c |-> Placeholder(Nth(n))]
  <1>1. c \in Nat
    BY FS_CardinalityType
  <1>2. ASSUME NEW n \in 1..c
        PROVE  Nth(n) \in ids /\ Cardinality({y \in ids : y < Nth(n)}) = n - 1
    <2>1. \E x \in ids : Cardinality({y \in ids : y < x}) = n - 1
      BY RankReached DEF Below
    <2> QED  BY <2>1
  <1> HIDE DEF Nth
  <1>3. ASSUME NEW n \in 1..c
        PROVE  /\ Placeholder(Nth(n)) \in ScopeSet /\ Placeholder(Nth(n)).id = Nth(n)
               /\ Placeholder(Nth(n)).parent = None
               /\ Placeholder(Nth(n)).exited = None /\ Placeholder(Nth(n)).message = None
    <2>1. Nth(n) \in Nat
      BY <1>2
    <2> QED  BY <2>1 DEF Placeholder, ScopeSet
  <1>4. more \in [1..c -> ScopeSet] /\ \A n \in 1..c : more[n] = Placeholder(Nth(n))
    BY <1>3
  <1> HIDE DEF more, c
  <1>5. more \in Seq(ScopeSet) /\ Len(more) = c
    <2>1. more \in Seq(ScopeSet)
      BY <1>1, <1>4, SeqDef
    <2>2. DOMAIN more = 1..c
      BY <1>4
    <2> QED  BY <1>1, <2>1, <2>2, LenProperties
  <1>6. \A k \in 1..c : /\ more[k].id = Nth(k) /\ more[k].id \in ids /\ more[k].parent = None
                        /\ more[k].exited = None /\ more[k].message = None
    BY <1>2, <1>3, <1>4
  <1>7. ASSUME NEW j \in 1..c, NEW k \in 1..c, more[j].id = more[k].id PROVE j = k
    <2>1. Nth(j) = Nth(k)
      BY <1>6, <1>7
    <2>2. j - 1 = k - 1
      BY <1>2, <2>1
    <2> QED  BY <1>1, <2>2
  <1>8. ASSUME NEW x \in ids PROVE \E k \in 1..c : more[k].id = x
    <2> DEFINE k == Cardinality(Below(ids, x)) + 1
    <2>1. k \in 1..c /\ k - 1 = Cardinality(Below(ids, x))
      BY <1>1, Ranks DEF c
    <2> HIDE DEF k
    <2>2. PICK y \in ids : y = Nth(k) /\ Cardinality(Below(ids, y)) = Cardinality(Below(ids, x))
      BY <1>2, <2>1 DEF Below
    <2>3. Cardinality(Below(ids, x)) \in Int
      BY <1>1, <2>1
    <2>4. ~ (y < x) /\ ~ (x < y)
      BY <2>2, <2>3, RankGrows
    <2>5. y = x
      BY <2>4
    <2> QED  BY <1>6, <2>1, <2>2, <2>5
  <1>9. /\ more \in Seq(ScopeSet)
        /\ \A k \in 1..Len(more) : /\ more[k].id \in ids /\ more[k].parent = None
                                   /\ more[k].exited = None /\ more[k].message = None
        /\ \A j, k \in 1..Len(more) : more[j].id = more[k].id => j = k
        /\ \A x \in ids : \E k \in 1..Len(more) : more[k].id = x
    BY <1>5, <1>6, <1>7, <1>8
  <1> QED  BY <1>9 DEF more, Nth, c

(* A run with its placeholders: every scope that is named is there, once.   *)
OnceIn(scopes) == \A j, k \in 1..Len(scopes) : scopes[j].id = scopes[k].id => j = k
IdsIn(scopes)  == {scopes[i].id : i \in 1..Len(scopes)}

LEMMA CompleteIs ==
    ASSUME NEW run, IsRun(run), ScopesOnce(run)
    PROVE  LET all == Complete(run).scopes
               l   == Len(run.scopes)
               f   == Finished(run)
           IN  /\ all \in Seq(ScopeSet) /\ l \in Nat /\ Len(all) \in Nat /\ l <= Len(all)
               /\ \A k \in 1..l : all[k] = run.scopes[k]
               /\ \A k \in 1..Len(all) : k \notin 1..l =>
                     /\ all[k].id \in Needed(run) /\ all[k].parent = None
                     /\ all[k].exited = None /\ all[k].message = None
               /\ OnceIn(all) /\ IdsIn(all) = IdsIn(run.scopes) \cup Needed(run)
               /\ f.id = run.id /\ f.headers = run.headers /\ f.records = run.records
               /\ f.scopes = Repair(all)
  <1> DEFINE ids    == Needed(run)
             Nth(n) == CHOOSE x \in ids : Cardinality({y \in ids : y < x}) = n - 1
             more   == [n \in 1..Cardinality(ids) |-> Placeholder(Nth(n))]
             all    == run.scopes \o more
             new    == Repair(all)
             c      == Complete(run)
             f      == Finished(run)
  <1>1. c = [run EXCEPT !.scopes = all, !.missing = ids]
    BY DEF Complete
  <1>2. f = [c EXCEPT !.scopes = Repair(c.scopes)]
    BY DEF Finished
  <1>3. /\ ids \in SUBSET Nat /\ IsFiniteSet(ids)
        /\ \A k \in 1..Len(run.scopes) : run.scopes[k].id \notin ids
    BY NeededIs
  <1> HIDE DEF ids
  <1>4. /\ more \in Seq(ScopeSet)
        /\ \A k \in 1..Len(more) : /\ more[k].id \in ids /\ more[k].parent = None
                                   /\ more[k].exited = None /\ more[k].message = None
        /\ \A j, k \in 1..Len(more) : more[j].id = more[k].id => j = k
        /\ \A x \in ids : \E k \in 1..Len(more) : more[k].id = x
    BY <1>3, PlaceholdersAre
  <1>5. run.scopes \in Seq(ScopeSet) /\ run.records \in Seq(RecordSet)
    BY DEF IsRun
  <1> HIDE DEF more
  <1> DEFINE l == Len(run.scopes)
             m == Len(more)
  <1>6. /\ l \in Nat /\ m \in Nat /\ all \in Seq(ScopeSet) /\ Len(all) = l + m
        /\ \A k \in 1..(l + m) : all[k] = IF k <= l THEN run.scopes[k] ELSE more[k - l]
    BY <1>4, <1>5, ConcatProperties, LenProperties
  <1> HIDE DEF all
  <1>7. c.scopes = all
    <2>1. c = [[run EXCEPT !.scopes = all] EXCEPT !.missing = ids]
      BY <1>1
    <2> HIDE DEF c
    <2> QED  BY <2>1 DEF IsRun
  <1>8. /\ f.id = run.id /\ f.headers = run.headers /\ f.records = run.records
        /\ f.scopes = new
    <2>1. c = [[run EXCEPT !.scopes = all] EXCEPT !.missing = ids]
      BY <1>1
    <2>2. new = Repair(c.scopes)
      BY <1>7 DEF new
    <2> HIDE DEF new
    <2>3. f = [[[run EXCEPT !.scopes = all] EXCEPT !.missing = ids] EXCEPT !.scopes = new]
      BY <1>2, <2>1, <2>2
    <2> HIDE DEF f, c
    <2> QED  BY <2>3 DEF IsRun
  <1> HIDE DEF c, f, m
  <1>9. ASSUME NEW k \in 1..l PROVE k \in 1..Len(all) /\ all[k] = run.scopes[k]
    <2>1. k \in 1..(l + m) /\ k <= l
      BY <1>6
    <2> QED  BY <1>6, <2>1
  <1>10. ASSUME NEW k \in 1..m PROVE l + k \in 1..Len(all) /\ all[l + k] = more[k]
    <2>1. l + k \in 1..(l + m) /\ ~ (l + k <= l) /\ (l + k) - l = k
      BY <1>6
    <2> QED  BY <1>6, <2>1
  <1>11. ASSUME NEW k \in 1..Len(all), k \notin 1..l
         PROVE  k - l \in 1..m /\ all[k] = more[k - l]
    <2>1. k - l \in 1..m /\ l + (k - l) = k
      BY <1>6, <1>11
    <2> QED  BY <1>10, <2>1
  <1>12. \A k \in 1..Len(all) : k \notin 1..l =>
            /\ all[k].id \in ids /\ all[k].parent = None
            /\ all[k].exited = None /\ all[k].message = None
    BY <1>4, <1>11 DEF m
  <1>13. OnceIn(all)
    <2> SUFFICES ASSUME NEW j \in 1..Len(all), NEW k \in 1..Len(all), all[j].id = all[k].id
                 PROVE  j = k
      BY DEF OnceIn
    <2>1. CASE j \in 1..l /\ k \in 1..l
      BY <1>9, <2>1 DEF ScopesOnce
    <2>2. CASE j \notin 1..l /\ k \notin 1..l
      <3>1. j - l \in 1..m /\ k - l \in 1..m /\ more[j - l].id = more[k - l].id
        BY <1>11, <2>2
      <3>2. j - l = k - l
        BY <1>4, <3>1 DEF m
      <3> QED  BY <1>6, <3>2
    <2>3. CASE j \in 1..l /\ k \notin 1..l
      BY <1>3, <1>9, <1>12, <2>3
    <2>4. CASE k \in 1..l /\ j \notin 1..l
      BY <1>3, <1>9, <1>12, <2>4
    <2> QED  BY <2>1, <2>2, <2>3, <2>4
  <1>14. IdsIn(all) = IdsIn(run.scopes) \cup ids
    <2>1. ASSUME NEW k \in 1..Len(all) PROVE all[k].id \in IdsIn(run.scopes) \cup ids
      <3>1. CASE k \in 1..l
        BY <1>9, <3>1 DEF IdsIn
      <3>2. CASE k \notin 1..l
        BY <1>12, <3>2
      <3> QED  BY <3>1, <3>2
    <2>2. ASSUME NEW k \in 1..l PROVE run.scopes[k].id \in IdsIn(all)
      BY <1>9 DEF IdsIn
    <2>3. ASSUME NEW x \in ids PROVE x \in IdsIn(all)
      <3>1. PICK k \in 1..m : more[k].id = x
        BY <1>4 DEF m
      <3>2. l + k \in 1..Len(all) /\ all[l + k].id = x
        BY <1>10, <3>1
      <3> QED  BY <3>2 DEF IdsIn
    <2>4. IdsIn(all) \in SUBSET (IdsIn(run.scopes) \cup ids)
      BY <2>1 DEF IdsIn
    <2>5. IdsIn(run.scopes) \in SUBSET IdsIn(all)
      BY <2>2 DEF IdsIn
    <2> QED  BY <2>3, <2>4, <2>5
  <1>15. Len(all) \in Nat /\ l <= Len(all)
    BY <1>6
  <1> HIDE DEF l
  <1> QED  BY <1>6, <1>7, <1>8, <1>9, <1>12, <1>13, <1>14, <1>15 DEF ids, l, c, f

LEMMA FinishedIs ==
    ASSUME NEW run, IsRun(run), ScopesOnce(run)
    PROVE  Completes(Finished(run), run)
  <1> DEFINE all == Complete(run).scopes
             l   == Len(run.scopes)
             f   == Finished(run)
  <1>1. /\ all \in Seq(ScopeSet) /\ l \in Nat /\ Len(all) \in Nat /\ l <= Len(all)
        /\ \A k \in 1..l : all[k] = run.scopes[k]
        /\ \A k \in 1..Len(all) : k \notin 1..l =>
              all[k].id \in Needed(run) /\ all[k].exited = None /\ all[k].message = None
        /\ OnceIn(all)
        /\ f.id = run.id /\ f.headers = run.headers /\ f.records = run.records
        /\ f.scopes = Repair(all)
    BY CompleteIs
  <1> HIDE DEF all, f
  <1>2. /\ Len(f.scopes) = Len(all)
        /\ \A k \in 1..Len(all) : SameScope(f.scopes[k], all[k])
    BY <1>1, RepairIs DEF Relinked
  <1>3. ScopesOnce(f)
    BY <1>1, <1>2 DEF ScopesOnce, OnceIn, SameScope
  <1>4. \A k \in 1..l : k \in 1..Len(all)
    BY <1>1
  <1>5. \A k \in 1..l : SameScope(f.scopes[k], run.scopes[k])
    BY <1>1, <1>2, <1>4
  <1>6. \A j \in 1..Len(run.scopes) : run.scopes[j].id \notin Needed(run)
    BY NeededIs
  <1>7. \A k \in 1..Len(all) : k \notin 1..l =>
           /\ f.scopes[k].exited = None /\ f.scopes[k].message = None
           /\ \A j \in 1..l : run.scopes[j].id # f.scopes[k].id
    BY <1>1, <1>2, <1>6 DEF SameScope
  <1>8. Completes(f, run)
    BY <1>1, <1>2, <1>3, <1>5, <1>7 DEF Completes
  <1> QED  BY <1>8 DEF f

-----------------------------------------------------------------------------
(* The hierarchy after the repair of its cycles                             *)

(* What the walks so far have made of the parents that were given.  The     *)
(* scopes that are done are closed under parents, hold no cycle any more,   *)
(* and each cycle among them has lost one link.                             *)
Lost(ids, given, parents) == {x \in ids : parents[x] # given[x]}

Walked(ids, given, parents, done) ==
    /\ done \in SUBSET ids
    /\ parents \in [ids -> ids \cup {None}]
    /\ \A x \in ids : parents[x] = given[x] \/ (parents[x] = None /\ x \in done)
    /\ \A x \in done : given[x] \in done \cup {None}
    /\ \A S \in SUBSET done : ~Endless(S, parents)
    /\ \A C \in SUBSET done : Cycle(C, given) => \E x : C \cap Lost(ids, given, parents) = {x}
    /\ \A x \in Lost(ids, given, parents) : \E C \in SUBSET done : Cycle(C, given) /\ x \in C

(* A walk that passes n scopes before it stops.                             *)
Passes(c, n, ids, given, done) ==
    /\ n \in Nat \ {0}
    /\ \A k \in 0..(n - 1) : c[k] \in ids \ done /\ given[c[k]] = c[k + 1]
    /\ \A j, k \in 0..(n - 1) : c[j] = c[k] => j = k

Passed(c, n) == {c[k] : k \in 0..(n - 1)}

(* A set that holds the parent of each scope of the walk that it holds.     *)
LEMMA ToTheEnd ==
    ASSUME NEW c, NEW n \in Nat \ {0}, NEW S, S \cap Passed(c, n) # {},
           \A k \in 0..(n - 1) : c[k] \in S => c[k + 1] \in S
    PROVE  c[n] \in S
  <1> DEFINE T == {k \in 0..(n - 1) : c[k] \in S}
  <1>1. T \in SUBSET (0..(n - 1)) /\ T # {} /\ n - 1 \in Nat
    BY DEF Passed
  <1>2. PICK k \in T : \A l \in T : l <= k
    BY <1>1, GreatestElement
  <1>3. c[k + 1] \in S /\ k \in 0..(n - 1)
    OBVIOUS
  <1>4. k + 1 \notin T
    BY <1>2, <1>3
  <1>5. k + 1 = n
    BY <1>3, <1>4
  <1> QED  BY <1>3, <1>5

LEMMA Onwards ==
    ASSUME NEW c, NEW n \in Nat \ {0}, NEW S, NEW j \in 0..(n - 1), c[j] \in S,
           \A k \in j..(n - 1) : c[k] \in S => c[k + 1] \in S
    PROVE  \A k \in j..(n - 1) : c[k] \in S
  <1> DEFINE T == {k \in j..(n - 1) : c[k] \notin S}
  <1> SUFFICES ASSUME T # {} PROVE FALSE
    OBVIOUS
  <1>1. T \in SUBSET Nat
    OBVIOUS
  <1>2. PICK k \in T : \A l \in T : k <= l
    BY <1>1, LeastElement
  <1>3. k \in j..(n - 1) /\ c[k] \notin S /\ k # j
    OBVIOUS
  <1>4. k - 1 \in j..(n - 1) /\ (k - 1) + 1 = k /\ ~ (k <= k - 1)
    BY <1>3
  <1>5. c[k - 1] \in S
    BY <1>2, <1>4
  <1> QED  BY <1>3, <1>4, <1>5

(* A cycle is either among the scopes that were done or has none of them.   *)
LEMMA CycleApart ==
    ASSUME NEW given, NEW done, \A x \in done : given[x] \in done \cup {None},
           NEW C, None \notin C, Cycle(C, given)
    PROVE  C \in SUBSET done \/ C \cap done = {}
  <1> SUFFICES ASSUME C \cap done # {} PROVE C \in SUBSET done
    OBVIOUS
  <1>1. Endless(C, given) /\ \A T \in SUBSET C : Endless(T, given) => T = C
    BY DEF Cycle
  <1>2. Endless(C \cap done, given)
    BY <1>1 DEF Endless
  <1>3. C \cap done = C
    BY <1>1, <1>2
  <1> QED  BY <1>3

(* The walk stops at a root or at a scope that was done.                    *)
LEMMA OpenWalk ==
    ASSUME NEW ids, NEW given, NEW parents, NEW done, Walked(ids, given, parents, done),
           None \notin ids, NEW c, NEW n, Passes(c, n, ids, given, done),
           c[n] \in done \cup {None}
    PROVE  Walked(ids, given, parents, done \cup Passed(c, n))
  <1> DEFINE P == Passed(c, n)
             D == done \cup P
             L == Lost(ids, given, parents)
  <1>1. /\ n \in Nat \ {0} /\ P \in SUBSET ids /\ P \cap done = {} /\ done \in SUBSET ids
        /\ \A k \in 0..(n - 1) : c[k] \in P /\ given[c[k]] = c[k + 1] /\ parents[c[k]] = c[k + 1]
    BY DEF Passes, Passed, Walked
  <1>2. \A x \in P : given[x] \in D \cup {None}
    <2> SUFFICES ASSUME NEW k \in 0..(n - 1) PROVE given[c[k]] \in D \cup {None}
      BY DEF Passed
    <2>1. k + 1 \in 0..(n - 1) \/ k + 1 = n
      BY <1>1
    <2> QED  BY <1>1, <2>1
  <1>3. ASSUME NEW S \in SUBSET D, S \cap P # {}, NEW f, f = given \/ f = parents,
               Endless(S, f)
        PROVE  S \cap done # {}
    <2>1. \A k \in 0..(n - 1) : c[k] \in S => c[k + 1] \in S
      BY <1>1, <1>3 DEF Endless
    <2>2. c[n] \in S
      BY <1>1, <1>3, <2>1, ToTheEnd
    <2>3. None \notin D
      BY <1>1
    <2> QED  BY <2>2, <2>3
  <1>4. ASSUME NEW S \in SUBSET D, Endless(S, parents) PROVE FALSE
    <2>1. S \cap done # {}
      BY <1>3, <1>4 DEF Endless
    <2>2. Endless(S \cap done, parents)
      <3> SUFFICES ASSUME NEW x \in S \cap done PROVE parents[x] \in S \cap done
        BY <2>1 DEF Endless
      <3>1. parents[x] \in S /\ x \in ids /\ parents[x] \in ids
        BY <1>1, <1>4 DEF Endless
      <3>2. parents[x] = given[x] /\ given[x] \in done \cup {None}
        BY <3>1 DEF Walked
      <3> QED  BY <3>1, <3>2
    <2> QED  BY <2>2 DEF Walked
  <1>5. ASSUME NEW C \in SUBSET D, Cycle(C, given) PROVE \E x : C \cap L = {x}
    <2>1. None \notin C /\ Endless(C, given)
      BY <1>1, <1>5 DEF Cycle
    <2>2. C \cap done # {}
      BY <1>3, <2>1 DEF Endless
    <2>3. C \in SUBSET done
      BY <1>5, <2>1, <2>2, CycleApart DEF Walked
    <2> QED  BY <1>5, <2>3 DEF Walked
  <1>6. \A x \in L : \E C \in SUBSET D : Cycle(C, given) /\ x \in C
    <2>1. SUBSET done \in SUBSET (SUBSET D)
      OBVIOUS
    <2> QED  BY <2>1 DEF Walked
  <1>7. D \in SUBSET ids /\ \A x \in D : given[x] \in D \cup {None}
    BY <1>1, <1>2 DEF Walked
  <1>8. /\ parents \in [ids -> ids \cup {None}]
        /\ \A x \in ids : parents[x] = given[x] \/ (parents[x] = None /\ x \in D)
    BY DEF Walked
  <1> HIDE DEF P
  <1> QED  BY <1>4, <1>5, <1>6, <1>7, <1>8 DEF Walked, P

(* The walk comes back to a scope it has passed, which becomes a root.      *)
CutAt(at, parents, after, ids) ==
    /\ after \in [ids -> ids \cup {None}]
    /\ \A x \in ids : after[x] = IF x = at THEN None ELSE parents[x]

LEMMA RoundWalk ==
    ASSUME NEW ids, NEW given, NEW parents, NEW done, Walked(ids, given, parents, done),
           None \notin ids, NEW c, NEW n, Passes(c, n, ids, given, done),
           NEW after, c[n] \in Passed(c, n), CutAt(c[n], parents, after, ids)
    PROVE  Walked(ids, given, after, done \cup Passed(c, n))
  <1> SUFFICES ASSUME NEW j \in 0..(n - 1), c[n] = c[j],
                      after \in [ids -> ids \cup {None}],
                      \A x \in ids : after[x] = IF x = c[j] THEN None ELSE parents[x]
               PROVE  Walked(ids, given, after, done \cup Passed(c, n))
    BY DEF Passed, CutAt
  <1> DEFINE P == Passed(c, n)
             D == done \cup P
             K == Lost(ids, given, parents)
             L == Lost(ids, given, after)
             Z == {c[k] : k \in j..(n - 1)}
  <1>1. /\ n \in Nat \ {0} /\ P \in SUBSET ids /\ P \cap done = {} /\ done \in SUBSET ids
        /\ \A k \in 0..(n - 1) : c[k] \in P /\ given[c[k]] = c[k + 1] /\ parents[c[k]] = c[k + 1]
    BY DEF Passes, Passed, Walked
  <1>2. c[j] \in P /\ Z \in SUBSET P /\ c[j] \in Z
    <2>1. j \in j..(n - 1) /\ \A k \in j..(n - 1) : k \in 0..(n - 1)
      BY <1>1
    <2> QED  BY <1>1, <2>1
  <1>3. \A k \in 0..(n - 1) : c[k + 1] \in P
    <2> SUFFICES ASSUME NEW k \in 0..(n - 1) PROVE c[k + 1] \in P
      OBVIOUS
    <2>1. k + 1 \in 0..(n - 1) \/ k + 1 = n
      BY <1>1
    <2> QED  BY <1>1, <1>2, <2>1
  <1>4. \A x \in P : given[x] \in P
    BY <1>1, <1>3 DEF Passed
  <1>5. \A x \in done : after[x] = parents[x]
    BY <1>1, <1>2
  <1>6. ASSUME NEW S, S \cap P # {}, \A k \in 0..(n - 1) : c[k] \in S => c[k + 1] \in S
        PROVE  c[j] \in S
    BY <1>1, <1>6, ToTheEnd
  <1>7. ASSUME NEW S \in SUBSET D, Endless(S, after) PROVE FALSE
    <2>1. c[j] \notin S /\ None \notin S
      <3>1. None \notin D
        BY <1>1
      <3>2. after[c[j]] = None
        BY <1>1, <1>2
      <3> QED  BY <1>7, <3>1, <3>2 DEF Endless
    <2>2. \A k \in 0..(n - 1) : c[k] \in S => c[k + 1] \in S
      BY <1>1, <1>7, <2>1 DEF Endless
    <2>3. S \cap P = {}
      BY <1>6, <2>1, <2>2
    <2>4. S \in SUBSET done
      BY <2>3
    <2>5. Endless(S, parents)
      BY <1>5, <1>7, <2>4 DEF Endless
    <2> QED  BY <2>4, <2>5 DEF Walked
  <1>8. L = K \cup {c[j]}
    <2>1. c[j] \in L
      <3>1. given[c[j]] \in P /\ after[c[j]] = None
        BY <1>1, <1>2, <1>4
      <3> QED  BY <1>1, <1>2, <3>1 DEF Lost
    <2>2. c[j] \notin done
      BY <1>1, <1>2
    <2>3. ASSUME NEW x \in ids, x # c[j] PROVE x \in L <=> x \in K
      BY <2>3 DEF Lost
    <2> QED  BY <1>1, <1>2, <2>1, <2>3 DEF Lost
  <1>9. K \cap P = {}
    BY <1>1 DEF Lost, Walked
  <1>10. Endless(Z, given)
    <2> SUFFICES ASSUME NEW k \in j..(n - 1) PROVE given[c[k]] \in Z
      BY <1>2 DEF Endless
    <2>1. k \in 0..(n - 1) /\ (k + 1 \in j..(n - 1) \/ k + 1 = n)
      BY <1>1
    <2> QED  BY <1>1, <1>2, <2>1
  <1>11. ASSUME NEW S \in SUBSET D, S \cap P # {}, Endless(S, given)
         PROVE  Z \in SUBSET S
    <2>1. \A k \in 0..(n - 1) : c[k] \in S => c[k + 1] \in S
      BY <1>1, <1>11 DEF Endless
    <2>2. c[j] \in S
      BY <1>6, <1>11, <2>1
    <2>3. \A k \in j..(n - 1) : k \in 0..(n - 1)
      BY <1>1
    <2>4. \A k \in j..(n - 1) : c[k] \in S
      BY <1>1, <2>1, <2>2, <2>3, Onwards
    <2> QED  BY <2>4
  <1>12. Cycle(Z, given)
    <2> SUFFICES ASSUME NEW T \in SUBSET Z, Endless(T, given) PROVE T = Z
      BY <1>10 DEF Cycle
    <2>1. T \in SUBSET D /\ T \cap P # {}
      BY <1>2 DEF Endless
    <2> HIDE DEF Z
    <2>2. Z \in SUBSET T
      BY <1>11, <2>1
    <2> QED  BY <2>2
  <1> HIDE DEF P, Z
  <1>13. ASSUME NEW C \in SUBSET D, Cycle(C, given) PROVE \E x : C \cap L = {x}
    <2>1. CASE C \in SUBSET done
      <3>1. PICK x : C \cap K = {x}
        BY <1>13, <2>1 DEF Walked
      <3>2. C \cap L = {x}
        BY <1>1, <1>2, <1>8, <2>1, <3>1
      <3> QED  BY <3>2
    <2>2. CASE ~ (C \in SUBSET done)
      <3>1. C \cap P # {}
        BY <2>2
      <3>2. Endless(C, given) /\ \A T \in SUBSET C : Endless(T, given) => T = C
        BY <1>13 DEF Cycle
      <3>3. Z \in SUBSET C
        BY <1>11, <3>1, <3>2
      <3>4. Z = C
        BY <1>10, <3>2, <3>3
      <3>5. C \cap L = {c[j]}
        BY <1>2, <1>8, <1>9, <3>4
      <3> QED  BY <3>5
    <2> QED  BY <2>1, <2>2
  <1>14. ASSUME NEW x \in L PROVE \E C \in SUBSET D : Cycle(C, given) /\ x \in C
    <2>1. CASE x = c[j]
      BY <1>2, <1>12, <2>1
    <2>2. CASE x \in K
      <3>1. PICK C \in SUBSET done : Cycle(C, given) /\ x \in C
        BY <2>2 DEF Walked
      <3> QED  BY <3>1
    <2> QED  BY <1>8, <2>1, <2>2
  <1>15. D \in SUBSET ids /\ \A x \in D : given[x] \in D \cup {None}
    BY <1>1, <1>4 DEF Walked
  <1>16. \A x \in ids : after[x] = given[x] \/ (after[x] = None /\ x \in D)
    BY <1>2 DEF Walked
  <1> QED  BY <1>7, <1>13, <1>14, <1>15, <1>16 DEF Walked, P

(* The parents of the scopes of a list whose identifiers are unique.        *)
ParentsIn(scopes) == [id \in IdsIn(scopes) |-> ParentOf(scopes, id)]

LEMMA ParentOfIs ==
    ASSUME NEW scopes, OnceIn(scopes), NEW k \in 1..Len(scopes)
    PROVE  /\ ParentOf(scopes, scopes[k].id) = scopes[k].parent
           /\ ParentsIn(scopes)[scopes[k].id] = scopes[k].parent
  <1> DEFINE at == {i \in 1..Len(scopes) : scopes[i].id = scopes[k].id}
  <1>1. at = {k}
    BY DEF OnceIn
  <1>2. The(at) = k
    BY <1>1, TheIn
  <1>3. ParentOf(scopes, scopes[k].id) = scopes[k].parent
    BY <1>2 DEF ParentOf
  <1>4. scopes[k].id \in IdsIn(scopes)
    BY DEF IdsIn
  <1> QED  BY <1>3, <1>4 DEF ParentsIn

LEMMA DetachParents ==
    ASSUME NEW scopes \in Seq(ScopeSet), OnceIn(scopes), NEW id
    PROVE  LET d == Detach(scopes, id)
           IN  /\ OnceIn(d) /\ IdsIn(d) = IdsIn(scopes)
               /\ \A x \in IdsIn(scopes) :
                     ParentsIn(d)[x] = IF x = id THEN None ELSE ParentsIn(scopes)[x]
  <1> DEFINE d == Detach(scopes, id)
             l == Len(scopes)
             Rooted(x) == [x EXCEPT !.parent = None]
  <1>1. l \in Nat /\ \A k \in 1..l : scopes[k] \in ScopeSet
    BY LenProperties
  <1>2. d = [k \in 1..l |-> IF scopes[k].id = id THEN Rooted(scopes[k]) ELSE scopes[k]]
    BY DEF Detach
  <1>3. \A x \in ScopeSet : Rooted(x).parent = None
    BY DEF ScopeSet
  <1>4. Len(d) = l /\ \A k \in 1..l : d[k].id = scopes[k].id
    BY DetachIs DEF Relinked, SameScope
  <1> HIDE DEF d, Rooted
  <1>5. \A k \in 1..l : d[k].parent = IF scopes[k].id = id THEN None ELSE scopes[k].parent
    BY <1>1, <1>2, <1>3
  <1>6. OnceIn(d) /\ IdsIn(d) = IdsIn(scopes)
    BY <1>4 DEF OnceIn, IdsIn
  <1>7. ASSUME NEW k \in 1..l
        PROVE  ParentsIn(d)[scopes[k].id] =
                  IF scopes[k].id = id THEN None ELSE ParentsIn(scopes)[scopes[k].id]
    <2>1. ParentsIn(d)[d[k].id] = d[k].parent
      BY <1>4, <1>6, ParentOfIs
    <2>2. ParentsIn(scopes)[scopes[k].id] = scopes[k].parent
      BY ParentOfIs
    <2> QED  BY <1>4, <1>5, <2>1, <2>2
  <1>8. \A x \in IdsIn(scopes) : ParentsIn(d)[x] = IF x = id THEN None ELSE ParentsIn(scopes)[x]
    BY <1>7 DEF IdsIn
  <1> QED  BY <1>6, <1>8 DEF d

(* The scopes on the way up from one of them.                               *)
Up(scopes, x) == IF x = None THEN None ELSE ParentOf(scopes, x)
Chain(scopes, start, n, c) ==
    c = [k \in 0..n |-> IF k = 0 THEN start ELSE Up(scopes, c[k - 1])]

LEMMA ChainExists ==
    ASSUME NEW scopes, NEW start, NEW n \in Nat
    PROVE  \E c : Chain(scopes, start, n, c)
  <1> DEFINE T == {k \in Nat : \E c : Chain(scopes, start, k, c)}
  <1>1. 0 \in T
    <2> DEFINE f == [k \in 0..0 |-> start]
    <2>1. Chain(scopes, start, 0, f)
      BY DEF Chain
    <2> QED  BY <2>1
  <1>2. ASSUME NEW k \in T PROVE k + 1 \in T
    <2>1. PICK c : Chain(scopes, start, k, c)
      OBVIOUS
    <2> DEFINE f == [j \in 0..(k + 1) |-> IF j <= k THEN c[j] ELSE Up(scopes, c[k])]
    <2>2. k \in Nat /\ c[0] = start /\ \A j \in 1..k : c[j] = Up(scopes, c[j - 1])
      BY <2>1 DEF Chain
    <2>3. ASSUME NEW j \in 0..(k + 1)
          PROVE  f[j] = IF j = 0 THEN start ELSE Up(scopes, f[j - 1])
      <3>1. CASE j = 0
        BY <2>2, <3>1
      <3>2. CASE j \in 1..k
        <4>1. f[j] = c[j] /\ f[j - 1] = c[j - 1]
          BY <2>2, <3>2
        <4> QED  BY <2>2, <3>2, <4>1
      <3>3. CASE j = k + 1
        <4>1. j \in 0..(k + 1) /\ ~ (j <= k) /\ j - 1 = k /\ k \in 0..(k + 1) /\ k <= k /\ j # 0
          BY <2>2, <3>3
        <4>2. f[j] = Up(scopes, c[k]) /\ f[j - 1] = c[k]
          BY <4>1
        <4> QED  BY <3>3, <4>1, <4>2
      <3> QED  BY <2>2, <3>1, <3>2, <3>3
    <2>4. f = [j \in 0..(k + 1) |-> f[j]]
      OBVIOUS
    <2> HIDE DEF f
    <2>5. Chain(scopes, start, k + 1, f)
      BY <2>3, <2>4 DEF Chain
    <2> QED  BY <2>2, <2>5
  <1>3. n \in T
    <2> HIDE DEF T
    <2>1. T \in SUBSET Nat
      BY DEF T
    <2> QED  BY <1>1, <1>2, <2>1, SetInduction
  <1> QED  BY <1>3

(* There are no more identifiers than scopes, so a way up through them all  *)
(* meets one of them again.                                                 *)
LEMMA ChainRepeats ==
    ASSUME NEW scopes, Len(scopes) \in Nat, NEW c,
           \A k \in 0..Len(scopes) : c[k] \in IdsIn(scopes)
    PROVE  \E j, k \in 0..Len(scopes) : j < k /\ c[j] = c[k]
  <1> DEFINE l   == Len(scopes)
             ids == IdsIn(scopes)
             f   == [k \in 1..l |-> scopes[k].id]
             g   == [k \in 0..l |-> c[k]]
  <1>1. IsFiniteSet(1..l) /\ Cardinality(1..l) = l
    BY FS_Interval
  <1>2. f \in Surjection(1..l, ids)
    BY DEF Surjection, IdsIn
  <1> HIDE DEF f
  <1>3. IsFiniteSet(ids) /\ Cardinality(ids) <= l
    BY <1>1, <1>2, FS_Surjection
  <1>4. IsFiniteSet(0..l) /\ Cardinality(0..l) = l + 1
    BY FS_Interval
  <1>5. Cardinality(ids) < Cardinality(0..l)
    BY <1>3, <1>4, FS_CardinalityType
  <1>6. g \in [0..l -> ids]
    OBVIOUS
  <1> HIDE DEF g, ids, l
  <1>7. PICK x \in 0..l, y \in 0..l : x # y /\ g[x] = g[y]
    BY <1>3, <1>4, <1>5, <1>6, FS_PigeonHole
  <1>8. c[x] = c[y]
    BY <1>7 DEF g
  <1>9. x < y \/ y < x
    BY <1>7
  <1> QED  BY <1>8, <1>9 DEF l

(* One walk, up to where it stops.                                          *)
Stops(c, k, done) == c[k] = None \/ c[k] \in done \/ c[k] \in Passed(c, k)

LEMMA WalkUpTo ==
    ASSUME NEW s, s.scopes \in Seq(ScopeSet), OnceIn(s.scopes), NEW start \in IdsIn(s.scopes),
           None \notin IdsIn(s.scopes),
           ParentsIn(s.scopes) \in [IdsIn(s.scopes) -> IdsIn(s.scopes) \cup {None}]
    PROVE  \E c, n :
              /\ n \in Nat /\ c[0] = start /\ Stops(c, n, s.done)
              /\ \A k \in 0..(n - 1) : /\ ~Stops(c, k, s.done) /\ c[k] \in IdsIn(s.scopes)
                                       /\ c[k + 1] = ParentsIn(s.scopes)[c[k]]
              /\ WalkUp(s, start).done = s.done \cup Passed(c, n)
              /\ WalkUp(s, start).scopes =
                    IF c[n] # None /\ c[n] \in Passed(c, n) THEN Detach(s.scopes, c[n]) ELSE s.scopes
  <1> DEFINE l    == Len(s.scopes)
             ids  == IdsIn(s.scopes)
             c    == CHOOSE f : f = [k \in 0..l |-> IF k = 0 THEN start
                        ELSE IF f[k - 1] = None THEN None ELSE ParentOf(s.scopes, f[k - 1])]
             K    == {k \in 0..l : c[k] = None \/ c[k] \in s.done \/ c[k] \in {c[i] : i \in 0..(k - 1)}}
             n    == Least(K)
             t    == WalkUp(s, start)
  <1>1. l \in Nat
    BY LenProperties
  <1>2. PICK g : Chain(s.scopes, start, l, g)
    BY <1>1, ChainExists
  <1>3. c = [k \in 0..l |-> IF k = 0 THEN start
                            ELSE IF c[k - 1] = None THEN None ELSE ParentOf(s.scopes, c[k - 1])]
    BY <1>2 DEF Chain, Up
  <1>4. t = [scopes |-> IF c[n] # None /\ c[n] \in {c[i] : i \in 0..(n - 1)}
                        THEN Detach(s.scopes, c[n]) ELSE s.scopes,
             done   |-> s.done \cup {c[i] : i \in 0..(n - 1)}]
    BY DEF WalkUp
  <1> HIDE DEF c, t
  <1>5. c[0] = start /\ \A k \in 1..l : c[k] = Up(s.scopes, c[k - 1])
    <2>1. c = [k \in 0..l |-> IF k = 0 THEN start ELSE Up(s.scopes, c[k - 1])]
      BY <1>3 DEF Up
    <2> QED  BY <1>1, <2>1
  <1>6. \A k \in 0..l : k \in K <=> Stops(c, k, s.done)
    BY DEF Stops, Passed
  <1>7. \A x \in ids : ParentOf(s.scopes, x) = ParentsIn(s.scopes)[x]
    BY DEF ParentsIn
  <1>8. \A x \in ids : ParentsIn(s.scopes)[x] \in ids \cup {None}
    OBVIOUS
  <1>9. \A k \in 0..l : c[k] \in ids \cup {None}
    <2> DEFINE T == {k \in Nat : k \in 0..l => c[k] \in ids \cup {None}}
    <2>1. 0 \in T
      BY <1>5
    <2>2. ASSUME NEW k \in T PROVE k + 1 \in T
      <3> SUFFICES ASSUME k + 1 \in 0..l PROVE c[k + 1] \in ids \cup {None}
        OBVIOUS
      <3>1. k \in 0..l /\ k + 1 \in 1..l /\ (k + 1) - 1 = k
        BY <1>1
      <3>2. c[k] \in ids \cup {None}
        BY <3>1
      <3>3. c[k + 1] = Up(s.scopes, c[k])
        BY <1>5, <3>1
      <3> QED  BY <1>7, <1>8, <3>2, <3>3 DEF Up
    <2> HIDE DEF T
    <2>3. T = Nat
      <3>1. T \in SUBSET Nat
        BY DEF T
      <3> QED  BY <2>1, <2>2, <3>1, SetInduction
    <2> QED  BY <1>1, <2>3 DEF T
  <1>10. K # {}
    <2> SUFFICES ASSUME K = {} PROVE FALSE
      OBVIOUS
    <2>1. \A k \in 0..l : ~Stops(c, k, s.done)
      BY <1>6
    <2>2. \A k \in 0..l : c[k] \in ids
      BY <1>9, <2>1 DEF Stops
    <2>3. PICK j \in 0..l, k \in 0..l : j < k /\ c[j] = c[k]
      BY <1>1, <2>2, ChainRepeats
    <2>4. j \in 0..(k - 1)
      BY <2>3
    <2>5. Stops(c, k, s.done)
      BY <2>3, <2>4 DEF Stops, Passed
    <2> QED  BY <2>1, <2>5
  <1>11. n \in K /\ \A k \in K : n <= k
    <2>1. K \in SUBSET Nat
      OBVIOUS
    <2> QED  BY <1>10, <2>1, LeastElement DEF Least
  <1> HIDE DEF n
  <1>12. n \in 0..l /\ Stops(c, n, s.done)
    BY <1>6, <1>11
  <1>13. ASSUME NEW k \in 0..(n - 1)
         PROVE  ~Stops(c, k, s.done) /\ c[k] \in ids /\ c[k + 1] = ParentsIn(s.scopes)[c[k]]
    <2>1. k \in 0..l /\ k + 1 \in 1..l /\ (k + 1) - 1 = k /\ ~ (n <= k)
      BY <1>1, <1>12
    <2>2. ~Stops(c, k, s.done)
      BY <1>6, <1>11, <2>1
    <2>3. c[k] # None /\ c[k] \in ids
      BY <1>9, <2>1, <2>2 DEF Stops
    <2>4. c[k + 1] = ParentOf(s.scopes, c[k])
      BY <1>5, <2>1, <2>3 DEF Up
    <2> QED  BY <1>7, <2>2, <2>3, <2>4
  <1>14. /\ t.done = s.done \cup Passed(c, n)
         /\ t.scopes = IF c[n] # None /\ c[n] \in Passed(c, n) THEN Detach(s.scopes, c[n]) ELSE s.scopes
    BY <1>4 DEF Passed
  <1> HIDE DEF K, l, ids
  <1>15. n \in Nat
    BY <1>1, <1>12
  <1> QED  BY <1>5, <1>12, <1>13, <1>14, <1>15 DEF ids, t

LEMMA WalkUpWalks ==
    ASSUME NEW s, s.scopes \in Seq(ScopeSet), OnceIn(s.scopes), NEW start \in IdsIn(s.scopes),
           None \notin IdsIn(s.scopes), NEW given,
           Walked(IdsIn(s.scopes), given, ParentsIn(s.scopes), s.done)
    PROVE  LET t == WalkUp(s, start)
           IN  /\ OnceIn(t.scopes) /\ IdsIn(t.scopes) = IdsIn(s.scopes)
               /\ Walked(IdsIn(s.scopes), given, ParentsIn(t.scopes), t.done)
               /\ start \in t.done /\ s.done \in SUBSET t.done
  <1> DEFINE ids     == IdsIn(s.scopes)
             parents == ParentsIn(s.scopes)
             t       == WalkUp(s, start)
  <1>1. parents \in [ids -> ids \cup {None}]
    BY DEF Walked
  <1>2. PICK c, n :
              /\ n \in Nat /\ c[0] = start /\ Stops(c, n, s.done)
              /\ \A k \in 0..(n - 1) : /\ ~Stops(c, k, s.done) /\ c[k] \in ids
                                       /\ c[k + 1] = parents[c[k]]
              /\ t.done = s.done \cup Passed(c, n)
              /\ t.scopes = IF c[n] # None /\ c[n] \in Passed(c, n) THEN Detach(s.scopes, c[n]) ELSE s.scopes
    BY <1>1, WalkUpTo
  <1> HIDE DEF t, parents, ids
  <1>3. CASE n = 0
    <2>1. Passed(c, n) = {}
      BY <1>3 DEF Passed
    <2>2. t.scopes = s.scopes /\ t.done = s.done
      BY <1>2, <2>1
    <2>3. start \in s.done
      BY <1>2, <1>3, <2>1 DEF Stops, ids
    <2> QED  BY <2>2, <2>3 DEF t, ids
  <1>4. CASE n # 0
    <2>1. Passes(c, n, ids, given, s.done)
      <3>1. ASSUME NEW k \in 0..(n - 1) PROVE c[k] \in ids \ s.done /\ given[c[k]] = c[k + 1]
        <4>1. c[k] \in ids /\ c[k] \notin s.done /\ c[k + 1] = parents[c[k]]
          BY <1>2 DEF Stops
        <4> QED  BY <4>1 DEF Walked, ids, parents
      <3>2. ASSUME NEW j \in 0..(n - 1), NEW k \in 0..(n - 1), j < k PROVE c[j] # c[k]
        <4>1. j \in 0..(k - 1) /\ ~Stops(c, k, s.done)
          BY <1>2, <3>2
        <4> QED  BY <4>1 DEF Stops, Passed
      <3>3. ASSUME NEW j \in 0..(n - 1), NEW k \in 0..(n - 1), c[j] = c[k] PROVE j = k
        <4>1. ~ (j < k) /\ ~ (k < j)
          BY <3>2, <3>3
        <4> QED  BY <4>1
      <3> QED  BY <1>2, <1>4, <3>1, <3>3 DEF Passes
    <2>2. start \in Passed(c, n)
      <3>1. 0 \in 0..(n - 1)
        BY <1>2, <1>4
      <3> QED  BY <1>2, <3>1 DEF Passed
    <2>3. start \in t.done /\ s.done \in SUBSET t.done
      BY <1>2, <2>2
    <2>4. CASE c[n] # None /\ c[n] \in Passed(c, n)
      <3> DEFINE after == ParentsIn(t.scopes)
      <3>1. t.scopes = Detach(s.scopes, c[n])
        BY <1>2, <2>4
      <3>2. /\ OnceIn(t.scopes) /\ IdsIn(t.scopes) = ids
            /\ \A x \in ids : after[x] = IF x = c[n] THEN None ELSE parents[x]
        BY <3>1, DetachParents DEF ids, parents
      <3>3. after \in [ids -> ids \cup {None}]
        <4>1. after = [x \in ids |-> after[x]]
          BY <3>2 DEF ParentsIn
        <4>2. \A x \in ids : after[x] \in ids \cup {None}
          BY <1>1, <3>2
        <4> HIDE DEF after
        <4> QED  BY <4>1, <4>2
      <3> HIDE DEF after
      <3>4. CutAt(c[n], parents, after, ids)
        BY <3>2, <3>3 DEF CutAt
      <3>5. Walked(ids, given, parents, s.done) /\ None \notin ids
        BY DEF ids, parents
      <3>6. Walked(ids, given, after, s.done \cup Passed(c, n))
        BY <2>1, <2>4, <3>4, <3>5, RoundWalk
      <3> QED  BY <1>2, <2>3, <3>2, <3>6 DEF t, ids, after
    <2>5. CASE ~ (c[n] # None /\ c[n] \in Passed(c, n))
      <3>1. t.scopes = s.scopes
        BY <1>2, <2>5
      <3>2. c[n] \in s.done \cup {None}
        BY <1>2, <2>5 DEF Stops
      <3>3. Walked(ids, given, parents, s.done \cup Passed(c, n))
        <4>1. Walked(ids, given, parents, s.done) /\ None \notin ids
          BY DEF ids, parents
        <4> QED  BY <2>1, <3>2, <4>1, OpenWalk
      <3> QED  BY <1>2, <2>3, <3>1, <3>3 DEF t, ids, parents
    <2> QED  BY <2>4, <2>5
  <1> QED  BY <1>3, <1>4

(* All walks.                                                               *)
LEMMA RepairWalks ==
    ASSUME NEW scopes \in Seq(ScopeSet), OnceIn(scopes), None \notin IdsIn(scopes),
           ParentsIn(scopes) \in [IdsIn(scopes) -> IdsIn(scopes) \cup {None}]
    PROVE  /\ IdsIn(Repair(scopes)) = IdsIn(scopes)
           /\ Walked(IdsIn(scopes), ParentsIn(scopes), ParentsIn(Repair(scopes)), IdsIn(scopes))
  <1> DEFINE l     == Len(scopes)
             ids   == IdsIn(scopes)
             given == ParentsIn(scopes)
  <1>1. l \in Nat
    BY LenProperties
  <1>2. PICK g : RepairTurns(scopes, l, g)
    BY <1>1, RepairTurnsExist
  <1> DEFINE turn == CHOOSE f : f = [k \in 0..l |->
                        IF k = 0 THEN Unwalked(scopes)
                        ELSE WalkUp(f[k - 1], scopes[k].id)]
  <1>3. turn = [k \in 0..l |-> IF k = 0 THEN Unwalked(scopes)
                               ELSE WalkUp(turn[k - 1], scopes[k].id)]
    BY <1>2 DEF RepairTurns
  <1>4. Repair(scopes) = turn[l].scopes
    BY DEF Repair, Unwalked
  <1> HIDE DEF turn
  <1>5. turn[0].scopes = scopes /\ turn[0].done = {}
    BY <1>1, <1>3 DEF Unwalked
  <1>6. \A k \in 1..l : turn[k] = WalkUp(turn[k - 1], scopes[k].id)
    BY <1>1, <1>3
  <1> HIDE DEF ids, given
  <1> DEFINE Fine(k) == /\ turn[k].scopes \in Seq(ScopeSet)
                        /\ OnceIn(turn[k].scopes) /\ IdsIn(turn[k].scopes) = ids
                        /\ Walked(ids, given, ParentsIn(turn[k].scopes), turn[k].done)
                        /\ \A j \in 1..k : scopes[j].id \in turn[k].done
             T == {k \in Nat : k \in 0..l => Fine(k)}
  <1>7. 0 \in T
    <2>1. Walked(ids, given, given, {})
      <3>1. Lost(ids, given, given) = {} /\ \A S \in SUBSET {} : S = {}
        BY DEF Lost
      <3> QED  BY <3>1 DEF Walked, Endless, Cycle, ids, given
    <2>2. Fine(0)
      BY <1>5, <2>1 DEF ids, given
    <2> QED  BY <2>2
  <1>8. ASSUME NEW k \in T PROVE k + 1 \in T
    <2> SUFFICES ASSUME k + 1 \in 0..l PROVE Fine(k + 1)
      OBVIOUS
    <2>1. k \in 0..l /\ k + 1 \in 1..l /\ (k + 1) - 1 = k
      BY <1>1
    <2>2. Fine(k)
      BY <2>1
    <2> DEFINE s     == turn[k]
               start == scopes[k + 1].id
               t     == turn[k + 1]
    <2>3. t = WalkUp(s, start) /\ start \in ids
      BY <1>6, <2>1 DEF IdsIn, ids
    <2>4. s.scopes \in Seq(ScopeSet) /\ OnceIn(s.scopes) /\ IdsIn(s.scopes) = ids
          /\ Walked(ids, given, ParentsIn(s.scopes), s.done)
          /\ \A j \in 1..k : scopes[j].id \in s.done
      BY <2>2
    <2>5. None \notin ids
      BY DEF ids
    <2> HIDE DEF s, start, t
    <2>6. /\ OnceIn(t.scopes) /\ IdsIn(t.scopes) = ids
          /\ Walked(ids, given, ParentsIn(t.scopes), t.done)
          /\ start \in t.done /\ s.done \in SUBSET t.done
      BY <2>3, <2>4, <2>5, WalkUpWalks
    <2>7. t.scopes \in Seq(ScopeSet)
      BY <2>3, <2>4, WalkUpIs DEF Relinked
    <2>8. \A j \in 1..(k + 1) : scopes[j].id \in t.done
      <3>1. \A j \in 1..(k + 1) : j \in 1..k \/ j = k + 1
        BY <2>1
      <3> QED  BY <2>4, <2>6, <3>1 DEF start
    <2> QED  BY <2>6, <2>7, <2>8 DEF t
  <1>9. Fine(l)
    <2> HIDE DEF T
    <2>1. T \in SUBSET Nat
      BY DEF T
    <2>2. l \in T /\ l \in 0..l
      BY <1>1, <1>7, <1>8, <2>1, SetInduction
    <2> QED  BY <2>2 DEF T
  <1>10. turn[l].done = ids
    <2>1. turn[l].done \in SUBSET ids
      BY <1>9 DEF Walked
    <2>2. ids \in SUBSET turn[l].done
      BY <1>9 DEF ids, IdsIn
    <2> QED  BY <2>1, <2>2
  <1> QED  BY <1>4, <1>9, <1>10 DEF ids, given

(* The parents a loaded run starts from: as its lines give them, and none   *)
(* for a placeholder.                                                       *)
LEMMA FinishedForest ==
    ASSUME NEW run, IsRun(run), ScopesOnce(run)
    PROVE  LET all   == Complete(run).scopes
               ids   == IdsIn(all)
               f     == Finished(run)
           IN  /\ IdsIn(f.scopes) = ids /\ None \notin ids
               /\ \A k \in 1..Len(f.records) : f.records[k].scope \in ids \cup {None}
               /\ \A k \in 1..Len(run.scopes) : run.scopes[k].id \in ids
                        /\ ParentsIn(all)[run.scopes[k].id] = run.scopes[k].parent
               /\ \A x \in ids : x \notin IdsIn(run.scopes) => ParentsIn(all)[x] = None
               /\ Walked(ids, ParentsIn(all), ParentsIn(f.scopes), ids)
  <1> DEFINE all == Complete(run).scopes
             ids == IdsIn(all)
             l   == Len(run.scopes)
             f   == Finished(run)
  <1>1. /\ all \in Seq(ScopeSet) /\ l \in Nat /\ Len(all) \in Nat /\ l <= Len(all)
        /\ \A k \in 1..l : all[k] = run.scopes[k]
        /\ \A k \in 1..Len(all) : k \notin 1..l => all[k].parent = None
        /\ OnceIn(all) /\ ids = IdsIn(run.scopes) \cup Needed(run)
        /\ f.records = run.records /\ f.scopes = Repair(all)
    BY CompleteIs
  <1> HIDE DEF all, f
  <1>2. \A k \in 1..Len(all) : all[k] \in ScopeSet
    BY <1>1, LenProperties
  <1>3. None \notin ids
    <2>1. None \notin Nat
      BY ReplayAssumption
    <2> QED  BY <1>2, <2>1 DEF IdsIn, ScopeSet
  <1>4. /\ \A k \in 1..l : run.scopes[k].parent \in ids \cup {None}
        /\ \A k \in 1..Len(run.records) : run.records[k].scope \in ids \cup {None}
    <2> HIDE DEF ids
    <2> QED  BY <1>1 DEF Needed, IdsIn
  <1>5. \A k \in 1..Len(all) : ParentsIn(all)[all[k].id] = all[k].parent
    BY <1>1, ParentOfIs
  <1>6. \A k \in 1..Len(all) : all[k].parent \in ids \cup {None}
    BY <1>1, <1>4
  <1>7. ParentsIn(all) \in [ids -> ids \cup {None}]
    <2>1. \A x \in ids : ParentsIn(all)[x] \in ids \cup {None}
      BY <1>5, <1>6 DEF IdsIn
    <2> HIDE DEF ids
    <2>2. ParentsIn(all) = [x \in ids |-> ParentsIn(all)[x]]
      BY DEF ParentsIn, ids
    <2> QED  BY <2>1, <2>2
  <1>8. IdsIn(f.scopes) = ids /\ Walked(ids, ParentsIn(all), ParentsIn(f.scopes), ids)
    BY <1>1, <1>3, <1>7, RepairWalks
  <1>9. ASSUME NEW k \in 1..l
        PROVE  run.scopes[k].id \in ids /\ ParentsIn(all)[run.scopes[k].id] = run.scopes[k].parent
    <2>1. k \in 1..Len(all)
      BY <1>1
    <2> QED  BY <1>1, <1>5, <2>1 DEF IdsIn
  <1>10. ASSUME NEW x \in ids, x \notin IdsIn(run.scopes) PROVE ParentsIn(all)[x] = None
    <2>1. PICK k \in 1..Len(all) : all[k].id = x
      BY DEF IdsIn
    <2>2. k \notin 1..l
      BY <1>1, <1>10, <2>1 DEF IdsIn
    <2> QED  BY <1>1, <1>5, <2>1, <2>2
  <1> QED  BY <1>1, <1>3, <1>4, <1>8, <1>9, <1>10 DEF all, f

-----------------------------------------------------------------------------
(* What is loaded, of a sound s: its runs, each completed, and perhaps one  *)
(* of the headers that are left.                                            *)

Extended(rs, s) ==
    /\ Len(s.runs) \in Nat /\ Len(rs) \in Nat /\ Len(s.runs) <= Len(rs)
    /\ \A i \in 1..Len(s.runs) : Completes(rs[i], s.runs[i])
    /\ \A i \in 1..Len(rs) : i \notin 1..Len(s.runs) =>
          rs[i].id = Legacy /\ rs[i].records = <<>> /\ rs[i].scopes = <<>>

Shows(s) ==
    /\ Sound(s) /\ input = s.input /\ headers = s.headers /\ legacy = s.legacy
    /\ Extended(runs, s)
    /\ s.issues \in SUBSET issues
    /\ \A issue \in issues : issue \in s.issues \/ issue \in [line : {0}, kind : IssueKinds]
    /\ phase = "reading" => runs = s.runs
    /\ phase = "finished" => \A i \in 1..Len(s.runs) : runs[i] = Finished(s.runs[i])
    /\ phase = "finished" => HeadersIn(runs) = HeadersIn(s.runs) + s.headers
    /\ phase \in {"reading", "finished"}

Inv ==
    \/ phase = "reading" /\ Sound(Loader)
    \/ phase = "finished" /\ \E s : Sound(s) /\ Loader = AfterFinish(s)

LEMMA CompletesItself ==
    ASSUME NEW run, IsRun(run), ScopesOnce(run)
    PROVE  Completes(run, run)
  <1>1. Len(run.scopes) \in Nat
    BY LenProperties DEF IsRun
  <1>2. Len(run.scopes) <= Len(run.scopes)
    BY <1>1
  <1> QED  BY <1>1, <1>2 DEF Completes, SameScope

LEMMA LoaderIs ==
    /\ Loader.runs = runs /\ Loader.legacy = legacy /\ Loader.headers = headers
    /\ Loader.issues = issues /\ Loader.input = input
  BY DEF Loader

LEMMA ReadingShows ==
    ASSUME phase = "reading", Sound(Loader)
    PROVE  Shows(Loader)
  <1>1. Extended(runs, Loader)
    <2>1. Len(runs) \in Nat
      BY LoaderIs, LenProperties DEF Sound, IsLoader, IsSeq
    <2>2. Len(runs) <= Len(runs)
      BY <2>1
    <2>3. \A i \in 1..Len(runs) : IsRun(runs[i]) /\ ScopesOnce(runs[i])
      BY LoaderIs DEF Sound, RunsSay, RunSays
    <2> QED  BY <2>1, <2>2, <2>3, CompletesItself, LoaderIs DEF Extended
  <1> QED  BY <1>1, LoaderIs DEF Shows

LEMMA FinishShows ==
    ASSUME NEW s, Sound(s), Loader = AfterFinish(s), phase = "finished"
    PROVE  Shows(s)
  <1> DEFINE n    == Len(s.runs)
             fin  == [i \in 1..n |-> Finished(s.runs[i])]
             last == [NewRun(Legacy) EXCEPT !.headers = s.headers]
             tail == IF s.headers = 0 THEN <<>> ELSE <<last>>
             kinds == (IF \E i \in 1..Len(s.runs) : Needed(s.runs[i]) # {} THEN {"MissingScopeMetadata"} ELSE {})
                      \cup (IF \E i \in 1..Len(s.runs) :
                                 LET c == Complete(s.runs[i]) IN Repair(c.scopes) # c.scopes
                            THEN {"InvalidHierarchy"} ELSE {})
             more == s.issues \cup {[line |-> 0, kind |-> k] : k \in kinds}
             rs   == fin \o tail
  <1>1. Loader = [[s EXCEPT !.runs = rs] EXCEPT !.issues = more]
    BY DEF AfterFinish
  <1>2. IsLoader(s) /\ RunsSay(s)
    BY DEF Sound
  <1>3. n \in Nat /\ IsSeq(s.runs) /\ s.headers \in Nat
    <2>1. n \in Nat
      BY <1>2, LenProperties DEF IsLoader, IsSeq
    <2> QED  BY <1>2, <2>1 DEF IsLoader
  <1>4. kinds \in SUBSET IssueKinds
    BY DEF IssueKinds
  <1>5. more = s.issues \cup {[line |-> 0, kind |-> k] : k \in kinds}
    OBVIOUS
  <1> HIDE DEF kinds, more, rs
  <1>6. /\ runs = rs /\ issues = more /\ input = s.input /\ headers = s.headers
        /\ legacy = s.legacy
    <2> DEFINE z == Loader
    <2>1. z.runs = runs /\ z.issues = issues /\ z.input = input /\ z.headers = headers
          /\ z.legacy = legacy
      BY LoaderIs
    <2>2. z = [[s EXCEPT !.runs = rs] EXCEPT !.issues = more]
      BY <1>1
    <2> HIDE DEF z
    <2>3. /\ z.runs = rs /\ z.issues = more /\ z.input = s.input /\ z.headers = s.headers
          /\ z.legacy = s.legacy
      BY <1>2, <2>2 DEF IsLoader
    <2> QED  BY <2>1, <2>3
  <1>7. /\ s.issues \in SUBSET issues
        /\ \A issue \in issues : issue \in s.issues \/ issue \in [line : {0}, kind : IssueKinds]
    BY <1>4, <1>5, <1>6
  <1>8. ASSUME NEW i \in 1..n PROVE Completes(Finished(s.runs[i]), s.runs[i])
    BY <1>2, FinishedIs DEF RunsSay, RunSays
  <1>9. /\ last.id = Legacy /\ last.records = <<>> /\ last.scopes = <<>> /\ last.headers = s.headers
    BY DEF NewRun
  <1> HIDE DEF last
  <1>10. fin \in Seq({fin[i] : i \in 1..n}) /\ Len(fin) = n
         /\ \A i \in 1..n : fin[i] = Finished(s.runs[i])
    <2> DEFINE S == {fin[i] : i \in 1..n}
    <2>1. fin \in [1..n -> S] /\ \A i \in 1..n : fin[i] = Finished(s.runs[i])
      OBVIOUS
    <2> HIDE DEF fin, S
    <2>2. fin \in Seq(S)
      BY <1>3, <2>1, SeqDef
    <2>3. DOMAIN fin = 1..n
      BY <2>1
    <2>4. Len(fin) = n
      BY <1>3, <2>2, <2>3, LenProperties
    <2> QED  BY <2>1, <2>2, <2>4 DEF S
  <1> HIDE DEF fin
  <1>11. \A i \in 1..n : s.runs[i].headers \in Nat
    BY <1>2 DEF RunsSay, RunSays, IsRun
  <1> DEFINE S  == {fin[i] : i \in 1..n} \cup {last}
             ss == s.runs
  <1>12. fin \in Seq(S) /\ last \in S
    <2>1. fin \in Seq(S)
      BY <1>10, SeqMonotonic
    <2> QED  BY <2>1
  <1> HIDE DEF S
  <1>13. ss \in Seq({ss[i] : i \in 1..Len(ss)} \cup {last}) /\ Len(ss) = n
    <2>1. ss \in Seq({ss[i] : i \in 1..Len(ss)})
      BY <1>3 DEF IsSeq
    <2> QED  BY <2>1, SeqMonotonic
  <1>14. CASE s.headers = 0
    <2>1. rs = fin \o <<>>
      BY <1>14 DEF rs
    <2>2. <<>> \in Seq(S) /\ Len(<<>>) = 0
      OBVIOUS
    <2>3. Len(rs) = n /\ \A i \in 1..n : rs[i] = fin[i]
      BY <1>3, <1>10, <1>12, <2>1, <2>2, ConcatProperties
    <2>4. \A i \in 1..n : Completes(rs[i], s.runs[i])
      BY <1>8, <1>10, <2>3
    <2>5. Extended(rs, s)
      <3>1. n <= n
        BY <1>3
      <3> QED  BY <1>3, <2>3, <2>4, <3>1 DEF Extended
    <2>6. HeadersIn(rs) = HeadersIn(s.runs) + s.headers
      <3> DEFINE z == 0
      <3>1. OneHasMore(ss, rs, Len(ss), z, z)
        <4>1. \A i \in 1..n : rs[i].headers = s.runs[i].headers
          BY <2>4 DEF Completes
        <4>2. z \notin 1..n
          BY <1>3
        <4> QED  BY <1>11, <1>13, <4>1, <4>2 DEF OneHasMore
      <3>2. Len(ss) \in Nat /\ Len(rs) = Len(ss) /\ z \in Nat /\ z \notin 1..Len(ss)
        BY <1>3, <1>13, <2>3
      <3> HIDE DEF ss, z
      <3>3. HeadersIn(rs) = HeadersIn(ss) /\ HeadersIn(ss) \in Nat
        BY <3>1, <3>2, HeadersMore
      <3> QED  BY <1>14, <3>3 DEF ss
    <2>7. \A i \in 1..n : runs[i] = Finished(s.runs[i])
      BY <1>6, <1>10, <2>3
    <2> QED  BY <1>6, <1>7, <2>5, <2>6, <2>7 DEF Shows
  <1>15. CASE s.headers # 0
    <2>1. rs = fin \o <<last>>
      BY <1>15 DEF rs
    <2>2. <<last>> \in Seq(S) /\ Len(<<last>>) = 1 /\ <<last>>[1] = last
      BY <1>12
    <2>3. Len(rs) = n + 1 /\ (\A i \in 1..n : rs[i] = fin[i]) /\ rs[n + 1] = last
      <3>1. /\ Len(rs) = n + 1
            /\ \A i \in 1..(n + 1) : rs[i] = IF i <= n THEN fin[i] ELSE <<last>>[i - n]
        BY <1>3, <1>10, <1>12, <2>1, <2>2, ConcatProperties
      <3>2. \A i \in 1..n : i \in 1..(n + 1) /\ i <= n
        BY <1>3
      <3>3. n + 1 \in 1..(n + 1) /\ ~ (n + 1 <= n) /\ (n + 1) - n = 1
        BY <1>3
      <3> QED  BY <2>2, <3>1, <3>2, <3>3
    <2>4. \A i \in 1..n : Completes(rs[i], s.runs[i])
      BY <1>8, <1>10, <2>3
    <2>5. Extended(rs, s)
      <3>1. n <= n + 1 /\ n + 1 \in Nat /\ \A i \in 1..(n + 1) : i \in 1..n \/ i = n + 1
        BY <1>3
      <3> QED  BY <1>3, <1>9, <2>3, <2>4, <3>1 DEF Extended
    <2>6. HeadersIn(rs) = HeadersIn(s.runs) + s.headers
      <3> DEFINE z  == 0
                 ps == Append(ss, last)
      <3>1. \A i \in 1..Len(ss) : ss[i].headers \in Nat
        BY <1>11, <1>13
      <3> HIDE DEF ss
      <3>2. HeadersIn(ss) \in Nat /\ HeadersIn(ps) = HeadersIn(ss) + last.headers
        BY <1>3, <1>9, <1>13, <3>1, HeadersAppend
      <3>3. Len(ps) = n + 1 /\ ps[n + 1] = last /\ \A i \in 1..n : ps[i] = ss[i]
        BY <1>13, AppendProperties
      <3>4. OneHasMore(ps, rs, n + 1, z, z)
        <4>1. \A i \in 1..n : rs[i].headers = ss[i].headers
          BY <2>4 DEF Completes, ss
        <4>2. z \notin 1..(n + 1) /\ \A i \in 1..(n + 1) : i \in 1..n \/ i = n + 1
          BY <1>3
        <4>3. \A i \in 1..(n + 1) : ps[i].headers \in Nat /\ rs[i].headers = ps[i].headers
          BY <1>3, <1>9, <1>13, <2>3, <3>1, <3>3, <4>1, <4>2
        <4> QED  BY <4>2, <4>3 DEF OneHasMore
      <3>5. Len(ps) = n + 1 /\ n + 1 \in Nat /\ Len(rs) = n + 1 /\ z \in Nat /\ z \notin 1..(n + 1)
        BY <1>3, <2>3, <3>3
      <3> HIDE DEF ps, z
      <3>6. HeadersIn(rs) = HeadersIn(ps)
        BY <3>4, <3>5, HeadersMore
      <3> QED  BY <1>9, <3>2, <3>6 DEF ss
    <2>7. \A i \in 1..n : runs[i] = Finished(s.runs[i])
      BY <1>6, <1>10, <2>3
    <2> QED  BY <1>6, <1>7, <2>5, <2>6, <2>7 DEF Shows
  <1> QED  BY <1>14, <1>15

LEMMA InvShows == Inv => \E s : Shows(s)
  BY ReadingShows, FinishShows DEF Inv

-----------------------------------------------------------------------------
(* Every reachable state                                                    *)

LEMMA InitSound == Init => Sound(Loader)
  <1> SUFFICES ASSUME Init PROVE Sound(Loader)
    OBVIOUS
  <1> DEFINE t == Loader
  <1>1. t.runs = <<>> /\ t.legacy = 0 /\ t.headers = 0 /\ t.issues = {} /\ t.input = <<>>
    BY LoaderIs DEF Init
  <1>2. t \in [runs : {t.runs}, legacy : {t.legacy}, headers : {t.headers}, issues : {t.issues},
               input : {t.input}]
    BY DEF Loader
  <1>3. Len(<<>>) = 0 /\ <<>> \in Seq({})
    OBVIOUS
  <1>4. IsLoader(t)
    <2>1. IsSeq(<<>>) /\ <<>> \in Seq(InputSet)
      <3>1. \A S : <<>> \in Seq(S)
        OBVIOUS
      <3> QED  BY <3>1 DEF IsSeq
    <2>2. IssuesUpTo({}, 0)
      BY DEF IssuesUpTo
    <2> HIDE DEF t
    <2> QED  BY <1>1, <1>2, <1>3, <2>1, <2>2 DEF IsLoader
  <1> HIDE DEF t
  <1>5. RunsSay(t) /\ LinesPlaced(t) /\ RunsOnce(t)
    BY <1>1, <1>3 DEF RunsSay, LinesPlaced, RunsOnce
  <1>6. RunsAlone(t)
    <2>1. \A id : Alone(id, <<>>) = NewRun(id)
      BY AloneEmpty
    <2> QED  BY <1>1, <1>3, <2>1 DEF RunsAlone
  <1>7. LegacyOnce(t)
    BY <1>1, <1>3 DEF LegacyOnce
  <1>8. HeadersCounted(t)
    <2>1. HeaderLines(<<>>) = {}
      BY <1>3 DEF HeaderLines
    <2>2. Cardinality({}) = 0
      BY FS_EmptySet
    <2>3. HeadersIn(<<>>) = 0
      <3> DEFINE rs == <<>>
      <3>1. PICK turn : HeaderTurns(rs, Len(rs), turn) /\ HeadersIn(rs) = turn[Len(rs)]
        BY <1>3, HeadersInIs
      <3> QED  BY <1>3, <3>1 DEF HeaderTurns
    <2> DEFINE e == <<>>
    <2>4. /\ t.runs = e /\ t.headers = 0 /\ t.input = e
          /\ Cardinality(HeaderLines(e)) = 0 /\ HeadersIn(e) = 0
      BY <1>1, <2>1, <2>2, <2>3
    <2> HIDE DEF e
    <2>5. Cardinality(HeaderLines(t.input)) = 0 /\ HeadersIn(t.runs) + t.headers = 0
      BY <2>4
    <2> QED  BY <2>5 DEF HeadersCounted
  <1> QED  BY <1>4, <1>5, <1>6, <1>7, <1>8 DEF Sound, t

LEMMA BecomeIs ==
    ASSUME NEW t,
           t \in [runs : {t.runs}, legacy : {t.legacy}, headers : {t.headers},
                  issues : {t.issues}, input : {t.input}],
           Become(t)
    PROVE  Loader' = t
  BY DEF Become, Loader

LEMMA BecomeSound ==
    ASSUME NEW t, Sound(t), Become(t), phase' = "reading"
    PROVE  Inv'
  <1>1. Loader' = t
    BY BecomeIs DEF Sound, IsLoader
  <1>2. Sound(Loader')
    BY <1>1
  <1> QED  BY <1>2 DEF Inv

LEMMA FinishBecomes ==
    ASSUME NEW s, Sound(s), Become(AfterFinish(s))
    PROVE  Loader' = AfterFinish(s)
  <1> DEFINE rs   == AfterFinish(s).runs
             more == AfterFinish(s).issues
             t    == [[s EXCEPT !.runs = rs] EXCEPT !.issues = more]
  <1>1. s \in [runs : {s.runs}, legacy : {s.legacy}, headers : {s.headers}, issues : {s.issues},
               input : {s.input}]
    BY DEF Sound, IsLoader
  <1>2. AfterFinish(s) = t
    BY <1>1 DEF AfterFinish
  <1> HIDE DEF rs, more
  <1>3. t \in [runs : {t.runs}, legacy : {t.legacy}, headers : {t.headers},
               issues : {t.issues}, input : {t.input}]
    BY <1>1
  <1>4. Become(t)
    BY <1>2
  <1> HIDE DEF t
  <1>5. Loader' = t
    BY <1>3, <1>4, BecomeIs
  <1> QED  BY <1>2, <1>5

(* Inv is inductive: each line takes a sound loader to a sound one, and     *)
(* Finish is the last step.                                                 *)
LEMMA NextKeepsInv ==
    ASSUME Inv, [Next]_vars
    PROVE  Inv'
  <1>1. CASE ReadHeader
    <2>1. phase = "reading" /\ phase' = "reading" /\ Become(AfterHeader(Loader))
      BY <1>1 DEF ReadHeader
    <2>2. Sound(AfterHeader(Loader))
      BY <2>1, HeaderSound DEF Inv
    <2> QED  BY <2>1, <2>2, BecomeSound
  <1>2. ASSUME NEW kind \in {"InvalidLine", "UnsupportedVersion"}, SkipLine(kind)
        PROVE  Inv'
    <2>1. phase = "reading" /\ phase' = "reading" /\ Become(AfterSkip(Loader, kind))
      BY <1>2 DEF SkipLine
    <2>2. kind \in IssueKinds
      BY DEF IssueKinds
    <2>3. Sound(AfterSkip(Loader, kind))
      BY <2>1, <2>2, SkipSound DEF Inv
    <2> QED  BY <2>1, <2>3, BecomeSound
  <1>3. ASSUME NEW e \in Lines, ReadEntry(e)
        PROVE  Inv'
    <2>1. phase = "reading" /\ phase' = "reading" /\ Become(AfterEntry(Loader, e))
      BY <1>3 DEF ReadEntry
    <2>2. Sound(AfterEntry(Loader, e))
      BY <2>1, EntrySound DEF Inv, Entries
    <2> QED  BY <2>1, <2>2, BecomeSound
  <1>4. CASE Finish
    <2>1. phase = "reading" /\ phase' = "finished" /\ Become(AfterFinish(Loader))
      BY <1>4 DEF Finish
    <2>2. Sound(Loader)
      BY <2>1 DEF Inv
    <2>3. Loader' = AfterFinish(Loader)
      BY <2>1, <2>2, FinishBecomes
    <2>4. \E s : Sound(s) /\ Loader' = AfterFinish(s)
      BY <2>2, <2>3
    <2> QED  BY <2>1, <2>4 DEF Inv
  <1>5. CASE UNCHANGED vars
    <2>1. Loader' = Loader /\ phase' = phase
      BY <1>5 DEF vars, Loader
    <2> QED  BY <2>1 DEF Inv
  <1> QED  BY <1>1, <1>2, <1>3, <1>4, <1>5 DEF Next

(* The loader is sound, whatever it is given to read.                       *)
THEOREM InvHolds == Spec => []Inv
  <1>1. Init => Inv
    BY InitSound DEF Init, Inv
  <1>2. Inv /\ [Next]_vars => Inv'
    BY NextKeepsInv
  <1> QED  BY <1>1, <1>2, PTL DEF Spec

-----------------------------------------------------------------------------
(* The properties                                                           *)

LEMMA RunShown ==
    ASSUME NEW s, Shows(s), NEW i \in Nat \ {0}
    PROVE  /\ DOMAIN View(input, i) = LinesOf(i) /\ LinesOf(i) \in SUBSET Nat
           /\ \A n \in LinesOf(i) :
                 View(input, i)[n].record = RecordAt(n) /\ View(input, i)[n].scope = ScopeAt(n)
           /\ i \in 1..Len(s.runs) =>
                 /\ RunSays(s.runs[i], View(input, i), Reports(input, s.issues, i))
                 /\ Completes(runs[i], s.runs[i]) /\ i \in 1..Len(runs)
           /\ i \notin 1..Len(s.runs) => LinesOf(i) = {}
           /\ i \in 1..Len(runs) /\ i \notin 1..Len(s.runs) =>
                 runs[i].id = Legacy /\ runs[i].records = <<>> /\ runs[i].scopes = <<>>
           /\ \A n \in Reports(input, s.issues, i) : Reported(n)
  <1>1. input = s.input /\ Sound(s) /\ Extended(runs, s) /\ s.issues \in SUBSET issues
    BY DEF Shows
  <1>2. DOMAIN View(input, i) = LinesOf(i) /\ \A n \in LinesOf(i) : View(input, i)[n] = input[n].entry
    BY DEF View, LinesOf
  <1>3. \A n \in LinesOf(i) :
           View(input, i)[n].record = RecordAt(n) /\ View(input, i)[n].scope = ScopeAt(n)
    BY <1>2 DEF RecordAt, ScopeAt
  <1>4. i \in 1..Len(s.runs) =>
           RunSays(s.runs[i], View(input, i), Reports(input, s.issues, i))
    BY <1>1 DEF Sound, RunsSay
  <1>5. i \in 1..Len(s.runs) => Completes(runs[i], s.runs[i]) /\ i \in 1..Len(runs)
    BY <1>1 DEF Extended
  <1>6. i \notin 1..Len(s.runs) => LinesOf(i) = {}
    BY <1>1 DEF Sound, LinesPlaced, LinesOf
  <1>7. i \in 1..Len(runs) /\ i \notin 1..Len(s.runs) =>
           runs[i].id = Legacy /\ runs[i].records = <<>> /\ runs[i].scopes = <<>>
    BY <1>1 DEF Extended
  <1>8. \A n \in Reports(input, s.issues, i) : Reported(n)
    BY <1>1 DEF Reports, Reported
  <1>9. LinesOf(i) \in SUBSET Nat
    BY DEF LinesOf
  <1> QED  BY <1>2, <1>3, <1>4, <1>5, <1>6, <1>7, <1>8, <1>9

LEMMA ShowsNothingLost ==
    ASSUME NEW s, Shows(s)
    PROVE  NothingLost
  <1>1. Sound(s) /\ input = s.input /\ headers = s.headers /\ Extended(runs, s)
        /\ phase \in {"reading", "finished"}
        /\ (phase = "reading" => runs = s.runs)
        /\ (phase = "finished" => HeadersIn(runs) = HeadersIn(s.runs) + s.headers)
    BY DEF Shows
  <1>2. ASSUME NEW n \in 1..Len(input), input[n].run # 0
        PROVE  LET run == runs[input[n].run]
               IN  /\ RecordAt(n) # None => \E k \in 1..Len(run.records) : run.records[k] = RecordAt(n)
                   /\ ScopeAt(n) # None => ScopeIndex(run, ScopeAt(n).id) # {}
    <2> DEFINE i == input[n].run
               V == View(input, i)
               R == Reports(input, s.issues, i)
    <2>1. i \in 1..Len(s.runs)
      BY <1>1, <1>2 DEF Sound, LinesPlaced
    <2>2. i \in Nat \ {0} /\ n \in LinesOf(i)
      BY <2>1 DEF LinesOf
    <2>3. /\ n \in DOMAIN V /\ V[n].record = RecordAt(n) /\ V[n].scope = ScopeAt(n)
          /\ RunSays(s.runs[i], V, R) /\ Completes(runs[i], s.runs[i])
      BY <2>1, <2>2, RunShown
    <2> HIDE DEF i, V, R
    <2>4. RecordAt(n) # None => \E k \in 1..Len(runs[i].records) : runs[i].records[k] = RecordAt(n)
      <3>1. runs[i].records = s.runs[i].records
        BY <2>3 DEF Completes
      <3>2. RecordsKept(s.runs[i], V)
        BY <2>3 DEF RunSays
      <3> QED  BY <2>3, <3>1, <3>2 DEF RecordsKept
    <2>5. ASSUME ScopeAt(n) # None PROVE ScopeIndex(runs[i], ScopeAt(n).id) # {}
      <3>1. ScopesTold(s.runs[i], V, R)
        BY <2>3 DEF RunSays
      <3>2. PICK k \in ScopeIndex(s.runs[i], ScopeAt(n).id) : TRUE
        BY <2>3, <2>5, <3>1 DEF ScopesTold
      <3>3. k \in 1..Len(s.runs[i].scopes) /\ s.runs[i].scopes[k].id = ScopeAt(n).id
        BY <3>2 DEF ScopeIndex
      <3>4. k \in 1..Len(runs[i].scopes) /\ runs[i].scopes[k].id = ScopeAt(n).id
        BY <2>3, <3>3 DEF Completes, SameScope
      <3> QED  BY <3>4 DEF ScopeIndex
    <2> QED  BY <2>4, <2>5 DEF i
  <1>3. ASSUME NEW i \in 1..Len(runs), NEW k \in 1..Len(runs[i].records)
        PROVE  \E n \in LinesOf(i) : RecordAt(n) = runs[i].records[k]
    <2> DEFINE V == View(input, i)
               R == Reports(input, s.issues, i)
    <2>1. i \in Nat \ {0}
      OBVIOUS
    <2>2. CASE i \in 1..Len(s.runs)
      <3>1. /\ DOMAIN V = LinesOf(i) /\ \A n \in LinesOf(i) : V[n].record = RecordAt(n)
            /\ RunSays(s.runs[i], V, R) /\ Completes(runs[i], s.runs[i])
        BY <2>1, <2>2, RunShown
      <3> HIDE DEF V, R
      <3>2. runs[i].records = s.runs[i].records
        BY <3>1 DEF Completes
      <3>3. \E n \in DOMAIN V : V[n].record = s.runs[i].records[k]
        BY <3>1, <3>2 DEF RunSays, RecordsKept
      <3> QED  BY <3>1, <3>2, <3>3
    <2>3. CASE i \notin 1..Len(s.runs)
      <3>1. runs[i].records = <<>> /\ Len(<<>>) = 0
        BY <2>1, <2>3, RunShown
      <3> QED  BY <3>1
    <2> QED  BY <2>2, <2>3
  <1>4. Cardinality({n \in 1..Len(input) : input[n].what = "header"})
           = HeadersIn(runs) + (IF phase = "reading" THEN headers ELSE 0)
    <2>1. Cardinality(HeaderLines(input)) = HeadersIn(s.runs) + s.headers
      BY <1>1 DEF Sound, HeadersCounted
    <2>2. s.headers \in Nat /\ HeadersIn(s.runs) \in Nat
      <3>1. IsLoader(s) /\ \A i \in 1..Len(s.runs) : s.runs[i].headers \in Nat
        BY <1>1 DEF Sound, RunsSay, RunSays, IsRun
      <3>2. Len(s.runs) \in Nat
        BY <1>1 DEF Extended
      <3> QED  BY <3>1, <3>2, HeadersNat DEF IsLoader
    <2>3. CASE phase = "reading"
      BY <1>1, <2>1, <2>3 DEF HeaderLines
    <2>4. CASE phase = "finished"
      BY <1>1, <2>1, <2>2, <2>4 DEF HeaderLines
    <2> QED  BY <1>1, <2>3, <2>4
  <1> QED  BY <1>2, <1>3, <1>4 DEF NothingLost

LEMMA ShowsNoSilentConflict ==
    ASSUME NEW s, Shows(s)
    PROVE  NoSilentConflict
  <1> SUFFICES ASSUME NEW i \in 1..Len(runs), NEW n \in LinesOf(i), NEW m \in LinesOf(i)
               PROVE  /\ RecordsDisagree(n, m) => RecordReported(n) \/ RecordReported(m)
                      /\ ScopesDisagree(n, m) => ScopeReported(n) \/ ScopeReported(m)
                      /\ Reported(n) => \E k \in LinesOf(i) :
                            k < n /\ (RecordsDisagree(n, k) \/ ScopesDisagree(n, k))
    BY DEF NoSilentConflict
  <1> DEFINE V == View(input, i)
             R == Reports(input, s.issues, i)
             run == s.runs[i]
  <1>1. i \in Nat \ {0}
    OBVIOUS
  <1>2. /\ DOMAIN V = LinesOf(i)
        /\ \A l \in LinesOf(i) : V[l].record = RecordAt(l) /\ V[l].scope = ScopeAt(l)
        /\ RunSays(run, V, R) /\ \A l \in R : Reported(l)
    BY <1>1, RunShown
  <1>3. input[n].run = i /\ input[m].run = i
    BY DEF LinesOf
  <1>4. R \in SUBSET LinesOf(i)
    BY DEF Reports, LinesOf
  <1> HIDE DEF V, R, run
  <1>5. \A l \in LinesOf(i) : l \in R => /\ input[l].run = i => RecordReported(l)
                                         /\ input[l].run = i => ScopeReported(l)
    BY <1>2 DEF RecordReported, ScopeReported
  <1>6. ASSUME RecordsDisagree(n, m) PROVE RecordReported(n) \/ RecordReported(m)
    <2> DEFINE p == V[n].record
               q == V[m].record
    <2>1. p = RecordAt(n) /\ q = RecordAt(m) /\ n \in DOMAIN V /\ m \in DOMAIN V
      BY <1>2
    <2>2. /\ p # None /\ q # None
          /\ (p.id = q.id /\ p # q) \/ (p.exit # None /\ q.exit # None /\ p.scope = q.scope /\ p.exit # q.exit)
      BY <1>6, <2>1 DEF RecordsDisagree
    <2>3. FirstTold(run, V, R) /\ OutcomesTold(run, V, R)
      BY <1>2 DEF RunSays
    <2>4. CASE p.id = q.id /\ p # q
      <3>1. \/ run.records[Least(RecordIndex(run, p.id))] = p
            \/ n \in R
        BY <2>1, <2>2, <2>3 DEF FirstTold
      <3>2. \/ run.records[Least(RecordIndex(run, q.id))] = q
            \/ m \in R
        BY <2>1, <2>2, <2>3 DEF FirstTold
      <3>3. n \in R \/ m \in R
        BY <2>4, <3>1, <3>2
      <3> QED  BY <1>3, <1>5, <3>3
    <2>5. CASE p.exit # None /\ q.exit # None /\ p.scope = q.scope /\ p.exit # q.exit
      <3>1. \/ run.outcomes[p.scope] = p.exit
            \/ \E l \in R : l \in DOMAIN V /\ V[l].record = p
        BY <2>1, <2>2, <2>3, <2>5 DEF OutcomesTold
      <3>2. \/ run.outcomes[q.scope] = q.exit
            \/ \E l \in R : l \in DOMAIN V /\ V[l].record = q
        BY <2>1, <2>2, <2>3, <2>5 DEF OutcomesTold
      <3>3. (\E l \in R : l \in DOMAIN V /\ V[l].record = p)
            \/ (\E l \in R : l \in DOMAIN V /\ V[l].record = q)
        BY <2>5, <3>1, <3>2
      <3>4. ASSUME NEW l \in R, l \in DOMAIN V, V[l].record = p PROVE RecordReported(n)
        <4>1. l \in LinesOf(i) /\ RecordAt(l) = RecordAt(n) /\ Reported(l)
          BY <1>2, <2>1, <3>4
        <4> QED  BY <1>3, <4>1 DEF RecordReported
      <3>5. ASSUME NEW l \in R, l \in DOMAIN V, V[l].record = q PROVE RecordReported(m)
        <4>1. l \in LinesOf(i) /\ RecordAt(l) = RecordAt(m) /\ Reported(l)
          BY <1>2, <2>1, <3>5
        <4> QED  BY <1>3, <4>1 DEF RecordReported
      <3> QED  BY <3>3, <3>4, <3>5
    <2> HIDE DEF p, q
    <2> QED  BY <2>2, <2>4, <2>5
  <1>7. ASSUME ScopesDisagree(n, m) PROVE ScopeReported(n) \/ ScopeReported(m)
    <2> DEFINE p == V[n].scope
               q == V[m].scope
    <2>1. p = ScopeAt(n) /\ q = ScopeAt(m) /\ n \in DOMAIN V /\ m \in DOMAIN V
      BY <1>2
    <2>2. p # None /\ q # None /\ p.id = q.id /\ Contradicts(p, q)
      BY <1>7, <2>1 DEF ScopesDisagree
    <2>3. ScopesTold(run, V, R) /\ ScopesOnce(run)
      BY <1>2 DEF RunSays
    <2>4. \E k \in ScopeIndex(run, p.id) : n \notin R => Agrees(run.scopes[k], p)
      BY <2>1, <2>2, <2>3 DEF ScopesTold
    <2>5. \E k \in ScopeIndex(run, q.id) : m \notin R => Agrees(run.scopes[k], q)
      BY <2>1, <2>2, <2>3 DEF ScopesTold
    <2> HIDE DEF p, q
    <2>6. PICK k \in ScopeIndex(run, p.id) : n \notin R => Agrees(run.scopes[k], p)
      BY <2>4
    <2>7. PICK j \in ScopeIndex(run, q.id) : m \notin R => Agrees(run.scopes[j], q)
      BY <2>5
    <2>8. j = k
      BY <2>2, <2>3, <2>6, <2>7 DEF ScopeIndex, ScopesOnce
    <2>9. n \in R \/ m \in R
      BY <2>2, <2>6, <2>7, <2>8 DEF Agrees, Contradicts
    <2> QED  BY <1>3, <1>5, <2>9
  <1>8. ASSUME Reported(n)
        PROVE  \E k \in LinesOf(i) : k < n /\ (RecordsDisagree(n, k) \/ ScopesDisagree(n, k))
    <2>1. n \in R
      <3>1. PICK issue \in issues : issue.line = n /\ issue.kind \in Conflicts
        BY <1>8 DEF Reported, Conflicts
      <3>2. n # 0 /\ n \in 1..Len(input) /\ input[n].run = i
        BY DEF LinesOf
      <3>3. issue \notin [line : {0}, kind : IssueKinds]
        BY <3>1, <3>2
      <3>4. issue \in s.issues
        BY <3>3 DEF Shows
      <3> QED  BY <3>1, <3>2, <3>4 DEF R, Reports, Conflicts
    <2>2. PICK k \in DOMAIN V : n \in DOMAIN V /\ k < n /\ Disagree(V[n], V[k])
      BY <1>2, <2>1 DEF RunSays, ReportsDue
    <2>3. /\ k \in LinesOf(i) /\ V[n].record = RecordAt(n) /\ V[k].record = RecordAt(k)
          /\ V[n].scope = ScopeAt(n) /\ V[k].scope = ScopeAt(k)
      BY <1>2, <2>2
    <2>4. RecordsDisagree(n, k) \/ ScopesDisagree(n, k)
      BY <2>2, <2>3 DEF Disagree, RecordsDisagree, ScopesDisagree
    <2> QED  BY <2>2, <2>3, <2>4
  <1> QED  BY <1>6, <1>7, <1>8

LEMMA ShowsRunsSeparate ==
    ASSUME NEW s, Shows(s)
    PROVE  RunsSeparate
  <1>1. Sound(s) /\ input = s.input /\ headers = s.headers /\ legacy = s.legacy
        /\ Extended(runs, s) /\ phase \in {"reading", "finished"}
        /\ (phase = "reading" => runs = s.runs)
    BY DEF Shows
  <1>2. IsLoader(s) /\ RunsOnce(s) /\ RunsAlone(s) /\ LegacyOnce(s)
    BY <1>1 DEF Sound
  <1>3. \A i \in 1..Len(s.runs) : runs[i].id = s.runs[i].id /\ i \in 1..Len(runs)
    BY <1>1 DEF Extended, Completes
  <1>4. legacy \in 0..Len(runs) /\ (legacy # 0 => runs[legacy].id = Legacy)
    <2>1. s.legacy \in 0..Len(s.runs) /\ Len(s.runs) \in Nat /\ Len(runs) \in Nat
          /\ Len(s.runs) <= Len(runs)
      BY <1>1, <1>2 DEF IsLoader, Extended
    <2>2. s.legacy # 0 => s.legacy \in 1..Len(s.runs) /\ s.runs[s.legacy].id = Legacy
      BY <1>2, <2>1 DEF LegacyOnce
    <2> QED  BY <1>1, <1>3, <2>1, <2>2
  <1>5. headers \in 0..Len(input)
    BY <1>1, <1>2 DEF IsLoader
  <1>6. issues \subseteq [line : 0..Len(input), kind : IssueKinds]
    <2> SUFFICES ASSUME NEW x \in issues PROVE x \in [line : 0..Len(input), kind : IssueKinds]
      OBVIOUS
    <2>1. Len(input) \in Nat
      BY <1>1, <1>2, LenProperties DEF IsLoader
    <2>2. x \in s.issues \/ x \in [line : {0}, kind : IssueKinds]
      BY DEF Shows
    <2>3. s.issues \in SUBSET [line : 1..Len(input), kind : IssueKinds]
      BY <1>1, <1>2 DEF IsLoader, IssuesUpTo
    <2> HIDE DEF IssueKinds
    <2>4. 1..Len(input) \in SUBSET (0..Len(input)) /\ 0 \in 0..Len(input)
      BY <2>1
    <2>5. CASE x \in [line : 1..Len(input), kind : IssueKinds]
      BY <2>4, <2>5
    <2>6. CASE x \in [line : {0}, kind : IssueKinds]
      BY <2>4, <2>6
    <2> QED  BY <2>2, <2>3, <2>5, <2>6
  <1>7. ASSUME NEW i \in 1..Len(runs), NEW j \in 1..Len(runs[i].scopes),
               NEW k \in 1..Len(runs[i].scopes), runs[i].scopes[j].id = runs[i].scopes[k].id
        PROVE  j = k
    <2>1. i \in Nat \ {0}
      OBVIOUS
    <2>2. CASE i \in 1..Len(s.runs)
      BY <1>1, <1>7, <2>2 DEF Extended, Completes, ScopesOnce
    <2>3. CASE i \notin 1..Len(s.runs)
      <3>1. runs[i].scopes = <<>> /\ Len(<<>>) = 0
        BY <2>1, <2>3, RunShown
      <3> QED  BY <3>1
    <2> QED  BY <2>2, <2>3
  <1>8. ASSUME NEW i \in 1..Len(runs), runs[i].id # Legacy
        PROVE  RunIndex(runs, runs[i].id) = {i}
    <2>1. \A j \in 1..Len(runs) : runs[j].id # Legacy =>
             j \in 1..Len(s.runs) /\ runs[j].id = s.runs[j].id
      BY <1>1, <1>3 DEF Extended
    <2>2. \A j \in 1..Len(runs) : runs[j].id = runs[i].id => j = i
      BY <1>2, <1>8, <2>1 DEF RunsOnce
    <2> QED  BY <2>2 DEF RunIndex
  <1>9. TypeOK
    BY <1>1, <1>4, <1>5, <1>6, <1>7, <1>8 DEF TypeOK
  <1>10. ASSUME phase = "reading", NEW i \in 1..Len(runs), runs[i].id # Legacy
         PROVE  [runs[i] EXCEPT !.headers = 0] = Alone(runs[i].id, input)
    BY <1>1, <1>2, <1>10 DEF RunsAlone, WithHeaders
  <1>11. ASSUME phase = "reading", NEW i \in 1..Len(runs), runs[i].id = Legacy,
                NEW k \in 1..Len(runs[i].records)
         PROVE  RecordIndex(runs[i], runs[i].records[k].id) = {k}
    <2>1. RecordsOnce(runs[i])
      BY <1>1, <1>2, <1>11 DEF LegacyOnce
    <2> QED  BY <2>1 DEF RecordsOnce, RecordIndex
  <1> QED  BY <1>9, <1>10, <1>11 DEF RunsSeparate

(* A scope of a run counts as unfinished if nothing says otherwise.         *)
Says(i, id) == \E n \in LinesOf(i) : /\ RecordAt(n) # None /\ RecordAt(n).exit # None
                                     /\ RecordAt(n).scope = id

LEMMA UnfinishedIs ==
    ASSUME NEW s, Shows(s), NEW i \in 1..Len(s.runs), NEW k \in 1..Len(runs[i].scopes)
    PROVE  runs[i].scopes[k].id \in Unfinished(runs[i])
              <=> runs[i].scopes[k].exited = None /\ ~Says(i, runs[i].scopes[k].id)
  <1> DEFINE V  == View(input, i)
             R  == Reports(input, s.issues, i)
             run == runs[i]
             id  == run.scopes[k].id
             told == {run.records[l].scope : l \in {j \in 1..Len(run.records) : run.records[j].exit # None}}
             open == {run.scopes[j].id : j \in {l \in 1..Len(run.scopes) : run.scopes[l].exited = None}}
  <1>1. i \in Nat \ {0}
    OBVIOUS
  <1>2. /\ DOMAIN V = LinesOf(i) /\ \A n \in LinesOf(i) : V[n].record = RecordAt(n)
        /\ RunSays(s.runs[i], V, R) /\ Completes(run, s.runs[i])
    BY <1>1, RunShown
  <1>3. Unfinished(run) = open \ told
    BY DEF Unfinished
  <1>4. ScopesOnce(run) /\ run.records = s.runs[i].records
    BY <1>2 DEF Completes
  <1>5. id \in open <=> run.scopes[k].exited = None
    BY <1>4 DEF ScopesOnce
  <1>6. RecordsKept(run, V)
    <2>1. RecordsKept(s.runs[i], V)
      BY <1>2 DEF RunSays
    <2> QED  BY <1>4, <2>1 DEF RecordsKept
  <1> HIDE DEF V, run
  <1>7. id \in told <=> Says(i, id)
    <2>1. ASSUME id \in told PROVE Says(i, id)
      <3>1. PICK l \in 1..Len(run.records) : run.records[l].exit # None /\ run.records[l].scope = id
        BY <2>1
      <3>2. PICK n \in DOMAIN V : V[n].record = run.records[l]
        BY <1>6 DEF RecordsKept
      <3>3. n \in LinesOf(i) /\ RecordAt(n) = run.records[l]
        BY <1>2, <3>2
      <3>4. RecordAt(n) # None
        BY <1>2, <1>4, <3>3 DEF RunSays, IsRun, RecordSet
      <3> QED  BY <3>1, <3>3, <3>4 DEF Says
    <2>2. ASSUME Says(i, id) PROVE id \in told
      <3>1. PICK n \in LinesOf(i) : /\ RecordAt(n) # None /\ RecordAt(n).exit # None
                                    /\ RecordAt(n).scope = id
        BY <2>2 DEF Says
      <3>2. PICK l \in 1..Len(run.records) : run.records[l] = V[n].record
        BY <1>2, <1>6, <3>1 DEF RecordsKept
      <3>3. run.records[l].exit # None /\ run.records[l].scope = id
        BY <1>2, <3>1, <3>2
      <3> QED  BY <3>3
    <2> QED  BY <2>1, <2>2
  <1> QED  BY <1>3, <1>5, <1>7 DEF run

(* The metadata of a scope as the property has it, and as Said has it.      *)
LEMMA ClosedIs ==
    ASSUME NEW i, NEW V, DOMAIN V = LinesOf(i), LinesOf(i) \in SUBSET Nat,
           \A n \in LinesOf(i) : V[n].scope = ScopeAt(n),
           NEW b, Said(b, V)
    PROVE  /\ ClosedOf(i, b.id) = Closing(V, b)
           /\ ClosedOf(i, b.id) # {} => ScopeAt(Least(ClosedOf(i, b.id))).exited = b.exited
           /\ ClosedOf(i, b.id) = {} <=> b.exited = None
  <1>1. MetadataOf(i, b.id) = Meta(V, b.id)
    BY DEF MetadataOf, Meta
  <1>2. PICK n \in Meta(V, b.id) : /\ \A m \in Meta(V, b.id) : n <= m
                                   /\ V[n].scope.parent = b.parent /\ V[n].scope.about = b.about
    BY DEF Said
  <1>3. Meta(V, b.id) \in SUBSET Nat /\ Meta(V, b.id) \in SUBSET LinesOf(i)
    BY DEF Meta
  <1>4. Least(Meta(V, b.id)) = n
    BY <1>2, <1>3, LeastIs
  <1>5. ScopeAt(Least(MetadataOf(i, b.id))).parent = b.parent
        /\ ScopeAt(Least(MetadataOf(i, b.id))).about = b.about
    BY <1>1, <1>2, <1>3, <1>4
  <1>6. \A m \in Meta(V, b.id) : V[m].scope = ScopeAt(m)
    BY <1>3
  <1>7. ClosedOf(i, b.id) = Closing(V, b)
    BY <1>1, <1>5, <1>6 DEF ClosedOf, Closing
  <1>8. ASSUME Closing(V, b) # {}
        PROVE  ScopeAt(Least(Closing(V, b))).exited = b.exited /\ b.exited # None
    <2>1. PICK m \in Closing(V, b) : /\ \A l \in Closing(V, b) : m <= l
                                     /\ V[m].scope.exited = b.exited
      BY <1>8 DEF Said
    <2>2. Closing(V, b) \in SUBSET Nat /\ V[m].scope = ScopeAt(m) /\ V[m].scope.exited # None
      BY <1>3, <1>6 DEF Closing
    <2>3. Least(Closing(V, b)) = m
      BY <2>1, <2>2, LeastIs
    <2> QED  BY <2>1, <2>2, <2>3
  <1>9. Closing(V, b) = {} => b.exited = None
    BY DEF Said
  <1> QED  BY <1>7, <1>8, <1>9

LEMMA ShowsExits ==
    ASSUME NEW s, Shows(s)
    PROVE  ExitsAsObserved
  <1> SUFFICES ASSUME phase = "finished",
                      NEW i \in 1..Len(runs), NEW k \in 1..Len(runs[i].scopes)
               PROVE  LET scope  == runs[i].scopes[k]
                          closed == ClosedOf(i, scope.id)
                          exit   == ScopeAt(Least(closed)).exited
                          final  == {n \in closed : ScopeAt(n).exited = exit /\ ScopeAt(n).message # None}
                      IN  /\ scope.id \in Unfinished(runs[i]) <=> closed = {} /\ ~Says(i, scope.id)
                          /\ closed # {} => scope.exited = exit
                          /\ \A n \in final : (\A m \in final : m <= n) => scope.message = ScopeAt(n).message
    BY DEF ExitsAsObserved, Says
  <1> DEFINE V      == View(input, i)
             R      == Reports(input, s.issues, i)
             scope  == runs[i].scopes[k]
             closed == ClosedOf(i, scope.id)
             exit   == ScopeAt(Least(closed)).exited
             final  == {n \in closed : ScopeAt(n).exited = exit /\ ScopeAt(n).message # None}
  <1>1. i \in 1..Len(s.runs)
    <2>1. i \in Nat \ {0} /\ Len(<<>>) = 0
      OBVIOUS
    <2>2. i \notin 1..Len(s.runs) => runs[i].scopes = <<>>
      BY <2>1, RunShown
    <2> QED  BY <2>1, <2>2
  <1>2. i \in Nat \ {0}
    OBVIOUS
  <1>3. /\ DOMAIN V = LinesOf(i) /\ LinesOf(i) \in SUBSET Nat
        /\ \A n \in LinesOf(i) : V[n].scope = ScopeAt(n)
        /\ RunSays(s.runs[i], V, R) /\ Completes(runs[i], s.runs[i])
    BY <1>1, <1>2, RunShown
  <1>4. scope.id \in Unfinished(runs[i]) <=> scope.exited = None /\ ~Says(i, scope.id)
    BY <1>1, UnfinishedIs
  <1> HIDE DEF V, R
  <1>5. CASE k \in 1..Len(s.runs[i].scopes)
    <2> DEFINE b == s.runs[i].scopes[k]
    <2>1. scope.id = b.id /\ scope.exited = b.exited /\ scope.message = b.message
      BY <1>3, <1>5 DEF Completes, SameScope
    <2>2. Said(b, V)
      BY <1>3, <1>5 DEF RunSays, ScopesSaid
    <2> HIDE DEF b, scope
    <2>3. /\ closed = Closing(V, b)
          /\ closed # {} => exit = b.exited
          /\ closed = {} <=> b.exited = None
      BY <1>3, <2>1, <2>2, ClosedIs
    <2>4. closed \in SUBSET LinesOf(i)
      BY <1>3, <2>3 DEF Closing, Meta
    <2>5. final = Final(V, b)
      <3>1. CASE closed = {}
        BY <2>3, <3>1 DEF Final
      <3>2. CASE closed # {}
        BY <1>3, <2>3, <2>4, <3>2 DEF Final
      <3> QED  BY <3>1, <3>2
    <2>6. final \in SUBSET LinesOf(i)
      BY <2>4
    <2> HIDE DEF closed, exit, final
    <2>7. \A n \in final : (\A m \in final : m <= n) => scope.message = ScopeAt(n).message
      BY <1>3, <2>1, <2>2, <2>5, <2>6 DEF Said
    <2> QED  BY <1>4, <2>1, <2>3, <2>7 DEF scope, closed, exit, final
  <1>6. CASE k \notin 1..Len(s.runs[i].scopes)
    <2>1. /\ scope.exited = None
          /\ \A j \in 1..Len(s.runs[i].scopes) : s.runs[i].scopes[j].id # scope.id
      BY <1>3, <1>6 DEF Completes
    <2>2. ScopesTold(s.runs[i], V, R)
      BY <1>3 DEF RunSays
    <2> HIDE DEF scope
    <2>3. MetadataOf(i, scope.id) = {}
      <3> SUFFICES ASSUME NEW n \in LinesOf(i), ScopeAt(n) # None, ScopeAt(n).id = scope.id
                   PROVE  FALSE
        BY DEF MetadataOf
      <3>1. n \in DOMAIN V /\ V[n].scope = ScopeAt(n)
        BY <1>3
      <3>2. ScopeIndex(s.runs[i], scope.id) # {}
        BY <2>2, <3>1 DEF ScopesTold
      <3> QED  BY <2>1, <3>2 DEF ScopeIndex
    <2>4. closed = {}
      BY <2>3 DEF ClosedOf
    <2>5. final = {}
      BY <2>4
    <2> QED  BY <1>4, <2>1, <2>4, <2>5 DEF scope
  <1> QED  BY <1>5, <1>6

(* The parents that the lines of a run give are those its repair began with.*)
LEMMA GivenIs ==
    ASSUME NEW s, Shows(s), phase = "finished", NEW i \in 1..Len(s.runs)
    PROVE  Given(i) = ParentsIn(Complete(s.runs[i]).scopes)
  <1> DEFINE V   == View(input, i)
             R   == Reports(input, s.issues, i)
             run == s.runs[i]
             all == Complete(run).scopes
             ids == IdsIn(all)
  <1>1. i \in Nat \ {0}
    OBVIOUS
  <1>2. /\ DOMAIN V = LinesOf(i) /\ LinesOf(i) \in SUBSET Nat
        /\ \A n \in LinesOf(i) : V[n].scope = ScopeAt(n)
        /\ RunSays(run, V, R) /\ runs[i] = Finished(run)
    BY <1>1, RunShown DEF Shows
  <1>3. /\ IdsIn(runs[i].scopes) = ids
        /\ \A k \in 1..Len(run.scopes) : run.scopes[k].id \in ids
                 /\ ParentsIn(all)[run.scopes[k].id] = run.scopes[k].parent
        /\ \A x \in ids : x \notin IdsIn(run.scopes) => ParentsIn(all)[x] = None
    BY <1>2, FinishedForest DEF RunSays
  <1>4. Ids(runs[i]) = ids
    BY <1>3 DEF Ids, IdsIn
  <1> HIDE DEF V, R, run, all, ids
  <1>5. \A id : MetadataOf(i, id) = Meta(V, id)
    BY <1>2 DEF MetadataOf, Meta
  <1>6. ASSUME NEW x \in ids
        PROVE  (IF MetadataOf(i, x) = {} THEN None ELSE ScopeAt(Least(MetadataOf(i, x))).parent)
                  = ParentsIn(all)[x]
    <2>1. CASE x \in IdsIn(run.scopes)
      <3>1. PICK k \in 1..Len(run.scopes) : run.scopes[k].id = x
        BY <2>1 DEF IdsIn
      <3>2. Said(run.scopes[k], V)
        BY <1>2 DEF RunSays, ScopesSaid
      <3>3. PICK n \in Meta(V, x) : /\ \A m \in Meta(V, x) : n <= m
                                    /\ V[n].scope.parent = run.scopes[k].parent
        BY <3>1, <3>2 DEF Said
      <3>4. Meta(V, x) \in SUBSET LinesOf(i)
        BY <1>2 DEF Meta
      <3>5. Meta(V, x) \in SUBSET Nat
        BY <1>2, <3>4
      <3>6. Least(Meta(V, x)) = n
        BY <3>3, <3>5, LeastIs
      <3>7. V[n].scope = ScopeAt(n)
        BY <1>2, <3>4
      <3> QED  BY <1>3, <1>5, <3>1, <3>3, <3>6, <3>7
    <2>2. CASE x \notin IdsIn(run.scopes)
      <3>1. Meta(V, x) = {}
        <4> SUFFICES ASSUME NEW n \in Meta(V, x) PROVE FALSE
          OBVIOUS
        <4>1. ScopeIndex(run, x) # {}
          BY <1>2 DEF RunSays, ScopesTold, Meta
        <4> QED  BY <2>2, <4>1 DEF ScopeIndex, IdsIn
      <3> QED  BY <1>3, <1>5, <2>2, <3>1
    <2> QED  BY <2>1, <2>2
  <1>7. ids = IdsIn(all)
    BY DEF ids
  <1> QED  BY <1>4, <1>6, <1>7 DEF Given, ParentsIn, all, run

LEMMA ShowsForest ==
    ASSUME NEW s, Shows(s)
    PROVE  ForestRecovered
  <1> SUFFICES ASSUME phase = "finished", NEW i \in 1..Len(runs)
               PROVE  LET ids  == Ids(runs[i])
                          now  == Parents(runs[i])
                          lost == {id \in ids : now[id] # Given(i)[id]}
                      IN  /\ \A k \in 1..Len(runs[i].records) :
                                runs[i].records[k].scope \in ids \cup {None}
                          /\ \A id \in ids : now[id] \in ids \cup {None}
                          /\ \A S \in SUBSET ids : ~Endless(S, now)
                          /\ \A C \in SUBSET ids : Cycle(C, Given(i)) => Cardinality(C \cap lost) = 1
                          /\ \A id \in lost : /\ now[id] = None
                                             /\ \E C \in SUBSET ids : Cycle(C, Given(i)) /\ id \in C
    BY DEF ForestRecovered
  <1> DEFINE ids  == Ids(runs[i])
             now  == Parents(runs[i])
             given == Given(i)
             lost == {id \in ids : now[id] # given[id]}
  <1>1. i \in Nat \ {0}
    OBVIOUS
  <1>2. CASE i \in 1..Len(s.runs)
    <2>1. /\ IsRun(s.runs[i]) /\ ScopesOnce(s.runs[i]) /\ runs[i] = Finished(s.runs[i])
      BY <1>1, <1>2, RunShown DEF RunSays, Shows
    <2>2. given = ParentsIn(Complete(s.runs[i]).scopes)
      BY <1>2, GivenIs
    <2>3. /\ \A k \in 1..Len(runs[i].records) :
                runs[i].records[k].scope \in IdsIn(runs[i].scopes) \cup {None}
          /\ Walked(IdsIn(runs[i].scopes), given, ParentsIn(runs[i].scopes), IdsIn(runs[i].scopes))
      BY <2>1, <2>2, FinishedForest
    <2>4. ids = IdsIn(runs[i].scopes) /\ now = ParentsIn(runs[i].scopes)
      BY DEF Ids, IdsIn, Parents, ParentsIn
    <2> HIDE DEF ids, now, given
    <2>5. Walked(ids, given, now, ids) /\ lost = Lost(ids, given, now)
      BY <2>3, <2>4 DEF Lost
    <2> HIDE DEF lost
    <2>6. ASSUME NEW C \in SUBSET ids, Cycle(C, given) PROVE Cardinality(C \cap lost) = 1
      <3>1. PICK x : C \cap lost = {x}
        BY <2>5, <2>6 DEF Walked
      <3> QED  BY <3>1, FS_Singleton
    <2>7. ASSUME NEW id \in lost
          PROVE  now[id] = None /\ \E C \in SUBSET ids : Cycle(C, given) /\ id \in C
      BY <2>5 DEF Walked, Lost
    <2>8. /\ \A id \in ids : now[id] \in ids \cup {None}
          /\ \A S \in SUBSET ids : ~Endless(S, now)
      BY <2>5 DEF Walked
    <2> QED  BY <2>3, <2>4, <2>6, <2>7, <2>8 DEF ids, now, given, lost
  <1>3. CASE i \notin 1..Len(s.runs)
    <2>1. runs[i].records = <<>> /\ runs[i].scopes = <<>> /\ Len(<<>>) = 0
      BY <1>1, <1>3, RunShown
    <2>2. ids = {} /\ \A S \in SUBSET {} : S = {}
      BY <2>1 DEF Ids
    <2> QED  BY <2>1, <2>2 DEF Endless, Cycle
  <1> QED  BY <1>2, <1>3

-----------------------------------------------------------------------------
(* Lines that say nothing but the truth                                     *)

(* What a journal did, as the scopes it entered, each with its parent, and  *)
(* the records it made: a scope was entered once, after its parent, and has *)
(* one exit at most; a record was made once.                                *)
Exited(R, id) == \E r \in R : r.scope = id /\ r.exit # None
Truthful(S, R) ==
    /\ R \in SUBSET RecordValues
    /\ \A x \in S : /\ x \in Nat \X (Nat \cup {None})
                    /\ x[2] # None => x[2] < x[1]
    /\ \A x, y \in S : x[1] = y[1] => x = y
    /\ \A q, r \in R : q.id = r.id => q = r
    /\ \A q, r \in R : q.exit # None /\ r.exit # None /\ q.scope = r.scope => q = r
    /\ \A r \in R : r.exit # None => r.scope # None

TrueScope(S, R, v) ==
    /\ v \in ScopeValues /\ <<v.id, v.parent>> \in S
    /\ v.exited # None => Exited(R, v.id)
TrueEntry(S, R, e) ==
    /\ e.scope # None => TrueScope(S, R, e.scope)
    /\ e.record # None => e.record \in R

(* A line that is read as an entry of a process says what its journal did.  *)
TrueLine(t, l) ==
    \/ l = Header \/ Issue(l) # None
    \/ /\ EntryOf(l) \in Entries
       /\ \A p \in 1..Len(RunIds) : EntryOf(l).run = RunIds[p] =>
             TrueEntry(t[p].scopes, t[p].records, EntryOf(l))

(* A line that is read as what it was written for.                          *)
Own(l) ==
    /\ l # Header /\ Issue(l) = None /\ EntryOf(l).run = l.run
    /\ IF l.type = "scope" THEN l.scope # None ELSE RecordOf(l) # None
Owns(lines) == \A k \in 1..Len(lines) : Own(lines[k])

TrueLines(t, lines) == IsSeq(lines) /\ \A k \in 1..Len(lines) : TrueLine(t, lines[k])
TrueInput(t, in) ==
    \A n \in 1..Len(in) : in[n].run # 0 => \A p \in 1..Len(RunIds) : in[n].entry.run = RunIds[p] =>
        TrueEntry(t[p].scopes, t[p].records, in[n].entry)

(* The truth about a process grows.                                         *)
Grows(t, u) == \A p \in 1..Len(RunIds) : /\ t[p].scopes \in SUBSET u[p].scopes
                                        /\ t[p].records \in SUBSET u[p].records

LEMMA EntryStaysTrue ==
    ASSUME NEW S, NEW R, NEW e, TrueEntry(S, R, e), NEW S1, NEW R1, S \in SUBSET S1, R \in SUBSET R1
    PROVE  TrueEntry(S1, R1, e)
  BY DEF TrueEntry, TrueScope, Exited

LEMMA LineStaysTrue ==
    ASSUME NEW t, NEW u, Grows(t, u), NEW l, TrueLine(t, l)
    PROVE  TrueLine(u, l)
  <1>1. ASSUME NEW p \in 1..Len(RunIds), TrueEntry(t[p].scopes, t[p].records, EntryOf(l))
        PROVE  TrueEntry(u[p].scopes, u[p].records, EntryOf(l))
    BY <1>1, EntryStaysTrue DEF Grows
  <1> QED  BY <1>1 DEF TrueLine

LEMMA LinesStayTrue ==
    ASSUME NEW t, NEW u, Grows(t, u), NEW lines, TrueLines(t, lines)
    PROVE  TrueLines(u, lines)
  BY LineStaysTrue DEF TrueLines

LEMMA RunIdsOnce ==
    ASSUME NEW p \in 1..Len(RunIds), NEW q \in 1..Len(RunIds), RunIds[p] = RunIds[q]
    PROVE  p = q
  BY SavedAssumption

LEMMA RunIdsAre ==
    /\ Len(RunIds) \in Nat /\ 1 \in 1..Len(RunIds)
    /\ \A p \in 1..Len(RunIds) : RunIds[p] \in ToSet(RunIds) /\ RunIds[p] # Legacy
  <1>1. RunIds \in Seq(ToSet(RunIds)) /\ RunIds # <<>> /\ Legacy \notin ToSet(RunIds)
    BY SavedAssumption
  <1>2. Len(RunIds) \in Nat /\ \A p \in 1..Len(RunIds) : RunIds[p] \in ToSet(RunIds)
    BY <1>1, LenProperties, ElementOfSeq
  <1>3. Len(RunIds) # 0
    BY <1>1, EmptySeq
  <1> QED  BY <1>1, <1>2, <1>3

(* A line with a run is neither a header nor a part of a line.              *)
LEMMA OtherLines ==
    ASSUME NEW l, "run" \in DOMAIN l
    PROVE  l # Header /\ l # Garbage
  <1>1. DOMAIN Header = {"type"} /\ DOMAIN Garbage = {"type"}
    BY DEF Header, Garbage
  <1> QED  BY <1>1

(* The line of a record that was made, with what the journal says of its    *)
(* scope; and the line of a scope.                                          *)
LEMMA ScopeLineTrue ==
    ASSUME NEW t, NEW p \in 1..Len(RunIds), NEW v, TrueScope(t[p].scopes, t[p].records, v)
    PROVE  TrueLine(t, ScopeLine(RunIds[p], v)) /\ Own(ScopeLine(RunIds[p], v))
  <1> DEFINE l == ScopeLine(RunIds[p], v)
             e == [run |-> RunIds[p], scope |-> v, record |-> None]
  <1>0. v # None
    BY SavedAssumption DEF TrueScope
  <1>1. EntryOf(l) = e /\ Own(l)
    <2>1. l = [version |-> 1, run |-> RunIds[p], type |-> "scope", scope |-> v]
      BY DEF ScopeLine, Version
    <2>0. l # Header /\ l # Garbage /\ "run" \in DOMAIN l
      BY <2>1, OtherLines
    <2> HIDE DEF l
    <2>2. l.version = 1 /\ l.run = RunIds[p] /\ l.type = "scope" /\ l.scope = v /\ "version" \in DOMAIN l
      BY <2>1
    <2>3. VersionOf(l) = 1 /\ RecordOf(l) = None
      BY <2>2 DEF VersionOf, RecordOf
    <2>4. EntryOf(l) = e
      BY <2>2, <2>3 DEF EntryOf
    <2>5. Issue(l) = None
      BY <2>0, <2>2, <2>3, ReplayAssumption DEF Issue, Unsupported, Malformed, Version
    <2>6. EntryOf(l).run = l.run
      BY <2>2, <2>4
    <2> HIDE DEF e
    <2> QED  BY <1>0, <2>0, <2>2, <2>4, <2>5, <2>6 DEF Own
  <1>2. e \in Entries
    BY RunIdsAre DEF Entries, JournalEntries, TrueScope
  <1> HIDE DEF l, e
  <1>3. e.run = RunIds[p] /\ e.scope = v /\ e.record = None
    BY DEF e
  <1>4. TrueEntry(t[p].scopes, t[p].records, e)
    BY <1>3 DEF TrueEntry
  <1>5. \A q \in 1..Len(RunIds) : e.run = RunIds[q] => q = p
    BY <1>3, RunIdsOnce
  <1>6. TrueLine(t, l)
    BY <1>1, <1>2, <1>4, <1>5 DEF TrueLine
  <1> QED  BY <1>1, <1>6 DEF l

LEMMA RecordLineTrue ==
    ASSUME NEW t, NEW p \in 1..Len(RunIds), t[p].records \in SUBSET RecordValues,
           NEW r \in t[p].records,
           r.exit # None => r.scope # None,
           NEW v, v # None => TrueScope(t[p].scopes, t[p].records, v) /\ v.id = r.scope
    PROVE  TrueLine(t, RecordLine(RunIds[p], r, v)) /\ Own(RecordLine(RunIds[p], r, v))
  <1> DEFINE l == RecordLine(RunIds[p], r, v)
             e == [run |-> RunIds[p], scope |-> v, record |-> r]
  <1>0. r \in RecordValues /\ r # None
    BY SavedAssumption
  <1>1. EntryOf(l) = e /\ Own(l)
    <2> DEFINE type == IF r.exit = None THEN "event" ELSE "scope_exit"
    <2>1. l = [version |-> 1, run |-> RunIds[p], type |-> type, id |-> r.id,
               scope_id |-> r.scope, exit |-> r.exit, body |-> r.body, scope |-> v]
      BY DEF RecordLine, Version
    <2>2. type \in {"event", "scope_exit"} /\ (type = "scope_exit" => r.exit # None)
      OBVIOUS
    <2> HIDE DEF l, type
    <2>0. l # Header /\ l # Garbage /\ "run" \in DOMAIN l
      BY <2>1, OtherLines
    <2>3. /\ l.version = 1 /\ l.run = RunIds[p] /\ l.type = type /\ l.scope = v
          /\ l.id = r.id /\ l.scope_id = r.scope /\ l.exit = r.exit /\ l.body = r.body
          /\ "version" \in DOMAIN l
      BY <2>1
    <2>4. r = [id |-> r.id, scope |-> r.scope, exit |-> r.exit, body |-> r.body]
      BY <1>0 DEF RecordValues
    <2>5. VersionOf(l) = 1
      BY <2>3 DEF VersionOf
    <2>6. RecordOf(l) = [id |-> l.id, scope |-> l.scope_id, exit |-> l.exit, body |-> l.body]
      BY <2>2, <2>3 DEF RecordOf
    <2>7. RecordOf(l) = r
      BY <2>3, <2>4, <2>6
    <2>8. EntryOf(l) = e
      BY <2>3, <2>5, <2>7 DEF EntryOf
    <2>9. Issue(l) = None
      BY <2>0, <2>2, <2>3, <2>5, ReplayAssumption DEF Issue, Unsupported, Malformed, Version
    <2>10. EntryOf(l).run = l.run
      BY <2>3, <2>8
    <2> HIDE DEF e
    <2> QED  BY <1>0, <2>0, <2>2, <2>3, <2>7, <2>9, <2>8, <2>10 DEF Own
  <1>2. e \in Entries
    BY <1>0, RunIdsAre DEF Entries, JournalEntries, TrueScope
  <1> HIDE DEF l, e
  <1>3. e.run = RunIds[p] /\ e.scope = v /\ e.record = r
    BY DEF e
  <1>4. TrueEntry(t[p].scopes, t[p].records, e)
    BY <1>3 DEF TrueEntry
  <1>5. \A q \in 1..Len(RunIds) : e.run = RunIds[q] => q = p
    BY <1>3, RunIdsOnce
  <1>6. TrueLine(t, l)
    BY <1>1, <1>2, <1>4, <1>5 DEF TrueLine
  <1> QED  BY <1>1, <1>6 DEF l

(* Part of a line is not a line, and another program's is none of a         *)
(* process.                                                                 *)
LEMMA GarbageTrue ==
    ASSUME NEW t PROVE TrueLine(t, Garbage)
  <1>1. DOMAIN Garbage = {"type"}
    BY DEF Garbage
  <1>2. VersionOf(Garbage) = 0
    BY <1>1 DEF VersionOf
  <1>3. ~Unsupported(Garbage) /\ Malformed(Garbage)
    BY <1>2 DEF Unsupported, Malformed, Version
  <1>4. Issue(Garbage) = "InvalidLine"
    BY <1>3 DEF Issue
  <1> QED  BY <1>4, SavedAssumption DEF TrueLine

LEMMA ForeignTrue ==
    ASSUME NEW t PROVE TrueLines(t, Foreign)
  <1>1. Foreign \in Seq(ToSet(Foreign))
    BY SavedAssumption
  <1>2. IsSeq(Foreign)
    BY <1>1, SeqIs
  <1>3. ASSUME NEW k \in 1..Len(Foreign) PROVE TrueLine(t, Foreign[k])
    <2> DEFINE l == Foreign[k]
    <2>1. l \in ToSet(Foreign)
      BY <1>1, ElementOfSeq
    <2> HIDE DEF l
    <2>2. l = Header \/ Issue(l) # None
          \/ (IsEntry(EntryOf(l)) /\ EntryOf(l).run \notin ToSet(RunIds))
      BY <2>1, SavedAssumption
    <2>3. ASSUME l # Header, Issue(l) = None PROVE TrueLine(t, l)
      <3>1. EntryOf(l) \in Entries
        BY <2>1, <2>3 DEF Entries, ForeignEntries
      <3>2. \A p \in 1..Len(RunIds) : EntryOf(l).run # RunIds[p]
        BY <2>2, <2>3, RunIdsAre
      <3> QED  BY <3>1, <3>2 DEF TrueLine
    <2>4. TrueLine(t, l)
      BY <2>3 DEF TrueLine
    <2> QED  BY <2>4 DEF l
  <1> QED  BY <1>2, <1>3 DEF TrueLines

-----------------------------------------------------------------------------
(* The loader over such lines                                               *)

LEMMA LineRead ==
    ASSUME NEW s, Sound(s), NEW t, TrueInput(t, s.input), NEW l, TrueLine(t, l)
    PROVE  Sound(AfterLine(s, l)) /\ TrueInput(t, AfterLine(s, l).input)
  <1>1. s.input \in Seq(InputSet) /\ Len(s.input) \in Nat
    BY LenProperties DEF Sound, IsLoader
  <1>2. ASSUME NEW x \in InputSet,
               x.run # 0 => \A p \in 1..Len(RunIds) : x.entry.run = RunIds[p] =>
                               TrueEntry(t[p].scopes, t[p].records, x.entry)
        PROVE  TrueInput(t, Append(s.input, x))
    <2>1. /\ Len(Append(s.input, x)) = Len(s.input) + 1
          /\ \A n \in 1..Len(s.input) : Append(s.input, x)[n] = s.input[n]
          /\ Append(s.input, x)[Len(s.input) + 1] = x
      BY <1>1, AppendProperties
    <2> DEFINE y == Append(s.input, x)
    <2> HIDE DEF y
    <2>2. ASSUME NEW n \in 1..Len(y), y[n].run # 0, NEW p \in 1..Len(RunIds),
                 y[n].entry.run = RunIds[p]
          PROVE  TrueEntry(t[p].scopes, t[p].records, y[n].entry)
      <3>1. CASE n = Len(s.input) + 1
        BY <1>2, <2>1, <2>2, <3>1 DEF y
      <3>2. CASE n \in 1..Len(s.input)
        BY <2>1, <2>2, <3>2 DEF TrueInput, y
      <3> QED  BY <1>1, <2>1, <3>1, <3>2 DEF y
    <2> QED  BY <2>2 DEF TrueInput, y
  <1>3. CASE l = Header
    <2>1. AfterLine(s, l) = AfterHeader(s)
      BY <1>3 DEF AfterLine
    <2> DEFINE x == [what |-> "header", entry |-> None, run |-> 0]
               y == Append(s.input, x)
    <2>2. AfterHeader(s).input = y
      <3>1. AfterHeader(s) = [s EXCEPT !.headers = @ + 1, !.legacy = 0, !.input = y]
        BY DEF AfterHeader, Consume
      <3> HIDE DEF y
      <3> QED  BY <3>1 DEF Sound, IsLoader
    <2>3. x \in InputSet /\ x.run = 0
      BY DEF InputSet
    <2> HIDE DEF x
    <2>4. TrueInput(t, y)
      BY <1>2, <2>3
    <2> HIDE DEF y
    <2> QED  BY <2>1, <2>2, <2>4, HeaderSound
  <1>4. CASE l # Header /\ Issue(l) # None
    <2>1. AfterLine(s, l) = AfterSkip(s, Issue(l))
      BY <1>4 DEF AfterLine
    <2> DEFINE x == [what |-> "skipped", entry |-> None, run |-> 0]
               y == Append(s.input, x)
    <2>2. AfterSkip(s, Issue(l)).input = y
      <3> DEFINE z == Report(s, {Issue(l)})
      <3>1. AfterSkip(s, Issue(l)) = [s EXCEPT !.issues = z, !.input = y]
        BY DEF AfterSkip, Consume
      <3> HIDE DEF y, z
      <3> QED  BY <3>1 DEF Sound, IsLoader
    <2>3. x \in InputSet /\ x.run = 0
      BY DEF InputSet
    <2> HIDE DEF x
    <2>4. TrueInput(t, y)
      BY <1>2, <2>3
    <2>5. Issue(l) \in IssueKinds
      BY <1>4 DEF Issue, IssueKinds
    <2> HIDE DEF y
    <2> QED  BY <2>1, <2>2, <2>4, <2>5, SkipSound
  <1>5. CASE l # Header /\ Issue(l) = None
    <2> DEFINE e == EntryOf(l)
    <2>1. AfterLine(s, l) = AfterEntry(s, e)
      BY <1>5 DEF AfterLine
    <2>2. /\ e \in Entries
          /\ \A p \in 1..Len(RunIds) : e.run = RunIds[p] =>
                TrueEntry(t[p].scopes, t[p].records, e)
      BY <1>5 DEF TrueLine
    <2> HIDE DEF e
    <2> DEFINE u == AfterEntry(s, e)
    <2>3. PICK i, b, a, h, w, kinds : EntryTaken(s, e, i, b, a, h, w, kinds, u)
      BY <2>2, EntryIsTaken
    <2>4. Sound(u)
      BY <2>2, EntrySound
    <2> HIDE DEF u
    <2> DEFINE x == EntryLine(e, i)
    <2>5. u.input = Append(s.input, x) /\ x \in InputSet
      BY <2>3 DEF EntryTaken
    <2>6. x.entry = e
      BY DEF EntryLine
    <2> HIDE DEF x
    <2>7. TrueInput(t, u.input)
      BY <1>2, <2>2, <2>5, <2>6
    <2> QED  BY <2>1, <2>4, <2>7 DEF u
  <1> QED  BY <1>3, <1>4, <1>5

LoadTurns(s, lines, n, turn) ==
    turn = [k \in 0..n |-> IF k = 0 THEN s ELSE AfterLine(turn[k - 1], lines[k])]

LEMMA LoadTurnsExist ==
    ASSUME NEW s, NEW lines, NEW n \in Nat
    PROVE  \E turn : LoadTurns(s, lines, n, turn)
  <1> DEFINE T == {k \in Nat : \E turn : LoadTurns(s, lines, k, turn)}
  <1>1. 0 \in T
    <2> DEFINE f == [k \in 0..0 |-> s]
    <2>1. LoadTurns(s, lines, 0, f)
      BY DEF LoadTurns
    <2> QED  BY <2>1
  <1>2. ASSUME NEW k \in T PROVE k + 1 \in T
    <2>1. PICK turn : LoadTurns(s, lines, k, turn)
      OBVIOUS
    <2> DEFINE f == [j \in 0..(k + 1) |-> IF j <= k THEN turn[j] ELSE AfterLine(turn[k], lines[k + 1])]
    <2>2. k \in Nat /\ turn[0] = s /\ \A j \in 1..k : turn[j] = AfterLine(turn[j - 1], lines[j])
      BY <2>1 DEF LoadTurns
    <2>3. ASSUME NEW j \in 0..(k + 1)
          PROVE  f[j] = IF j = 0 THEN s ELSE AfterLine(f[j - 1], lines[j])
      <3>1. CASE j = 0
        BY <2>2, <3>1
      <3>2. CASE j \in 1..k
        <4>1. f[j] = turn[j] /\ f[j - 1] = turn[j - 1]
          BY <2>2, <3>2
        <4> QED  BY <2>2, <3>2, <4>1
      <3>3. CASE j = k + 1
        <4>1. j \in 0..(k + 1) /\ ~ (j <= k) /\ j - 1 = k /\ k \in 0..(k + 1) /\ k <= k /\ j # 0
          BY <2>2, <3>3
        <4>2. f[j] = AfterLine(turn[k], lines[k + 1]) /\ f[j - 1] = turn[k]
          BY <4>1
        <4> QED  BY <3>3, <4>1, <4>2
      <3> QED  BY <2>2, <3>1, <3>2, <3>3
    <2>4. f = [j \in 0..(k + 1) |-> f[j]]
      OBVIOUS
    <2> HIDE DEF f
    <2>5. LoadTurns(s, lines, k + 1, f)
      BY <2>3, <2>4 DEF LoadTurns
    <2> QED  BY <2>2, <2>5
  <1>3. n \in T
    <2> HIDE DEF T
    <2>1. T \in SUBSET Nat
      BY DEF T
    <2> QED  BY <1>1, <1>2, <2>1, SetInduction
  <1> QED  BY <1>3

LEMMA EachRead ==
    ASSUME NEW t, NEW lines, TrueLines(t, lines), NEW s, Sound(s), TrueInput(t, s.input),
           NEW turn, LoadTurns(s, lines, Len(lines), turn)
    PROVE  \A k \in 0..Len(lines) : Sound(turn[k]) /\ TrueInput(t, turn[k].input)
  <1> DEFINE n == Len(lines)
             T == {k \in Nat : k <= n => Sound(turn[k]) /\ TrueInput(t, turn[k].input)}
  <1>0. n \in Nat
    BY LenProperties DEF TrueLines, IsSeq
  <1>1. turn[0] = s /\ \A k \in 1..n : turn[k] = AfterLine(turn[k - 1], lines[k])
    BY <1>0 DEF LoadTurns
  <1>2. 0 \in T
    BY <1>1
  <1>3. ASSUME NEW k \in T PROVE k + 1 \in T
    <2>1. CASE k + 1 <= n
      <3>1. k \in Nat /\ k <= n /\ k + 1 \in 1..n /\ (k + 1) - 1 = k
        BY <1>0, <2>1
      <3>2. turn[k + 1] = AfterLine(turn[k], lines[k + 1])
        BY <1>1, <3>1
      <3>3. Sound(turn[k]) /\ TrueInput(t, turn[k].input) /\ TrueLine(t, lines[k + 1])
        BY <3>1 DEF TrueLines
      <3>4. Sound(turn[k + 1]) /\ TrueInput(t, turn[k + 1].input)
        BY <3>2, <3>3, LineRead
      <3> QED  BY <3>1, <3>4
    <2>2. CASE ~ (k + 1 <= n)
      BY <2>2
    <2> QED  BY <2>1, <2>2
  <1>4. T = Nat
    <2>1. T \in SUBSET Nat
      OBVIOUS
    <2> HIDE DEF T, n
    <2> QED  BY <1>2, <1>3, <2>1, SetInduction
  <1>5. \A k \in 0..n : k \in T /\ k <= n
    BY <1>0, <1>4
  <1> QED  BY <1>5

LEMMA LinesRead ==
    ASSUME NEW t, NEW lines, TrueLines(t, lines), NEW s, Sound(s), TrueInput(t, s.input),
           NEW turn, LoadTurns(s, lines, Len(lines), turn)
    PROVE  Sound(turn[Len(lines)]) /\ TrueInput(t, turn[Len(lines)].input)
  <1>1. Len(lines) \in Nat
    BY LenProperties DEF TrueLines, IsSeq
  <1>2. Len(lines) \in 0..Len(lines)
    BY <1>1
  <1> QED  BY <1>2, EachRead

-----------------------------------------------------------------------------
(* A journal and what it did, S and R                                       *)

(* What it retains is part of it, a scope is open until it has an exit, and *)
(* what comes next is new.                                                  *)
ScopeHeld(scope, id, S, R) ==
    /\ scope \in [parent : {scope.parent}, open : BOOLEAN, message : {"", "bye"}]
    /\ <<id, scope.parent>> \in S
    /\ scope.open <=> ~Exited(R, id)
JournalTrue(j, S, R) ==
    /\ j \in [nextScope : Nat, nextRecord : Nat, scopes : {j.scopes}, records : {j.records}]
    /\ DOMAIN j.scopes \in SUBSET (0..(j.nextScope - 1))
    /\ DOMAIN j.records \in SUBSET (0..(j.nextRecord - 1))
    /\ \A x \in S : x[1] < j.nextScope
    /\ \A r \in R : r.id < j.nextRecord /\ (r.scope # None => r.scope < j.nextScope)
    /\ \A id \in DOMAIN j.scopes : ScopeHeld(j.scopes[id], id, S, R)
    /\ \A n \in DOMAIN j.records : RecordValue(j, n) \in R

LEMMA NewJournalTrue == JournalTrue(NewJournal, {}, {}) /\ Truthful({}, {})
  <1>1. DOMAIN <<>> = {}
    OBVIOUS
  <1> DEFINE e == <<>>
  <1>2. NewJournal = [nextScope |-> 0, nextRecord |-> 0, scopes |-> e, records |-> e] /\ DOMAIN e = {}
    BY <1>1 DEF NewJournal
  <1> HIDE DEF e
  <1>3. /\ NewJournal.nextScope = 0 /\ NewJournal.nextRecord = 0 /\ NewJournal.scopes = e
        /\ NewJournal.records = e
        /\ NewJournal \in [nextScope : Nat, nextRecord : Nat, scopes : {e}, records : {e}]
    BY <1>2
  <1> QED  BY <1>2, <1>3 DEF JournalTrue, Truthful

LEMMA ScopeValueTrue ==
    ASSUME NEW j, NEW S, NEW R, JournalTrue(j, S, R), Truthful(S, R), NEW id \in DOMAIN j.scopes
    PROVE  TrueScope(S, R, ScopeValue(j, id)) /\ ScopeValue(j, id).id = id
  <1> DEFINE v == ScopeValue(j, id)
             s == j.scopes[id]
             x == <<id, s.parent>>
  <1>1. ScopeHeld(s, id, S, R)
    BY DEF JournalTrue
  <1>2. s.message \in {"", "bye"} /\ x \in S /\ (s.open <=> ~Exited(R, id)) /\ s.open \in BOOLEAN
    BY <1>1 DEF ScopeHeld
  <1>3. x[1] = id /\ x[2] = s.parent
    OBVIOUS
  <1>4. x \in Nat \X (Nat \cup {None})
    BY <1>2 DEF Truthful
  <1>5. id \in Nat /\ s.parent \in Nat \cup {None}
    BY <1>4
  <1>6. v = [id |-> id, parent |-> s.parent, about |-> "name",
             exited |-> IF s.open THEN None ELSE "then",
             message |-> IF s.message = "" THEN None ELSE s.message]
    BY DEF ScopeValue
  <1> HIDE DEF v, s
  <1>7. /\ v.id = id /\ v.parent = s.parent
        /\ v.exited = IF s.open THEN None ELSE "then"
        /\ v \in ScopeValues
    BY <1>2, <1>5, <1>6 DEF ScopeValues
  <1> QED  BY <1>2, <1>7 DEF TrueScope, v

LEMMA LineOfTrue ==
    ASSUME process \in 1..Len(RunIds), NEW t, NEW j,
           JournalTrue(j, t[process].scopes, t[process].records),
           Truthful(t[process].scopes, t[process].records),
           NEW n \in DOMAIN j.records
    PROVE  TrueLine(t, LineOf(j, n)) /\ Own(LineOf(j, n))
  <1> DEFINE S == t[process].scopes
             R == t[process].records
             s == j.records[n].scope
             v == IF s \in DOMAIN j.scopes THEN ScopeValue(j, s) ELSE None
             r == RecordValue(j, n)
  <1>1. LineOf(j, n) = RecordLine(RunIds[process], r, v)
    BY DEF LineOf, RunId
  <1>2. r \in R /\ R \in SUBSET RecordValues /\ (r.exit # None => r.scope # None)
    BY DEF JournalTrue, Truthful
  <1>3. v # None => TrueScope(S, R, v) /\ v.id = s
    BY ScopeValueTrue
  <1>4. r.scope = s
    BY DEF RecordValue
  <1> HIDE DEF v, r, s
  <1> QED  BY <1>1, <1>2, <1>3, <1>4, RecordLineTrue

LEMMA LengthIs ==
    ASSUME NEW n \in Nat, NEW f, DOMAIN f = 1..n, f = [k \in 1..n |-> f[k]]
    PROVE  Len(f) = n /\ IsSeq(f)
  <1> DEFINE T == {f[k] : k \in 1..n}
  <1>1. f \in [1..n -> T]
    OBVIOUS
  <1> HIDE DEF T
  <1>2. f \in Seq(T)
    BY <1>1, SeqDef
  <1>3. Len(f) \in Nat /\ DOMAIN f = 1..Len(f)
    BY <1>2, LenProperties
  <1>4. Len(f) = n
    <2> DEFINE m == Len(f)
    <2>1. m \in Nat /\ 1..m = 1..n
      BY <1>3
    <2> HIDE DEF m
    <2>2. m <= n
      <3>1. m # 0 => m \in 1..n
        BY <2>1
      <3> QED  BY <2>1, <3>1
    <2>3. n <= m
      <3>1. n # 0 => n \in 1..m
        BY <2>1
      <3> QED  BY <2>1, <3>1
    <2>4. m = n
      BY <2>1, <2>2, <2>3
    <2> QED  BY <2>4 DEF m
  <1> QED  BY <1>2, <1>4, SeqIs

(* The identifiers of a finite set, in order.                               *)
LEMMA OrderedIs ==
    ASSUME NEW n \in Nat, NEW ids \in SUBSET (0..(n - 1))
    PROVE  Len(Ordered(ids)) \in Nat /\ \A k \in 1..Len(Ordered(ids)) : Ordered(ids)[k] \in ids
  <1>1. IsFiniteSet(ids) /\ ids \in SUBSET Nat
    <2>1. IsFiniteSet(0..(n - 1))
      <3>1. 0 \in Int /\ n - 1 \in Int
        OBVIOUS
      <3>2. /\ IsFiniteSet(0..(n - 1))
            /\ Cardinality(0..(n - 1)) = IF 0 > n - 1 THEN 0 ELSE n - 1 - 0 + 1
        BY <3>1, FS_Interval
      <3> QED  BY <3>2
    <2> DEFINE T == 0..(n - 1)
    <2>2. IsFiniteSet(T) /\ ids \in SUBSET T /\ T \in SUBSET Nat
      BY <2>1
    <2> HIDE DEF T
    <2>3. IsFiniteSet(ids)
      BY <2>2, FS_Subset
    <2> QED  BY <2>2, <2>3
  <1> DEFINE c == Cardinality(ids)
  <1>2. c \in Nat
    BY <1>1, FS_CardinalityType
  <1>3. ASSUME NEW k \in 1..c PROVE Ordered(ids)[k] \in ids
    <2>1. Ordered(ids)[k] = CHOOSE x \in ids : Cardinality({y \in ids : y < x}) = k - 1
      BY DEF Ordered
    <2>2. \E x \in ids : Cardinality(Below(ids, x)) = k - 1
      BY <1>1, RankReached
    <2>3. \E x \in ids : Cardinality({y \in ids : y < x}) = k - 1
      BY <2>2 DEF Below
    <2> QED  BY <2>1, <2>3
  <1>4. Len(Ordered(ids)) = c
    <2> DEFINE nth(k) == CHOOSE x \in ids : Cardinality({y \in ids : y < x}) = k - 1
               f == [k \in 1..c |-> nth(k)]
    <2>1. Ordered(ids) = f
      BY DEF Ordered
    <2> HIDE DEF nth, c
    <2>2. DOMAIN f = 1..c /\ f = [k \in 1..c |-> f[k]]
      OBVIOUS
    <2> HIDE DEF f
    <2>3. Len(f) = c
      BY <1>2, <2>2, LengthIs
    <2> QED  BY <2>1, <2>3
  <1> QED  BY <1>2, <1>3, <1>4

LEMMA TrueByIndex ==
    ASSUME NEW t, NEW n \in Nat, NEW f, f = [k \in 1..n |-> f[k]], \A k \in 1..n : TrueLine(t, f[k])
    PROVE  TrueLines(t, f) /\ Len(f) = n
  <1>1. DOMAIN f = 1..n
    OBVIOUS
  <1> QED  BY <1>1, LengthIs DEF TrueLines

LEMMA ScopeLinesTrue ==
    ASSUME process \in 1..Len(RunIds), NEW t, NEW j,
           JournalTrue(j, t[process].scopes, t[process].records),
           Truthful(t[process].scopes, t[process].records)
    PROVE  TrueLines(t, ScopeLines(j)) /\ Owns(ScopeLines(j))
  <1> DEFINE ids == Ordered(DOMAIN j.scopes)
             f   == [k \in 1..Len(ids) |-> ScopeLine(RunId, ScopeValue(j, ids[k]))]
  <1>1. Len(ids) \in Nat /\ \A k \in 1..Len(ids) : ids[k] \in DOMAIN j.scopes
    BY OrderedIs DEF JournalTrue
  <1> HIDE DEF ids
  <1>2. ASSUME NEW k \in 1..Len(ids) PROVE TrueLine(t, f[k]) /\ Own(f[k])
    <2> DEFINE l == ScopeLine(RunIds[process], ScopeValue(j, ids[k]))
    <2>1. TrueScope(t[process].scopes, t[process].records, ScopeValue(j, ids[k]))
      BY <1>1, ScopeValueTrue
    <2>2. TrueLine(t, l) /\ Own(l)
      BY <2>1, ScopeLineTrue
    <2> QED  BY <2>2 DEF RunId
  <1>3. f = [k \in 1..Len(ids) |-> f[k]]
    OBVIOUS
  <1>4. ScopeLines(j) = f
    BY DEF ScopeLines, ids
  <1> HIDE DEF f
  <1>5. TrueLines(t, f) /\ Len(f) = Len(ids)
    BY <1>1, <1>2, <1>3, TrueByIndex
  <1> QED  BY <1>2, <1>4, <1>5 DEF Owns

LEMMA ConcatTrue ==
    ASSUME NEW t, NEW a, TrueLines(t, a), NEW b, TrueLines(t, b)
    PROVE  TrueLines(t, a \o b)
  <1> DEFINE T == {a[k] : k \in 1..Len(a)} \cup {b[k] : k \in 1..Len(b)}
  <1>1. a \in Seq(T) /\ b \in Seq(T)
    <2>1. a \in Seq({a[k] : k \in 1..Len(a)}) /\ b \in Seq({b[k] : k \in 1..Len(b)})
      BY DEF TrueLines, IsSeq
    <2> QED  BY <2>1, SeqMonotonic
  <1> HIDE DEF T
  <1>2. Len(a) \in Nat /\ Len(b) \in Nat
    BY <1>1, LenProperties
  <1>3. /\ a \o b \in Seq(T) /\ Len(a \o b) = Len(a) + Len(b)
        /\ \A k \in 1..(Len(a) + Len(b)) :
              (a \o b)[k] = IF k <= Len(a) THEN a[k] ELSE b[k - Len(a)]
    BY <1>1, ConcatProperties
  <1> DEFINE c == a \o b
  <1> HIDE DEF c
  <1>4. IsSeq(c)
    BY <1>3, SeqIs DEF c
  <1>5. ASSUME NEW k \in 1..Len(c) PROVE TrueLine(t, c[k])
    <2>1. k \in 1..(Len(a) + Len(b))
      BY <1>3 DEF c
    <2>2. CASE k <= Len(a)
      <3>1. k \in 1..Len(a) /\ c[k] = a[k]
        BY <1>2, <1>3, <2>1, <2>2 DEF c
      <3> QED  BY <3>1 DEF TrueLines
    <2>3. CASE ~ (k <= Len(a))
      <3>1. k - Len(a) \in 1..Len(b) /\ c[k] = b[k - Len(a)]
        BY <1>2, <1>3, <2>1, <2>3 DEF c
      <3> QED  BY <3>1 DEF TrueLines
    <2> QED  BY <2>2, <2>3
  <1> QED  BY <1>4, <1>5 DEF TrueLines, c

LEMMA RecordsJsonlTrue ==
    ASSUME process \in 1..Len(RunIds), NEW t, NEW j,
           JournalTrue(j, t[process].scopes, t[process].records),
           Truthful(t[process].scopes, t[process].records)
    PROVE  TrueLines(t, RecordsJsonl(j))
  <1> DEFINE ids == Ordered(DOMAIN j.records)
             f   == [k \in 1..Len(ids) |-> LineOf(j, ids[k])]
  <1>1. Len(ids) \in Nat /\ \A k \in 1..Len(ids) : ids[k] \in DOMAIN j.records
    BY OrderedIs DEF JournalTrue
  <1> HIDE DEF ids
  <1>2. \A k \in 1..Len(ids) : TrueLine(t, f[k])
    BY <1>1, LineOfTrue
  <1>3. f = [k \in 1..Len(ids) |-> f[k]]
    OBVIOUS
  <1>4. RecordsJsonl(j) = ScopeLines(j) \o f
    BY DEF RecordsJsonl, ids
  <1> HIDE DEF f
  <1>5. TrueLines(t, f)
    BY <1>1, <1>2, <1>3, TrueByIndex
  <1> QED  BY <1>4, <1>5, ScopeLinesTrue, ConcatTrue

-----------------------------------------------------------------------------
(* What is written to the file is true, if its lines are                    *)

DiskTrue(t, d) == TrueLines(t, d.lines)

LEMMA LineAppended ==
    ASSUME NEW t, NEW d, DiskTrue(t, d), NEW line, TrueLine(t, line), NEW result
    PROVE  DiskTrue(t, AppendLine(d, line, result))
  <1> DEFINE before == IF d.ended THEN d.lines ELSE Front(d.lines)
             text   == IF d.ended /\ result # "part" THEN line ELSE Garbage
             after  == Append(before, text)
             ended  == result = "ok"
  <1>1. TrueLine(t, text)
    BY GarbageTrue
  <1>2. TrueLines(t, before)
    <2> DEFINE T == {d.lines[k] : k \in 1..Len(d.lines)}
    <2>1. d.lines \in Seq(T) /\ Len(d.lines) \in Nat /\ \A k \in 1..Len(d.lines) : d.lines[k] \in T
      BY LenProperties DEF DiskTrue, TrueLines, IsSeq
    <2> HIDE DEF T
    <2> DEFINE f == SubSeq(d.lines, 1, Len(d.lines) - 1)
    <2>2. 1 \in Int /\ Len(d.lines) - 1 \in Int /\ \A k \in 1..(Len(d.lines) - 1) : d.lines[k] \in T
      BY <2>1
    <2>3. /\ f \in Seq(T)
          /\ Len(f) = IF 1 <= Len(d.lines) - 1 THEN (Len(d.lines) - 1) - 1 + 1 ELSE 0
          /\ \A k \in 1..((Len(d.lines) - 1) - 1 + 1) : f[k] = d.lines[1 + k - 1]
      BY <2>2, SubSeqProperties
    <2> HIDE DEF f
    <2>4. IsSeq(f)
      BY <2>3, SeqIs
    <2>5. ASSUME NEW k \in 1..Len(f) PROVE TrueLine(t, f[k])
      <3>1. k \in 1..((Len(d.lines) - 1) - 1 + 1) /\ 1 + k - 1 = k /\ k \in 1..Len(d.lines)
        BY <2>1, <2>3
      <3>2. f[k] = d.lines[k]
        BY <2>3, <3>1
      <3> QED  BY <3>1, <3>2 DEF DiskTrue, TrueLines
    <2>6. TrueLines(t, f)
      BY <2>4, <2>5 DEF TrueLines
    <2>7. Front(d.lines) = f
      BY DEF Front, f
    <2> QED  BY <2>6, <2>7 DEF DiskTrue
  <1> HIDE DEF text, before
  <1>3. TrueLines(t, after)
    <2>1. IsSeq(before) /\ \A k \in 1..Len(before) : TrueLine(t, before[k])
      BY <1>2 DEF TrueLines
    <2>2. /\ Len(before) \in Nat /\ IsSeq(after) /\ Len(after) = Len(before) + 1
          /\ after[Len(before) + 1] = text /\ \A k \in 1..Len(before) : after[k] = before[k]
      BY <2>1, SeqGrows
    <2> HIDE DEF after
    <2>3. ASSUME NEW k \in 1..Len(after) PROVE TrueLine(t, after[k])
      <3>1. k \in 1..Len(before) \/ k = Len(before) + 1
        BY <2>2
      <3> QED  BY <1>1, <2>1, <2>2, <3>1
    <2> QED  BY <2>2, <2>3 DEF TrueLines
  <1>4. AppendLine(d, line, result) = IF result = "lost" THEN d ELSE [lines |-> after, ended |-> ended]
    BY DEF AppendLine, before, text
  <1> HIDE DEF after, ended
  <1> QED  BY <1>3, <1>4 DEF DiskTrue

(* The lines of one call, of which the k-th has the result r.               *)
WriteTurns(d, lines, k, r, n, turn) ==
    turn = [i \in 0..n |->
               IF i = 0 THEN d
               ELSE AppendLine(turn[i - 1], lines[i], IF i = k THEN r ELSE "ok")]

LEMMA WriteTurnsExist ==
    ASSUME NEW d, NEW lines, NEW w, NEW r, NEW n \in Nat
    PROVE  \E turn : WriteTurns(d, lines, w, r, n, turn)
  <1> DEFINE step(x, j) == AppendLine(x, lines[j], IF j = w THEN r ELSE "ok")
             T == {k \in Nat : \E turn : WriteTurns(d, lines, w, r, k, turn)}
  <1>1. 0 \in T
    <2> DEFINE f == [k \in 0..0 |-> d]
    <2>1. WriteTurns(d, lines, w, r, 0, f)
      BY DEF WriteTurns
    <2> QED  BY <2>1
  <1>2. ASSUME NEW k \in T PROVE k + 1 \in T
    <2>1. PICK turn : WriteTurns(d, lines, w, r, k, turn)
      OBVIOUS
    <2> DEFINE f == [j \in 0..(k + 1) |-> IF j <= k THEN turn[j] ELSE step(turn[k], k + 1)]
    <2>2. k \in Nat /\ turn[0] = d /\ \A j \in 1..k : turn[j] = step(turn[j - 1], j)
      BY <2>1 DEF WriteTurns
    <2> HIDE DEF step
    <2>3. ASSUME NEW j \in 0..(k + 1)
          PROVE  f[j] = IF j = 0 THEN d ELSE step(f[j - 1], j)
      <3>1. CASE j = 0
        BY <2>2, <3>1
      <3>2. CASE j \in 1..k
        <4>1. f[j] = turn[j] /\ f[j - 1] = turn[j - 1]
          BY <2>2, <3>2
        <4> QED  BY <2>2, <3>2, <4>1
      <3>3. CASE j = k + 1
        <4>1. j \in 0..(k + 1) /\ ~ (j <= k) /\ j - 1 = k /\ k \in 0..(k + 1) /\ k <= k /\ j # 0
          BY <2>2, <3>3
        <4>2. f[j] = step(turn[k], k + 1) /\ f[j - 1] = turn[k]
          BY <4>1
        <4> QED  BY <3>3, <4>1, <4>2
      <3> QED  BY <2>2, <3>1, <3>2, <3>3
    <2>4. f = [j \in 0..(k + 1) |-> f[j]]
      OBVIOUS
    <2> HIDE DEF f
    <2>5. WriteTurns(d, lines, w, r, k + 1, f)
      BY <2>3, <2>4 DEF WriteTurns, step
    <2> QED  BY <2>2, <2>5
  <1>3. n \in T
    <2> HIDE DEF T
    <2>1. T \in SUBSET Nat
      BY DEF T
    <2> QED  BY <1>1, <1>2, <2>1, SetInduction
  <1> QED  BY <1>3

LEMMA LinesWritten ==
    ASSUME NEW t, DiskTrue(t, disk), NEW lines, TrueLines(t, lines),
           WriteLines(lines) \/ Write(lines) \/ UNCHANGED disk
    PROVE  DiskTrue(t, disk')
  <1>1. CASE UNCHANGED disk
    <2>1. disk' = disk
      BY <1>1
    <2> QED  BY <2>1
  <1>2. CASE WriteLines(lines) /\ lines # <<>>
    <2> DEFINE n == Len(lines)
    <2>1. n \in Nat
      BY LenProperties DEF TrueLines, IsSeq
    <2>2. PICK w \in 1..n, r \in Results :
             disk' = LET how(i) == IF i = w THEN r ELSE "ok"
                         file[i \in 0..Len(lines)] ==
                             IF i = 0 THEN disk ELSE AppendLine(file[i - 1], lines[i], how(i))
                     IN  file[Len(lines)]
      BY <1>2 DEF WriteLines
    <2> DEFINE turn == CHOOSE f : f = [i \in 0..n |->
                  IF i = 0 THEN disk ELSE AppendLine(f[i - 1], lines[i], IF i = w THEN r ELSE "ok")]
    <2>3. disk' = turn[n]
      BY <2>2
    <2>4. PICK g : WriteTurns(disk, lines, w, r, n, g)
      BY <2>1, WriteTurnsExist
    <2>5. turn = [i \in 0..n |->
                  IF i = 0 THEN disk ELSE AppendLine(turn[i - 1], lines[i], IF i = w THEN r ELSE "ok")]
      BY <2>4 DEF WriteTurns
    <2> HIDE DEF turn
    <2>6. turn[0] = disk
          /\ \A i \in 1..n : turn[i] = AppendLine(turn[i - 1], lines[i], IF i = w THEN r ELSE "ok")
      BY <2>1, <2>5
    <2> DEFINE T == {k \in Nat : k <= n => DiskTrue(t, turn[k])}
    <2>7. 0 \in T
      BY <2>6
    <2>8. ASSUME NEW k \in T PROVE k + 1 \in T
      <3>1. CASE k + 1 <= n
        <4>1. k \in Nat /\ k <= n /\ k + 1 \in 1..n /\ (k + 1) - 1 = k
          BY <2>1, <3>1
        <4> DEFINE x == IF k + 1 = w THEN r ELSE "ok"
        <4>2. turn[k + 1] = AppendLine(turn[k], lines[k + 1], x)
          BY <2>6, <4>1
        <4>3. DiskTrue(t, turn[k]) /\ TrueLine(t, lines[k + 1])
          BY <4>1 DEF TrueLines
        <4> HIDE DEF x
        <4>4. DiskTrue(t, turn[k + 1])
          BY <4>2, <4>3, LineAppended
        <4> QED  BY <4>1, <4>4
      <3>2. CASE ~ (k + 1 <= n)
        BY <3>2
      <3> QED  BY <3>1, <3>2
    <2>9. n \in T
      <3>1. T \in SUBSET Nat
        OBVIOUS
      <3> HIDE DEF T, n
      <3> QED  BY <2>1, <2>7, <2>8, <3>1, SetInduction
    <2> QED  BY <2>1, <2>3, <2>9
  <1> QED  BY <1>1, <1>2 DEF Write, WriteLines

-----------------------------------------------------------------------------
(* What a call makes of the journal, and of the truth                       *)

Entered(j, k) == {<<id, k.scopes[id].parent>> : id \in DOMAIN k.scopes \ DOMAIN j.scopes}
Made(j, k) == {RecordValue(k, n) : n \in DOMAIN k.records \ DOMAIN j.records}
StaysTrue(j, k, S, R) ==
    /\ JournalTrue(k, S \cup Entered(j, k), R \cup Made(j, k))
    /\ Truthful(S \cup Entered(j, k), R \cup Made(j, k))

(* A journal that retains less, or has given an identifier away.            *)
Less(k, j) ==
    /\ k \in [nextScope : {j.nextScope}, nextRecord : {j.nextRecord, j.nextRecord + 1},
              scopes : {k.scopes}, records : {k.records}]
    /\ DOMAIN k.scopes \in SUBSET DOMAIN j.scopes /\ DOMAIN k.records \in SUBSET DOMAIN j.records
    /\ \A id \in DOMAIN k.scopes : k.scopes[id] = j.scopes[id]
    /\ \A n \in DOMAIN k.records : k.records[n] = j.records[n]

LEMMA LessStaysTrue ==
    ASSUME NEW j, NEW S, NEW R, JournalTrue(j, S, R), Truthful(S, R), NEW k, Less(k, j)
    PROVE  StaysTrue(j, k, S, R)
  <1>1. Entered(j, k) = {} /\ Made(j, k) = {}
    BY DEF Entered, Made, Less
  <1>2. /\ j.nextScope \in Nat /\ j.nextRecord \in Nat
        /\ DOMAIN j.scopes \in SUBSET (0..(j.nextScope - 1))
        /\ DOMAIN j.records \in SUBSET (0..(j.nextRecord - 1))
    BY DEF JournalTrue
  <1>3. k.nextScope = j.nextScope /\ k.nextRecord \in {j.nextRecord, j.nextRecord + 1}
    BY DEF Less
  <1>4. 0..(j.nextRecord - 1) \in SUBSET (0..(k.nextRecord - 1))
        /\ \A r \in R : r.id < j.nextRecord => r.id < k.nextRecord
    <2>1. \A r \in R : r.id \in Nat
      BY DEF Truthful, RecordValues
    <2> QED  BY <1>2, <1>3, <2>1
  <1>5. k \in [nextScope : Nat, nextRecord : Nat, scopes : {k.scopes}, records : {k.records}]
    BY <1>2 DEF Less
  <1>6. \A n \in DOMAIN k.records : RecordValue(k, n) \in R
    <2> SUFFICES ASSUME NEW n \in DOMAIN k.records PROVE RecordValue(k, n) \in R
      OBVIOUS
    <2>1. k.records[n] = j.records[n] /\ n \in DOMAIN j.records
      BY DEF Less
    <2>2. RecordValue(k, n) = RecordValue(j, n)
      BY <2>1 DEF RecordValue
    <2> QED  BY <2>1, <2>2 DEF JournalTrue
  <1>7. JournalTrue(k, S, R)
    <2>1. \A id \in DOMAIN k.scopes : ScopeHeld(k.scopes[id], id, S, R)
      BY DEF Less, JournalTrue
    <2>2. \A x \in S : x[1] < k.nextScope
      BY <1>3 DEF JournalTrue
    <2>3. \A r \in R : r.id < k.nextRecord /\ (r.scope # None => r.scope < k.nextScope)
      BY <1>3, <1>4 DEF JournalTrue
    <2>4. DOMAIN k.scopes \in SUBSET (0..(k.nextScope - 1))
      BY <1>2, <1>3 DEF Less
    <2>5. DOMAIN k.records \in SUBSET (0..(k.nextRecord - 1))
      <3>1. DOMAIN k.records \in SUBSET DOMAIN j.records
        BY DEF Less
      <3> QED  BY <1>2, <1>4, <3>1
    <2> QED  BY <1>5, <1>6, <2>1, <2>2, <2>3, <2>4, <2>5 DEF JournalTrue
  <1>8. S \cup {} = S /\ R \cup {} = R
    OBVIOUS
  <1> QED  BY <1>1, <1>7, <1>8 DEF StaysTrue

LEMMA TrimRecordsTrue ==
    ASSUME NEW j, NEW S, NEW R, JournalTrue(j, S, R), Truthful(S, R), NEW max
    PROVE  StaysTrue(j, TrimRecords(j, max), S, R)
  <1> DEFINE keep == Newest(DOMAIN j.records, max)
             f    == Retain(j.records, keep)
             k    == TrimRecords(j, max)
  <1>1. keep \in SUBSET DOMAIN j.records
    BY DEF Newest
  <1>2. k = [j EXCEPT !.records = f]
    BY DEF TrimRecords
  <1> HIDE DEF keep
  <1>3. DOMAIN f = keep /\ \A x \in keep : f[x] = j.records[x]
    BY DEF Retain
  <1> HIDE DEF f, k
  <1>4. /\ k \in [nextScope : {j.nextScope}, nextRecord : {j.nextRecord},
                  scopes : {j.scopes}, records : {f}]
        /\ k.scopes = j.scopes /\ k.records = f
    BY <1>2 DEF JournalTrue
  <1>5. Less(k, j)
    BY <1>1, <1>3, <1>4 DEF Less
  <1> QED  BY <1>5, LessStaysTrue DEF k

LEMMA TrimScopesTrue ==
    ASSUME NEW j, NEW S, NEW R, JournalTrue(j, S, R), Truthful(S, R), NEW max
    PROVE  StaysTrue(j, TrimScopes(j, max), S, R)
  <1> DEFINE keep == (DOMAIN j.scopes \ Closed(j)) \cup Newest(Closed(j), max)
             f    == Retain(j.scopes, keep)
             k    == TrimScopes(j, max)
  <1>1. keep \in SUBSET DOMAIN j.scopes
    BY DEF Newest, Closed
  <1>2. k = [j EXCEPT !.scopes = f]
    BY DEF TrimScopes
  <1> HIDE DEF keep
  <1>3. DOMAIN f = keep /\ \A x \in keep : f[x] = j.scopes[x]
    BY DEF Retain
  <1> HIDE DEF f, k
  <1>4. /\ k \in [nextScope : {j.nextScope}, nextRecord : {j.nextRecord},
                  scopes : {f}, records : {j.records}]
        /\ k.scopes = f /\ k.records = j.records
    BY <1>2 DEF JournalTrue
  <1>5. Less(k, j)
    BY <1>1, <1>3, <1>4 DEF Less
  <1> QED  BY <1>5, LessStaysTrue DEF k

LEMMA ClearTrue ==
    ASSUME NEW j, NEW S, NEW R, JournalTrue(j, S, R), Truthful(S, R)
    PROVE  StaysTrue(j, Clear(j), S, R)
  <1> DEFINE e == <<>>
             k == Clear(j)
  <1>1. DOMAIN e = {} /\ k = [[j EXCEPT !.scopes = e] EXCEPT !.records = e]
    BY DEF Clear
  <1> HIDE DEF e, k
  <1>2. /\ k \in [nextScope : {j.nextScope}, nextRecord : {j.nextRecord},
                  scopes : {e}, records : {e}]
        /\ k.scopes = e /\ k.records = e
    BY <1>1 DEF JournalTrue
  <1>3. Less(k, j)
    BY <1>1, <1>2 DEF Less
  <1> QED  BY <1>3, LessStaysTrue DEF k

LEMMA EnterTrue ==
    ASSUME NEW j, NEW S, NEW R, JournalTrue(j, S, R), Truthful(S, R),
           NEW parent \in {None} \cup 0..(j.nextScope - 1)
    PROVE  /\ StaysTrue(j, EnterScope(j, parent), S, R)
           /\ j.nextScope \in DOMAIN EnterScope(j, parent).scopes
           /\ EnterScope(j, parent).nextScope = j.nextScope + 1
  <1> DEFINE id == j.nextScope
             s  == [parent |-> parent, open |-> TRUE, message |-> ""]
             f  == Put(j.scopes, id, s)
             k  == EnterScope(j, parent)
             x  == <<id, parent>>
             T  == S \cup {x}
  <1>1. k = [[j EXCEPT !.nextScope = id + 1] EXCEPT !.scopes = f]
    BY DEF EnterScope
  <1>2. id \in Nat /\ id \notin DOMAIN j.scopes /\ id + 1 \in Nat
    BY DEF JournalTrue
  <1>3. s.parent = parent /\ s.open = TRUE /\ s.message = ""
        /\ s \in [parent : {s.parent}, open : BOOLEAN, message : {"", "bye"}]
    OBVIOUS
  <1>4. DOMAIN f = DOMAIN j.scopes \cup {id} /\ f[id] = s
        /\ \A y \in DOMAIN j.scopes : f[y] = j.scopes[y]
    <2> HIDE DEF s, id
    <2>1. DOMAIN f = DOMAIN j.scopes \cup {id} /\ f[id] = s
          /\ \A y \in DOMAIN j.scopes : y # id => f[y] = j.scopes[y]
      BY DEF Put
    <2> QED  BY <1>2, <2>1
  <1> HIDE DEF f, k, s
  <1>5. /\ k \in [nextScope : {id + 1}, nextRecord : {j.nextRecord}, scopes : {f},
                  records : {j.records}]
        /\ k.scopes = f /\ k.records = j.records /\ k.nextScope = id + 1
        /\ k.nextRecord = j.nextRecord
    BY <1>1 DEF JournalTrue
  <1>6. Made(j, k) = {}
    BY <1>5 DEF Made
  <1>7. Entered(j, k) = {x}
    <2>1. DOMAIN k.scopes \ DOMAIN j.scopes = {id} /\ k.scopes[id].parent = parent
      BY <1>2, <1>3, <1>4, <1>5
    <2> QED  BY <2>1 DEF Entered
  <1>8. x[1] = id /\ x[2] = parent /\ x \in Nat \X (Nat \cup {None})
    BY <1>2
  <1> HIDE DEF x
  <1>9. \A y \in S : y[1] \in Nat /\ y[1] < id
    BY DEF Truthful, JournalTrue
  <1>10. Truthful(T, R)
    <2>1. \A y \in T : /\ y \in Nat \X (Nat \cup {None})
                       /\ y[2] # None => y[2] < y[1]
      <3>1. parent # None => parent < id
        BY <1>2
      <3> QED  BY <1>8, <3>1 DEF Truthful
    <2>2. \A y, z \in T : y[1] = z[1] => y = z
      <3>1. \A y \in S : y[1] # id
        BY <1>2, <1>9
      <3> QED  BY <1>8, <3>1 DEF Truthful
    <2> HIDE DEF T
    <2> QED  BY <2>1, <2>2 DEF Truthful
  <1>11. JournalTrue(k, T, R)
    <2>1. k \in [nextScope : Nat, nextRecord : Nat, scopes : {k.scopes}, records : {k.records}]
      BY <1>2, <1>5 DEF JournalTrue
    <2>2. DOMAIN k.scopes \in SUBSET (0..(k.nextScope - 1))
      <3>1. 0..(id - 1) \in SUBSET (0..((id + 1) - 1)) /\ id \in 0..((id + 1) - 1)
        BY <1>2
      <3> QED  BY <1>4, <1>5, <3>1 DEF JournalTrue
    <2>3. DOMAIN k.records \in SUBSET (0..(k.nextRecord - 1))
      BY <1>5 DEF JournalTrue
    <2>4. \A y \in T : y[1] < k.nextScope
      BY <1>2, <1>5, <1>8, <1>9
    <2>5. \A r \in R : r.id < k.nextRecord /\ (r.scope # None => r.scope < k.nextScope)
      <3>1. \A r \in R : r.scope \in Nat \cup {None}
        BY DEF Truthful, RecordValues
      <3> QED  BY <1>2, <1>5, <3>1 DEF JournalTrue
    <2>6. \A y \in DOMAIN k.scopes : ScopeHeld(k.scopes[y], y, T, R)
      <3> SUFFICES ASSUME NEW y \in DOMAIN k.scopes PROVE ScopeHeld(k.scopes[y], y, T, R)
        OBVIOUS
      <3>1. CASE y = id
        <4>1. ~Exited(R, id)
          <5>1. \A r \in R : r.scope \in Nat \cup {None} /\ (r.scope # None => r.scope < id)
            BY DEF Truthful, RecordValues, JournalTrue
          <5> QED  BY <1>2, <5>1, ReplayAssumption DEF Exited
        <4>2. <<y, s.parent>> = x
          BY <1>3, <3>1 DEF x
        <4> QED  BY <1>3, <1>4, <1>5, <3>1, <4>1, <4>2 DEF ScopeHeld
      <3>2. CASE y \in DOMAIN j.scopes
        <4>1. k.scopes[y] = j.scopes[y] /\ ScopeHeld(j.scopes[y], y, S, R)
          BY <1>4, <1>5, <3>2 DEF JournalTrue
        <4> QED  BY <4>1 DEF ScopeHeld
      <3> QED  BY <1>4, <1>5, <3>1, <3>2
    <2>7. \A n \in DOMAIN k.records : RecordValue(k, n) \in R
      BY <1>5 DEF JournalTrue, RecordValue
    <2> HIDE DEF T
    <2> QED  BY <2>1, <2>2, <2>3, <2>4, <2>5, <2>6, <2>7 DEF JournalTrue
  <1>12. R \cup {} = R
    OBVIOUS
  <1>13. StaysTrue(j, k, S, R)
    BY <1>6, <1>7, <1>10, <1>11, <1>12 DEF StaysTrue
  <1> QED  BY <1>4, <1>5, <1>13 DEF k

(* A record more: the next one, of a scope there is, or of none.            *)
LEMMA MadeTrue ==
    ASSUME NEW S, NEW R, Truthful(S, R), NEW n \in Nat, \A q \in R : q.id < n,
           NEW r \in RecordValues, r.id = n,
           r.exit # None => r.scope # None /\ ~Exited(R, r.scope)
    PROVE  Truthful(S, R \cup {r})
  <1> DEFINE Q == R \cup {r}
  <1>1. \A q \in R : q.id \in Nat /\ q.id # r.id
    BY DEF Truthful, RecordValues
  <1>2. \A q \in R : ~ (q.exit # None /\ r.exit # None /\ q.scope = r.scope)
    BY DEF Exited
  <1>3. Q \in SUBSET RecordValues /\ \A p, q \in Q : p.id = q.id => p = q
    BY <1>1 DEF Truthful
  <1>4. /\ \A p, q \in Q : p.exit # None /\ q.exit # None /\ p.scope = q.scope => p = q
        /\ \A q \in Q : q.exit # None => q.scope # None
    BY <1>2 DEF Truthful
  <1> HIDE DEF Q
  <1>5. Truthful(S, Q)
    BY <1>3, <1>4 DEF Truthful
  <1> QED  BY <1>5 DEF Q

LEMMA EventTrue ==
    ASSUME NEW j, NEW S, NEW R, JournalTrue(j, S, R), Truthful(S, R),
           NEW scope \in {None} \cup 0..(j.nextScope - 1)
    PROVE  /\ StaysTrue(j, RecordEvent(j, scope), S, R)
           /\ j.nextRecord \in DOMAIN RecordEvent(j, scope).records
           /\ RecordEvent(j, scope).nextScope = j.nextScope
  <1> DEFINE n == j.nextRecord
             r == [kind |-> "event", scope |-> scope]
             f == Put(j.records, n, r)
             k == RecordEvent(j, scope)
             x == [id |-> n, scope |-> scope, body |-> "event", exit |-> None]
  <1>1. k = [[j EXCEPT !.nextRecord = n + 1] EXCEPT !.records = f]
    BY DEF RecordEvent
  <1>2. n \in Nat /\ n \notin DOMAIN j.records /\ n + 1 \in Nat /\ j.nextScope \in Nat
    BY DEF JournalTrue
  <1>3. r.kind = "event" /\ r.scope = scope
    OBVIOUS
  <1>4. DOMAIN f = DOMAIN j.records \cup {n} /\ f[n] = r
        /\ \A y \in DOMAIN j.records : f[y] = j.records[y]
    <2> HIDE DEF r, n
    <2>1. DOMAIN f = DOMAIN j.records \cup {n} /\ f[n] = r
          /\ \A y \in DOMAIN j.records : y # n => f[y] = j.records[y]
      BY DEF Put
    <2> QED  BY <1>2, <2>1
  <1> HIDE DEF f, k, r
  <1>5. /\ k \in [nextScope : {j.nextScope}, nextRecord : {n + 1}, scopes : {j.scopes},
                  records : {f}]
        /\ k.scopes = j.scopes /\ k.records = f /\ k.nextScope = j.nextScope
        /\ k.nextRecord = n + 1
    BY <1>1 DEF JournalTrue
  <1>6. Entered(j, k) = {}
    BY <1>5 DEF Entered
  <1>7. Made(j, k) = {x}
    <2>1. DOMAIN k.records \ DOMAIN j.records = {n}
      BY <1>2, <1>4, <1>5
    <2>2. RecordValue(k, n) = x
      BY <1>3, <1>4, <1>5 DEF RecordValue
    <2> HIDE DEF x, n
    <2> QED  BY <2>1, <2>2 DEF Made
  <1>8. x \in RecordValues /\ x.id = n /\ x.scope = scope /\ x.exit = None
    BY <1>2 DEF RecordValues
  <1> HIDE DEF x
  <1> DEFINE Q == R \cup {x}
  <1>9. Truthful(S, Q)
    <2>1. \A q \in R : q.id < n
      BY DEF JournalTrue
    <2> QED  BY <1>2, <1>8, <2>1, MadeTrue
  <1>10. \A id : Exited(Q, id) <=> Exited(R, id)
    BY <1>8 DEF Exited
  <1>11. JournalTrue(k, S, Q)
    <2>1. k \in [nextScope : Nat, nextRecord : Nat, scopes : {k.scopes}, records : {k.records}]
      BY <1>2, <1>5
    <2>2. DOMAIN k.scopes \in SUBSET (0..(k.nextScope - 1)) /\ \A y \in S : y[1] < k.nextScope
      BY <1>5 DEF JournalTrue
    <2>3. DOMAIN k.records \in SUBSET (0..(k.nextRecord - 1))
      <3>1. 0..(n - 1) \in SUBSET (0..((n + 1) - 1)) /\ n \in 0..((n + 1) - 1)
        BY <1>2
      <3>2. DOMAIN j.records \in SUBSET (0..(n - 1))
        BY DEF JournalTrue
      <3> QED  BY <1>4, <1>5, <3>1, <3>2
    <2>4. \A q \in Q : q.id < k.nextRecord /\ (q.scope # None => q.scope < k.nextScope)
      <3>1. \A q \in R : q.id \in Nat /\ q.id < n /\ (q.scope # None => q.scope < k.nextScope)
        BY <1>5 DEF Truthful, RecordValues, JournalTrue
      <3>2. scope # None => scope < k.nextScope
        BY <1>2, <1>5
      <3> QED  BY <1>2, <1>5, <1>8, <3>1, <3>2
    <2>5. \A y \in DOMAIN k.scopes : ScopeHeld(k.scopes[y], y, S, Q)
      BY <1>5, <1>10 DEF JournalTrue, ScopeHeld
    <2>6. \A m \in DOMAIN k.records : RecordValue(k, m) \in Q
      <3> SUFFICES ASSUME NEW m \in DOMAIN k.records PROVE RecordValue(k, m) \in Q
        OBVIOUS
      <3>1. CASE m = n
        BY <1>2, <1>4, <1>5, <1>7, <3>1 DEF Made
      <3>2. CASE m \in DOMAIN j.records
        <4>1. k.records[m] = j.records[m]
          BY <1>4, <1>5, <3>2
        <4>2. RecordValue(k, m) = RecordValue(j, m)
          BY <4>1 DEF RecordValue
        <4> QED  BY <3>2, <4>2 DEF JournalTrue
      <3> QED  BY <1>4, <1>5, <3>1, <3>2
    <2> HIDE DEF Q
    <2> QED  BY <2>1, <2>2, <2>3, <2>4, <2>5, <2>6 DEF JournalTrue
  <1>12. S \cup {} = S
    OBVIOUS
  <1>13. StaysTrue(j, k, S, R)
    BY <1>6, <1>7, <1>9, <1>11, <1>12 DEF StaysTrue
  <1> QED  BY <1>4, <1>5, <1>13 DEF k

LEMMA ExitTrue ==
    ASSUME NEW j, NEW S, NEW R, JournalTrue(j, S, R), Truthful(S, R),
           NEW id, NEW outcome \in ExitOutcomes
    PROVE  /\ StaysTrue(j, ExitScope(j, id, outcome), S, R)
           /\ Open(j, id) => j.nextRecord \in DOMAIN ExitScope(j, id, outcome).records
           /\ ExitScope(j, id, outcome).nextScope = j.nextScope
  <1> DEFINE n == j.nextRecord
             r == [kind |-> "exit", scope |-> id, outcome |-> outcome]
             f == Put(j.records, n, r)
             g == [j.scopes EXCEPT ![id].open = FALSE]
             k == ExitScope(j, id, outcome)
             e == [outcome |-> outcome, duration |-> 1]
             x == [id |-> n, scope |-> id, body |-> "exit", exit |-> e]
  <1>0. CASE ~Open(j, id)
    <2>1. k = [j EXCEPT !.nextRecord = n + 1]
      BY <1>0 DEF ExitScope
    <2> HIDE DEF k
    <2>2. /\ k \in [nextScope : {j.nextScope}, nextRecord : {n + 1}, scopes : {j.scopes},
                    records : {j.records}]
          /\ k.scopes = j.scopes /\ k.records = j.records /\ k.nextScope = j.nextScope
      BY <2>1 DEF JournalTrue
    <2>3. Less(k, j)
      BY <2>2 DEF Less
    <2> QED  BY <1>0, <2>2, <2>3, LessStaysTrue DEF k
  <1>a. CASE Open(j, id)
    <2>1. k = [[[j EXCEPT !.nextRecord = n + 1] EXCEPT !.scopes = g] EXCEPT !.records = f]
      BY <1>a DEF ExitScope
    <2>2. /\ n \in Nat /\ n \notin DOMAIN j.records /\ n + 1 \in Nat /\ j.nextScope \in Nat
          /\ id \in DOMAIN j.scopes /\ id \in 0..(j.nextScope - 1) /\ j.scopes[id].open
      BY <1>a DEF JournalTrue, Open
    <2>3. r.kind = "exit" /\ r.scope = id /\ r.outcome = outcome
      OBVIOUS
    <2>4. DOMAIN f = DOMAIN j.records \cup {n} /\ f[n] = r
          /\ \A y \in DOMAIN j.records : f[y] = j.records[y]
      <3> HIDE DEF r, n
      <3>1. DOMAIN f = DOMAIN j.records \cup {n} /\ f[n] = r
            /\ \A y \in DOMAIN j.records : y # n => f[y] = j.records[y]
        BY DEF Put
      <3> QED  BY <2>2, <3>1
    <2>5. /\ DOMAIN g = DOMAIN j.scopes /\ g[id] = [j.scopes[id] EXCEPT !.open = FALSE]
          /\ \A y \in DOMAIN j.scopes : y # id => g[y] = j.scopes[y]
      BY <2>2
    <2>6. /\ g[id].parent = j.scopes[id].parent /\ g[id].open = FALSE
          /\ g[id] \in [parent : {g[id].parent}, open : BOOLEAN, message : {"", "bye"}]
      <3>1. j.scopes[id] \in [parent : {j.scopes[id].parent}, open : BOOLEAN, message : {"", "bye"}]
        BY <2>2 DEF JournalTrue, ScopeHeld
      <3> HIDE DEF g
      <3> QED  BY <2>5, <3>1
    <2> HIDE DEF f, g, k, r
    <2>7. /\ k \in [nextScope : {j.nextScope}, nextRecord : {n + 1}, scopes : {g},
                    records : {f}]
          /\ k.scopes = g /\ k.records = f /\ k.nextScope = j.nextScope
          /\ k.nextRecord = n + 1
      BY <2>1 DEF JournalTrue
    <2>8. Entered(j, k) = {}
      BY <2>5, <2>7 DEF Entered
    <2>9. Made(j, k) = {x}
      <3>1. DOMAIN k.records \ DOMAIN j.records = {n}
        BY <2>2, <2>4, <2>7
      <3>2. RecordValue(k, n) = x
        BY <2>3, <2>4, <2>7 DEF RecordValue
      <3> HIDE DEF x, n
      <3> QED  BY <3>1, <3>2 DEF Made
    <2>10. x \in RecordValues /\ x.id = n /\ x.scope = id /\ x.exit # None
      <3>1. e \in Exits
        BY DEF Exits
      <3>2. e # None
        BY <3>1, SavedAssumption
      <3> HIDE DEF e
      <3> QED  BY <2>2, <3>1, <3>2 DEF RecordValues
    <2>11. ~Exited(R, id) /\ id # None
      <3>1. ScopeHeld(j.scopes[id], id, S, R)
        BY <2>2 DEF JournalTrue
      <3>2. id \in Nat
        BY <2>2
      <3> QED  BY <2>2, <3>1, <3>2, ReplayAssumption DEF ScopeHeld
    <2> HIDE DEF x
    <2> DEFINE Q == R \cup {x}
    <2>12. Truthful(S, Q)
      <3>1. \A q \in R : q.id < n
        BY DEF JournalTrue
      <3> QED  BY <2>2, <2>10, <2>11, <3>1, MadeTrue
    <2>13. Exited(Q, id) /\ \A y : y # id => (Exited(Q, y) <=> Exited(R, y))
      BY <2>10 DEF Exited
    <2>14. JournalTrue(k, S, Q)
      <3>1. k \in [nextScope : Nat, nextRecord : Nat, scopes : {k.scopes}, records : {k.records}]
        BY <2>2, <2>7
      <3>2. DOMAIN k.scopes \in SUBSET (0..(k.nextScope - 1)) /\ \A y \in S : y[1] < k.nextScope
        BY <2>5, <2>7 DEF JournalTrue
      <3>3. DOMAIN k.records \in SUBSET (0..(k.nextRecord - 1))
        <4>1. 0..(n - 1) \in SUBSET (0..((n + 1) - 1)) /\ n \in 0..((n + 1) - 1)
          BY <2>2
        <4>2. DOMAIN j.records \in SUBSET (0..(n - 1))
          BY DEF JournalTrue
        <4> QED  BY <2>4, <2>7, <4>1, <4>2
      <3>4. \A q \in Q : q.id < k.nextRecord /\ (q.scope # None => q.scope < k.nextScope)
        <4>1. \A q \in R : q.id \in Nat /\ q.id < n /\ (q.scope # None => q.scope < k.nextScope)
          BY <2>7 DEF Truthful, RecordValues, JournalTrue
        <4>2. id < k.nextScope
          BY <2>2, <2>7
        <4> QED  BY <2>2, <2>7, <2>10, <4>1, <4>2
      <3>5. \A y \in DOMAIN k.scopes : ScopeHeld(k.scopes[y], y, S, Q)
        <4> SUFFICES ASSUME NEW y \in DOMAIN k.scopes PROVE ScopeHeld(k.scopes[y], y, S, Q)
          OBVIOUS
        <4>1. y \in DOMAIN j.scopes /\ ScopeHeld(j.scopes[y], y, S, R)
          BY <2>5, <2>7 DEF JournalTrue
        <4>2. CASE y = id
          BY <2>6, <2>7, <2>13, <4>1, <4>2 DEF ScopeHeld
        <4>3. CASE y # id
          BY <2>5, <2>7, <2>13, <4>1, <4>3 DEF ScopeHeld
        <4> QED  BY <4>2, <4>3
      <3>6. \A m \in DOMAIN k.records : RecordValue(k, m) \in Q
        <4> SUFFICES ASSUME NEW m \in DOMAIN k.records PROVE RecordValue(k, m) \in Q
          OBVIOUS
        <4>1. CASE m = n
          BY <2>2, <2>4, <2>7, <2>9, <4>1 DEF Made
        <4>2. CASE m \in DOMAIN j.records
          <5>1. k.records[m] = j.records[m]
            BY <2>4, <2>7, <4>2
          <5>2. RecordValue(k, m) = RecordValue(j, m)
            BY <5>1 DEF RecordValue
          <5> QED  BY <4>2, <5>2 DEF JournalTrue
        <4> QED  BY <2>4, <2>7, <4>1, <4>2
      <3> HIDE DEF Q
      <3> QED  BY <3>1, <3>2, <3>3, <3>4, <3>5, <3>6 DEF JournalTrue
    <2>15. S \cup {} = S
      OBVIOUS
    <2>16. StaysTrue(j, k, S, R)
      BY <2>8, <2>9, <2>12, <2>14, <2>15 DEF StaysTrue
    <2> QED  BY <2>4, <2>7, <2>16 DEF k
  <1> QED  BY <1>0, <1>a

LEMMA MessageTrue ==
    ASSUME NEW j, NEW S, NEW R, JournalTrue(j, S, R), Truthful(S, R), NEW id
    PROVE  /\ StaysTrue(j, SetMessage(j, id, "bye"), S, R)
           /\ SetMessage(j, id, "bye").nextScope = j.nextScope
  <1> DEFINE g == [j.scopes EXCEPT ![id].message = "bye"]
             k == SetMessage(j, id, "bye")
  <1>1. CASE id \notin DOMAIN j.scopes
    <2>1. k = j
      BY <1>1 DEF SetMessage
    <2>2. Less(j, j)
      BY DEF Less, JournalTrue
    <2> QED  BY <2>1, <2>2, LessStaysTrue
  <1>2. CASE id \in DOMAIN j.scopes
    <2>1. k = [j EXCEPT !.scopes = g]
      BY <1>2 DEF SetMessage
    <2>2. /\ DOMAIN g = DOMAIN j.scopes /\ g[id] = [j.scopes[id] EXCEPT !.message = "bye"]
          /\ \A y \in DOMAIN j.scopes : y # id => g[y] = j.scopes[y]
      BY <1>2
    <2>3. \A y \in DOMAIN j.scopes : ScopeHeld(j.scopes[y], y, S, R)
      BY DEF JournalTrue
    <2> HIDE DEF g, k
    <2>4. /\ g[id].parent = j.scopes[id].parent /\ g[id].open = j.scopes[id].open
          /\ g[id] \in [parent : {g[id].parent}, open : BOOLEAN, message : {"", "bye"}]
      <3>1. j.scopes[id] \in [parent : {j.scopes[id].parent}, open : BOOLEAN, message : {"", "bye"}]
        BY <1>2, <2>3 DEF ScopeHeld
      <3> QED  BY <2>2, <3>1
    <2>5. /\ k \in [nextScope : {j.nextScope}, nextRecord : {j.nextRecord}, scopes : {g},
                    records : {j.records}]
          /\ k.scopes = g /\ k.records = j.records /\ k.nextScope = j.nextScope
          /\ k.nextRecord = j.nextRecord
      BY <2>1 DEF JournalTrue
    <2>6. Entered(j, k) = {} /\ Made(j, k) = {}
      BY <2>2, <2>5 DEF Entered, Made
    <2>7. JournalTrue(k, S, R)
      <3>1. \A y \in DOMAIN k.scopes : ScopeHeld(k.scopes[y], y, S, R)
        <4> SUFFICES ASSUME NEW y \in DOMAIN k.scopes PROVE ScopeHeld(k.scopes[y], y, S, R)
          OBVIOUS
        <4>1. y \in DOMAIN j.scopes /\ ScopeHeld(j.scopes[y], y, S, R)
          BY <2>2, <2>3, <2>5
        <4>2. CASE y = id
          BY <2>4, <2>5, <4>1, <4>2 DEF ScopeHeld
        <4>3. CASE y # id
          BY <2>2, <2>5, <4>1, <4>3
        <4> QED  BY <4>2, <4>3
      <3>2. \A n \in DOMAIN k.records : RecordValue(k, n) \in R
        BY <2>5 DEF JournalTrue, RecordValue
      <3>3. /\ DOMAIN k.scopes \in SUBSET (0..(k.nextScope - 1))
            /\ DOMAIN k.records \in SUBSET (0..(k.nextRecord - 1))
            /\ \A x \in S : x[1] < k.nextScope
            /\ \A r \in R : r.id < k.nextRecord /\ (r.scope # None => r.scope < k.nextScope)
        BY <2>2, <2>5 DEF JournalTrue
      <3>4. k \in [nextScope : Nat, nextRecord : Nat, scopes : {k.scopes}, records : {k.records}]
        BY <2>5 DEF JournalTrue
      <3> QED  BY <3>1, <3>2, <3>3, <3>4 DEF JournalTrue
    <2>8. S \cup {} = S /\ R \cup {} = R
      OBVIOUS
    <2>9. StaysTrue(j, k, S, R)
      BY <2>6, <2>7, <2>8 DEF StaysTrue
    <2> QED  BY <2>5, <2>9 DEF k
  <1> QED  BY <1>1, <1>2

-----------------------------------------------------------------------------
(* What is lost when writes fail                                            *)

(* The lines of the file that have their newline: no write touches them     *)
(* again.                                                                   *)
Settled(d) == Len(d.lines) - (IF d.ended THEN 0 ELSE 1)
Garbled(d) == {m \in 1..Settled(d) : d.lines[m] = Garbage}

(* The first n attempts: one that succeeded and continued no other is in    *)
(* the file; those that continued a failed one are damaged lines of it, no  *)
(* more than writes that failed.                                            *)
Joined(att, n) == {k \in 1..n : att[k].result = "ok" /\ att[k].joined}
Kept(d, a) ==
    /\ Own(a.line)
    /\ a.result = "ok" /\ ~a.joined => \E m \in 1..Settled(d) : d.lines[m] = a.line
Torn(d, att, n, f) ==
    /\ IsSeq(d.lines) /\ d.ended \in BOOLEAN /\ (d.ended \/ Len(d.lines) # 0) /\ f \in Nat
    /\ \A k \in 1..n : Kept(d, att[k])
    /\ Cardinality(Joined(att, n)) + (IF d.ended THEN 0 ELSE 1) <= f
    /\ Cardinality(Joined(att, n)) <= Cardinality(Garbled(d))

LEMMA GarbledFinite ==
    ASSUME NEW d, IsSeq(d.lines), d.ended \in BOOLEAN, d.ended \/ Len(d.lines) # 0
    PROVE  /\ Settled(d) \in Nat /\ Len(d.lines) \in Nat
           /\ Settled(d) = IF d.ended THEN Len(d.lines) ELSE Len(d.lines) - 1
           /\ IsFiniteSet(Garbled(d)) /\ Cardinality(Garbled(d)) \in Nat
  <1>1. Len(d.lines) \in Nat
    BY LenProperties DEF IsSeq
  <1>2. Settled(d) \in Nat /\ Settled(d) = IF d.ended THEN Len(d.lines) ELSE Len(d.lines) - 1
    BY <1>1 DEF Settled
  <1>3. IsFiniteSet(1..Settled(d))
    BY <1>2, FS_Interval
  <1>4. Garbled(d) \in SUBSET (1..Settled(d))
    BY DEF Garbled
  <1>5. IsFiniteSet(Garbled(d))
    BY <1>3, <1>4, FS_Subset
  <1> QED  BY <1>1, <1>2, <1>5, FS_CardinalityType

LEMMA JoinedFinite ==
    ASSUME NEW att, NEW n \in Nat
    PROVE  /\ IsFiniteSet(Joined(att, n)) /\ Cardinality(Joined(att, n)) \in Nat
           /\ n + 1 \notin Joined(att, n)
           /\ Joined(att, n + 1) = Joined(att, n) \cup
                 (IF att[n + 1].result = "ok" /\ att[n + 1].joined THEN {n + 1} ELSE {})
  <1>1. IsFiniteSet(1..n)
    BY FS_Interval
  <1>2. Joined(att, n) \in SUBSET (1..n)
    BY DEF Joined
  <1>3. IsFiniteSet(Joined(att, n))
    BY <1>1, <1>2, FS_Subset
  <1>4. 1..(n + 1) = (1..n) \cup {n + 1} /\ n + 1 \notin 1..n
    OBVIOUS
  <1>5. Joined(att, n + 1) = Joined(att, n) \cup
                 (IF att[n + 1].result = "ok" /\ att[n + 1].joined THEN {n + 1} ELSE {})
    BY <1>4 DEF Joined
  <1> QED  BY <1>2, <1>3, <1>4, <1>5, FS_CardinalityType

(* What a write leaves of the file: nothing new, or the settled lines and   *)
(* one more, the line itself if nothing was cut before it.                  *)
LEMMA WhatIsAppended ==
    ASSUME NEW d, IsSeq(d.lines), d.ended \in BOOLEAN, d.ended \/ Len(d.lines) # 0,
           NEW line, NEW r \in Results, r # "lost"
    PROVE  LET e == AppendLine(d, line, r)
           IN  /\ IsSeq(e.lines) /\ Len(e.lines) = Settled(d) + 1 /\ (e.ended <=> r = "ok")
               /\ e.ended \in BOOLEAN
               /\ \A m \in 1..Settled(d) : e.lines[m] = d.lines[m]
               /\ r = "ok" => e.lines[Settled(d) + 1] = IF d.ended THEN line ELSE Garbage
  <1> DEFINE before == IF d.ended THEN d.lines ELSE Front(d.lines)
             text   == IF d.ended /\ r # "part" THEN line ELSE Garbage
             after  == Append(before, text)
             ended  == r = "ok"
             e      == AppendLine(d, line, r)
  <1>1. /\ Settled(d) \in Nat /\ Len(d.lines) \in Nat
        /\ Settled(d) = IF d.ended THEN Len(d.lines) ELSE Len(d.lines) - 1
    BY GarbledFinite
  <1>2. /\ IsSeq(before) /\ Len(before) = Settled(d)
        /\ \A m \in 1..Settled(d) : before[m] = d.lines[m]
    <2>1. CASE d.ended
      BY <1>1, <2>1
    <2>2. CASE ~d.ended
      <3> DEFINE T == {d.lines[k] : k \in 1..Len(d.lines)}
                 f == SubSeq(d.lines, 1, Len(d.lines) - 1)
      <3>1. d.lines \in Seq(T) /\ Len(d.lines) \in Nat /\ \A k \in 1..Len(d.lines) : d.lines[k] \in T
        BY LenProperties DEF IsSeq
      <3> HIDE DEF T
      <3>2. 1 \in Int /\ Len(d.lines) - 1 \in Int /\ \A k \in 1..(Len(d.lines) - 1) : d.lines[k] \in T
        BY <3>1
      <3>3. /\ f \in Seq(T)
            /\ Len(f) = IF 1 <= Len(d.lines) - 1 THEN (Len(d.lines) - 1) - 1 + 1 ELSE 0
            /\ \A k \in 1..((Len(d.lines) - 1) - 1 + 1) : f[k] = d.lines[1 + k - 1]
        BY <3>2, SubSeqProperties
      <3> HIDE DEF f
      <3>4. IsSeq(f)
        BY <3>3, SeqIs
      <3>5. Len(f) = Settled(d)
        BY <1>1, <2>2, <3>3
      <3>6. ASSUME NEW m \in 1..Settled(d) PROVE f[m] = d.lines[m]
        <4>1. m \in 1..((Len(d.lines) - 1) - 1 + 1) /\ 1 + m - 1 = m
          BY <1>1, <2>2
        <4> QED  BY <3>3, <4>1
      <3>7. before = f
        BY <2>2 DEF Front, f
      <3> HIDE DEF before
      <3> QED  BY <3>4, <3>5, <3>6, <3>7
    <2> QED  BY <2>1, <2>2
  <1>3. r = "ok" => text = IF d.ended THEN line ELSE Garbage
    OBVIOUS
  <1> HIDE DEF before, text
  <1>4. /\ IsSeq(after) /\ Len(after) = Settled(d) + 1 /\ after[Settled(d) + 1] = text
        /\ \A m \in 1..Settled(d) : after[m] = before[m]
    BY <1>2, SeqGrows
  <1>5. e = [lines |-> after, ended |-> ended]
    BY DEF AppendLine, before, text
  <1> HIDE DEF after, e
  <1>6. e.lines = after /\ e.ended = ended
    BY <1>5
  <1> HIDE DEF ended
  <1>7. ended \in BOOLEAN /\ (ended <=> r = "ok")
    BY DEF ended
  <1> QED  BY <1>2, <1>3, <1>4, <1>6, <1>7 DEF e

LEMMA LineTorn ==
    ASSUME NEW d, NEW att, NEW n \in Nat, NEW f, Torn(d, att, n, f),
           NEW line, Own(line), NEW r \in Results, att[n + 1] = Attempt(line, r, d)
    PROVE  Torn(AppendLine(d, line, r), att, n + 1, f + (IF r = "ok" THEN 0 ELSE 1))
  <1> DEFINE e == AppendLine(d, line, r)
             g == f + (IF r = "ok" THEN 0 ELSE 1)
             J == Joined(att, n)
             K == Joined(att, n + 1)
             s == Settled(d)
  <1>1. /\ IsSeq(d.lines) /\ d.ended \in BOOLEAN /\ (d.ended \/ Len(d.lines) # 0) /\ f \in Nat
        /\ \A k \in 1..n : Kept(d, att[k])
        /\ Cardinality(J) + (IF d.ended THEN 0 ELSE 1) <= f
        /\ Cardinality(J) <= Cardinality(Garbled(d))
    BY DEF Torn
  <1>2. /\ s \in Nat /\ IsFiniteSet(Garbled(d)) /\ Cardinality(Garbled(d)) \in Nat
    BY <1>1, GarbledFinite
  <1>3. /\ IsFiniteSet(J) /\ Cardinality(J) \in Nat /\ n + 1 \notin J
        /\ K = J \cup (IF att[n + 1].result = "ok" /\ att[n + 1].joined THEN {n + 1} ELSE {})
    BY JoinedFinite
  <1>4. att[n + 1].line = line /\ att[n + 1].result = r /\ att[n + 1].joined = ~d.ended
    BY DEF Attempt
  <1>5. \A k \in 1..(n + 1) : k \in 1..n \/ k = n + 1
    OBVIOUS
  <1>6. CASE r = "lost"
    <2>1. e = d /\ K = J
      BY <1>3, <1>4, <1>6 DEF AppendLine
    <2>2. Kept(d, att[n + 1])
      BY <1>4, <1>6 DEF Kept
    <2>3. g \in Nat /\ Cardinality(K) + (IF d.ended THEN 0 ELSE 1) <= g
      BY <1>1, <1>3, <1>6, <2>1
    <2> HIDE DEF e, g, J, K
    <2>4. Torn(d, att, n + 1, g)
      BY <1>1, <1>5, <2>1, <2>2, <2>3 DEF Torn, K
    <2> QED  BY <2>1, <2>4 DEF e, g
  <1>7. CASE r # "lost"
    <2>1. /\ IsSeq(e.lines) /\ Len(e.lines) = s + 1 /\ (e.ended <=> r = "ok")
          /\ e.ended \in BOOLEAN
          /\ \A m \in 1..s : e.lines[m] = d.lines[m]
          /\ r = "ok" => e.lines[s + 1] = IF d.ended THEN line ELSE Garbage
      BY <1>1, <1>7, WhatIsAppended
    <2> HIDE DEF e, s
    <2>2. Len(e.lines) # 0
      BY <1>2, <2>1
    <2>3. Settled(e) = IF r = "ok" THEN s + 1 ELSE s
      BY <1>2, <2>1 DEF Settled
    <2>4. IsFiniteSet(Garbled(e)) /\ Cardinality(Garbled(e)) \in Nat
      BY <2>1, <2>2, GarbledFinite
    <2>5. 1..s \in SUBSET (1..Settled(e)) /\ (r = "ok" => s + 1 \in 1..Settled(e))
      BY <1>2, <2>3
    <2>6. Garbled(d) \in SUBSET Garbled(e)
      BY <2>1, <2>5 DEF Garbled, s
    <2>7. ASSUME NEW k \in 1..n PROVE Kept(e, att[k])
      <3>1. Kept(d, att[k])
        BY <1>1
      <3>2. ASSUME NEW m \in 1..Settled(d), d.lines[m] = att[k].line
            PROVE  \E x \in 1..Settled(e) : e.lines[x] = att[k].line
        BY <2>1, <2>5, <3>2 DEF s
      <3> QED  BY <3>1, <3>2 DEF Kept
    <2>8. Kept(e, att[n + 1])
      <3>1. r = "ok" /\ d.ended => \E x \in 1..Settled(e) : e.lines[x] = line
        BY <2>1, <2>5
      <3> QED  BY <1>4, <3>1 DEF Kept
    <2>9. g \in Nat
      BY <1>1
    <2>10. /\ Cardinality(K) + (IF e.ended THEN 0 ELSE 1) <= g
           /\ Cardinality(K) <= Cardinality(Garbled(e))
      <3>1. Cardinality(Garbled(d)) <= Cardinality(Garbled(e))
        BY <2>4, <2>6, FS_Subset
      <3>2. CASE ~(r = "ok" /\ ~d.ended)
        <4>1. K = J
          BY <1>3, <1>4, <3>2
        <4> HIDE DEF J, K
        <4>2. PICK c \in Nat : c = Cardinality(J)
          BY <1>3
        <4>3. PICK x \in Nat : x = Cardinality(Garbled(d))
          BY <1>2
        <4>4. PICK y \in Nat : y = Cardinality(Garbled(e))
          BY <2>4
        <4>5. PICK u \in {0, 1} : u = IF d.ended THEN 0 ELSE 1
          OBVIOUS
        <4>6. PICK v \in {0, 1} : v = IF e.ended THEN 0 ELSE 1
          OBVIOUS
        <4>7. c <= x /\ x <= y /\ c + u <= f
          BY <1>1, <3>1, <4>2, <4>3, <4>4, <4>5
        <4>8. r = "ok" => v = 0 /\ g = f
          BY <1>1, <2>1, <4>6
        <4>9. r # "ok" => g = f + 1
          OBVIOUS
        <4> HIDE DEF g
        <4>10. c <= y /\ c + v <= g
          BY <1>1, <4>7, <4>8, <4>9
        <4> QED  BY <4>1, <4>2, <4>4, <4>6, <4>10
      <3>3. CASE r = "ok" /\ ~d.ended
        <4>1. K = J \cup {n + 1}
          BY <1>3, <1>4, <3>3
        <4> HIDE DEF J, K
        <4>2. Cardinality(K) = Cardinality(J) + 1
          BY <1>3, <4>1, FS_AddElement
        <4>3. s + 1 \in Garbled(e) /\ s + 1 \notin Garbled(d)
          <5>1. s + 1 \notin 1..s
            BY <1>2
          <5> QED  BY <2>1, <2>5, <3>3, <5>1 DEF Garbled, s
        <4>4. /\ IsFiniteSet(Garbled(d) \cup {s + 1})
              /\ Cardinality(Garbled(d) \cup {s + 1}) = Cardinality(Garbled(d)) + 1
          BY <1>2, <4>3, FS_AddElement
        <4>5. Garbled(d) \cup {s + 1} \in SUBSET Garbled(e)
          BY <2>6, <4>3
        <4>6. Cardinality(Garbled(d) \cup {s + 1}) <= Cardinality(Garbled(e))
          BY <2>4, <4>5, FS_Subset
        <4> QED  BY <1>1, <1>2, <1>3, <2>1, <2>4, <3>3, <4>2, <4>4, <4>6
      <3> QED  BY <3>2, <3>3
    <2> HIDE DEF g, K
    <2>11. Torn(e, att, n + 1, g)
      BY <1>5, <2>1, <2>2, <2>7, <2>8, <2>9, <2>10 DEF Torn, K
    <2> QED  BY <2>11 DEF e, g
  <1> QED  BY <1>6, <1>7

Unharmed(d, att, f) == IsSeq(att) /\ Torn(d, att, Len(att), f)

LEMMA ConcatIs ==
    ASSUME NEW a, IsSeq(a), NEW b, IsSeq(b), NEW n, Len(b) = n
    PROVE  /\ Len(a) \in Nat /\ n \in Nat /\ IsSeq(a \o b) /\ Len(a \o b) = Len(a) + n
           /\ \A k \in 1..Len(a) : (a \o b)[k] = a[k]
           /\ \A k \in 1..n : (a \o b)[Len(a) + k] = b[k]
  <1> DEFINE T == {a[k] : k \in 1..Len(a)} \cup {b[k] : k \in 1..Len(b)}
             c == a \o b
             o == Len(a)
  <1>1. a \in Seq(T) /\ b \in Seq(T)
    <2>1. a \in Seq({a[k] : k \in 1..Len(a)}) /\ b \in Seq({b[k] : k \in 1..Len(b)})
      BY DEF IsSeq
    <2> QED  BY <2>1, SeqMonotonic
  <1> HIDE DEF T
  <1>2. o \in Nat /\ n \in Nat
    BY <1>1, LenProperties
  <1>3. c \in Seq(T) /\ Len(c) = o + n
    BY <1>1, ConcatProperties
  <1>4. ASSUME NEW k \in 1..(o + n) PROVE c[k] = IF k <= o THEN a[k] ELSE b[k - o]
    BY <1>1, ConcatProperties
  <1>5. IsSeq(c)
    <2> HIDE DEF c
    <2> QED  BY <1>3, SeqIs
  <1> HIDE DEF c, o
  <1>6. ASSUME NEW k \in 1..o PROVE c[k] = a[k]
    BY <1>2, <1>4
  <1>7. ASSUME NEW k \in 1..n PROVE c[o + k] = b[k]
    <2>1. o + k \in 1..(o + n) /\ ~(o + k <= o) /\ (o + k) - o = k
      BY <1>2
    <2> QED  BY <1>4, <2>1
  <1> QED  BY <1>2, <1>3, <1>5, <1>6, <1>7 DEF c, o

(* The same attempts, followed by others.                                   *)
LEMMA TornBefore ==
    ASSUME NEW d, NEW a, NEW b, NEW n \in Nat, NEW f, Torn(d, a, n, f),
           \A k \in 1..n : b[k] = a[k]
    PROVE  Torn(d, b, n, f)
  <1>1. Joined(b, n) = Joined(a, n)
    BY DEF Joined
  <1> QED  BY <1>1 DEF Torn

LEMMA LinesTorn ==
    ASSUME Unharmed(disk, attempts, faults), NEW lines, IsSeq(lines), Owns(lines),
           WriteLines(lines) \/ Write(lines) \/ UNCHANGED <<disk, faults, attempts>>
    PROVE  Unharmed(disk', attempts', faults')
  <1>1. CASE UNCHANGED <<disk, faults, attempts>>
    <2>1. disk' = disk /\ faults' = faults /\ attempts' = attempts
      BY <1>1
    <2> QED  BY <2>1
  <1>2. CASE WriteLines(lines) /\ lines # <<>>
    <2> DEFINE n == Len(lines)
               o == Len(attempts)
    <2>1. n \in Nat
      BY LenProperties DEF IsSeq
    <2>2. PICK w \in 1..n, r \in Results :
             /\ faults' = faults + (IF r = "ok" THEN 0 ELSE 1)
             /\ LET how(i) == IF i = w THEN r ELSE "ok"
                    file[i \in 0..Len(lines)] ==
                        IF i = 0 THEN disk ELSE AppendLine(file[i - 1], lines[i], how(i))
                IN  /\ disk' = file[Len(lines)]
                    /\ attempts' = attempts \o
                          [i \in 1..Len(lines) |-> Attempt(lines[i], how(i), file[i - 1])]
      BY <1>2 DEF WriteLines
    <2> DEFINE turn == CHOOSE f : f = [i \in 0..n |->
                  IF i = 0 THEN disk ELSE AppendLine(f[i - 1], lines[i], IF i = w THEN r ELSE "ok")]
               more == [i \in 1..n |-> Attempt(lines[i], IF i = w THEN r ELSE "ok", turn[i - 1])]
    <2>3. disk' = turn[n] /\ attempts' = attempts \o more
      BY <2>2
    <2>4. PICK g : WriteTurns(disk, lines, w, r, n, g)
      BY <2>1, WriteTurnsExist
    <2>5. turn = [i \in 0..n |->
                  IF i = 0 THEN disk ELSE AppendLine(turn[i - 1], lines[i], IF i = w THEN r ELSE "ok")]
      BY <2>4 DEF WriteTurns
    <2> HIDE DEF turn
    <2>6. turn[0] = disk
          /\ \A i \in 1..n : turn[i] = AppendLine(turn[i - 1], lines[i], IF i = w THEN r ELSE "ok")
      BY <2>1, <2>5
    <2>7. more = [i \in 1..n |-> more[i]]
          /\ \A i \in 1..n : more[i] = Attempt(lines[i], IF i = w THEN r ELSE "ok", turn[i - 1])
      OBVIOUS
    <2> HIDE DEF more
    <2>8. IsSeq(attempts) /\ Torn(disk, attempts, o, faults) /\ faults \in Nat
      BY DEF Unharmed, Torn
    <2>9. /\ o \in Nat /\ IsSeq(attempts') /\ Len(attempts') = o + n
          /\ \A k \in 1..o : attempts'[k] = attempts[k]
          /\ \A k \in 1..n : attempts'[o + k] = more[k]
      <3>1. /\ Len(attempts) \in Nat /\ IsSeq(attempts \o more)
            /\ Len(attempts \o more) = Len(attempts) + n
            /\ \A k \in 1..Len(attempts) : (attempts \o more)[k] = attempts[k]
            /\ \A k \in 1..n : (attempts \o more)[Len(attempts) + k] = more[k]
        <4>1. DOMAIN more = 1..n /\ more = [i \in 1..n |-> more[i]]
          BY <2>7
        <4> HIDE DEF n
        <4>2. IsSeq(more) /\ Len(more) = n
          BY <2>1, <4>1, LengthIs
        <4>3. IsSeq(attempts)
          BY <2>8
        <4>4. Len(attempts) \in Nat /\ IsSeq(attempts \o more)
          BY <4>2, <4>3, ConcatIs
        <4>5. Len(attempts \o more) = Len(attempts) + n
          BY <4>2, <4>3, ConcatIs
        <4>6. \A k \in 1..Len(attempts) : (attempts \o more)[k] = attempts[k]
          BY <4>2, <4>3, ConcatIs
        <4>7. \A k \in 1..n : (attempts \o more)[Len(attempts) + k] = more[k]
          BY <4>2, <4>3, ConcatIs
        <4> QED  BY <4>4, <4>5, <4>6, <4>7
      <3> QED  BY <2>3, <3>1
    <2> DEFINE b == attempts'
               h(k) == faults + (IF w <= k /\ r # "ok" THEN 1 ELSE 0)
               T == {k \in Nat : k <= n => Torn(turn[k], b, o + k, h(k))}
    <2>10. 0 \in T
      <3>1. h(0) = faults /\ o + 0 = o
        BY <2>8, <2>9
      <3>2. Torn(disk, b, o, faults)
        BY <2>8, <2>9, TornBefore
      <3> QED  BY <2>6, <3>1, <3>2
    <2>11. ASSUME NEW k \in T PROVE k + 1 \in T
      <3>1. CASE k + 1 <= n
        <4>1. k \in Nat /\ k <= n /\ k + 1 \in 1..n /\ (k + 1) - 1 = k
          BY <2>1, <3>1
        <4> DEFINE x == IF k + 1 = w THEN r ELSE "ok"
        <4>2. turn[k + 1] = AppendLine(turn[k], lines[k + 1], x)
          BY <2>6, <4>1
        <4>3. Torn(turn[k], b, o + k, h(k)) /\ Own(lines[k + 1])
          BY <4>1 DEF Owns
        <4>4. b[(o + k) + 1] = Attempt(lines[k + 1], x, turn[k])
          <5>1. (o + k) + 1 = o + (k + 1)
            BY <2>9, <4>1
          <5> QED  BY <2>7, <2>9, <4>1, <5>1
        <4>5. x \in Results /\ o + k \in Nat
          BY <2>9, <4>1 DEF Results
        <4>6. h(k + 1) = h(k) + (IF x = "ok" THEN 0 ELSE 1) /\ (o + k) + 1 = o + (k + 1)
          BY <2>1, <2>8, <2>9, <4>1
        <4> HIDE DEF x, b, h, o
        <4>7. Torn(AppendLine(turn[k], lines[k + 1], x), b, (o + k) + 1,
                   h(k) + (IF x = "ok" THEN 0 ELSE 1))
          BY <4>3, <4>4, <4>5, LineTorn
        <4>8. Torn(turn[k + 1], b, o + (k + 1), h(k + 1))
          BY <4>2, <4>6, <4>7
        <4> QED  BY <4>1, <4>8
      <3>2. CASE ~ (k + 1 <= n)
        BY <3>2
      <3> QED  BY <3>1, <3>2
    <2>12. n \in T
      <3>1. T \in SUBSET Nat
        OBVIOUS
      <3> HIDE DEF T, n
      <3> QED  BY <2>1, <2>10, <2>11, <3>1, SetInduction
    <2>13. h(n) = faults'
      BY <2>1, <2>2, <2>8
    <2>14. Torn(turn[n], b, o + n, h(n))
      BY <2>1, <2>12
    <2> HIDE DEF b, h
    <2> QED  BY <2>3, <2>9, <2>13, <2>14 DEF Unharmed, b
  <1> QED  BY <1>1, <1>2 DEF Write, WriteLines

-----------------------------------------------------------------------------
(* The journal, the file and the export while processes run: all of them    *)
(* say what the processes did.                                              *)

IsTruth(t) ==
    /\ DOMAIN t = 1..Len(RunIds)
    /\ \A p \in 1..Len(RunIds) :
          /\ t[p] \in [scopes : {t[p].scopes}, known : {t[p].known},
                       records : {t[p].records}, saved : {t[p].saved}]
          /\ Truthful(t[p].scopes, t[p].records)

World ==
    /\ process \in 1..Len(RunIds) /\ IsTruth(truth)
    /\ \A p \in 1..Len(RunIds) : p > process => truth[p].scopes = {} /\ truth[p].records = {}
    /\ JournalTrue(journal, truth[process].scopes, truth[process].records)
    /\ current \in {None} \cup 0..(journal.nextScope - 1)
    /\ DiskTrue(truth, disk) /\ Unharmed(disk, attempts, faults)
    /\ export # <<>> => TrueLines(truth, export.lines)

LEMMA OneTrueLine ==
    ASSUME NEW t
    PROVE  /\ TrueLines(t, <<>>) /\ Owns(<<>>)
           /\ \A l : TrueLine(t, l) => TrueLines(t, <<l>>)
           /\ \A l : Own(l) => Owns(<<l>>)
  <1>1. TrueLines(t, <<>>) /\ Owns(<<>>)
    <2> DEFINE e == <<>>
    <2>1. e \in Seq({}) /\ Len(e) = 0
      OBVIOUS
    <2> HIDE DEF e
    <2>2. IsSeq(e)
      BY <2>1, SeqIs
    <2>3. \A k \in 1..Len(e) : FALSE
      BY <2>1
    <2>4. TrueLines(t, e) /\ Owns(e)
      BY <2>2, <2>3 DEF TrueLines, Owns
    <2> QED  BY <2>4 DEF e
  <1>2. ASSUME NEW l
        PROVE  (TrueLine(t, l) => TrueLines(t, <<l>>)) /\ (Own(l) => Owns(<<l>>))
    <2> DEFINE e == <<l>>
    <2>1. e \in Seq({l}) /\ Len(e) = 1 /\ e[1] = l
      OBVIOUS
    <2> HIDE DEF e
    <2>2. IsSeq(e) /\ \A k \in 1..Len(e) : e[k] = l
      BY <2>1, SeqIs
    <2>3. (TrueLine(t, l) => TrueLines(t, e)) /\ (Own(l) => Owns(e))
      BY <2>2 DEF TrueLines, Owns
    <2> QED  BY <2>3 DEF e
  <1> QED  BY <1>1, <1>2

LEMMA TruthBecomes ==
    ASSUME process \in 1..Len(RunIds), IsTruth(truth), NEW k, NEW lines, Becomes(k, lines)
    PROVE  /\ DOMAIN truth' = 1..Len(RunIds)
           /\ truth'[process] \in [scopes : {truth[process].scopes \cup Entered(journal, k)},
                                   known : {truth'[process].known},
                                   records : {truth[process].records \cup Made(journal, k)},
                                   saved : {truth'[process].saved}]
           /\ \A q \in 1..Len(RunIds) : q # process => truth'[q] = truth[q]
  <1> DEFINE E == Entered(journal, k)
             M == Made(journal, k)
             K == IF writing THEN {s[1] : s \in E} ELSE {}
             N == IF writing THEN M ELSE {}
             t == truth[process]
             u == [t EXCEPT !.scopes = @ \cup E, !.records = @ \cup M, !.known = @ \cup K,
                            !.saved = @ \cup N]
  <1>1. truth' = [truth EXCEPT ![process].scopes = @ \cup E, ![process].records = @ \cup M,
                               ![process].known = @ \cup K, ![process].saved = @ \cup N]
    BY DEF Becomes, Entered, Made
  <1> HIDE DEF E, M, K, N
  <1>2. process \in DOMAIN truth /\ DOMAIN truth = 1..Len(RunIds)
        /\ t \in [scopes : {t.scopes}, known : {t.known}, records : {t.records}, saved : {t.saved}]
    BY DEF IsTruth
  <1>3. truth' = [truth EXCEPT ![process] = u]
    BY <1>1, <1>2
  <1>4. u \in [scopes : {t.scopes \cup E}, known : {t.known \cup K}, records : {t.records \cup M},
               saved : {t.saved \cup N}]
    BY <1>2
  <1> HIDE DEF u, t
  <1>5. /\ DOMAIN truth' = 1..Len(RunIds) /\ truth'[process] = u
        /\ \A q \in 1..Len(RunIds) : q # process => truth'[q] = truth[q]
    BY <1>2, <1>3
  <1>6. u \in [scopes : {t.scopes \cup E}, known : {u.known}, records : {t.records \cup M},
               saved : {u.saved}]
    BY <1>4
  <1> QED  BY <1>5, <1>6 DEF E, M, t

LEMMA GrowsByCall ==
    ASSUME World, NEW k, NEW lines, Becomes(k, lines),
           StaysTrue(journal, k, truth[process].scopes, truth[process].records)
    PROVE  /\ IsTruth(truth') /\ Grows(truth, truth')
           /\ JournalTrue(k, truth'[process].scopes, truth'[process].records)
           /\ \A q \in 1..Len(RunIds) : q # process => truth'[q] = truth[q]
  <1> DEFINE S == truth[process].scopes \cup Entered(journal, k)
             R == truth[process].records \cup Made(journal, k)
             u == truth'
  <1>1. process \in 1..Len(RunIds) /\ IsTruth(truth)
    BY DEF World
  <1>2. /\ DOMAIN u = 1..Len(RunIds)
        /\ u[process] \in [scopes : {S}, known : {u[process].known},
                           records : {R}, saved : {u[process].saved}]
        /\ \A q \in 1..Len(RunIds) : q # process => u[q] = truth[q]
    BY <1>1, TruthBecomes
  <1>3. JournalTrue(k, S, R) /\ Truthful(S, R)
    BY DEF StaysTrue
  <1>4. truth[process].scopes \in SUBSET S /\ truth[process].records \in SUBSET R
    OBVIOUS
  <1> HIDE DEF S, R, u
  <1>5. u[process].scopes = S /\ u[process].records = R
        /\ u[process] \in [scopes : {u[process].scopes}, known : {u[process].known},
                           records : {u[process].records}, saved : {u[process].saved}]
    BY <1>2
  <1>6. IsTruth(u)
    <2> SUFFICES ASSUME NEW p \in 1..Len(RunIds)
                 PROVE  /\ u[p] \in [scopes : {u[p].scopes}, known : {u[p].known},
                                     records : {u[p].records}, saved : {u[p].saved}]
                        /\ Truthful(u[p].scopes, u[p].records)
      BY <1>2 DEF IsTruth
    <2>1. CASE p = process
      BY <1>3, <1>5, <2>1
    <2>2. CASE p # process
      BY <1>1, <1>2, <2>2 DEF IsTruth
    <2> QED  BY <2>1, <2>2
  <1>7. Grows(truth, u)
    <2> SUFFICES ASSUME NEW p \in 1..Len(RunIds)
                 PROVE  truth[p].scopes \in SUBSET u[p].scopes /\ truth[p].records \in SUBSET u[p].records
      BY DEF Grows
    <2>1. CASE p = process
      BY <1>4, <1>5, <2>1
    <2>2. CASE p # process
      BY <1>2, <2>2
    <2> QED  BY <2>1, <2>2
  <1> QED  BY <1>2, <1>3, <1>5, <1>6, <1>7 DEF u

LEMMA CallKeepsWorld ==
    ASSUME World, NEW k, NEW lines, Becomes(k, lines),
           StaysTrue(journal, k, truth[process].scopes, truth[process].records),
           TrueLines(truth', lines), Owns(lines), UNCHANGED <<process, export>>,
           current' \in {None} \cup 0..(k.nextScope - 1)
    PROVE  World'
  <1> DEFINE u == truth'
  <1>1. /\ IsTruth(u) /\ Grows(truth, u)
        /\ JournalTrue(k, u[process].scopes, u[process].records)
        /\ \A q \in 1..Len(RunIds) : q # process => u[q] = truth[q]
    BY GrowsByCall
  <1>2. journal' = k /\ process' = process /\ export' = export
    BY DEF Becomes
  <1>3. TrueLines(u, lines) /\ Write(lines)
    BY DEF Becomes
  <1> HIDE DEF u
  <1>4. DiskTrue(u, disk) /\ (export # <<>> => TrueLines(u, export.lines))
    BY <1>1, LinesStayTrue DEF World, DiskTrue
  <1>5. DiskTrue(u, disk')
    BY <1>3, <1>4, LinesWritten
  <1>6. \A p \in 1..Len(RunIds) : p > process => u[p].scopes = {} /\ u[p].records = {}
    <2>1. \A p \in 1..Len(RunIds) : p > process => p # process
      BY RunIdsAre DEF World
    <2> QED  BY <1>1, <2>1 DEF World
  <1>7. process \in 1..Len(RunIds)
    BY DEF World
  <1>8. Unharmed(disk', attempts', faults')
    <2>1. IsSeq(lines) /\ Unharmed(disk, attempts, faults)
      BY <1>3 DEF TrueLines, World
    <2> QED  BY <1>3, <2>1, LinesTorn
  <1> QED  BY <1>1, <1>2, <1>4, <1>5, <1>6, <1>7, <1>8 DEF World, u

LEMMA EnterKeepsWorld ==
    ASSUME World, NEW parent \in {None} \cup 0..(journal.nextScope - 1), EnterWith(parent),
           UNCHANGED <<process, export>>, current' \in {current, journal.nextScope}
    PROVE  World'
  <1> DEFINE k  == EnterScope(journal, parent)
             S  == truth[process].scopes
             R  == truth[process].records
             id == journal.nextScope
             l  == ScopeLine(RunId, ScopeValue(k, id))
             u  == truth'
  <1>1. JournalTrue(journal, S, R) /\ Truthful(S, R) /\ process \in 1..Len(RunIds)
    BY DEF World, IsTruth
  <1>2. StaysTrue(journal, k, S, R) /\ id \in DOMAIN k.scopes /\ k.nextScope = id + 1
    BY <1>1, EnterTrue
  <1>3. Becomes(k, <<l>>)
    BY DEF EnterWith
  <1> HIDE DEF k, l
  <1>4. IsTruth(u) /\ JournalTrue(k, u[process].scopes, u[process].records)
    BY <1>2, <1>3, GrowsByCall
  <1> HIDE DEF u
  <1>5. Truthful(u[process].scopes, u[process].records)
    BY <1>1, <1>4 DEF IsTruth
  <1>6. TrueScope(u[process].scopes, u[process].records, ScopeValue(k, id))
    BY <1>2, <1>4, <1>5, ScopeValueTrue
  <1>7. TrueLine(u, l) /\ Own(l)
    BY <1>1, <1>5, <1>6, ScopeLineTrue DEF l, RunId
  <1>8. TrueLines(u, <<l>>) /\ Owns(<<l>>)
    BY <1>7, OneTrueLine
  <1>9. current' \in {None} \cup 0..(k.nextScope - 1)
    <2>1. id \in Nat /\ current \in {None} \cup 0..(id - 1)
      BY <1>1 DEF World, JournalTrue
    <2> QED  BY <1>2, <2>1
  <1> QED  BY <1>2, <1>3, <1>8, <1>9, CallKeepsWorld DEF u

LEMMA RecordKeepsWorld ==
    ASSUME World, Record
    PROVE  World'
  <1> DEFINE k  == RecordEvent(journal, current)
             S  == truth[process].scopes
             R  == truth[process].records
             n  == journal.nextRecord
             l  == LineOf(k, n)
             u  == truth'
  <1>1. /\ JournalTrue(journal, S, R) /\ Truthful(S, R) /\ process \in 1..Len(RunIds)
        /\ current \in {None} \cup 0..(journal.nextScope - 1)
    BY DEF World, IsTruth
  <1>2. StaysTrue(journal, k, S, R) /\ n \in DOMAIN k.records /\ k.nextScope = journal.nextScope
    BY <1>1, EventTrue
  <1>3. Becomes(k, <<l>>) /\ UNCHANGED <<process, export>> /\ current' = current
    BY DEF Record, Call, Calls
  <1> HIDE DEF k, l
  <1>4. IsTruth(u) /\ JournalTrue(k, u[process].scopes, u[process].records)
    BY <1>2, <1>3, GrowsByCall
  <1> HIDE DEF u
  <1>5. Truthful(u[process].scopes, u[process].records)
    BY <1>1, <1>4 DEF IsTruth
  <1>6. TrueLine(u, l) /\ Own(l)
    BY <1>1, <1>2, <1>4, <1>5, LineOfTrue DEF l
  <1>7. TrueLines(u, <<l>>) /\ Owns(<<l>>)
    BY <1>6, OneTrueLine
  <1> QED  BY <1>1, <1>2, <1>3, <1>7, CallKeepsWorld DEF u

LEMMA ExitKeepsWorld ==
    ASSUME World, NEW id, NEW outcome \in ExitOutcomes, ExitWith(id, outcome),
           UNCHANGED <<process, export>>
    PROVE  World'
  <1> DEFINE k  == ExitScope(journal, id, outcome)
             S  == truth[process].scopes
             R  == truth[process].records
             n  == journal.nextRecord
             l  == LineOf(k, n)
             lines == IF Open(journal, id) THEN <<l>> ELSE <<>>
             u  == truth'
  <1>1. /\ JournalTrue(journal, S, R) /\ Truthful(S, R) /\ process \in 1..Len(RunIds)
        /\ current \in {None} \cup 0..(journal.nextScope - 1)
    BY DEF World, IsTruth
  <1>2. /\ StaysTrue(journal, k, S, R) /\ k.nextScope = journal.nextScope
        /\ Open(journal, id) => n \in DOMAIN k.records
    BY <1>1, ExitTrue
  <1>3. /\ Becomes(k, lines)
        /\ current' = IF Open(journal, id) /\ id = current THEN journal.scopes[id].parent
                      ELSE current
    BY DEF ExitWith
  <1> HIDE DEF k, l, lines
  <1>4. IsTruth(u) /\ JournalTrue(k, u[process].scopes, u[process].records)
    BY <1>2, <1>3, GrowsByCall
  <1> HIDE DEF u
  <1>5. Truthful(u[process].scopes, u[process].records)
    BY <1>1, <1>4 DEF IsTruth
  <1>6. TrueLines(u, lines) /\ Owns(lines)
    <2>1. CASE Open(journal, id)
      <3>1. TrueLine(u, l) /\ Own(l)
        BY <1>1, <1>2, <1>4, <1>5, <2>1, LineOfTrue DEF l
      <3> QED  BY <2>1, <3>1, OneTrueLine DEF lines
    <2>2. CASE ~Open(journal, id)
      BY <2>2, OneTrueLine DEF lines
    <2> QED  BY <2>1, <2>2
  <1>7. current' \in {None} \cup 0..(journal.nextScope - 1)
    <2>1. CASE Open(journal, id) /\ id = current
      <3> DEFINE x == <<id, journal.scopes[id].parent>>
      <3>1. x \in S /\ id \in 0..(journal.nextScope - 1) /\ journal.nextScope \in Nat
        BY <1>1, <2>1 DEF JournalTrue, Open, ScopeHeld
      <3>2. x[1] = id /\ x[2] = journal.scopes[id].parent
        OBVIOUS
      <3> HIDE DEF x
      <3>3. x[2] \in Nat \cup {None} /\ (x[2] # None => x[2] < x[1])
        BY <1>1, <3>1 DEF Truthful
      <3> QED  BY <1>3, <2>1, <3>1, <3>2, <3>3
    <2>2. CASE ~(Open(journal, id) /\ id = current)
      BY <1>1, <1>3, <2>2
    <2> QED  BY <2>1, <2>2
  <1> QED  BY <1>2, <1>3, <1>6, <1>7, CallKeepsWorld DEF u

(* A call that makes nothing and writes nothing.                            *)
LEMMA QuietKeepsWorld ==
    ASSUME World, NEW k, Becomes(k, <<>>),
           StaysTrue(journal, k, truth[process].scopes, truth[process].records),
           UNCHANGED <<process, export>>,
           current' = None \/ (current' = current /\ k.nextScope = journal.nextScope)
    PROVE  World'
  <1>1. TrueLines(truth', <<>>) /\ Owns(<<>>)
    BY OneTrueLine
  <1>2. current' \in {None} \cup 0..(k.nextScope - 1)
    BY DEF World
  <1> QED  BY <1>1, <1>2, CallKeepsWorld

LEMMA QuietCallsKeepWorld ==
    ASSUME World
    PROVE  /\ \A id : SetExitMessages(id) => World'
           /\ \A max : TrimTo(max) => World'
           /\ ClearJournal => World'
  <1> DEFINE S == truth[process].scopes
             R == truth[process].records
  <1>1. /\ JournalTrue(journal, S, R) /\ Truthful(S, R)
    BY DEF World, IsTruth
  <1> HIDE DEF S, R
  <1>2. ASSUME NEW id, SetExitMessages(id) PROVE World'
    <2> DEFINE k == SetMessage(journal, id, "bye")
    <2>1. StaysTrue(journal, k, S, R) /\ k.nextScope = journal.nextScope
      BY <1>1, MessageTrue
    <2>2. Becomes(k, <<>>) /\ UNCHANGED <<process, export>> /\ current' = current
      BY <1>2 DEF SetExitMessages, Call, Calls
    <2> HIDE DEF k
    <2> QED  BY <2>1, <2>2, QuietKeepsWorld DEF S, R
  <1>3. ASSUME NEW max, TrimTo(max) PROVE World'
    <2> DEFINE a == TrimRecords(journal, max)
               b == TrimScopes(journal, max)
    <2>1. StaysTrue(journal, a, S, R) /\ a.nextScope = journal.nextScope
      BY <1>1, TrimRecordsTrue DEF TrimRecords, JournalTrue
    <2>2. StaysTrue(journal, b, S, R) /\ b.nextScope = journal.nextScope
      BY <1>1, TrimScopesTrue DEF TrimScopes, JournalTrue
    <2>3. (Becomes(a, <<>>) \/ Becomes(b, <<>>)) /\ UNCHANGED <<process, export>> /\ current' = current
      BY <1>3 DEF TrimTo, Call, Calls
    <2> HIDE DEF a, b
    <2>4. CASE Becomes(a, <<>>)
      BY <2>1, <2>3, <2>4, QuietKeepsWorld DEF S, R
    <2>5. CASE Becomes(b, <<>>)
      BY <2>2, <2>3, <2>5, QuietKeepsWorld DEF S, R
    <2> QED  BY <2>3, <2>4, <2>5
  <1>4. ASSUME ClearJournal PROVE World'
    <2> DEFINE k == Clear(journal)
    <2>1. StaysTrue(journal, k, S, R)
      BY <1>1, ClearTrue
    <2>2. Becomes(k, <<>>) /\ UNCHANGED <<process, export>> /\ current' = None
      BY <1>4 DEF ClearJournal, Call, Calls
    <2> HIDE DEF k
    <2> QED  BY <2>1, <2>2, QuietKeepsWorld DEF S, R
  <1> QED  BY <1>2, <1>3, <1>4

(* A writer that is set gets the retained scopes, which are true.           *)
LEMMA SetWriterKeepsWorld ==
    ASSUME World, SetWriter
    PROVE  World'
  <1> DEFINE K == truth[process].known \cup DOMAIN journal.scopes
             t == truth[process]
             v == [t EXCEPT !.known = K]
             u == truth'
  <1>1. process \in 1..Len(RunIds) /\ IsTruth(truth)
    BY DEF World
  <1>2. truth' = [truth EXCEPT ![process].known = K]
    BY DEF SetWriter
  <1>3. /\ journal' = journal /\ current' = current /\ export' = export /\ process' = process
        /\ WriteLines(Seeds)
    BY DEF SetWriter, Call, Calls
  <1> HIDE DEF K
  <1>4. /\ process \in DOMAIN truth /\ DOMAIN truth = 1..Len(RunIds)
        /\ t \in [scopes : {t.scopes}, known : {t.known}, records : {t.records}, saved : {t.saved}]
        /\ Truthful(t.scopes, t.records)
    BY <1>1 DEF IsTruth
  <1>5. u = [truth EXCEPT ![process] = v]
    BY <1>2, <1>4
  <1>6. /\ v \in [scopes : {v.scopes}, known : {v.known}, records : {v.records}, saved : {v.saved}]
        /\ v.scopes = t.scopes /\ v.records = t.records
    BY <1>4
  <1> HIDE DEF v, u
  <1>7. /\ DOMAIN u = 1..Len(RunIds) /\ u[process] = v
        /\ \A q \in 1..Len(RunIds) : q # process => u[q] = truth[q]
    BY <1>4, <1>5
  <1>8. \A q \in 1..Len(RunIds) : u[q].scopes = truth[q].scopes /\ u[q].records = truth[q].records
    BY <1>6, <1>7
  <1>9. IsTruth(u)
    <2>1. \A q \in 1..Len(RunIds) :
             u[q] \in [scopes : {u[q].scopes}, known : {u[q].known},
                       records : {u[q].records}, saved : {u[q].saved}]
      BY <1>1, <1>6, <1>7 DEF IsTruth
    <2>2. \A q \in 1..Len(RunIds) : Truthful(u[q].scopes, u[q].records)
      BY <1>1, <1>8 DEF IsTruth
    <2> QED  BY <1>7, <2>1, <2>2 DEF IsTruth
  <1>10. Grows(truth, u)
    BY <1>8 DEF Grows
  <1>11. JournalTrue(journal, u[process].scopes, u[process].records)
    BY <1>1, <1>8 DEF World
  <1>12. TrueLines(u, Seeds) /\ Owns(Seeds)
    <2>1. Truthful(u[process].scopes, u[process].records)
      BY <1>1, <1>9 DEF IsTruth
    <2> QED  BY <1>1, <1>11, <2>1, ScopeLinesTrue DEF Seeds
  <1>13. DiskTrue(u, disk) /\ (export # <<>> => TrueLines(u, export.lines))
    BY <1>10, LinesStayTrue DEF World, DiskTrue
  <1>14. DiskTrue(u, disk')
    BY <1>3, <1>12, <1>13, LinesWritten
  <1>15. \A p \in 1..Len(RunIds) : p > process => u[p].scopes = {} /\ u[p].records = {}
    BY <1>8 DEF World
  <1>16. current \in {None} \cup 0..(journal.nextScope - 1)
    BY DEF World
  <1>17. Unharmed(disk', attempts', faults')
    <2>1. IsSeq(Seeds) /\ Unharmed(disk, attempts, faults)
      BY <1>12 DEF TrueLines, World
    <2> QED  BY <1>3, <1>12, <2>1, LinesTorn
  <1> QED  BY <1>1, <1>3, <1>9, <1>11, <1>13, <1>14, <1>15, <1>16, <1>17 DEF World, u

LEMMA ExportKeepsWorld ==
    ASSUME World, Export
    PROVE  World'
  <1> DEFINE lines == RecordsJsonl(journal)
  <1>1. /\ journal' = journal /\ current' = current /\ process' = process
        /\ disk' = disk /\ truth' = truth /\ attempts' = attempts /\ faults' = faults
        /\ export' = [lines |-> lines, of |-> journal, process |-> process]
    BY DEF Export, Call, Calls, journalVars
  <1>2. TrueLines(truth, lines)
    BY RecordsJsonlTrue DEF World, IsTruth
  <1> HIDE DEF lines
  <1>3. export'.lines = lines
    BY <1>1
  <1> QED  BY <1>1, <1>2, <1>3 DEF World

LEMMA RestartKeepsWorld ==
    ASSUME World, Restart
    PROVE  World'
  <1> DEFINE p == process + 1
             e == {}
  <1>1. /\ process' = p /\ journal' = NewJournal /\ current' = None
        /\ disk' = disk /\ truth' = truth /\ export' = export /\ process < Len(RunIds)
        /\ attempts' = attempts /\ faults' = faults
    BY DEF Restart
  <1>2. process \in 1..Len(RunIds)
    BY DEF World
  <1>3. p \in 1..Len(RunIds) /\ p > process /\ \A q \in 1..Len(RunIds) : q > p => q > process
    BY <1>1, <1>2, RunIdsAre
  <1>4. JournalTrue(NewJournal, e, e)
    BY NewJournalTrue
  <1> HIDE DEF p, e
  <1>5. truth[p].scopes = e /\ truth[p].records = e
    BY <1>3 DEF World, e
  <1>6. \A q \in 1..Len(RunIds) : q > p => truth[q].scopes = {} /\ truth[q].records = {}
    BY <1>3 DEF World
  <1>7. JournalTrue(NewJournal, truth[p].scopes, truth[p].records)
    BY <1>4, <1>5
  <1>8. /\ IsTruth(truth) /\ DiskTrue(truth, disk) /\ Unharmed(disk, attempts, faults)
        /\ export # <<>> => TrueLines(truth, export.lines)
    BY DEF World
  <1> QED  BY <1>1, <1>3, <1>6, <1>7, <1>8 DEF World

(* Every step of a process that runs.                                       *)
LEMMA EntersKeepWorld ==
    ASSUME World
    PROVE  /\ Enter \/ ScopeGuard => World'
           /\ \A parent \in 0..(journal.nextScope - 1) :
                 EnterWithParent(parent) \/ EnterUnnamed(parent) => World'
  <1>1. current \in {None} \cup 0..(journal.nextScope - 1)
    BY DEF World
  <1>2. ASSUME Enter \/ ScopeGuard PROVE World'
    <2>1. /\ EnterWith(current) /\ UNCHANGED <<process, export>>
          /\ current' = journal.nextScope
      BY <1>2 DEF Enter, ScopeGuard, Call, Calls
    <2> QED  BY <1>1, <2>1, EnterKeepsWorld
  <1>3. ASSUME NEW parent \in 0..(journal.nextScope - 1), EnterWithParent(parent) PROVE World'
    <2>1. EnterWith(parent) /\ UNCHANGED <<process, export>> /\ current' = current
      BY <1>3 DEF EnterWithParent, Call, Calls
    <2> QED  BY <2>1, EnterKeepsWorld
  <1>4. ASSUME NEW parent \in 0..(journal.nextScope - 1), EnterUnnamed(parent) PROVE World'
    <2> DEFINE a == IF parent = None THEN current ELSE parent
    <2>1. a \in {None} \cup 0..(journal.nextScope - 1)
      BY <1>1
    <2>2. EnterWith(a) /\ UNCHANGED <<process, export>> /\ current' = journal.nextScope
      BY <1>4 DEF EnterUnnamed, Call, Calls
    <2> HIDE DEF a
    <2> QED  BY <2>1, <2>2, EnterKeepsWorld
  <1> QED  BY <1>2, <1>3, <1>4

LEMMA ExitsKeepWorld ==
    ASSUME World
    PROVE  /\ \A id : \A outcome \in ExitOutcomes : Exit(id, outcome) => World'
           /\ \A outcome \in ExitOutcomes : GuardExit(outcome) => World'
           /\ \A panicking \in BOOLEAN : GuardDrop(panicking) => World'
  <1>1. ASSUME NEW id, NEW outcome \in ExitOutcomes, Exit(id, outcome) PROVE World'
    <2>1. ExitWith(id, outcome) /\ UNCHANGED <<process, export>>
      BY <1>1 DEF Exit, Call, Calls
    <2> QED  BY <2>1, ExitKeepsWorld
  <1>2. ASSUME NEW outcome \in ExitOutcomes, GuardExit(outcome) PROVE World'
    <2>1. ExitWith(guard.id, outcome) /\ UNCHANGED <<process, export>>
      BY <1>2 DEF GuardExit
    <2> QED  BY <2>1, ExitKeepsWorld
  <1>3. ASSUME NEW panicking \in BOOLEAN, GuardDrop(panicking) PROVE World'
    <2> DEFINE outcome == IF panicking THEN "failure" ELSE "success"
    <2>1. outcome \in ExitOutcomes
      BY DEF ExitOutcomes
    <2>2. UNCHANGED <<process, export>>
      BY <1>3 DEF GuardDrop
    <2>3. CASE guard.exited
      <3>1. UNCHANGED <<journal, current, disk, truth, attempts, faults>>
        BY <1>3, <2>3 DEF GuardDrop
      <3> QED  BY <2>2, <3>1 DEF World
    <2>4. CASE ~guard.exited
      <3>1. ExitWith(guard.id, outcome)
        BY <1>3, <2>4 DEF GuardDrop
      <3> HIDE DEF outcome
      <3> QED  BY <2>1, <2>2, <3>1, ExitKeepsWorld
    <2> QED  BY <2>3, <2>4
  <1> QED  BY <1>1, <1>2, <1>3

-----------------------------------------------------------------------------
(* What is told of each line when a file is loaded                          *)

(* Line m of the input was l: a damaged line is reported, one that is read  *)
(* as it was written has gone to a run.                                     *)
Told(s, m, l) ==
    /\ l = Garbage => [line |-> m, kind |-> "InvalidLine"] \in s.issues
    /\ Own(l) => s.input[m].run # 0 /\ s.input[m].entry = EntryOf(l)

LEMMA GarbageIs == Issue(Garbage) = "InvalidLine" /\ Garbage # Header /\ ~Own(Garbage)
  <1>1. DOMAIN Garbage = {"type"} /\ Garbage.type = "garbage" /\ Header.type = "header"
    BY DEF Garbage, Header
  <1>2. VersionOf(Garbage) = 0
    BY <1>1 DEF VersionOf
  <1>3. ~Unsupported(Garbage) /\ Malformed(Garbage)
    BY <1>2 DEF Unsupported, Malformed, Version
  <1>4. Issue(Garbage) = "InvalidLine"
    BY <1>3 DEF Issue
  <1>5. "InvalidLine" # None
    BY SavedAssumption
  <1> QED  BY <1>1, <1>4, <1>5 DEF Own

LEMMA LineTold ==
    ASSUME NEW s, Sound(s), NEW t, NEW l, TrueLine(t, l)
    PROVE  LET u == AfterLine(s, l)
           IN  /\ Len(u.input) = Len(s.input) + 1
               /\ \A m \in 1..Len(s.input) : u.input[m] = s.input[m]
               /\ s.issues \in SUBSET u.issues
               /\ Told(u, Len(s.input) + 1, l)
  <1> DEFINE u == AfterLine(s, l)
             n == Len(s.input)
  <1>1. s.input \in Seq(InputSet) /\ n \in Nat
    BY LenProperties DEF Sound, IsLoader
  <1>2. ASSUME NEW x \in InputSet
        PROVE  /\ Len(Append(s.input, x)) = n + 1
               /\ \A m \in 1..n : Append(s.input, x)[m] = s.input[m]
               /\ Append(s.input, x)[n + 1] = x
    BY <1>1, AppendProperties
  <1>3. CASE l = Header
    <2> DEFINE x == [what |-> "header", entry |-> None, run |-> 0]
               y == Append(s.input, x)
    <2>1. u = [s EXCEPT !.headers = @ + 1, !.legacy = 0, !.input = y]
      BY <1>3 DEF AfterLine, AfterHeader, Consume
    <2>2. x \in InputSet
      BY DEF InputSet
    <2>3. Len(y) = n + 1 /\ \A m \in 1..n : y[m] = s.input[m]
      BY <1>2, <2>2
    <2> HIDE DEF y, u, n
    <2>4. u.input = y /\ u.issues = s.issues
      BY <2>1 DEF Sound, IsLoader
    <2>5. Told(u, n + 1, l)
      BY <1>3, GarbageIs DEF Told, Own
    <2> QED  BY <2>3, <2>4, <2>5 DEF u, n
  <1>4. CASE l # Header /\ Issue(l) # None
    <2> DEFINE x == [what |-> "skipped", entry |-> None, run |-> 0]
               y == Append(s.input, x)
               new == [line |-> n + 1, kind |-> Issue(l)]
               z == Report(s, {Issue(l)})
    <2>1. u = [s EXCEPT !.issues = z, !.input = y]
      BY <1>4 DEF AfterLine, AfterSkip, Consume
    <2>2. x \in InputSet
      BY DEF InputSet
    <2>3. Len(y) = n + 1 /\ \A m \in 1..n : y[m] = s.input[m]
      BY <1>2, <2>2
    <2>4. z = s.issues \cup {new}
      BY DEF Report
    <2> HIDE DEF y, u, z
    <2>5. u.input = y /\ u.issues = z
      BY <2>1 DEF Sound, IsLoader
    <2>6. l = Garbage => new = [line |-> n + 1, kind |-> "InvalidLine"]
      BY GarbageIs
    <2> HIDE DEF new
    <2>7. Told(u, n + 1, l)
      BY <1>4, <2>4, <2>5, <2>6 DEF Told, Own
    <2> HIDE DEF n
    <2> QED  BY <2>3, <2>4, <2>5, <2>7 DEF u, n
  <1>5. CASE l # Header /\ Issue(l) = None
    <2> DEFINE e == EntryOf(l)
    <2>1. u = AfterEntry(s, e)
      BY <1>5 DEF AfterLine
    <2>2. e \in Entries
      BY <1>5 DEF TrueLine
    <2>3. PICK i, b, a, h, w, kinds : EntryTaken(s, e, i, b, a, h, w, kinds, u)
      BY <2>1, <2>2, EntryIsTaken
    <2> DEFINE x == EntryLine(e, i)
               y == Append(s.input, x)
    <2>4. u.input = y /\ x \in InputSet /\ s.issues \in SUBSET u.issues
      BY <2>3 DEF EntryTaken, Raised
    <2>5. Len(s.runs) \in Nat /\ i \in 1..(Len(s.runs) + 1)
      BY <2>3, LenProperties DEF EntryTaken, EntryPlaced, Sound, IsLoader, IsSeq
    <2>6. x.entry = e /\ x.run = i /\ i # 0
      BY <2>5 DEF EntryLine
    <2> HIDE DEF x
    <2>7. Len(y) = n + 1 /\ (\A m \in 1..n : y[m] = s.input[m]) /\ y[n + 1] = x
      BY <1>2, <2>4
    <2>8. l # Garbage
      BY <1>5, GarbageIs, SavedAssumption
    <2> HIDE DEF y, u, n
    <2>9. Told(u, n + 1, l)
      BY <2>4, <2>6, <2>7, <2>8 DEF Told
    <2> QED  BY <2>4, <2>7, <2>9 DEF u, n
  <1> QED  BY <1>3, <1>4, <1>5

LEMMA LinesTold ==
    ASSUME NEW t, NEW lines, TrueLines(t, lines), NEW s, Sound(s), s.input = <<>>,
           TrueInput(t, s.input), NEW turn, LoadTurns(s, lines, Len(lines), turn)
    PROVE  /\ Len(turn[Len(lines)].input) = Len(lines)
           /\ \A m \in 1..Len(lines) : Told(turn[Len(lines)], m, lines[m])
  <1> DEFINE n == Len(lines)
             P(k) == /\ Len(turn[k].input) = k
                     /\ \A m \in 1..k : Told(turn[k], m, lines[m])
             T == {k \in Nat : k <= n => P(k)}
  <1>0. n \in Nat
    BY LenProperties DEF TrueLines, IsSeq
  <1>1. turn[0] = s /\ \A k \in 1..n : turn[k] = AfterLine(turn[k - 1], lines[k])
    BY <1>0 DEF LoadTurns
  <1>2. 0 \in T
    <2>1. Len(<<>>) = 0
      OBVIOUS
    <2> QED  BY <1>1, <2>1
  <1>3. ASSUME NEW k \in T PROVE k + 1 \in T
    <2>1. CASE k + 1 <= n
      <3> DEFINE a == turn[k]
                 l == lines[k + 1]
                 u == AfterLine(a, l)
      <3>1. k \in Nat /\ k <= n /\ k + 1 \in 1..n /\ (k + 1) - 1 = k /\ k \in 0..n
        BY <1>0, <2>1
      <3>2. turn[k + 1] = u
        BY <1>1, <3>1
      <3>3. Sound(a) /\ TrueLine(t, l)
        BY <3>1, EachRead DEF TrueLines
      <3>4. Len(a.input) = k /\ \A m \in 1..k : Told(a, m, lines[m])
        BY <3>1
      <3> HIDE DEF a, l
      <3>5. /\ Len(u.input) = Len(a.input) + 1
            /\ \A m \in 1..Len(a.input) : u.input[m] = a.input[m]
            /\ a.issues \in SUBSET u.issues
            /\ Told(u, Len(a.input) + 1, l)
        BY <3>3, LineTold
      <3> HIDE DEF u
      <3>6. ASSUME NEW m \in 1..(k + 1) PROVE Told(u, m, lines[m])
        <4>1. CASE m = k + 1
          BY <3>4, <3>5, <4>1 DEF l
        <4>2. CASE m \in 1..k
          BY <3>4, <3>5, <4>2 DEF Told
        <4> QED  BY <3>1, <4>1, <4>2
      <3>7. P(k + 1)
        BY <3>2, <3>4, <3>5, <3>6
      <3> HIDE DEF P
      <3> QED  BY <3>1, <3>7
    <2>2. CASE ~ (k + 1 <= n)
      BY <2>2
    <2> QED  BY <2>1, <2>2
  <1>4. n \in T
    <2>1. T \in SUBSET Nat
      OBVIOUS
    <2> HIDE DEF T, n
    <2> QED  BY <1>0, <1>2, <1>3, <2>1, SetInduction
  <1> QED  BY <1>0, <1>4

(* The lines of the file, wherever it stands in what is read.               *)
FileTold(s, d) ==
    \E o \in Nat : \A m \in 1..Settled(d) :
        o + m \in 1..Len(s.input) /\ Told(s, o + m, d.lines[m])

LEMMA StandsIn ==
    ASSUME NEW a, IsSeq(a), NEW b, IsSeq(b), NEW n \in 0..Len(a)
    PROVE  /\ \A m \in 1..n : 0 + m \in 1..Len(a \o b) /\ (a \o b)[0 + m] = a[m]
           /\ \A m \in 1..n : Len(b) + m \in 1..Len(b \o a) /\ (b \o a)[Len(b) + m] = a[m]
           /\ Len(b) \in Nat
  <1>1. /\ Len(a) \in Nat /\ Len(b) \in Nat /\ Len(a \o b) = Len(a) + Len(b)
        /\ \A k \in 1..Len(a) : (a \o b)[k] = a[k]
    BY ConcatIs
  <1>2. /\ Len(b \o a) = Len(b) + Len(a)
        /\ \A k \in 1..Len(a) : (b \o a)[Len(b) + k] = a[k]
    BY ConcatIs
  <1>3. ASSUME NEW m \in 1..n
        PROVE  /\ m \in 1..Len(a) /\ 0 + m = m /\ m \in 1..(Len(a) + Len(b))
               /\ Len(b) + m \in 1..(Len(b) + Len(a))
    BY <1>1
  <1> QED  BY <1>1, <1>2, <1>3

LEMMA FileIsTold ==
    ASSUME NEW t, TrueLines(t, disk.lines), export # <<>> => TrueLines(t, export.lines),
           NEW files \in Files, files # "export",
           disk.ended \in BOOLEAN, disk.ended \/ Len(disk.lines) # 0,
           NEW s, Len(s.input) = Len(LinesIn(files)),
           \A m \in 1..Len(LinesIn(files)) : Told(s, m, LinesIn(files)[m])
    PROVE  FileTold(s, disk)
  <1> DEFINE a == disk.lines
             lines == LinesIn(files)
             n == Settled(disk)
  <1>1. IsSeq(a) /\ (export # <<>> => IsSeq(export.lines))
    BY DEF TrueLines
  <1>2. n \in Nat /\ Len(a) \in Nat /\ n = IF disk.ended THEN Len(a) ELSE Len(a) - 1
    BY <1>1, GarbledFinite
  <1>3. n \in 0..Len(a)
    <2> HIDE DEF n
    <2>1. CASE disk.ended
      BY <1>2, <2>1
    <2>2. CASE ~disk.ended
      BY <1>2, <2>2
    <2> QED  BY <2>1, <2>2
  <1> HIDE DEF a, n
  <1>4. PICK o \in Nat : \A m \in 1..n : o + m \in 1..Len(lines) /\ lines[o + m] = a[m]
    <2>1. CASE files = "file"
      <3>1. lines = a
        BY <2>1 DEF LinesIn, a
      <3> HIDE DEF lines
      <3>2. ASSUME NEW m \in 1..n PROVE 0 + m \in 1..Len(a) /\ 0 + m = m
        BY <1>2, <1>3
      <3> QED  BY <3>1, <3>2
    <2>2. CASE files = "file_export"
      <3>1. lines = a \o export.lines /\ export # <<>>
        BY <2>2 DEF LinesIn, Files, a
      <3> HIDE DEF lines
      <3> DEFINE b == export.lines
      <3> HIDE DEF b
      <3>2. \A m \in 1..n : 0 + m \in 1..Len(a \o b) /\ (a \o b)[0 + m] = a[m]
        BY <1>1, <1>3, <3>1, StandsIn DEF b
      <3> QED  BY <3>1, <3>2 DEF b
    <2>3. CASE files = "export_file"
      <3>1. lines = export.lines \o a /\ export # <<>>
        BY <2>3 DEF LinesIn, Files, a
      <3> HIDE DEF lines
      <3> DEFINE b == export.lines
      <3> HIDE DEF b
      <3>2. /\ \A m \in 1..n : Len(b) + m \in 1..Len(b \o a) /\ (b \o a)[Len(b) + m] = a[m]
            /\ Len(b) \in Nat
        BY <1>1, <1>3, <3>1, StandsIn DEF b
      <3> QED  BY <3>1, <3>2 DEF b
    <2> QED  BY <2>1, <2>2, <2>3 DEF Files
  <1>5. ASSUME NEW m \in 1..n PROVE o + m \in 1..Len(s.input) /\ Told(s, o + m, disk.lines[m])
    BY <1>4 DEF a
  <1> QED  BY <1>5 DEF FileTold, n

-----------------------------------------------------------------------------
(* Every reachable state of SavedSpec                                       *)

(* Any file is being read; or processes run and nothing is read yet; or     *)
(* what they left is loaded, and all it was read from is true.              *)
FinishedTrue ==
    /\ stage \notin {"any", "writing"} /\ phase = "finished" /\ IsTruth(truth)
    /\ Unharmed(disk, attempts, faults)
    /\ \E s : /\ Sound(s) /\ Loader = AfterFinish(s) /\ TrueInput(truth, s.input)
              /\ stage # "export" => FileTold(s, disk)
SavedInv ==
    \/ stage = "any" /\ Inv
    \/ stage = "writing" /\ Sound(Loader) /\ phase = "reading" /\ TrueInput(truth, input) /\ input = <<>> /\ World
    \/ FinishedTrue

LEMMA LinesInTrue ==
    ASSUME World, NEW files \in Files
    PROVE  TrueLines(truth, LinesIn(files))
  <1>1. TrueLines(truth, disk.lines)
    BY DEF World, DiskTrue
  <1>2. CASE files = "file"
    BY <1>1, <1>2 DEF LinesIn
  <1>3. CASE files # "file"
    <2>1. export # <<>> /\ files \in {"export", "file_export", "export_file"}
      BY <1>3 DEF Files
    <2>2. TrueLines(truth, export.lines)
      BY <2>1 DEF World
    <2>3. TrueLines(truth, disk.lines \o export.lines) /\ TrueLines(truth, export.lines \o disk.lines)
      BY <1>1, <2>2, ConcatTrue
    <2>4. CASE files = "export"
      BY <2>2, <2>4 DEF LinesIn
    <2>5. CASE files = "file_export"
      BY <2>3, <2>5 DEF LinesIn
    <2>6. CASE files = "export_file"
      BY <2>3, <2>6 DEF LinesIn
    <2> QED  BY <2>1, <2>4, <2>5, <2>6
  <1> QED  BY <1>2, <1>3

LEMMA LoadFinishes ==
    ASSUME World, Sound(Loader), input = <<>>, NEW files \in Files, Load(files)
    PROVE  FinishedTrue'
  <1> DEFINE lines == LinesIn(files)
             n     == Len(lines)
             turn  == CHOOSE f : f = [k \in 0..n |->
                          IF k = 0 THEN Loader ELSE AfterLine(f[k - 1], lines[k])]
             s     == turn[n]
  <1>1. TrueLines(truth, lines)
    BY LinesInTrue
  <1>2. n \in Nat
    BY <1>1, LenProperties DEF TrueLines, IsSeq
  <1>3. PICK g : LoadTurns(Loader, lines, n, g)
    BY <1>2, LoadTurnsExist
  <1>4. turn = [k \in 0..n |-> IF k = 0 THEN Loader ELSE AfterLine(turn[k - 1], lines[k])]
    BY <1>3 DEF LoadTurns
  <1>5. /\ Become(AfterFinish(s)) /\ phase' = "finished" /\ stage' = files /\ truth' = truth
        /\ disk' = disk /\ attempts' = attempts /\ faults' = faults
    BY DEF Load
  <1>6. TrueInput(truth, Loader.input)
    <2>1. Loader.input = <<>> /\ Len(<<>>) = 0
      BY LoaderIs
    <2> QED  BY <2>1 DEF TrueInput
  <1> HIDE DEF turn, lines
  <1>7. LoadTurns(Loader, lines, Len(lines), turn)
    BY <1>4 DEF LoadTurns
  <1>8. Sound(s) /\ TrueInput(truth, s.input)
    BY <1>1, <1>6, <1>7, LinesRead
  <1>9. /\ Len(s.input) = Len(lines)
         /\ \A m \in 1..Len(lines) : Told(s, m, lines[m])
    <2>1. Loader.input = <<>>
      BY LoaderIs
    <2> QED  BY <1>1, <1>6, <1>7, <2>1, LinesTold
  <1> HIDE DEF s
  <1>10. Loader' = AfterFinish(s)
    BY <1>5, <1>8, FinishBecomes
  <1>11. stage' \notin {"any", "writing"}
    BY <1>5 DEF Files
  <1>12. IsTruth(truth')
    BY <1>5 DEF World
  <1>13. Unharmed(disk, attempts, faults) /\ Unharmed(disk', attempts', faults')
    BY <1>5 DEF World
  <1>14. files # "export" => FileTold(s, disk)
    <2>1. disk.ended \in BOOLEAN /\ (disk.ended \/ Len(disk.lines) # 0)
      BY <1>13 DEF Unharmed, Torn
    <2>2. TrueLines(truth, disk.lines) /\ (export # <<>> => TrueLines(truth, export.lines))
      BY DEF World, DiskTrue
    <2> QED  BY <1>9, <2>1, <2>2, FileIsTold DEF lines
  <1>15. \E x : /\ Sound(x) /\ Loader' = AfterFinish(x) /\ TrueInput(truth', x.input)
                /\ stage' # "export" => FileTold(x, disk')
    BY <1>5, <1>8, <1>10, <1>14
  <1> QED  BY <1>5, <1>11, <1>12, <1>13, <1>15 DEF FinishedTrue

LEMMA StartsInWorld ==
    ASSUME SavedInit
    PROVE  SavedInv
  <1>1. Init /\ Sound(Loader) /\ phase = "reading" /\ input = <<>>
    BY InitSound DEF SavedInit, Init
  <1>2. CASE stage = "any"
    BY <1>1, <1>2 DEF SavedInv, Inv
  <1>3. CASE stage # "any"
    <2>1. stage = "writing" /\ (Start(<<>>) \/ Start(Foreign))
      BY <1>3 DEF SavedInit
    <2>2. PICK lines \in {<<>>, Foreign} : Start(lines)
      BY <2>1
    <2> DEFINE e == {}
    <2>3. /\ process = 1 /\ journal = NewJournal /\ current = None /\ export = <<>>
          /\ disk = [lines |-> lines, ended |-> TRUE] /\ attempts = <<>> /\ faults = 0
          /\ truth = [p \in 1..Len(RunIds) |-> NoTruth]
      BY <2>2 DEF Start
    <2>4. \A p \in 1..Len(RunIds) : truth[p] = NoTruth
      BY <2>3
    <2>5. NoTruth \in [scopes : {NoTruth.scopes}, known : {NoTruth.known},
                       records : {NoTruth.records}, saved : {NoTruth.saved}]
          /\ NoTruth.scopes = e /\ NoTruth.records = e
      BY DEF NoTruth
    <2>6. JournalTrue(NewJournal, e, e) /\ Truthful(e, e)
      BY NewJournalTrue
    <2>7. IsTruth(truth)
      BY <2>3, <2>4, <2>5, <2>6 DEF IsTruth
    <2>8. JournalTrue(journal, truth[process].scopes, truth[process].records)
      BY <2>3, <2>4, <2>5, <2>6, RunIdsAre
    <2>9. TrueLines(truth, disk.lines)
      <3>1. disk.lines = lines
        BY <2>3
      <3>2. TrueLines(truth, <<>>) /\ TrueLines(truth, Foreign)
        BY OneTrueLine, ForeignTrue
      <3> QED  BY <2>2, <3>1, <3>2
    <2>10. Unharmed(disk, attempts, faults)
      <3>1. IsSeq(disk.lines) /\ disk.ended = TRUE
        BY <2>3, <2>9 DEF TrueLines
      <3>2. Cardinality(Joined(attempts, 0)) = 0
        <4>1. Joined(attempts, 0) = {}
          BY DEF Joined
        <4> QED  BY <4>1, FS_EmptySet
      <3>3. PICK n \in Nat : n = Cardinality(Garbled(disk))
        BY <3>1, GarbledFinite
      <3>4. Torn(disk, attempts, 0, 0)
        <4>1. 0 + (IF disk.ended THEN 0 ELSE 1) <= 0 /\ 1..0 = {} /\ 0 \in Nat
          BY <3>1
        <4>2. Cardinality(Joined(attempts, 0)) <= Cardinality(Garbled(disk))
          BY <3>2, <3>3
        <4> QED  BY <3>1, <3>2, <4>1, <4>2 DEF Torn
      <3>5. IsSeq(<<>>) /\ Len(<<>>) = 0
        BY OneTrueLine DEF TrueLines
      <3> QED  BY <2>3, <3>4, <3>5 DEF Unharmed
    <2>11. World
      BY <2>3, <2>4, <2>5, <2>7, <2>8, <2>9, <2>10, RunIdsAre DEF World, DiskTrue
    <2>12. TrueInput(truth, input)
      <3>1. Len(<<>>) = 0
        OBVIOUS
      <3> QED  BY <1>1, <3>1 DEF TrueInput
    <2> QED  BY <1>1, <2>1, <2>11, <2>12 DEF SavedInv
  <1> QED  BY <1>2, <1>3

(* A step of a process reads nothing.                                       *)
LEMMA StaysWriting ==
    ASSUME Sound(Loader), phase = "reading", input = <<>>, stage = "writing",
           World', UNCHANGED <<vars, stage>>
    PROVE  SavedInv'
  <1>1. Loader' = Loader /\ phase' = phase /\ input' = input /\ stage' = stage
    BY DEF vars, Loader
  <1>2. TrueInput(truth', input')
    <2>1. Len(<<>>) = 0
      OBVIOUS
    <2> QED  BY <1>1, <2>1 DEF TrueInput
  <1> QED  BY <1>1, <1>2 DEF SavedInv

LEMMA SavedNextKeepsInv ==
    ASSUME SavedInv, [SavedNext]_savedVars
    PROVE  SavedInv'
  <1>1. CASE UNCHANGED savedVars
    <2>1. /\ UNCHANGED <<runs, legacy, headers, issues, phase, input>> /\ stage' = stage
          /\ UNCHANGED <<process, journal, current, disk, truth, export, attempts, faults>>
      BY <1>1 DEF savedVars, vars, journalVars
    <2>2. Loader' = Loader
      BY <2>1 DEF Loader
    <2>3. World => World'
      BY <2>1 DEF World
    <2>4. Inv => Inv'
      BY <2>1, <2>2 DEF Inv
    <2>5. FinishedTrue => FinishedTrue'
      BY <2>1, <2>2 DEF FinishedTrue, FileTold
    <2> QED  BY <2>1, <2>2, <2>3, <2>4, <2>5 DEF SavedInv
  <1>2. CASE ReadAny
    <2>1. stage = "any" /\ Next /\ stage' = stage
      BY <1>2 DEF ReadAny
    <2>2. Inv
      BY <2>1 DEF SavedInv, FinishedTrue
    <2>3. Inv'
      BY <2>1, <2>2, NextKeepsInv
    <2> QED  BY <2>1, <2>3 DEF SavedInv
  <1>3. CASE stage = "writing" /\ SavedNext
    <2>1. /\ Sound(Loader) /\ phase = "reading" /\ input = <<>> /\ stage = "writing" /\ World
      BY <1>3 DEF SavedInv, FinishedTrue
    <2>2. CASE \E files \in Files : Load(files)
      <3>1. FinishedTrue'
        BY <2>1, <2>2, LoadFinishes
      <3> QED  BY <3>1 DEF SavedInv
    <2>3. CASE Enter \/ ScopeGuard
      <3>1. UNCHANGED <<vars, stage>>
        BY <2>3 DEF Enter, ScopeGuard, Call, Calls
      <3> QED  BY <2>1, <2>3, <3>1, EntersKeepWorld, StaysWriting
    <2>4. ASSUME NEW parent \in 0..(journal.nextScope - 1),
                 EnterWithParent(parent) \/ EnterUnnamed(parent)
          PROVE  SavedInv'
      <3>1. UNCHANGED <<vars, stage>>
        BY <2>4 DEF EnterWithParent, EnterUnnamed, Call, Calls
      <3> QED  BY <2>1, <2>4, <3>1, EntersKeepWorld, StaysWriting
    <2>5. CASE Record
      <3>1. UNCHANGED <<vars, stage>>
        BY <2>5 DEF Record, Call, Calls
      <3> QED  BY <2>1, <2>5, <3>1, RecordKeepsWorld, StaysWriting
    <2>6. ASSUME NEW id, NEW outcome \in {"success"}, Exit(id, outcome)
          PROVE  SavedInv'
      <3>1. UNCHANGED <<vars, stage>> /\ outcome \in ExitOutcomes
        BY <2>6 DEF Exit, Call, Calls, ExitOutcomes
      <3> QED  BY <2>1, <2>6, <3>1, ExitsKeepWorld, StaysWriting
    <2>7. ASSUME NEW id, SetExitMessages(id)
          PROVE  SavedInv'
      <3>1. UNCHANGED <<vars, stage>>
        BY <2>7 DEF SetExitMessages, Call, Calls
      <3> QED  BY <2>1, <2>7, <3>1, QuietCallsKeepWorld, StaysWriting
    <2>8. CASE TrimTo(0)
      <3>1. UNCHANGED <<vars, stage>>
        BY <2>8 DEF TrimTo, Call, Calls
      <3> QED  BY <2>1, <2>8, <3>1, QuietCallsKeepWorld, StaysWriting
    <2>9. CASE ClearJournal
      <3>1. UNCHANGED <<vars, stage>>
        BY <2>9 DEF ClearJournal, Call, Calls
      <3> QED  BY <2>1, <2>9, <3>1, QuietCallsKeepWorld, StaysWriting
    <2>10. CASE SetWriter
      <3>1. UNCHANGED <<vars, stage>>
        BY <2>10 DEF SetWriter, Call, Calls
      <3> QED  BY <2>1, <2>10, <3>1, SetWriterKeepsWorld, StaysWriting
    <2>11. CASE Export
      <3>1. UNCHANGED <<vars, stage>>
        BY <2>11 DEF Export, Call, Calls
      <3> QED  BY <2>1, <2>11, <3>1, ExportKeepsWorld, StaysWriting
    <2>12. ASSUME NEW outcome \in {"aborted"}, GuardExit(outcome)
           PROVE  SavedInv'
      <3>1. UNCHANGED <<vars, stage>> /\ outcome \in ExitOutcomes
        BY <2>12 DEF GuardExit, ExitOutcomes
      <3> QED  BY <2>1, <2>12, <3>1, ExitsKeepWorld, StaysWriting
    <2>13. ASSUME NEW panicking \in BOOLEAN, GuardDrop(panicking)
           PROVE  SavedInv'
      <3>1. UNCHANGED <<vars, stage>>
        BY <2>13 DEF GuardDrop
      <3> QED  BY <2>1, <2>13, <3>1, ExitsKeepWorld, StaysWriting
    <2>14. CASE Restart
      <3>1. UNCHANGED <<vars, stage>>
        BY <2>14 DEF Restart
      <3> QED  BY <2>1, <2>14, <3>1, RestartKeepsWorld, StaysWriting
    <2>15. ~ReadAny
      BY <2>1 DEF ReadAny
    <2> QED
      BY <1>3, <2>2, <2>3, <2>4, <2>5, <2>6, <2>7, <2>8, <2>9, <2>10, <2>11, <2>12, <2>13, <2>14,
         <2>15 DEF SavedNext
  <1>4. SavedNext => ReadAny \/ stage = "writing"
    BY DEF SavedNext, Enter, EnterWithParent, EnterUnnamed, Record, Exit, SetExitMessages, TrimTo,
           ClearJournal, SetWriter, Export, ScopeGuard, GuardExit, GuardDrop, Restart, Load, Call, Calls
  <1> QED  BY <1>1, <1>2, <1>3, <1>4

(* Whatever processes do and however their writes fail, what is read is     *)
(* true and the loader is sound.                                            *)
THEOREM SavedInvHolds == SavedSpec => []SavedInv
  <1>1. SavedInit => SavedInv
    BY StartsInWorld
  <1>2. SavedInv /\ [SavedNext]_savedVars => SavedInv'
    BY SavedNextKeepsInv
  <1> QED  BY <1>1, <1>2, PTL DEF SavedSpec

-----------------------------------------------------------------------------
(* What is loaded is true                                                   *)

(* What the lines of a process's run say is true.                           *)
LEMMA OwnRun ==
    ASSUME NEW s, Shows(s), TrueInput(truth, s.input), NEW p \in 1..Len(RunIds),
           NEW i \in RunIndex(runs, RunIds[p])
    PROVE  /\ i \in 1..Len(s.runs) /\ i \in 1..Len(runs)
           /\ \A n \in LinesOf(i) :
                 /\ RecordAt(n) # None => RecordAt(n) \in truth[p].records
                 /\ ScopeAt(n) # None => TrueScope(truth[p].scopes, truth[p].records, ScopeAt(n))
  <1>1. i \in 1..Len(runs) /\ runs[i].id = RunIds[p] /\ i \in Nat \ {0}
    BY DEF RunIndex
  <1>2. RunIds[p] # Legacy
    BY RunIdsAre
  <1>3. i \in 1..Len(s.runs) /\ Completes(runs[i], s.runs[i])
    BY <1>1, <1>2, RunShown
  <1>4. s.runs[i].id = RunIds[p]
    BY <1>1, <1>3 DEF Completes
  <1>5. input = s.input /\ LinesPlaced(s)
    BY DEF Shows, Sound
  <1>6. ASSUME NEW n \in LinesOf(i)
        PROVE  TrueEntry(truth[p].scopes, truth[p].records, input[n].entry)
    <2>1. n \in 1..Len(s.input) /\ s.input[n].run = i
      BY <1>5 DEF LinesOf
    <2>2. s.input[n].entry.run = RunIds[p] /\ s.input[n].run # 0
      BY <1>1, <1>4, <1>5, <2>1 DEF LinesPlaced
    <2> QED  BY <1>5, <2>1, <2>2 DEF TrueInput
  <1> QED  BY <1>1, <1>3, <1>6 DEF TrueEntry, RecordAt, ScopeAt

(* Lines that say the truth do not disagree.                                *)
LEMMA TruthAgrees ==
    ASSUME NEW S, NEW R, Truthful(S, R), NEW n, NEW m,
           RecordAt(n) # None => RecordAt(n) \in R, RecordAt(m) # None => RecordAt(m) \in R,
           ScopeAt(n) # None => TrueScope(S, R, ScopeAt(n)),
           ScopeAt(m) # None => TrueScope(S, R, ScopeAt(m))
    PROVE  ~RecordsDisagree(n, m) /\ ~ScopesDisagree(n, m)
  <1>1. ASSUME RecordsDisagree(n, m) PROVE FALSE
    <2> DEFINE q == RecordAt(n)
               r == RecordAt(m)
    <2>1. q \in R /\ r \in R
          /\ \/ q.id = r.id /\ q # r
             \/ q.exit # None /\ r.exit # None /\ q.scope = r.scope /\ q.exit # r.exit
      BY <1>1 DEF RecordsDisagree
    <2> HIDE DEF q, r
    <2> QED  BY <2>1 DEF Truthful
  <1>2. ASSUME ScopesDisagree(n, m) PROVE FALSE
    <2> DEFINE v == ScopeAt(n)
               w == ScopeAt(m)
               x == <<v.id, v.parent>>
               y == <<w.id, w.parent>>
    <2>1. TrueScope(S, R, v) /\ TrueScope(S, R, w) /\ v.id = w.id /\ Contradicts(v, w)
      BY <1>2 DEF ScopesDisagree
    <2> HIDE DEF v, w
    <2>2. x \in S /\ y \in S /\ x[1] = y[1]
      BY <2>1 DEF TrueScope
    <2>3. x = y
      BY <2>2 DEF Truthful
    <2>4. v.parent = w.parent
      BY <2>3
    <2>5. v.about = "name" /\ w.about = "name" /\ v.exited \in {None, "then"} /\ w.exited \in {None, "then"}
      BY <2>1 DEF TrueScope, ScopeValues
    <2> QED  BY <2>1, <2>4, <2>5 DEF Contradicts
  <1> QED  BY <1>1, <1>2

(* Where each parent is an older scope there is no cycle.                   *)
LEMMA NoCycleDown ==
    ASSUME NEW S, NEW R, Truthful(S, R), NEW given, NEW C, Endless(C, given),
           \A x \in C : given[x] # None => <<x, given[x]>> \in S, None \notin C
    PROVE  FALSE
  <1>1. C # {} /\ \A x \in C : given[x] \in C
    BY DEF Endless
  <1>2. ASSUME NEW x \in C PROVE x \in Nat /\ given[x] < x
    <2> DEFINE y == <<x, given[x]>>
    <2>1. y \in S /\ y[1] = x /\ y[2] = given[x] /\ given[x] # None
      BY <1>1
    <2> HIDE DEF y
    <2> QED  BY <2>1 DEF Truthful
  <1>3. C \in SUBSET Nat
    BY <1>2
  <1>4. PICK x \in C : \A y \in C : x <= y
    BY <1>1, <1>3, LeastElement
  <1>5. given[x] \in C
    BY <1>1
  <1>6. PICK y \in C : y = given[x]
    BY <1>5
  <1> QED  BY <1>2, <1>3, <1>4, <1>6

LEMMA FinishedMissing ==
    ASSUME NEW run, IsRun(run), ScopesOnce(run)
    PROVE  Finished(run).missing = Needed(run)
  <1> DEFINE c == Complete(run)
             f == Repair(c.scopes)
             b == run.scopes
  <1>1. c \in [id : {run.id}, headers : Nat, records : Seq(RecordSet), scopes : {c.scopes},
               outcomes : {run.outcomes}, missing : {Needed(run)}]
    BY DEF Complete, IsRun
  <1>2. Finished(run) = [c EXCEPT !.scopes = f]
    BY DEF Finished
  <1> HIDE DEF c, f
  <1> QED  BY <1>1, <1>2

(* A scope that is not a placeholder has the parent it was given.           *)
LEMMA OwnParent ==
    ASSUME NEW s, Shows(s), phase = "finished", NEW i \in 1..Len(s.runs), i \in 1..Len(runs),
           NEW S, NEW R, Truthful(S, R),
           \A n \in LinesOf(i) : ScopeAt(n) # None => TrueScope(S, R, ScopeAt(n)),
           NEW k \in 1..Len(runs[i].scopes), runs[i].scopes[k].id \notin runs[i].missing
    PROVE  <<runs[i].scopes[k].id, runs[i].scopes[k].parent>> \in S
  <1> DEFINE run == s.runs[i]
             id  == runs[i].scopes[k].id
             V   == View(input, i)
             ids == Ids(runs[i])
             now == Parents(runs[i])
             given == Given(i)
             lost == {x \in ids : now[x] # given[x]}
  <1>1. i \in Nat \ {0}
    OBVIOUS
  <1>2. /\ DOMAIN V = LinesOf(i) /\ LinesOf(i) \in SUBSET Nat
        /\ \A n \in LinesOf(i) : V[n].scope = ScopeAt(n)
        /\ RunSays(run, V, Reports(input, s.issues, i)) /\ Completes(runs[i], run)
        /\ runs[i] = Finished(run)
    BY <1>1, RunShown DEF Shows
  <1>3. IsRun(run) /\ ScopesOnce(run) /\ ScopesSaid(run, V)
    BY <1>2 DEF RunSays
  <1>4. id \in ids /\ None \notin ids /\ ids = IdsIn(run.scopes) \cup Needed(run)
    <2>1. id \in ids /\ ids = IdsIn(runs[i].scopes)
      BY DEF Ids, IdsIn
    <2>2. IdsIn(Complete(run).scopes) = IdsIn(run.scopes) \cup Needed(run)
      BY <1>3, CompleteIs
    <2>3. IdsIn(Finished(run).scopes) = IdsIn(Complete(run).scopes)
          /\ None \notin IdsIn(Complete(run).scopes)
      BY <1>3, FinishedForest
    <2> QED  BY <1>2, <2>1, <2>2, <2>3
  <1>5. id \in IdsIn(run.scopes)
    BY <1>2, <1>3, <1>4, FinishedMissing
  <1>6. now[id] = runs[i].scopes[k].parent
    <2>1. OnceIn(runs[i].scopes)
      BY <1>2 DEF Completes, ScopesOnce, OnceIn
    <2>2. ParentOf(runs[i].scopes, id) = runs[i].scopes[k].parent
      BY <2>1, ParentOfIs
    <2> QED  BY <1>4, <2>2 DEF Parents
  <1> HIDE DEF run, V, id, now
  <1>7. \A x : MetadataOf(i, x) = Meta(V, x)
    BY <1>2 DEF MetadataOf, Meta
  <1>8. ASSUME NEW x \in ids, MetadataOf(i, x) # {}
        PROVE  <<x, given[x]>> \in S
    <2>1. MetadataOf(i, x) \in SUBSET Nat /\ MetadataOf(i, x) \in SUBSET LinesOf(i)
      BY <1>2 DEF MetadataOf
    <2>2. PICK n \in MetadataOf(i, x) : \A m \in MetadataOf(i, x) : n <= m
      BY <1>8, <2>1, LeastElement
    <2>3. Least(MetadataOf(i, x)) = n
      BY <2>1, <2>2, LeastIs
    <2>4. given[x] = ScopeAt(n).parent
      BY <1>8, <2>3 DEF Given
    <2>5. ScopeAt(n) # None /\ ScopeAt(n).id = x /\ n \in LinesOf(i)
      BY <2>2 DEF MetadataOf
    <2>6. TrueScope(S, R, ScopeAt(n))
      BY <2>5
    <2> QED  BY <2>4, <2>5, <2>6 DEF TrueScope
  <1>9. \A x \in ids : given[x] # None => MetadataOf(i, x) # {}
    BY DEF Given
  <1> HIDE DEF given
  <1>10. ASSUME NEW C \in SUBSET ids, Cycle(C, given) PROVE FALSE
    <2>1. Endless(C, given)
      BY <1>10 DEF Cycle
    <2> QED  BY <1>4, <1>8, <1>9, <2>1, NoCycleDown
  <1>11. \A x \in lost : \E C \in SUBSET ids : Cycle(C, given) /\ x \in C
    BY ShowsForest DEF ForestRecovered, given, now
  <1>12. now[id] = given[id]
    BY <1>4, <1>10, <1>11
  <1>13. MetadataOf(i, id) # {}
    <2>1. PICK j \in 1..Len(run.scopes) : run.scopes[j].id = id
      BY <1>5 DEF IdsIn
    <2>2. Said(run.scopes[j], V)
      BY <1>3 DEF ScopesSaid
    <2> QED  BY <1>7, <2>1, <2>2 DEF Said
  <1> QED  BY <1>4, <1>6, <1>8, <1>12, <1>13 DEF id

LEMMA TruthIsLoaded ==
    ASSUME FinishedTrue
    PROVE  OnlyTruth
  <1>1. PICK s : Sound(s) /\ Loader = AfterFinish(s) /\ TrueInput(truth, s.input)
    BY DEF FinishedTrue
  <1>2. phase = "finished" /\ IsTruth(truth)
    BY DEF FinishedTrue
  <1>3. Shows(s)
    BY <1>1, <1>2, FinishShows
  <1> SUFFICES ASSUME NEW p \in 1..Len(RunIds), NEW i \in RunIndex(runs, RunIds[p])
               PROVE  /\ ToSet(runs[i].records) \subseteq truth[p].records
                      /\ \A v \in ToSet(runs[i].scopes) : v.id \notin runs[i].missing =>
                            <<v.id, v.parent>> \in truth[p].scopes
                      /\ \A id \in Ids(runs[i]) \ Unfinished(runs[i]) :
                            \E r \in truth[p].records : r.scope = id /\ r.exit # None
                      /\ \A n \in LinesOf(i) : ~Reported(n)
    BY DEF OnlyTruth
  <1> DEFINE S == truth[p].scopes
             R == truth[p].records
  <1>4. Truthful(S, R)
    BY <1>2 DEF IsTruth
  <1> HIDE DEF S, R
  <1>5. /\ i \in 1..Len(s.runs) /\ i \in 1..Len(runs)
        /\ \A n \in LinesOf(i) : /\ RecordAt(n) # None => RecordAt(n) \in R
                                 /\ ScopeAt(n) # None => TrueScope(S, R, ScopeAt(n))
    BY <1>1, <1>3, OwnRun DEF S, R
  <1> DEFINE V == View(input, i)
  <1>6. /\ DOMAIN V = LinesOf(i) /\ \A n \in LinesOf(i) : V[n].record = RecordAt(n)
        /\ RunSays(s.runs[i], V, Reports(input, s.issues, i)) /\ Completes(runs[i], s.runs[i])
    BY <1>3, <1>5, RunShown
  <1> HIDE DEF V
  <1>7. ToSet(runs[i].records) \in SUBSET R
    <2>1. runs[i].records = s.runs[i].records /\ s.runs[i].records \in Seq(RecordSet)
          /\ RecordsKept(s.runs[i], V)
      BY <1>6 DEF Completes, RunSays, IsRun
    <2>2. DOMAIN runs[i].records = 1..Len(runs[i].records)
      BY <2>1, LenProperties
    <2>3. ASSUME NEW k \in 1..Len(runs[i].records) PROVE runs[i].records[k] \in R
      <3>1. PICK n \in DOMAIN V : V[n].record # None /\ V[n].record = s.runs[i].records[k]
        BY <2>1 DEF RecordsKept
      <3> QED  BY <1>5, <1>6, <2>1, <3>1
    <2> QED  BY <2>2, <2>3 DEF ToSet
  <1>8. ASSUME NEW v \in ToSet(runs[i].scopes), v.id \notin runs[i].missing
        PROVE  <<v.id, v.parent>> \in S
    <2>1. PICK k \in DOMAIN runs[i].scopes : runs[i].scopes[k] = v
      BY DEF ToSet
    <2>2. DOMAIN runs[i].scopes = 1..Len(runs[i].scopes)
      <3>1. runs[i] = Finished(s.runs[i]) /\ IsRun(s.runs[i]) /\ ScopesOnce(s.runs[i])
        BY <1>2, <1>3, <1>5, <1>6 DEF Shows, RunSays
      <3>2. Complete(s.runs[i]).scopes \in Seq(ScopeSet) /\ OnceIn(Complete(s.runs[i]).scopes)
            /\ Finished(s.runs[i]).scopes = Repair(Complete(s.runs[i]).scopes)
        BY <3>1, CompleteIs
      <3>3. Repair(Complete(s.runs[i]).scopes) \in Seq(ScopeSet)
        BY <3>2, RepairIs DEF Relinked
      <3> QED  BY <3>1, <3>2, <3>3, LenProperties
    <2> QED  BY <1>2, <1>3, <1>4, <1>5, <1>8, <2>1, <2>2, OwnParent
  <1>9. ASSUME NEW id \in Ids(runs[i]), id \notin Unfinished(runs[i])
        PROVE  \E r \in R : r.scope = id /\ r.exit # None
    <2>1. PICK k \in 1..Len(runs[i].scopes) : runs[i].scopes[k].id = id
      BY DEF Ids
    <2>2. ExitsAsObserved
      BY <1>3, ShowsExits
    <2>3. ClosedOf(i, id) # {} \/ Says(i, id)
      BY <1>2, <1>5, <1>9, <2>1, <2>2 DEF ExitsAsObserved, Says
    <2>4. CASE Says(i, id)
      <3>1. PICK n \in LinesOf(i) : /\ RecordAt(n) # None /\ RecordAt(n).exit # None
                                    /\ RecordAt(n).scope = id
        BY <2>4 DEF Says
      <3> QED  BY <1>5, <3>1
    <2>5. CASE ClosedOf(i, id) # {}
      <3>1. PICK n \in LinesOf(i) : ScopeAt(n) # None /\ ScopeAt(n).id = id /\ ScopeAt(n).exited # None
        BY <2>5 DEF ClosedOf, MetadataOf
      <3> QED  BY <1>5, <3>1 DEF TrueScope, Exited
    <2> QED  BY <2>3, <2>4, <2>5
  <1>10. ASSUME NEW n \in LinesOf(i), Reported(n) PROVE FALSE
    <2>1. NoSilentConflict
      BY <1>3, ShowsNoSilentConflict
    <2>2. PICK k \in LinesOf(i) : RecordsDisagree(n, k) \/ ScopesDisagree(n, k)
      BY <1>5, <1>10, <2>1 DEF NoSilentConflict
    <2> QED  BY <1>4, <1>5, <2>2, TruthAgrees
  <1> QED  BY <1>7, <1>8, <1>9, <1>10 DEF S, R

(* A line that is read as it was written is found.                          *)
LEMMA OwnLineFound ==
    ASSUME NEW s, Shows(s), phase = "finished", NEW l, Own(l), NEW n \in 1..Len(s.input),
           Told(s, n, l)
    PROVE  HasLine(l)
  <1> DEFINE i == s.input[n].run
             e == EntryOf(l)
  <1>1. Sound(s) /\ input = s.input /\ \A k \in 1..Len(s.runs) : runs[k] = Finished(s.runs[k])
    BY DEF Shows
  <1>2. i # 0 /\ s.input[n].entry = e
    BY DEF Told
  <1>3. i \in 1..Len(s.runs) /\ s.runs[i].id = e.run /\ Len(s.runs) \in Nat
    BY <1>1, <1>2, LenProperties DEF Sound, LinesPlaced, IsLoader, IsSeq
  <1>4. i \in Nat \ {0}
    BY <1>3
  <1> DEFINE V == View(input, i)
             R == Reports(input, s.issues, i)
  <1>5. /\ DOMAIN V = LinesOf(i)
        /\ \A m \in LinesOf(i) : V[m].record = RecordAt(m) /\ V[m].scope = ScopeAt(m)
        /\ RunSays(s.runs[i], V, R) /\ Completes(runs[i], s.runs[i]) /\ i \in 1..Len(runs)
    BY <1>3, <1>4, RunShown
  <1>6. n \in LinesOf(i) /\ RecordAt(n) = e.record /\ ScopeAt(n) = e.scope
    BY <1>1, <1>2 DEF LinesOf, RecordAt, ScopeAt
  <1>7. e.run = l.run /\ e.scope = l.scope /\ e.record = RecordOf(l)
    BY DEF Own, EntryOf
  <1> HIDE DEF e, V, R
  <1>8. i \in RunIndex(runs, l.run)
    BY <1>3, <1>5, <1>7 DEF RunIndex, Completes
  <1>9. CASE l.type = "scope"
    <2>1. V[n].scope = l.scope /\ l.scope # None /\ n \in DOMAIN V
      BY <1>5, <1>6, <1>7, <1>9 DEF Own
    <2>2. ScopesTold(s.runs[i], V, R) /\ IsRun(s.runs[i]) /\ ScopesOnce(s.runs[i])
      BY <1>5 DEF RunSays
    <2>3. PICK k \in ScopeIndex(s.runs[i], l.scope.id) : TRUE
      BY <2>1, <2>2 DEF ScopesTold
    <2>4. k \in 1..Len(s.runs[i].scopes) /\ s.runs[i].scopes[k].id = l.scope.id
      BY <2>3 DEF ScopeIndex
    <2>5. runs[i].missing = Needed(s.runs[i])
      BY <1>1, <1>3, <2>2, FinishedMissing
    <2> HIDE DEF i
    <2>6. k \in 1..Len(runs[i].scopes) /\ runs[i].scopes[k].id = l.scope.id
      BY <1>5, <2>4 DEF Completes, SameScope
    <2>7. l.scope.id \notin runs[i].missing
      BY <2>4, <2>5 DEF Needed
    <2> QED  BY <1>8, <1>9, <2>6, <2>7 DEF HasLine
  <1>10. CASE l.type # "scope"
    <2>1. V[n].record = RecordOf(l) /\ RecordOf(l) # None /\ n \in DOMAIN V
      BY <1>5, <1>6, <1>7, <1>10 DEF Own
    <2>2. RecordsKept(s.runs[i], V)
      BY <1>5 DEF RunSays
    <2>3. PICK k \in 1..Len(s.runs[i].records) : s.runs[i].records[k] = RecordOf(l)
      BY <2>1, <2>2 DEF RecordsKept
    <2> HIDE DEF i
    <2>4. k \in 1..Len(runs[i].records) /\ runs[i].records[k] = RecordOf(l)
      BY <1>5, <2>3 DEF Completes
    <2> QED  BY <1>8, <1>10, <2>4 DEF HasLine
  <1> QED  BY <1>9, <1>10

(* Each damaged line is reported by itself.                                 *)
LEMMA DamageReported ==
    ASSUME NEW s, Shows(s), FileTold(s, disk)
    PROVE  LET reported == {i \in issues : i.kind = "InvalidLine"}
           IN  /\ IsFiniteSet(reported) /\ Cardinality(reported) \in Nat
               /\ Cardinality(Garbled(disk)) <= Cardinality(reported)
  <1> DEFINE T == {i \in issues : i.kind = "InvalidLine"}
             n == Len(s.input)
             U == 0..n
             G == Garbled(disk)
  <1>1. /\ s.issues \in SUBSET issues /\ s.issues \in SUBSET [line : 1..n, kind : IssueKinds]
        /\ \A x \in issues : x \in s.issues \/ x \in [line : {0}, kind : IssueKinds]
        /\ s.input \in Seq(InputSet)
    BY DEF Shows, Sound, IsLoader, IssuesUpTo
  <1>2. n \in Nat
    BY <1>1, LenProperties
  <1>3. IsFiniteSet(U)
    <2>1. 0 \in Int /\ n \in Int
      BY <1>2
    <2> QED  BY <2>1, FS_Interval
  <1>4. PICK o \in Nat : \A m \in 1..Settled(disk) :
           o + m \in 1..n /\ Told(s, o + m, disk.lines[m])
    BY DEF FileTold
  <1> HIDE DEF n
  <1>5. \A x \in T : x = [line |-> x.line, kind |-> "InvalidLine"] /\ x.line \in U
    <2>1. 0 \in U /\ \A k \in 1..n : k \in U
      BY <1>2
    <2> HIDE DEF U
    <2> QED  BY <1>1, <2>1
  <1> DEFINE f == [x \in T |-> x.line]
             g == [m \in G |-> [line |-> o + m, kind |-> "InvalidLine"]]
  <1>6. f \in Injection(T, U)
    <2> HIDE DEF T, U
    <2>1. f \in [T -> U]
      BY <1>5
    <2>2. \A x, y \in T : f[x] = f[y] => x = y
      BY <1>5
    <2> QED  BY <2>1, <2>2 DEF Injection, IsInjective
  <1>7. IsFiniteSet(T)
    <2> HIDE DEF f, T, U
    <2> QED  BY <1>3, <1>6, FS_Injection
  <1>8. ASSUME NEW m \in G PROVE [line |-> o + m, kind |-> "InvalidLine"] \in T /\ m \in Nat
    <2>1. m \in 1..Settled(disk) /\ disk.lines[m] = Garbage
      BY DEF Garbled
    <2>2. [line |-> o + m, kind |-> "InvalidLine"] \in s.issues
      BY <1>4, <2>1 DEF Told
    <2> QED  BY <1>1, <2>1, <2>2
  <1>9. g \in Injection(G, T)
    <2> HIDE DEF T, G
    <2>1. g \in [G -> T]
      BY <1>8
    <2>2. ASSUME NEW x \in G, NEW y \in G, g[x] = g[y] PROVE x = y
      <3>1. g[x].line = o + x /\ g[y].line = o + y
        OBVIOUS
      <3> HIDE DEF g
      <3>2. o + x = o + y /\ x \in Nat /\ y \in Nat
        BY <1>8, <2>2, <3>1
      <3> QED  BY <3>2
    <2> QED  BY <2>1, <2>2 DEF Injection, IsInjective
  <1> HIDE DEF f, g, T, G, U
  <1>10. Cardinality(G) <= Cardinality(T)
    BY <1>7, <1>9, FS_Injection
  <1> QED  BY <1>7, <1>10, FS_CardinalityType DEF T, G

LEMMA LossIsConfined ==
    ASSUME NEW s, Shows(s), phase = "finished", FileTold(s, disk), Unharmed(disk, attempts, faults)
    PROVE  TornConfined
  <1> DEFINE lost == {k \in 1..Len(attempts) :
                        attempts[k].result = "ok" /\ ~HasLine(attempts[k].line)}
             reported == {i \in issues : i.kind = "InvalidLine"}
             J == Joined(attempts, Len(attempts))
  <1>1. IsSeq(attempts) /\ Torn(disk, attempts, Len(attempts), faults)
    BY DEF Unharmed
  <1>2. Len(attempts) \in Nat
    BY <1>1, LenProperties DEF IsSeq
  <1>3. ASSUME NEW k \in 1..Len(attempts), attempts[k].result = "ok", ~attempts[k].joined
        PROVE  HasLine(attempts[k].line)
    <2> DEFINE l == attempts[k].line
    <2>1. Kept(disk, attempts[k])
      BY <1>1 DEF Torn
    <2>2. PICK m \in 1..Settled(disk) : disk.lines[m] = l
      BY <1>3, <2>1 DEF Kept
    <2>3. Own(l)
      BY <2>1 DEF Kept
    <2> HIDE DEF l
    <2>4. PICK o \in Nat : o + m \in 1..Len(s.input) /\ Told(s, o + m, l)
      BY <2>2 DEF FileTold
    <2>5. HasLine(l)
      BY <2>3, <2>4, OwnLineFound
    <2> QED  BY <2>5 DEF l
  <1>4. lost \in SUBSET J /\ \A k \in lost : attempts[k].joined
    BY <1>3, <1>1 DEF Joined
  <1>5. IsFiniteSet(J) /\ Cardinality(J) \in Nat
    BY <1>2, JoinedFinite
  <1>6. /\ IsFiniteSet(reported) /\ Cardinality(reported) \in Nat
        /\ Cardinality(Garbled(disk)) <= Cardinality(reported)
    BY DamageReported
  <1>7. /\ faults \in Nat /\ Cardinality(J) + (IF disk.ended THEN 0 ELSE 1) <= faults
        /\ Cardinality(J) <= Cardinality(Garbled(disk))
        /\ disk.ended \in BOOLEAN /\ IsSeq(disk.lines) /\ (disk.ended \/ Len(disk.lines) # 0)
    BY <1>1 DEF Torn
  <1>8. Cardinality(Garbled(disk)) \in Nat
    BY <1>7, GarbledFinite
  <1> HIDE DEF lost, reported, J
  <1>9. Cardinality(lost) <= Cardinality(J) /\ Cardinality(lost) \in Nat
    BY <1>4, <1>5, FS_Subset, FS_CardinalityType
  <1>10. Cardinality(lost) <= faults /\ Cardinality(lost) <= Cardinality(reported)
    BY <1>5, <1>6, <1>7, <1>8, <1>9
  <1> QED  BY <1>4, <1>10 DEF TornConfined, lost, reported

LEMMA FinishedConfined == FinishedTrue => TornConfined
  <1> SUFFICES ASSUME FinishedTrue, stage # "export" PROVE TornConfined
    BY DEF TornConfined, FromFile
  <1>1. PICK s : Sound(s) /\ Loader = AfterFinish(s) /\ FileTold(s, disk)
    BY DEF FinishedTrue
  <1>2. phase = "finished" /\ Unharmed(disk, attempts, faults)
    BY DEF FinishedTrue
  <1>3. Shows(s)
    BY <1>1, <1>2, FinishShows
  <1> QED  BY <1>1, <1>2, <1>3, LossIsConfined

LEMMA SavedInvIsInv == SavedInv => Inv
  BY DEF SavedInv, FinishedTrue, Inv

-----------------------------------------------------------------------------
(* The theorems                                                             *)

(* "Valid entries survive": whatever the input, every record of a valid     *)
(* line is in its run and nothing else is, every scope it mentions is known *)
(* there, and each run header has gone to exactly one run                   *)
(* (Loader::read_line, RunBuilder::add_scope, add_record, finish).          *)
THEOREM InputIsNeverLost == Spec \/ SavedSpec => []NothingLost
  <1>1. Inv => NothingLost
    BY InvShows, ShowsNothingLost
  <1> QED  BY <1>1, InvHolds, SavedInvHolds, SavedInvIsInv, PTL

(* Of two lines of a run that contradict each other one is reported, at its *)
(* line or where the same thing was said before, whatever lines of the run  *)
(* and of others stand between them (RunBuilder::add_scope, add_record).    *)
THEOREM ConflictsAreReported == Spec \/ SavedSpec => []NoSilentConflict
  <1>1. Inv => NoSilentConflict
    BY InvShows, ShowsNoSilentConflict
  <1> QED  BY <1>1, InvHolds, SavedInvHolds, SavedInvIsInv, PTL

(* What is recovered of a run is what reading its own lines alone gives,    *)
(* and the loader's state has its type (Loader::read_line, Target).         *)
THEOREM RunsStaySeparate == Spec \/ SavedSpec => []RunsSeparate
  <1>1. Inv => RunsSeparate
    BY InvShows, ShowsRunsSeparate
  <1> QED  BY <1>1, InvHolds, SavedInvHolds, SavedInvIsInv, PTL

(* A scope is finished exactly if an accepted line of its run says so, at   *)
(* the first time told and with the last message told for that time; the    *)
(* placeholders and the repair of parent links at the end fabricate neither *)
(* (RunBuilder::add_scope, finish, Run::unfinished_scopes).                 *)
THEOREM ExitsAreObserved == Spec \/ SavedSpec => []ExitsAsObserved
  <1>1. Inv => ExitsAsObserved
    BY InvShows, ShowsExits
  <1> QED  BY <1>1, InvHolds, SavedInvHolds, SavedInvIsInv, PTL

(* "Every retained scope can be inspected": whatever parents the lines give,*)
(* the scopes of a loaded run are a forest that holds every scope a line    *)
(* names, and each cycle has lost one link and nothing else has             *)
(* (RunBuilder::finish).                                                    *)
THEOREM ScopesFormAForest == Spec \/ SavedSpec => []ForestRecovered
  <1>1. Inv => ForestRecovered
    BY InvShows, ShowsForest
  <1> QED  BY <1>1, InvHolds, SavedInvHolds, SavedInvIsInv, PTL

(* Whatever a journal did, whichever of its writes failed and wherever each *)
(* process stopped, and in whatever order its file and an export are read:  *)
(* no record, parent or exit is loaded for a process that its journal did   *)
(* not make, give or see, and none of its lines contradicts another         *)
(* (Journal::enter_scope, record, exit_scope, clear, FileWriter, Loader).   *)
THEOREM OnlyTruthIsLoaded == SavedSpec => []OnlyTruth
  <1>1. SavedInv => OnlyTruth
    <2>1. FinishedTrue => OnlyTruth
      BY TruthIsLoaded
    <2>2. stage \in {"any", "writing"} => OnlyTruth
      BY DEF OnlyTruth, Loaded
    <2> QED  BY <2>1, <2>2 DEF SavedInv
  <1> QED  BY <1>1, SavedInvHolds, PTL

(* "Malformed, truncated ... entries are skipped individually": a write that*)
(* fails costs at most one acknowledged line, the one that continues it on  *)
(* the same line of the file; and no more of them are missing from what is  *)
(* loaded than writes failed, nor than InvalidLine issues report            *)
(* (FileWriter::append, Journal::write_record, Loader::read_line).          *)
THEOREM LossStaysConfined == SavedSpec => []TornConfined
  <1>1. SavedInv => TornConfined
    <2>1. stage \in {"any", "writing"} => TornConfined
      BY DEF TornConfined, FromFile, Loaded
    <2> QED  BY <2>1, FinishedConfined DEF SavedInv
  <1> QED  BY <1>1, SavedInvHolds, PTL
=============================================================================
