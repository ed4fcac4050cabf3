------------------------------- MODULE Replay -------------------------------
(***************************************************************************)
(* The loader of saved journals, src/src/replay/load.rs, over any input:   *)
(* whole files, truncated ones, fragments that overlap, repeat, interleave *)
(* several runs or contradict each other.  An input line is what parsing   *)
(* makes of it: the metadata of a scope, a record, or both (into_parts),   *)
(* for a run; or a header, or a line that is reported and skipped.         *)
(*                                                                         *)
(* about stands for a scope's name and entry time, which the code compares *)
(* as it does its parent; a record is its identifier, its scope, the       *)
(* outcome and duration if it is an exit (exit), and whatever else it says *)
(* (body).                                                                 *)
(***************************************************************************)
EXTENDS JsonLines, Sequences, FiniteSets

CONSTANTS
    Lines,      \* entries the input may hold
    MaxLines    \* bound: lines of input

(* The identifiers of an entry are numbers.                                 *)
IsEntry(e) ==
    /\ e.scope # None => e.scope \in
          [id : Nat, parent : Nat \cup {None}, about : {e.scope.about},
           exited : {e.scope.exited}, message : {e.scope.message}]
    /\ e.record # None => e.record.scope \in Nat \cup {None}

ASSUME ReplayAssumption ==
    MaxLines \in Nat /\ None \notin Nat /\ \A e \in Lines : IsEntry(e)

VARIABLES
    runs,      \* Loader::runs
    legacy,    \* Loader::legacy, the index of the current unversioned run, or 0
    headers,   \* Loader::headers: headers no run has taken yet
    issues,    \* Loader::issues, each at its line, those of finish at line 0
    phase,     \* "reading" or "finished"
    input      \* history: what each line was, its entry and the run it went to

vars == <<runs, legacy, headers, issues, phase, input>>

NewRun(id) == [id |-> id, headers |-> 0, records |-> <<>>, scopes |-> <<>>,
               outcomes |-> <<>>, missing |-> {}]

ScopeIndex(run, id) == {i \in 1..Len(run.scopes) : run.scopes[i].id = id}
The(S) == CHOOSE x \in S : TRUE
Least(S) == CHOOSE x \in S : \A y \in S : x <= y
RecordIndex(run, id) == {i \in 1..Len(run.records) : run.records[i].id = id}
Or(old, new) == IF old = None THEN new ELSE old

-----------------------------------------------------------------------------
(* RunBuilder::add_scope: identity and a final exit time are never changed. *)

Contradicts(old, new) ==
    \/ old.parent # new.parent \/ old.about # new.about
    \/ old.exited # None /\ new.exited # None /\ old.exited # new.exited

(* Mutant of Merge: later metadata replaces what is known.                  *)
Replace(old, new) == new

Merge(old, new) ==
    [old EXCEPT !.exited = Or(@, new.exited),
                !.message = IF (old.exited = None \/ new.exited # None) /\ new.message # None
                            THEN new.message ELSE @]

(* Each returns the run after and the issues it raises.                     *)
AddScope(run, new) ==
    LET at  == ScopeIndex(run, new.id)
        old == run.scopes[The(at)]
    IN  IF at = {} THEN [run |-> [run EXCEPT !.scopes = Append(@, new)], issues |-> {}]
        ELSE IF Contradicts(old, new) THEN [run |-> run, issues |-> {"ConflictingScope"}]
        ELSE [run |-> [run EXCEPT !.scopes[The(at)] = Merge(old, new)], issues |-> {}]

(* RunBuilder::add_record: a repetition of the first record with the same   *)
(* identifier is dropped, any other record is kept; a scope's outcome is    *)
(* the first one observed.                                                  *)
Known(run, id) == id \in DOMAIN run.outcomes
Observe(run, r) ==
    IF r.exit = None \/ Known(run, r.scope) THEN run.outcomes
    ELSE [id \in DOMAIN run.outcomes \cup {r.scope} |->
             IF id = r.scope THEN r.exit ELSE run.outcomes[id]]

(* Mutants of AddRecord: the later record with an identifier is dropped;    *)
(* a contradictory exit is not compared.                                    *)
AddRecordOnce(run, r) ==
    IF RecordIndex(run, r.id) # {} THEN [run |-> run, issues |-> {"ConflictingRecord"}]
    ELSE [run |-> [run EXCEPT !.records = Append(@, r), !.outcomes = Observe(run, r)], issues |-> {}]
AddRecordUnchecked(run, r) ==
    LET at == RecordIndex(run, r.id)
    IN  IF at # {} /\ run.records[Least(at)] = r THEN [run |-> run, issues |-> {}]
        ELSE [run    |-> [run EXCEPT !.records = Append(@, r), !.outcomes = Observe(run, r)],
              issues |-> IF at # {} THEN {"ConflictingRecord"} ELSE {}]

AddRecord(run, r) ==
    LET at == RecordIndex(run, r.id)
    IN  IF at # {} /\ run.records[Least(at)] = r THEN [run |-> run, issues |-> {}]
        ELSE [run    |-> [run EXCEPT !.records = Append(@, r), !.outcomes = Observe(run, r)],
              issues |-> IF at # {} THEN {"ConflictingRecord"}
                         ELSE IF r.exit # None /\ Known(run, r.scope)
                                 /\ run.outcomes[r.scope] # r.exit
                         THEN {"ConflictingScope"} ELSE {}]

(* What read_line does to the run it has chosen: metadata, then the record. *)
AddEntry(run, e) ==
    LET s == IF e.scope = None THEN [run |-> run, issues |-> {}] ELSE AddScope(run, e.scope)
        r == IF e.record = None THEN [run |-> s.run, issues |-> {}] ELSE AddRecord(s.run, e.record)
    IN  [run |-> r.run, issues |-> s.issues \cup r.issues]

-----------------------------------------------------------------------------
Init ==
    /\ runs = <<>> /\ legacy = 0 /\ headers = 0 /\ issues = {}
    /\ phase = "reading" /\ input = <<>>

(* The loader as a value, which a line changes.                             *)
Loader == [runs |-> runs, legacy |-> legacy, headers |-> headers, issues |-> issues,
           input |-> input]
Become(s) == /\ runs' = s.runs /\ legacy' = s.legacy /\ headers' = s.headers
             /\ issues' = s.issues /\ input' = s.input

Report(s, kinds) == s.issues \cup {[line |-> Len(s.input) + 1, kind |-> k] : k \in kinds}
Consume(s, what, e, i) == Append(s.input, [what |-> what, entry |-> e, run |-> i])

(* A decorated run header ends the current unversioned run.                 *)
AfterHeader(s) == [s EXCEPT !.headers = @ + 1, !.legacy = 0,
                            !.input = Consume(s, "header", None, 0)]

(* Invalid JSON, a version or a run identity that is missing or not         *)
(* understood, an embedded scope that is not the record's.                  *)
AfterSkip(s, kind) == [s EXCEPT !.issues = Report(s, {kind}),
                                !.input = Consume(s, "skipped", None, 0)]

RunIndex(rs, id) == {i \in 1..Len(rs) : rs[i].id = id}

(* An unversioned entry opens a run if none is current, or if it repeats a  *)
(* record identifier of the current one.                                    *)
(* Mutant of Restarts: a repeated identifier is left to add_record.         *)
NeverRestarts(s, e) == FALSE
Restarts(s, e) ==
    s.legacy # 0 /\ e.record # None /\ RecordIndex(s.runs[s.legacy], e.record.id) # {}

(* Mutant of Target: any current unversioned run is taken, and kept.        *)
TargetLegacyFirst(s, e) ==
    IF s.legacy # 0 THEN s.legacy
    ELSE IF e.run # Legacy /\ RunIndex(s.runs, e.run) # {} THEN The(RunIndex(s.runs, e.run))
    ELSE Len(s.runs) + 1

Target(s, e) ==
    IF e.run # Legacy
    THEN IF RunIndex(s.runs, e.run) = {} THEN Len(s.runs) + 1 ELSE The(RunIndex(s.runs, e.run))
    ELSE IF s.legacy = 0 \/ Restarts(s, e) THEN Len(s.runs) + 1 ELSE s.legacy

AfterEntry(s, e) ==
    LET i     == Target(s, e)
        known == IF i > Len(s.runs) THEN Append(s.runs, NewRun(e.run)) ELSE s.runs
        added == AddEntry([known[i] EXCEPT !.headers = @ + s.headers], e)
    IN  [runs    |-> [known EXCEPT ![i] = added.run],
         legacy  |-> IF e.run = Legacy THEN i ELSE 0,
         headers |-> 0,
         issues  |-> Report(s, added.issues \cup
                        IF e.run = Legacy /\ Restarts(s, e) THEN {"InferredRunBoundary"} ELSE {}),
         input   |-> Consume(s, "entry", e, i)]

(* Mutant of AfterLine: nothing after a damaged line is read.               *)
AfterLineStops(s, l) ==
    IF \E issue \in s.issues : issue.kind = "InvalidLine" THEN AfterSkip(s, "InvalidLine")
    ELSE IF Issue(l) # None THEN AfterSkip(s, Issue(l)) ELSE AfterEntry(s, EntryOf(l))

AfterLine(s, l) ==
    IF l = Header THEN AfterHeader(s)
    ELSE IF Issue(l) # None THEN AfterSkip(s, Issue(l)) ELSE AfterEntry(s, EntryOf(l))

ReadHeader ==
    /\ phase = "reading" /\ Len(input) < MaxLines
    /\ Become(AfterHeader(Loader)) /\ UNCHANGED phase

SkipLine(kind) ==
    /\ phase = "reading" /\ Len(input) < MaxLines
    /\ Become(AfterSkip(Loader, kind)) /\ UNCHANGED phase

ReadEntry(e) ==
    /\ phase = "reading" /\ Len(input) < MaxLines
    /\ Become(AfterEntry(Loader, e)) /\ UNCHANGED phase

-----------------------------------------------------------------------------
(* RunBuilder::finish: placeholders, in any order, then one parent link     *)
(* less per cycle.                                                          *)

Placeholder(id) == [id |-> id, parent |-> None, about |-> None, exited |-> None, message |-> None]

Needed(run) == ({run.scopes[i].parent : i \in 1..Len(run.scopes)}
                \cup {run.records[i].scope : i \in 1..Len(run.records)})
               \ ({run.scopes[i].id : i \in 1..Len(run.scopes)} \cup {None})

Complete(run) ==
    LET ids   == Needed(run)
        Nth(n) == CHOOSE x \in ids : Cardinality({y \in ids : y < x}) = n - 1
    IN  [run EXCEPT !.scopes = @ \o [n \in 1..Cardinality(ids) |-> Placeholder(Nth(n))],
                    !.missing = ids]

ParentOf(scopes, id) == scopes[The({i \in 1..Len(scopes) : scopes[i].id = id})].parent
Detach(scopes, id)   == [i \in 1..Len(scopes) |->
    IF scopes[i].id = id THEN [scopes[i] EXCEPT !.parent = None] ELSE scopes[i]]

(* Mutant of WalkUp: a walk forgets the walks before it.                    *)
WalkUpToRoot(s, start) ==
    LET seen[k \in 0..Len(s.scopes)] ==
            IF k = 0 THEN start
            ELSE IF seen[k - 1] = None THEN None ELSE ParentOf(s.scopes, seen[k - 1])
    IN  [scopes |-> IF seen[Len(s.scopes)] # None THEN Detach(s.scopes, start) ELSE s.scopes,
         done   |-> {}]

(* The walk from a scope to its ancestors stops at a root, at a scope seen  *)
(* by an earlier walk, or at one it has passed itself, which is detached.   *)
WalkUp(s, start) ==
    LET chain[k \in 0..Len(s.scopes)] ==
            IF k = 0 THEN start
            ELSE IF chain[k - 1] = None THEN None ELSE ParentOf(s.scopes, chain[k - 1])
        passed(k) == {chain[i] : i \in 0..(k - 1)}
        stop == Least({k \in 0..Len(s.scopes) :
                         chain[k] = None \/ chain[k] \in s.done \/ chain[k] \in passed(k)})
    IN  [scopes |-> IF chain[stop] # None /\ chain[stop] \in passed(stop)
                    THEN Detach(s.scopes, chain[stop]) ELSE s.scopes,
         done   |-> s.done \cup passed(stop)]

Repair(scopes) ==
    LET after[n \in 0..Len(scopes)] ==
            IF n = 0 THEN [scopes |-> scopes, done |-> {}]
            ELSE WalkUp(after[n - 1], scopes[n].id)
    IN  after[Len(scopes)].scopes

Finished(run) == LET c == Complete(run) IN [c EXCEPT !.scopes = Repair(c.scopes)]

AfterFinish(s) ==
    [s EXCEPT
        !.runs = [i \in 1..Len(s.runs) |-> Finished(s.runs[i])]
                 \o (IF s.headers = 0 THEN <<>> ELSE <<[NewRun(Legacy) EXCEPT !.headers = s.headers]>>),
        !.issues = @ \cup {[line |-> 0, kind |-> k] : k \in
            (IF \E i \in 1..Len(s.runs) : Needed(s.runs[i]) # {} THEN {"MissingScopeMetadata"} ELSE {})
            \cup (IF \E i \in 1..Len(s.runs) :
                       LET c == Complete(s.runs[i]) IN Repair(c.scopes) # c.scopes
                  THEN {"InvalidHierarchy"} ELSE {})}]

Finish == phase = "reading" /\ phase' = "finished" /\ Become(AfterFinish(Loader))

Next ==
    \/ ReadHeader
    \/ \E kind \in {"InvalidLine", "UnsupportedVersion"} : SkipLine(kind)
    \/ \E e \in Lines : ReadEntry(e)
    \/ Finish

Spec == Init /\ [][Next]_vars

-----------------------------------------------------------------------------
(* Queries on a loaded run                                                  *)

Ids(run) == {run.scopes[i].id : i \in 1..Len(run.scopes)}

(* unfinished_scopes                                                        *)
Unfinished(run) ==
    {run.scopes[i].id : i \in {k \in 1..Len(run.scopes) : run.scopes[k].exited = None}}
    \ {run.records[i].scope : i \in {k \in 1..Len(run.records) : run.records[k].exit # None}}

-----------------------------------------------------------------------------
(* Properties                                                               *)

IssueKinds == {"InvalidLine", "UnsupportedVersion", "InferredRunBoundary", "ConflictingRecord",
               "ConflictingScope", "MissingScopeMetadata", "InvalidHierarchy"}

TypeOK ==
    /\ legacy \in 0..Len(runs) /\ (legacy # 0 => runs[legacy].id = Legacy)
    /\ headers \in 0..Len(input) /\ phase \in {"reading", "finished"}
    /\ issues \subseteq [line : 0..Len(input), kind : IssueKinds]
    /\ \A i \in 1..Len(runs) :
          /\ \A j \in 1..Len(runs[i].scopes), k \in 1..Len(runs[i].scopes) :
                runs[i].scopes[j].id = runs[i].scopes[k].id => j = k
          /\ runs[i].id # Legacy => RunIndex(runs, runs[i].id) = {i}

LinesOf(i)  == {n \in 1..Len(input) : input[n].run = i}
RecordAt(n) == input[n].entry.record
ScopeAt(n)  == input[n].entry.scope
Reported(n) == \E issue \in issues :
    issue.line = n /\ issue.kind \in {"ConflictingRecord", "ConflictingScope"}

HeadersIn(rs) == LET total[i \in 0..Len(rs)] == IF i = 0 THEN 0 ELSE total[i - 1] + rs[i].headers
                 IN  total[Len(rs)]

(* "Valid entries survive", "conflicting records remain available": each    *)
(* valid line's record is in its run, each scope it mentions is known there *)
(* and nothing else is, however lines repeat, contradict and interleave;    *)
(* and each header is with exactly one run.                                 *)
NothingLost ==
    /\ \A n \in 1..Len(input) : input[n].run # 0 =>
          LET run == runs[input[n].run]
          IN  /\ RecordAt(n) # None => \E k \in 1..Len(run.records) : run.records[k] = RecordAt(n)
              /\ ScopeAt(n) # None => ScopeIndex(run, ScopeAt(n).id) # {}
    /\ \A i \in 1..Len(runs) : \A k \in 1..Len(runs[i].records) :
          \E n \in LinesOf(i) : RecordAt(n) = runs[i].records[k]
    /\ Cardinality({n \in 1..Len(input) : input[n].what = "header"})
          = HeadersIn(runs) + (IF phase = "reading" THEN headers ELSE 0)

(* No contradiction passes silently: of two lines of a run that disagree on *)
(* a record, on the identity or exit time of a scope, or on its outcome,    *)
(* what one of them says is reported as a conflict, there or where it is    *)
(* first said; and a line reported as one disagrees with an earlier line.   *)
RecordReported(n) == \E m \in LinesOf(input[n].run) : RecordAt(m) = RecordAt(n) /\ Reported(m)
ScopeReported(n)  == \E m \in LinesOf(input[n].run) : ScopeAt(m) = ScopeAt(n) /\ Reported(m)

RecordsDisagree(n, m) ==
    /\ RecordAt(n) # None /\ RecordAt(m) # None
    /\ \/ RecordAt(n).id = RecordAt(m).id /\ RecordAt(n) # RecordAt(m)
       \/ /\ RecordAt(n).exit # None /\ RecordAt(m).exit # None
          /\ RecordAt(n).scope = RecordAt(m).scope /\ RecordAt(n).exit # RecordAt(m).exit
ScopesDisagree(n, m) ==
    /\ ScopeAt(n) # None /\ ScopeAt(m) # None
    /\ ScopeAt(n).id = ScopeAt(m).id /\ Contradicts(ScopeAt(n), ScopeAt(m))

NoSilentConflict ==
    \A i \in 1..Len(runs) : \A n, m \in LinesOf(i) :
        /\ RecordsDisagree(n, m) => RecordReported(n) \/ RecordReported(m)
        /\ ScopesDisagree(n, m) => ScopeReported(n) \/ ScopeReported(m)
        /\ Reported(n) => \E k \in LinesOf(i) :
              k < n /\ (RecordsDisagree(n, k) \/ ScopesDisagree(n, k))

(* Runs do not mix: what is recovered of a run is what its own lines give,  *)
(* wherever files are cut and whichever other runs, headers and damaged     *)
(* lines stand between them; and an unversioned run holds an identifier     *)
(* once.  A run and a scope of a run stand in their lists once.             *)
Take(id, run, l) == IF l.run # 0 /\ l.entry.run = id THEN AddEntry(run, l.entry).run ELSE run
Alone(id, in) == LET after[n \in 0..Len(in)] ==
                         IF n = 0 THEN NewRun(id) ELSE Take(id, after[n - 1], in[n])
                 IN  after[Len(in)]

RunsSeparate ==
    /\ TypeOK
    /\ phase = "reading" => \A i \in 1..Len(runs) :
          IF runs[i].id # Legacy THEN [runs[i] EXCEPT !.headers = 0] = Alone(runs[i].id, input)
          ELSE \A k \in 1..Len(runs[i].records) :
                  RecordIndex(runs[i], runs[i].records[k].id) = {k}

(* "A crash log never fabricates a success or abortion": a scope counts as  *)
(* finished exactly if its run has an exit record of it, or metadata with   *)
(* an exit time and the identity that was first read; its exit time is the  *)
(* first of those, whatever open or contradictory metadata follows; and its *)
(* message is the one its last metadata with that exit time and a message   *)
(* has.                                                                     *)
MetadataOf(i, id) == {n \in LinesOf(i) : ScopeAt(n) # None /\ ScopeAt(n).id = id}
ClosedOf(i, id) ==
    LET known == ScopeAt(Least(MetadataOf(i, id)))
    IN  {n \in MetadataOf(i, id) : /\ ScopeAt(n).exited # None
                                   /\ ScopeAt(n).parent = known.parent
                                   /\ ScopeAt(n).about = known.about}

ExitsAsObserved ==
    phase = "finished" => \A i \in 1..Len(runs) : \A k \in 1..Len(runs[i].scopes) :
        LET scope  == runs[i].scopes[k]
            says   == \E n \in LinesOf(i) : /\ RecordAt(n) # None /\ RecordAt(n).exit # None
                                            /\ RecordAt(n).scope = scope.id
            closed == ClosedOf(i, scope.id)
            exit   == ScopeAt(Least(closed)).exited
            final  == {n \in closed : ScopeAt(n).exited = exit /\ ScopeAt(n).message # None}
        IN  /\ scope.id \in Unfinished(runs[i]) <=> closed = {} /\ ~says
            /\ closed # {} => scope.exited = exit
            /\ \A n \in final : (\A m \in final : m <= n) => scope.message = ScopeAt(n).message

(* "Every retained scope can be inspected with scope_tree": the scopes of a *)
(* loaded run form a forest that holds every scope a line mentions.  Each   *)
(* has the parent it was first read with, except that one scope of each     *)
(* cycle of these has become a root.                                        *)
Endless(S, parent) == S # {} /\ \A id \in S : parent[id] \in S
Cycle(S, parent)   == Endless(S, parent) /\ \A T \in SUBSET S : Endless(T, parent) => T = S

Given(i) == [id \in Ids(runs[i]) |->
    IF MetadataOf(i, id) = {} THEN None ELSE ScopeAt(Least(MetadataOf(i, id))).parent]
Parents(run) == [id \in Ids(run) |-> ParentOf(run.scopes, id)]

ForestRecovered ==
    phase = "finished" => \A i \in 1..Len(runs) :
        LET ids  == Ids(runs[i])
            now  == Parents(runs[i])
            lost == {id \in ids : now[id] # Given(i)[id]}
        IN  /\ \A k \in 1..Len(runs[i].records) : runs[i].records[k].scope \in ids \cup {None}
            /\ \A id \in ids : now[id] \in ids \cup {None}
            /\ \A S \in SUBSET ids : ~Endless(S, now)
            /\ \A C \in SUBSET ids : Cycle(C, Given(i)) => Cardinality(C \cap lost) = 1
            /\ \A id \in lost : /\ now[id] = None
                               /\ \E C \in SUBSET ids : Cycle(C, Given(i)) /\ id \in C

(* "Identical overlapping records are deduplicated within a versioned run." *)
Deduplicated ==
    \A i \in 1..Len(runs) : runs[i].id # Legacy =>
        \A j, k \in 1..Len(runs[i].records) :
            runs[i].records[j] = runs[i].records[k] => j = k
=============================================================================
