---------------------------- MODULE SavedJournal ----------------------------
(***************************************************************************)
(* A journal used directly (src/src/journal/mod.rs, and the guards of      *)
(* src/src/core/scope.rs) that writes its history to a JSONL file through  *)
(* a FileWriter (src/src/journal/writer.rs), process after process; and    *)
(* what the loader of Replay makes of the file afterwards, alone or with   *)
(* an export of the journal, in either order.                              *)
(*                                                                         *)
(* A write may fail before its first byte, part way, or between the line   *)
(* and its newline; the journal ignores the error and the next line goes   *)
(* on where the file ends.  A process may stop after any call.  The file   *)
(* may hold a line of another program or of another version.               *)
(***************************************************************************)
EXTENDS Replay, Journal, SequencesExt

CONSTANTS
    RunIds,      \* savedid of each process, in order
    Foreign,     \* lines that may be in the file already, a sequence

    MaxCalls,    \* bound: calls on the journal, over all processes
    MaxFaults,   \* bound: writes that fail
    MaxScopes    \* bound: scopes entered in one process

(* What a journal says of a scope and of a record in a line.                *)
ExitOutcomes == {"success", "failure", "aborted"}
Exits        == [outcome : ExitOutcomes, duration : {1}]
ScopeValues  ==
    [id : Nat, parent : Nat \cup {None}, about : {"name"}, exited : {None, "then"},
     message : {None, "bye"}]
RecordValues ==
    [id : Nat, scope : Nat \cup {None}, body : {"event", "exit"}, exit : {None} \cup Exits]

(* Each process has an identity of its own, which no other line has that is *)
(* understood.                                                              *)
ASSUME SavedAssumption ==
    /\ {MaxCalls, MaxFaults, MaxScopes} \subseteq Nat
    /\ RunIds # <<>> /\ RunIds \in Seq(ToSet(RunIds)) /\ Legacy \notin ToSet(RunIds)
    /\ \A p, q \in 1..Len(RunIds) : RunIds[p] = RunIds[q] => p = q
    /\ Foreign \in Seq(ToSet(Foreign))
    /\ \A l \in ToSet(Foreign) :
          l = Header \/ Issue(l) # None \/ (IsEntry(EntryOf(l)) /\ EntryOf(l).run \notin ToSet(RunIds))
    /\ None \notin {"then", "bye", "InvalidLine"} \cup Exits \cup ScopeValues \cup RecordValues

VARIABLES
    stage,      \* "any": any file is read; or "writing", then "loading"
    process,    \* which process is running
    journal,    \* its Journal
    current,    \* Journal::current_scope
    writing,    \* Journal::writer is a FileWriter, or there is none
    guard,      \* the ScopeGuard that borrows the journal, <<>> for none
    disk,       \* the lines of the file, and whether the last one has its newline
    calls, faults,
    attempts,   \* history: every line written, with what became of it
    truth,      \* history: what each process's journal did
    export      \* history: records_jsonl, <<>> until it is called

journalVars == <<journal, current, writing, guard>>
savedVars   == <<vars, stage, process, journalVars, disk, calls, faults, attempts, truth, export>>

RunId == RunIds[process]

-----------------------------------------------------------------------------
(* What a journal says of its scopes and records                            *)

ScopeValue(j, id) ==
    [id |-> id, parent |-> j.scopes[id].parent, about |-> "name",
     exited |-> IF j.scopes[id].open THEN None ELSE "then",
     message |-> IF j.scopes[id].message = "" THEN None ELSE j.scopes[id].message]

RecordValue(j, n) ==
    LET r == j.records[n]
    IN  [id |-> n, scope |-> r.scope, body |-> r.kind,
         exit |-> IF r.kind = "exit" THEN [outcome |-> r.outcome, duration |-> 1] ELSE None]

LineOf(j, n) ==
    LET s == j.records[n].scope
    IN  RecordLine(RunId, RecordValue(j, n),
                   IF s \in DOMAIN j.scopes THEN ScopeValue(j, s) ELSE None)

Ordered(ids) == [n \in 1..Cardinality(ids) |->
                    CHOOSE x \in ids : Cardinality({y \in ids : y < x}) = n - 1]
ScopeLines(j) ==
    LET ids == Ordered(DOMAIN j.scopes)
    IN  [k \in 1..Len(ids) |-> ScopeLine(RunId, ScopeValue(j, ids[k]))]

(* records_jsonl: the retained scopes, then the retained records            *)
RecordsJsonl(j) ==
    LET ids == Ordered(DOMAIN j.records)
    IN  ScopeLines(j) \o [k \in 1..Len(ids) |-> LineOf(j, ids[k])]

-----------------------------------------------------------------------------
(* FileWriter: a line, then its newline, at the end of the file             *)

Results == {"ok", "lost", "part", "unended"}

AppendLine(d, line, result) ==
    LET before == IF d.ended THEN d.lines ELSE Front(d.lines)
        text   == IF d.ended /\ result # "part" THEN line ELSE Garbage
    IN  IF result = "lost" THEN d
        ELSE [lines |-> Append(before, text), ended |-> result = "ok"]

Attempt(line, result, d) == [line |-> line, result |-> result, joined |-> ~d.ended]

(* The lines are written one after the other, whatever becomes of each; the *)
(* k-th write may fail.                                                     *)
WriteLines(lines) ==
    IF lines = <<>> THEN UNCHANGED <<disk, faults, attempts>>
    ELSE \E k \in 1..Len(lines), result \in Results :
        /\ result = "ok" => k = 1
        /\ result # "ok" => faults < MaxFaults
        /\ faults' = faults + (IF result = "ok" THEN 0 ELSE 1)
        /\ LET how(i) == IF i = k THEN result ELSE "ok"
               file[i \in 0..Len(lines)] ==
                   IF i = 0 THEN disk ELSE AppendLine(file[i - 1], lines[i], how(i))
           IN  /\ disk' = file[Len(lines)]
               /\ attempts' = attempts \o
                     [i \in 1..Len(lines) |-> Attempt(lines[i], how(i), file[i - 1])]

Write(lines) == IF writing THEN WriteLines(lines) ELSE UNCHANGED <<disk, faults, attempts>>

-----------------------------------------------------------------------------
NoTruth == [scopes |-> {}, known |-> {}, records |-> {}, saved |-> {}]

Start(lines) ==
    /\ process = 1 /\ journal = NewJournal /\ current = None /\ guard = <<>>
    /\ disk = [lines |-> lines, ended |-> TRUE] /\ attempts = <<>> /\ export = <<>>
    /\ calls = 0 /\ faults = 0
    /\ truth = [p \in 1..Len(RunIds) |-> NoTruth]

(* Any file is read; or a journal starts without a file, or on one that     *)
(* holds something already.                                                 *)
SavedInit ==
    /\ Init
    /\ \/ stage = "any" /\ writing = FALSE /\ Start(<<>>)
       \/ stage = "writing" /\ writing = FALSE /\ Start(<<>>)
       \/ stage = "writing" /\ writing = TRUE /\ Start(Foreign)

(* Calls, while no guard borrows the journal.                               *)
Calls(n) ==
    /\ stage = "writing" /\ guard = <<>> /\ calls + n <= MaxCalls
    /\ calls' = calls + n
    /\ UNCHANGED <<vars, stage, process>>
Call == Calls(1)

(* The journal becomes j and writes lines.                                  *)
Becomes(j, lines) ==
    /\ journal' = j
    /\ Write(lines)
    /\ LET entered == {<<id, j.scopes[id].parent>> :
                          id \in DOMAIN j.scopes \ DOMAIN journal.scopes}
           made    == {RecordValue(j, n) : n \in DOMAIN j.records \ DOMAIN journal.records}
       IN  truth' = [truth EXCEPT ![process].scopes = @ \cup entered, ![process].records = @ \cup made,
                        ![process].known = @ \cup (IF writing THEN {s[1] : s \in entered} ELSE {}),
                        ![process].saved = @ \cup (IF writing THEN made ELSE {})]

EnterWith(parent) ==
    LET j == EnterScope(journal, parent)
    IN  /\ journal.nextScope < MaxScopes
        /\ Becomes(j, <<ScopeLine(RunId, ScopeValue(j, journal.nextScope))>>)

(* enter_scope, enter_scope_with_parent, enter_scope_unnamed                *)
Enter ==
    /\ Call /\ EnterWith(current) /\ current' = journal.nextScope
    /\ UNCHANGED <<writing, guard, export>>
EnterWithParent(parent) ==
    /\ Call /\ EnterWith(parent)
    /\ UNCHANGED <<current, writing, guard, export>>
EnterUnnamed(parent) ==
    /\ Call /\ EnterWith(IF parent = None THEN current ELSE parent)
    /\ current' = journal.nextScope
    /\ UNCHANGED <<writing, guard, export>>

Record ==
    LET j == RecordEvent(journal, current)
    IN  /\ Call /\ Becomes(j, <<LineOf(j, journal.nextRecord)>>)
        /\ UNCHANGED <<current, writing, guard, export>>

(* exit_scope: nothing is written unless the scope was open.                *)
ExitWith(id, outcome) ==
    LET j == ExitScope(journal, id, outcome)
    IN  /\ Becomes(j, IF Open(journal, id) THEN <<LineOf(j, journal.nextRecord)>> ELSE <<>>)
        /\ current' = IF Open(journal, id) /\ id = current THEN journal.scopes[id].parent
                      ELSE current

Exit(id, outcome) ==
    /\ Call /\ id < journal.nextScope /\ ExitWith(id, outcome)
    /\ UNCHANGED <<writing, guard, export>>

SetExitMessages(id) ==
    /\ Call /\ id < journal.nextScope /\ Becomes(SetMessage(journal, id, "bye"), <<>>)
    /\ UNCHANGED <<current, writing, guard, export>>

TrimTo(max) ==
    /\ Call
    /\ \/ Becomes(TrimRecords(journal, max), <<>>)
       \/ Becomes(TrimScopes(journal, max), <<>>)
    /\ UNCHANGED <<current, writing, guard, export>>

ClearJournal ==
    /\ Call /\ Becomes(Clear(journal), <<>>) /\ current' = None
    /\ UNCHANGED <<writing, guard, export>>

Unseeded == <<>>   \* mutant of Seeds: a new writer starts with nothing
Seeds == ScopeLines(journal)

(* set_writer: the writer takes the run identity and gets the retained      *)
(* scopes.  with_writer is Start, on a journal that has none.               *)
SetWriter ==
    /\ Call /\ ~writing
    /\ writing' = TRUE
    /\ WriteLines(Seeds)
    /\ truth' = [truth EXCEPT ![process].known = @ \cup DOMAIN journal.scopes]
    /\ UNCHANGED <<journal, current, guard, export>>

(* records_jsonl                                                            *)
Export ==
    /\ Call /\ export = <<>>
    /\ export' = [lines |-> RecordsJsonl(journal), of |-> journal, process |-> process]
    /\ UNCHANGED <<journalVars, disk, faults, attempts, truth>>

-----------------------------------------------------------------------------
(* ScopeGuard: it borrows the journal until it is dropped; only its first   *)
(* exit counts.  A guard is two of the bounded calls, to enter and to exit. *)

ScopeGuard ==
    /\ Calls(2) /\ EnterWith(current) /\ current' = journal.nextScope
    /\ guard' = [id |-> journal.nextScope, exited |-> FALSE]
    /\ UNCHANGED <<writing, export>>

GuardExit(outcome) ==
    /\ stage = "writing" /\ guard # <<>> /\ ~guard.exited
    /\ ExitWith(guard.id, outcome)
    /\ guard' = [guard EXCEPT !.exited = TRUE]
    /\ UNCHANGED <<vars, stage, process, writing, calls, export>>

(* drop: a success, or a failure while the thread panics                    *)
GuardDrop(panicking) ==
    /\ stage = "writing" /\ guard # <<>>
    /\ IF guard.exited THEN UNCHANGED <<journal, current, disk, faults, attempts, truth>>
       ELSE ExitWith(guard.id, IF panicking THEN "failure" ELSE "success")
    /\ guard' = <<>>
    /\ UNCHANGED <<vars, stage, process, writing, calls, export>>

-----------------------------------------------------------------------------
(* The process stops, wherever it is, and another one starts on the file,   *)
(* which FileWriter opens for appending; or the file is loaded.             *)

Restart ==
    /\ stage = "writing" /\ process < Len(RunIds) /\ attempts # <<>>
    /\ process' = process + 1
    /\ journal' = NewJournal /\ current' = None /\ guard' = <<>> /\ writing' = TRUE
    /\ UNCHANGED <<vars, stage, disk, calls, faults, attempts, truth, export>>

Files == {"file"} \cup IF export = <<>> THEN {} ELSE {"export", "file_export", "export_file"}
LinesIn(files) ==
    CASE files = "file" -> disk.lines
      [] files = "export" -> export.lines
      [] files = "file_export" -> disk.lines \o export.lines
      [] files = "export_file" -> export.lines \o disk.lines

Load(files) ==
    /\ stage = "writing" /\ stage' = files /\ phase' = "finished"
    /\ LET lines == LinesIn(files)
           after[n \in 0..Len(lines)] ==
               IF n = 0 THEN Loader ELSE AfterLine(after[n - 1], lines[n])
       IN  Become(AfterFinish(after[Len(lines)]))
    /\ UNCHANGED <<process, journalVars, disk, calls, faults, attempts, truth, export>>

ReadAny == stage = "any" /\ Next /\ UNCHANGED <<stage, process, journalVars, disk, calls, faults, attempts, truth, export>>

SavedNext ==
    \/ ReadAny
    \/ Enter \/ (\E parent \in 0..(journal.nextScope - 1) : EnterWithParent(parent))
    \/ \E parent \in 0..(journal.nextScope - 1) : EnterUnnamed(parent)
    \/ Record
    \/ \E id \in 0..(MaxScopes - 1), outcome \in {"success"} : Exit(id, outcome)
    \/ \E id \in 0..(MaxScopes - 1) : SetExitMessages(id)
    \/ TrimTo(0)
    \/ ClearJournal \/ SetWriter \/ Export
    \/ ScopeGuard \/ (\E outcome \in {"aborted"} : GuardExit(outcome))
    \/ \E panicking \in BOOLEAN : GuardDrop(panicking)
    \/ Restart
    \/ \E files \in Files : Load(files)

SavedSpec == SavedInit /\ [][SavedNext]_savedVars

-----------------------------------------------------------------------------
(* Properties of what is loaded                                             *)

Loaded == stage \notin {"any", "writing"} /\ phase = "finished"
FromFile == Loaded /\ stage # "export"

HasLine(line) ==
    \E i \in RunIndex(runs, line.run) :
        IF line.type = "scope" THEN \E k \in 1..Len(runs[i].scopes) :
                runs[i].scopes[k].id = line.scope.id /\ line.scope.id \notin runs[i].missing
        ELSE \E k \in 1..Len(runs[i].records) : runs[i].records[k] = RecordOf(line)

(* Nothing is made up: whatever was lost, cut, repeated or joined, in       *)
(* whatever order the files are read and whatever else is in them, each     *)
(* record loaded for a process is one its journal made, each scope has the  *)
(* parent it was given, a scope counts as finished only if its journal      *)
(* closed it; and no line of a journal contradicts another, not even across *)
(* clear.                                                                   *)
OnlyTruth ==
    Loaded => \A p \in 1..Len(RunIds) : \A i \in RunIndex(runs, RunIds[p]) :
        LET saved == runs[i]
            true == truth[p]
        IN  /\ ToSet(saved.records) \subseteq true.records
            /\ \A s \in ToSet(saved.scopes) : s.id \notin saved.missing =>
                  <<s.id, s.parent>> \in true.scopes
            /\ \A id \in Ids(saved) \ Unfinished(saved) :
                  \E r \in true.records : r.scope = id /\ r.exit # None
            /\ \A n \in LinesOf(i) : ~Reported(n)

(* "Malformed, truncated ... entries are skipped individually": a line that *)
(* failed half way costs at most one line that was written after it and     *)
(* acknowledged, the line that continues it, and each loss is reported.     *)
TornConfined ==
    FromFile =>
        LET lost == {k \in 1..Len(attempts) :
                        attempts[k].result = "ok" /\ ~HasLine(attempts[k].line)}
        IN  /\ \A k \in lost : attempts[k].joined
            /\ Cardinality(lost) <= faults
            /\ Cardinality(lost) <= Cardinality({i \in issues : i.kind = "InvalidLine"})

(* An export loads back to what the journal held: the same records, the     *)
(* same scopes, and a placeholder for each scope they name that was trimmed.*)
ExportRecovered ==
    stage = "export" /\ Loaded =>
        LET j       == export.of
            scopes  == Ordered(DOMAIN j.scopes)
            records == Ordered(DOMAIN j.records)
            named   == {j.scopes[id].parent : id \in DOMAIN j.scopes}
                       \cup {j.records[n].scope : n \in DOMAIN j.records}
        IN  IF scopes \o records = <<>> THEN runs = <<>>
            ELSE /\ Len(runs) = 1 /\ runs[1].id = RunIds[export.process]
                 /\ runs[1].records = [k \in 1..Len(records) |-> RecordValue(j, records[k])]
                 /\ SubSeq(runs[1].scopes, 1, Len(scopes))
                      = [k \in 1..Len(scopes) |-> ScopeValue(j, scopes[k])]
                 /\ runs[1].missing = named \ (DOMAIN j.scopes \cup {None})

(* When no write fails, the file has all that a journal with a writer did,  *)
(* in order, though the journal itself trims and clears: every record made  *)
(* under the writer, and the metadata of every scope entered under it or    *)
(* retained when it was set; and an export has all the journal retained.    *)
HistorySaved ==
    /\ ExportRecovered
    /\ stage = "file" /\ Loaded /\ faults = 0 => \A p \in 1..Len(RunIds) :
          /\ truth[p].saved # {} => RunIndex(runs, RunIds[p]) # {}
          /\ \A i \in RunIndex(runs, RunIds[p]) :
                /\ ToSet(runs[i].records) = truth[p].saved
                /\ \A j, k \in 1..Len(runs[i].records) :
                      j < k => runs[i].records[j].id < runs[i].records[k].id
                /\ truth[p].known \cap runs[i].missing = {}
=============================================================================
