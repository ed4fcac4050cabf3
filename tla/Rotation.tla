------------------------------ MODULE Rotation ------------------------------
(***************************************************************************)
(* The size-rotated log file: RotatingFileWriter of                        *)
(* src/src/journal/writer.rs and rotate of src/src/journal/rotation.rs.    *)
(* The directory maps slots to files: slot 0 is the active path, slot n    *)
(* the backup path.n.  The writer holds an open file, which keeps its      *)
(* identity when the directory renames or removes it.  Every file system   *)
(* call is a step that may fail, and the process may crash between any two *)
(* of them and start again.  A record is its ordinal and its length, the   *)
(* newline included.                                                       *)
(***************************************************************************)
EXTENDS Integers, Sequences, FiniteSets

CONSTANTS
    Keeps,        \* values of LogPolicy::keep_backups
    MaxBytes,     \* LogPolicy::max_bytes, 0 for no rotation
    Lengths,      \* lengths of the lines that are written
    HeaderLength, \* length of a run header and its newline
    MaxRecords,   \* bound: records written, those found at the start included
    MaxFaults,    \* bound: failing calls and crashes
    None          \* no file: a free slot, or no file open

ASSUME RotationAssumption ==
    /\ Keeps \subseteq Nat /\ MaxBytes \in Nat /\ Lengths \subseteq Nat \ {0}
    /\ HeaderLength \in Nat \ {0} /\ MaxRecords \in Nat /\ MaxFaults \in Nat
    /\ None \notin Nat
    /\ \A k \in Keeps : k <= MaxRecords   \* the bound counts the records found at the start

VARIABLES
    keep,     \* LogPolicy::keep_backups, fixed at construction
    dir,      \* slot -> file
    files,    \* the files ever created: records, size, bytes outside the limit
    handle,   \* RotatingFileWriter::file
    size,     \* RotatingFileWriter::current_size
    at,       \* the next file system call of the operation in progress
    slot,     \* the slot rotate is about to rename from
    line,     \* length of the record in hand, 0 while constructing
    records,  \* ordinals given out
    acked,    \* ordinals whose write returned Ok
    wrong,    \* of those, the ones that did not go to the active path
    faults

vars == <<keep, dir, files, handle, size, at, slot, line, records, acked, wrong, faults>>

Slots   == 0..keep
Active  == dir[0]
NewFile == [recs |-> <<>>, size |-> 0, free |-> 0]

(* Before the first start: k backups of one record each, oldest highest, and*)
(* an active file of any length left by an earlier run, or none.            *)
Init ==
    /\ keep \in Keeps
    /\ \E k \in 0..keep, left \in {None} \cup Lengths :
          /\ records = k /\ acked = 1..k
          /\ dir = [s \in Slots |-> IF s = 0 THEN IF left = None THEN None ELSE k + 1
                                    ELSE IF s <= k THEN k + 1 - s ELSE None]
          /\ files = [f \in 1..(IF left = None THEN k ELSE k + 1) |->
                         IF f <= k THEN [recs |-> <<f>>, size |-> MaxBytes, free |-> 0]
                                   ELSE [recs |-> <<>>, size |-> left, free |-> left]]
    /\ handle = None /\ size = 0 /\ at = "down" /\ slot = 0 /\ line = 0
    /\ wrong = {} /\ faults = 0

-----------------------------------------------------------------------------
(* rotate                                                                   *)

NoShift   == IF keep = 0 THEN "remove" ELSE "rename"   \* mutant of FirstCall

(* Its first call: remove without backups, else the shift of the oldest.    *)
FirstCall == IF keep = 0 THEN "remove" ELSE IF keep = 1 THEN "rename" ELSE "shift"

StartRotation ==
    /\ at' = FirstCall
    /\ slot' = keep - 1

(* ? on an error: a record in hand is refused, a constructor gives up.      *)
Fail ==
    /\ faults < MaxFaults
    /\ faults' = faults + 1
    /\ at' = IF line = 0 THEN "down" ELSE "ready"
    /\ handle' = IF line = 0 THEN None ELSE handle
    /\ line' = 0

(* Mutant of Move: a copy leaves the file where it was as well.             *)
MoveCopies(from, to) ==
    dir' = IF dir[from] = None THEN dir ELSE [dir EXCEPT ![to] = dir[from]]

Move(from, to) ==
    dir' = IF dir[from] = None THEN dir ELSE [dir EXCEPT ![to] = dir[from], ![from] = None]

Shift ==
    /\ at = "shift"
    /\ Move(slot, slot + 1)
    /\ slot' = slot - 1
    /\ at' = IF slot = 1 THEN "rename" ELSE "shift"
    /\ UNCHANGED <<keep, files, handle, size, line, records, acked, wrong, faults>>

RenameActive ==
    /\ at = "rename"
    /\ Move(0, 1)
    /\ at' = "open"
    /\ UNCHANGED <<keep, files, handle, size, slot, line, records, acked, wrong, faults>>

RemoveActive ==
    /\ at = "remove"
    /\ dir' = [dir EXCEPT ![0] = None]
    /\ at' = "open"
    /\ UNCHANGED <<keep, files, handle, size, slot, line, records, acked, wrong, faults>>

(* A rename or removal of a file that is there fails, or the open does.     *)
CallFails ==
    /\ \/ at = "shift" /\ dir[slot] # None
       \/ at \in {"rename", "remove"} /\ Active # None
       \/ at \in {"open", "metadata"}
    /\ Fail
    /\ UNCHANGED <<keep, dir, files, size, slot, records, acked, wrong>>

(* open(create, append), after rotate_and_reopen or in the constructor.     *)
Open ==
    /\ at = "open"
    /\ IF Active = None
       THEN /\ files' = Append(files, NewFile)
            /\ dir' = [dir EXCEPT ![0] = Len(files) + 1]
            /\ handle' = Len(files) + 1
       ELSE /\ handle' = Active
            /\ UNCHANGED <<files, dir>>
    /\ IF line = 0
       THEN at' = "opened" /\ UNCHANGED size
       ELSE at' = "write" /\ size' = 0
    /\ UNCHANGED <<keep, slot, line, records, acked, wrong, faults>>

-----------------------------------------------------------------------------
(* with_style: the length found decides whether to rotate first.            *)

Start ==
    /\ at = "down"
    /\ at' = "metadata"
    /\ UNCHANGED <<keep, dir, files, handle, size, slot, line, records, acked, wrong, faults>>

Metadata ==
    /\ at = "metadata"
    /\ LET found == IF Active = None THEN 0 ELSE files[Active].size
       IN  IF MaxBytes > 0 /\ found >= MaxBytes /\ Active # None
           THEN StartRotation /\ size' = 0
           ELSE at' = "open" /\ size' = found /\ UNCHANGED slot
    /\ UNCHANGED <<keep, dir, files, handle, line, records, acked, wrong, faults>>

(* write_header, when the caller gives one: not limited by max_bytes.       *)
WriteHeader ==
    /\ at = "opened" /\ at' = "header"
    /\ UNCHANGED <<keep, dir, files, handle, size, slot, line, records, acked, wrong, faults>>

Header == HeaderLength + (IF size > 0 THEN 1 ELSE 0)

HeaderWritten ==
    /\ at = "header"
    /\ size' = size + Header
    /\ files' = [files EXCEPT ![handle].size = @ + Header, ![handle].free = @ + Header]
    /\ at' = "ready"
    /\ UNCHANGED <<keep, dir, handle, slot, line, records, acked, wrong, faults>>

NoHeader ==
    /\ at = "opened" /\ at' = "ready"
    /\ UNCHANGED <<keep, dir, files, handle, size, slot, line, records, acked, wrong, faults>>

(* The process dies wherever it is.                                         *)
Crash ==
    /\ at # "down" /\ faults < MaxFaults
    /\ faults' = faults + 1
    /\ at' = "down" /\ handle' = None /\ line' = 0
    /\ UNCHANGED <<keep, dir, files, size, slot, records, acked, wrong>>

-----------------------------------------------------------------------------
(* write_line                                                               *)

TooLongAlready(length) == MaxBytes > 0 /\ size > MaxBytes   \* mutant of TooLong
TooLong(length) == MaxBytes > 0 /\ size > 0 /\ size + length > MaxBytes

WriteLine(length) ==
    /\ at = "ready" /\ records < MaxRecords
    /\ line' = length
    /\ records' = records + 1
    /\ IF TooLong(length) THEN StartRotation ELSE at' = "write" /\ UNCHANGED slot
    /\ UNCHANGED <<keep, dir, files, handle, size, acked, wrong, faults>>

WriteDone ==
    /\ at = "write"
    /\ files' = [files EXCEPT ![handle].recs = Append(@, records), ![handle].size = @ + line]
    /\ size' = size + line
    /\ acked' = acked \cup {records}
    /\ wrong' = IF handle = Active THEN wrong ELSE wrong \cup {records}
    /\ at' = "ready" /\ line' = 0
    /\ UNCHANGED <<keep, dir, handle, slot, records, faults>>

(* write_all fails after part of the line, or of the header: the bytes stay *)
(* in the file and current_size does not know of them.                      *)
WriteFails ==
    /\ at \in {"write", "header"} /\ Fail
    /\ \E part \in 0..((IF at = "write" THEN line ELSE Header) - 1) :
          files' = [files EXCEPT ![handle].size = @ + part, ![handle].free = @ + part]
    /\ UNCHANGED <<keep, dir, size, slot, records, acked, wrong>>

Next ==
    \/ Start \/ Metadata \/ WriteHeader \/ HeaderWritten \/ NoHeader \/ Open
    \/ \E length \in Lengths : WriteLine(length)
    \/ WriteDone \/ WriteFails
    \/ Shift \/ RenameActive \/ RemoveActive \/ CallFails
    \/ Crash

Spec == Init /\ [][Next]_vars

-----------------------------------------------------------------------------
(* Properties                                                               *)

FileIds == 1..Len(files)

TypeOK ==
    /\ keep \in Keeps
    /\ dir \in [Slots -> FileIds \cup {None}]
    /\ files \in Seq([recs : Seq(1..MaxRecords), size : Nat, free : Nat])
    /\ handle \in FileIds \cup {None} /\ size \in Nat
    /\ at \in {"down", "metadata", "shift", "rename", "remove", "open", "opened",
               "header", "ready", "write"}
    /\ (at \in {"ready", "write", "opened", "header"} => handle # None)
    /\ slot \in Int /\ (at = "shift" => slot \in 1..(keep - 1))
    /\ line \in Lengths \cup {0}
    /\ records \in 0..MaxRecords /\ acked \subseteq 1..records /\ wrong \subseteq acked
    /\ faults \in 0..MaxFaults

In(s)    == IF dir[s] = None THEN {} ELSE {files[dir[s]].recs[i] : i \in 1..Len(files[dir[s]].recs)}
Named    == UNION {In(s) : s \in Slots}

(* What rotation gives up is always the oldest: no acknowledged record is   *)
(* missing from the directory while an older one is still there.            *)
NewestSurvive == \A r \in Named, q \in acked : r < q => q \in Named

(* Reading the backups oldest first and then the active file, as            *)
(* load_jsonl_files is told to, gives the records in the order in which they*)
(* were written, each once, and leaves out none but the oldest: after any   *)
(* failed or interrupted rotation; and every variable is well typed.        *)
OldestFirst ==
    /\ TypeOK /\ NewestSurvive
    /\ \A s, u \in Slots : s < u => \A r \in In(s), q \in In(u) : q < r
    /\ \A f \in FileIds : \A i, j \in 1..Len(files[f].recs) :
          i < j => files[f].recs[i] < files[f].recs[j]

(* "Rotation is triggered automatically before a record is written that     *)
(* would push the file past max_bytes": a file is within the limit unless   *)
(* one line alone exceeds it, headers and torn lines aside.                 *)
SizeLimited ==
    MaxBytes > 0 => \A f \in FileIds :
        files[f].size - files[f].free <= MaxBytes \/ Len(files[f].recs) <= 1

(* "The oldest backup beyond keep_backups is silently dropped": as long as  *)
(* no call has failed, a backup disappears only when every slot is taken.   *)
(* (After a failure the repeated rotation shifts the backups again, and the *)
(* oldest is overwritten although a slot is free.)                          *)
DropsBackup == \E s \in 1..keep : dir[s] # None /\ \A u \in Slots : dir'[u] # dir[s]
Full        == \A s \in Slots : dir[s] # None
FaultlessDropsBeyondLimit == [][faults = 0 /\ DropsBackup => Full]_vars

(* "Other removal or rename failures are returned to the caller so rotation *)
(* cannot silently append to the wrong file": a write that returned Ok went *)
(* to the file at the configured path.                                      *)
WritesReachActive == wrong = {}
=============================================================================
