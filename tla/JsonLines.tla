------------------------------ MODULE JsonLines ------------------------------
(***************************************************************************)
(* The JSON lines of docs/jsonl-format.md: how src/src/render.rs writes    *)
(* scopes and records, and what src/src/replay/load.rs makes of a line.  A *)
(* line is the object it holds, with the fields the reader decides on; a   *)
(* scope and a record are as in Replay.  Wording, levels and fields of an  *)
(* event are its body, which both sides carry unchanged.                   *)
(***************************************************************************)
EXTENDS Naturals

CONSTANTS
    None,
    Legacy      \* the run of an unversioned entry

Version == 1                         \* JSONL_FORMAT_VERSION
Garbage == [type |-> "garbage"]      \* text that is not JSON
Header  == [type |-> "header"]       \* == a decorated run header ==

(* render_scope_jsonl, render_jsonl_in_run                                  *)
ScopeLine(run, s) == [version |-> Version, run |-> run, type |-> "scope", scope |-> s]
RecordLine(run, r, s) ==
    [version |-> Version, run |-> run,
     type |-> IF r.exit = None THEN "event" ELSE "scope_exit",
     id |-> r.id, scope_id |-> r.scope, exit |-> r.exit, body |-> r.body, scope |-> s]

-----------------------------------------------------------------------------
(* Reading a line                                                           *)

VersionOf(l) == IF "version" \in DOMAIN l THEN l.version ELSE 0

(* Entry::into_parts, where the embedded scope is the record's              *)
RecordOf(l) == IF l.type = "scope" THEN None
               ELSE [id |-> l.id, scope |-> l.scope_id, exit |-> l.exit, body |-> l.body]

(* Mutant of Unsupported: any version is read as this one.                  *)
NeverUnsupported(l) == FALSE
Unsupported(l) == VersionOf(l) # None /\ VersionOf(l) > Version

Malformed(l) ==
    \/ l = Garbage
    \/ VersionOf(l) = None                                  \* not an integer
    \/ VersionOf(l) # 0 /\ "run" \notin DOMAIN l            \* missing or empty run_id
    \/ l.type \notin {"scope", "event", "scope_exit"}
    \/ l.type = "scope_exit" /\ l.scope_id = None
    \/ l.type # "scope" /\ l.scope # None /\ l.scope.id # l.scope_id

(* The issue read_line reports, or None; an unsupported version is never    *)
(* looked into.                                                             *)
Issue(l) == IF Unsupported(l) THEN "UnsupportedVersion"
            ELSE IF Malformed(l) THEN "InvalidLine" ELSE None

EntryOf(l) == [run |-> IF VersionOf(l) = 0 THEN Legacy ELSE l.run,
               scope |-> l.scope, record |-> RecordOf(l)]
=============================================================================
