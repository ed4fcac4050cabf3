------------------------------- MODULE Runtime -------------------------------
(***************************************************************************)
(* The process-wide runtime of src/src/runtime/mod.rs: application threads *)
(* that enter and exit scopes, emit events, clear the journal, change its  *)
(* retention and reconfigure the output, over one journal, one writer and  *)
(* one configuration, each behind a lock, and a scope stack per thread.    *)
(*                                                                         *)
(* The journal's lock is never held while another lock is taken, so its    *)
(* critical sections are single steps.  The writer's lock is held across   *)
(* steps by clear and by update_writers, which also holds last_cfg; a      *)
(* section that takes the writer's lock for one step is that step.         *)
(*                                                                         *)
(* The model ends where a line is handed to the installed writer, whose    *)
(* answer the runtime ignores.  The writer's bounded queue may drop the    *)
(* line, and what is queued dies with the process (AsyncWriter, Output):   *)
(* the file holds some of the lines of handed, in that order (SinkContract).*)
(***************************************************************************)
EXTENDS Journal, ScopeStack

CONSTANTS
    Threads,
    NoThread,       \* no thread holds the lock
    Formats,        \* outputs a configuration may choose: "off", "text", "jsonl"
    DefaultRetention,  \* DEFAULT_MAX_JOURNAL_RECORDS
    Retentions,     \* values passed to set_journal_retention
    Interval,       \* TRIM_INTERVAL
    MaxScopes,      \* bound: scopes entered in one behaviour
    MaxRecords,     \* bound: record identifiers allocated
    MaxAdmin        \* bound: clear, reconfigure and retention calls

ASSUME ThreadsAssumption  == IsFiniteSet(Threads) /\ NoThread \notin Threads
ASSUME FormatsAssumption  == "off" \in Formats /\ Formats \subseteq {"off", "text", "jsonl"}
ASSUME RuntimeAssumption  ==
    /\ Retentions \subseteq Nat /\ IsFiniteSet(Retentions)   \* values of a usize
    /\ DefaultRetention \in Nat \ {0}
    /\ Interval \in Nat \ {0}
    /\ MaxScopes \in Nat /\ MaxRecords \in Nat /\ MaxAdmin \in Nat

VARIABLES
    journal,      \* Runtime::journal
    stack,        \* SCOPE_STACK of each thread
    pc,           \* where each thread is, with the locals it carries
    emitCount,    \* Runtime::emit_count, modulo TRIM_INTERVAL
    config,       \* Runtime::config: output format and retention
    lastCfg,      \* Runtime::last_cfg, <<>> for None
    cfgLock, writerLock,
    sink,         \* format of the installed writer
    handed,       \* lines handed to the log: to the writer's queue, or written
                  \* by build_writers; over all writers of one path
    admin,        \* clear, reconfigure and retention calls so far
    retention,    \* history: the retention that was set last
    inside        \* history: scopes each thread has entered and not itself left

vars == <<journal, stack, pc, emitCount, config, lastCfg, cfgLock, writerLock,
          sink, handed, admin, retention, inside>>
stackVars  == <<stack, inside>>

configVars == <<config, lastCfg, cfgLock, retention>>

-----------------------------------------------------------------------------
Idle == [at |-> "idle"]

(* A setup may ask for a retention (Some) or leave it (None); zero is raised *)
(* to one, as set_journal_retention does.                                   *)
AtLeastOne(n)          == IF n = 0 THEN 1 ELSE n
Retained(asked, kept)  == IF asked = <<>> THEN kept ELSE AtLeastOne(asked[1])

ScopeLine(id)  == [type |-> "scope", scope |-> id, parent |-> journal.scopes[id].parent]
Line(t, kind, n, scope, snapshot) ==
    [type |-> kind, id |-> n, scope |-> scope, by |-> t, snapshot |-> snapshot]

(* An identifier some enter_scope has returned.                             *)
Returned(id) == id < journal.nextScope /\ \A t \in Threads : pc[t] # [at |-> "publish", id |-> id]

Init ==
    /\ journal = NewJournal
    /\ stack = [t \in Threads |-> <<>>] /\ inside = [t \in Threads |-> {}]
    /\ pc = [t \in Threads |-> Idle]
    /\ emitCount = 0
    /\ config = [format |-> "off", max |-> DefaultRetention]
    /\ retention = DefaultRetention
    /\ lastCfg = <<>> /\ cfgLock = NoThread /\ writerLock = NoThread
    /\ sink = "off" /\ handed = <<>> /\ admin = 0

-----------------------------------------------------------------------------
(* emit: record in the journal, count, perhaps trim, then write.            *)

Emit(t) ==
    /\ pc[t] = Idle /\ journal.nextRecord < MaxRecords
    /\ LET scope == Top(stack[t])
       IN  /\ journal' = RecordEvent(journal, scope)
           /\ pc' = [pc EXCEPT ![t] = [at |-> "count", line |->
                        Line(t, "event", journal.nextRecord, scope, Snapshot(journal, scope))]]
    /\ UNCHANGED <<stackVars, emitCount, configVars, writerLock, sink, handed, admin>>

EmitCount(t) ==
    /\ pc[t].at = "count"
    /\ emitCount' = (emitCount + 1) % Interval
    /\ pc' = [pc EXCEPT ![t].at = IF emitCount = 0 THEN "cap" ELSE "write"]
    /\ UNCHANGED <<journal, stackVars, configVars, writerLock, sink, handed, admin>>

(* The cap is read under config's lock and may be stale once it is used.    *)
EmitCap(t) ==
    /\ pc[t].at = "cap"
    /\ pc' = [pc EXCEPT ![t] = [at |-> "trim", line |-> pc[t].line, max |-> config.max]]
    /\ UNCHANGED <<journal, stackVars, emitCount, configVars, writerLock, sink, handed, admin>>

EmitTrim(t) ==
    /\ pc[t].at = "trim"
    /\ journal' = Trim(journal, pc[t].max)
    /\ pc' = [pc EXCEPT ![t] = [at |-> "write", line |-> pc[t].line]]
    /\ UNCHANGED <<stackVars, emitCount, configVars, writerLock, sink, handed, admin>>

(* The last step of emit and exit_scope: write_record under the writer's    *)
(* lock.                                                                    *)
WriteRecord(t) ==
    /\ pc[t].at = "write" /\ writerLock = NoThread
    /\ handed' = IF sink = "off" THEN handed ELSE Append(handed, pc[t].line)
    /\ pc' = [pc EXCEPT ![t] = Idle]
    /\ UNCHANGED <<journal, stackVars, emitCount, configVars, writerLock, sink, admin>>

-----------------------------------------------------------------------------
(* enter_scope: in the journal and on the stack, then metadata to the sink. *)

Enter(t) ==
    /\ pc[t] = Idle /\ journal.nextScope < MaxScopes
    /\ journal' = EnterScope(journal, Top(stack[t]))
    /\ stack' = [stack EXCEPT ![t] = Append(@, journal.nextScope)]
    /\ inside' = [inside EXCEPT ![t] = @ \cup {journal.nextScope}]
    /\ pc' = [pc EXCEPT ![t] = [at |-> "publish", id |-> journal.nextScope]]
    /\ UNCHANGED <<emitCount, configVars, writerLock, sink, handed, admin>>

PublishScope(t) ==
    /\ pc[t].at = "publish" /\ writerLock = NoThread
    /\ sink = "jsonl" => pc[t].id \in DOMAIN journal.scopes
    /\ handed' = IF sink = "jsonl" THEN Append(handed, ScopeLine(pc[t].id)) ELSE handed
    /\ pc' = [pc EXCEPT ![t] = Idle]
    /\ UNCHANGED <<journal, stackVars, emitCount, configVars, writerLock, sink, admin>>

(* .expect("new scope is retained"): the scope is no longer there.          *)
PublishPanics(t) ==
    /\ pc[t].at = "publish" /\ writerLock = NoThread
    /\ sink = "jsonl" /\ pc[t].id \notin DOMAIN journal.scopes
    /\ pc' = [pc EXCEPT ![t] = [at |-> "panicked"]]
    /\ UNCHANGED <<journal, stackVars, emitCount, configVars, writerLock, sink, handed, admin>>

(* exit_scope, from any thread and any number of times; the outcome makes   *)
(* no difference to the runtime.                                            *)
Exit(t, id) ==
    /\ pc[t] = Idle /\ journal.nextRecord < MaxRecords /\ Returned(id)
    /\ journal' = ExitScope(journal, id, "success")
    /\ stack' = [stack EXCEPT ![t] = Without(@, id)]
    /\ inside' = [inside EXCEPT ![t] = @ \ {id}]
    /\ pc' = IF Open(journal, id)
             THEN [pc EXCEPT ![t] = [at |-> "write", line |->
                        Line(t, "exit", journal.nextRecord, id, "closed")]]
             ELSE pc
    /\ UNCHANGED <<emitCount, configVars, writerLock, sink, handed, admin>>

-----------------------------------------------------------------------------
(* clear: drain the writer, empty the journal, reset the counter and the    *)
(* calling thread's stack, all under the writer's lock.                     *)

ClearStart(t) ==
    /\ pc[t] = Idle /\ admin < MaxAdmin /\ writerLock = NoThread
    /\ admin' = admin + 1
    /\ writerLock' = t
    /\ pc' = [pc EXCEPT ![t] = [at |-> "clear"]]
    /\ UNCHANGED <<journal, stackVars, emitCount, configVars, sink, handed>>

(* Mutant of ClearJournal: last_cfg taken inside the writer's lock.         *)
ClearJournalLocksConfig(t) ==
    /\ pc[t].at = "clear" /\ cfgLock = NoThread
    /\ journal' = Clear(journal)
    /\ pc' = [pc EXCEPT ![t].at = "reset"]
    /\ UNCHANGED <<stackVars, emitCount, configVars, writerLock, sink, handed, admin>>

ClearJournal(t) ==
    /\ pc[t].at = "clear"
    /\ journal' = Clear(journal)
    /\ pc' = [pc EXCEPT ![t].at = "reset"]
    /\ UNCHANGED <<stackVars, emitCount, configVars, writerLock, sink, handed, admin>>

(* Mutant of ClearEnd: the caller's stack is left alone.                    *)
ClearEndKeepsStack(t) ==
    /\ pc[t].at = "reset"
    /\ emitCount' = 0
    /\ inside' = [inside EXCEPT ![t] = {}]
    /\ writerLock' = NoThread
    /\ pc' = [pc EXCEPT ![t] = Idle]
    /\ UNCHANGED <<journal, stack, configVars, sink, handed, admin>>

ClearEnd(t) ==
    /\ pc[t].at = "reset"
    /\ emitCount' = 0
    /\ stack' = [stack EXCEPT ![t] = <<>>]
    /\ inside' = [inside EXCEPT ![t] = {}]
    /\ writerLock' = NoThread
    /\ pc' = [pc EXCEPT ![t] = Idle]
    /\ UNCHANGED <<journal, configVars, sink, handed, admin>>

-----------------------------------------------------------------------------
(* Mutant of SetRetention: last_cfg is not held.                            *)
SetRetentionUnlocked(t, n) ==
    /\ pc[t] = Idle /\ admin < MaxAdmin
    /\ config' = [config EXCEPT !.max = 1] /\ retention' = 1
    /\ lastCfg' = IF lastCfg = <<>> THEN <<>> ELSE <<[lastCfg[1] EXCEPT !.max = 1]>>
    /\ admin' = admin + 1
    /\ UNCHANGED <<journal, stackVars, pc, emitCount, cfgLock, writerLock, sink, handed>>

(* set_journal_retention, under last_cfg; zero is raised to one.            *)
SetRetention(t, n) ==
    /\ pc[t] = Idle /\ admin < MaxAdmin /\ cfgLock = NoThread
    /\ LET max == AtLeastOne(n)
       IN  /\ config' = [config EXCEPT !.max = max]
           /\ lastCfg' = IF lastCfg = <<>> THEN <<>> ELSE <<[lastCfg[1] EXCEPT !.max = max]>>
           /\ retention' = max
    /\ admin' = admin + 1
    /\ UNCHANGED <<journal, stackVars, pc, emitCount, cfgLock, writerLock, sink, handed>>

(* update_writers: a changed copy of the configuration, with the retention  *)
(* if a setup asks for one; nothing to do if it is the one installed last   *)
(* and the caller does not force it.                                        *)
Reconfigure(t, format, asked, force) ==
    /\ pc[t] = Idle /\ admin < MaxAdmin /\ cfgLock = NoThread
    /\ admin' = admin + 1
    /\ LET cfg == [format |-> format, max |-> Retained(asked, config.max)]
       IN  IF ~force /\ lastCfg = <<cfg>>
           THEN UNCHANGED <<pc, cfgLock>>
           ELSE /\ pc' = [pc EXCEPT ![t] = [at |-> "drain", cfg |-> cfg, asked |-> asked]]
                /\ cfgLock' = t
    /\ UNCHANGED <<journal, stackVars, emitCount, config, lastCfg, writerLock, sink, handed, retention>>

Drain(t) ==
    /\ pc[t].at = "drain" /\ writerLock = NoThread
    /\ writerLock' = t
    /\ pc' = [pc EXCEPT ![t].at = "build"]
    /\ UNCHANGED <<journal, stackVars, emitCount, configVars, sink, handed, admin>>

Unseeded == <<>>   \* mutant of Seeds

(* build_writers seeds a JSONL file with the retained scopes, oldest first. *)
Seeds ==
    LET ids == DOMAIN journal.scopes
        Nth(n) == CHOOSE x \in ids : Cardinality({y \in ids : y < x}) = n - 1
    IN  [n \in 1..Cardinality(ids) |-> ScopeLine(Nth(n))]

Build(t) ==
    /\ pc[t].at = "build"
    /\ handed' = IF pc[t].cfg.format = "jsonl" THEN handed \o Seeds ELSE handed
    /\ pc' = [pc EXCEPT ![t].at = "install"]
    /\ UNCHANGED <<journal, stackVars, emitCount, configVars, writerLock, sink, admin>>

(* Opening, seeding or starting the worker fails: what was written stays in *)
(* the file, the previous writer and configuration stay in place.           *)
BuildFails(t) ==
    /\ pc[t].at = "build"
    /\ \E n \in 0..(IF pc[t].cfg.format = "jsonl" THEN Len(Seeds) ELSE 0) :
          handed' = handed \o SubSeq(Seeds, 1, n)
    /\ writerLock' = NoThread /\ cfgLock' = NoThread
    /\ pc' = [pc EXCEPT ![t] = Idle]
    /\ UNCHANGED <<journal, stackVars, emitCount, config, lastCfg, sink, admin, retention>>

Install(t) ==
    /\ pc[t].at = "install"
    /\ sink' = pc[t].cfg.format
    /\ config' = pc[t].cfg
    /\ lastCfg' = <<pc[t].cfg>>
    /\ retention' = Retained(pc[t].asked, retention)
    /\ writerLock' = NoThread /\ cfgLock' = NoThread
    /\ pc' = [pc EXCEPT ![t] = Idle]
    /\ UNCHANGED <<journal, stackVars, emitCount, handed, admin>>

-----------------------------------------------------------------------------
(* The steps of a call that has started.                                    *)
Continue(t) ==
    \/ EmitCount(t) \/ EmitCap(t) \/ EmitTrim(t) \/ WriteRecord(t)
    \/ PublishScope(t) \/ PublishPanics(t)
    \/ ClearJournal(t) \/ ClearEnd(t)
    \/ Drain(t) \/ Build(t) \/ BuildFails(t) \/ Install(t)

Asked == {<<>>} \cup {<<n>> : n \in Retentions}   \* Option<usize>

Call(t) ==
    \/ Emit(t) \/ Enter(t) \/ (\E id \in 0..(MaxScopes - 1) : Exit(t, id))
    \/ ClearStart(t)
    \/ \E n \in Retentions : SetRetention(t, n)
    \/ \E format \in Formats, asked \in Asked, force \in BOOLEAN : Reconfigure(t, format, asked, force)

Next == \E t \in Threads : Call(t) \/ Continue(t)

Spec == Init /\ [][Next]_vars

(* A thread inside a call is scheduled.  The locks are parking_lot mutexes, *)
(* which hand the lock to a waiter eventually: strong fairness.             *)
FairSpec == Spec /\ \A t \in Threads : SF_vars(Continue(t))

-----------------------------------------------------------------------------
(* Properties                                                               *)

ScopeIds  == 0..(MaxScopes - 1)
RecordIds == 0..(MaxRecords - 1)
ScopeRef  == ScopeIds \cup {NoScope}
Caps      == (Retentions \ {0}) \cup {1, DefaultRetention}
Config    == [format : Formats, max : Caps]
Lines     == [type : {"scope"}, scope : ScopeIds, parent : ScopeRef]
             \cup [type : {"event", "exit"}, id : RecordIds, scope : ScopeRef,
                   by : Threads, snapshot : {"open", "closed", "none"}]
Places    == {Idle, [at |-> "panicked"], [at |-> "clear"], [at |-> "reset"]}
             \cup [at : {"count", "cap", "write"}, line : Lines]
             \cup [at : {"trim"}, line : Lines, max : Caps]
             \cup [at : {"publish"}, id : ScopeIds]
             \cup [at : {"drain", "build", "install"}, cfg : Config, asked : Asked]

TypeOK ==
    /\ journal.nextScope \in 0..MaxScopes /\ journal.nextRecord \in 0..MaxRecords
    /\ DOMAIN journal.scopes \subseteq 0..(journal.nextScope - 1)
    /\ \A id \in DOMAIN journal.scopes :
          journal.scopes[id] \in [parent : ScopeRef, open : BOOLEAN, message : {""}]
    /\ DOMAIN journal.records \subseteq 0..(journal.nextRecord - 1)
    /\ \A id \in DOMAIN journal.records :
          journal.records[id] \in [kind : {"event"}, scope : ScopeRef]
              \cup [kind : {"exit"}, scope : ScopeIds, outcome : {"success"}]
    /\ stack \in [Threads -> Seq(ScopeIds)] /\ inside \in [Threads -> SUBSET ScopeIds]
    /\ \A t \in Threads : pc[t] \in Places
    /\ emitCount \in 0..(Interval - 1)
    /\ config \in Config /\ lastCfg \in {<<>>} \cup {<<c>> : c \in Config}
    /\ cfgLock \in Threads \cup {NoThread} /\ writerLock \in Threads \cup {NoThread}
    /\ sink \in Formats /\ handed \in Seq(Lines)
    /\ admin \in 0..MaxAdmin /\ retention \in Caps

HandedScope(id) == \E i \in 1..Len(handed) : handed[i].type = "scope" /\ handed[i].scope = id

(* "Scope metadata is written on entry ... This preserves silent parent and *)
(* child scopes when a process stops before an exit" (docs/jsonl-format.md):*)
(* with a JSONL sink installed, the metadata of every open scope has been   *)
(* handed over, except for a scope whose enter_scope has not returned;      *)
(* whether the sink was there first or seeded later.  What the writer does  *)
(* with it is another matter: metadata "shares the bounded output queue".   *)
OpenScopesHanded ==
    sink = "jsonl" =>
        \A id \in DOMAIN journal.scopes :
            Open(journal, id) /\ Returned(id) => HandedScope(id)

(* What is handed over never gives replay a conflict to report, nor does    *)
(* any part of it that reaches the file: one parent for a scope identifier, *)
(* parents older than their children, one exit for a scope, one record for  *)
(* a record identifier; also when two threads exit a scope at once, and     *)
(* across clear, which leaves the stacks of other threads pointing at       *)
(* scopes the journal has forgotten.                                        *)
NoReplayConflict ==
    /\ \A i, j \in 1..Len(handed) :
          /\ handed[i].type = "scope" /\ handed[i].parent # NoScope => handed[i].parent < handed[i].scope
          /\ i # j /\ handed[i].type = "exit" /\ handed[j].type = "exit" => handed[i].scope # handed[j].scope
          /\ i # j /\ handed[i].type # "scope" /\ handed[j].type # "scope" => handed[i].id # handed[j].id
          /\ handed[i].type = "scope" /\ handed[j].type = "scope" /\ handed[i].scope = handed[j].scope
                => handed[i].parent = handed[j].parent

(* Each thread's records are handed over in the order in which the thread   *)
(* made them, and after a thread's exit of a scope there never is an event  *)
(* of that thread inside that scope; so it is in the file, if lines are     *)
(* dropped too.                                                             *)
ThreadOrder ==
    \A i, j \in 1..Len(handed) :
        i < j /\ handed[i].type # "scope" /\ handed[j].type # "scope" /\ handed[i].by = handed[j].by
        => /\ handed[i].id < handed[j].id
           /\ handed[i].type = "exit" => handed[j].scope # handed[i].scope

(* A thread's current scope is the innermost one it entered and has not     *)
(* itself left, in whatever order it leaves them and whatever other threads *)
(* exit or clear: the parent of its next scope, the scope of its next event.*)
CurrentScope ==
    \A t \in Threads :
        IF inside[t] = {} THEN Top(stack[t]) = NoScope
        ELSE Top(stack[t]) \in inside[t] /\ \A id \in inside[t] : id <= Top(stack[t])

(* Concurrent configuration calls lose no update: outside update_writers    *)
(* the configuration has the retention set last, describes the writer that  *)
(* is installed, and is the one a repeated request is compared with; and    *)
(* every variable is well typed.                                            *)
ConfigAgrees ==
    /\ TypeOK
    /\ cfgLock = NoThread =>
          /\ config.max = retention /\ config.format = sink
          /\ lastCfg # <<>> => lastCfg = <<config>>

(* Every call that starts returns (or, in enter_scope, panics): last_cfg is *)
(* taken before the writer's lock and the journal's lock last.              *)
CallsReturn == \A t \in Threads : pc[t] # Idle ~> pc[t].at \in {"idle", "panicked"}

(* enter_scope asserts "new scope is retained" when it publishes the scope. *)
NewScopeIsRetained == \A t \in Threads : pc[t].at # "panicked"

EventCount == Cardinality({n \in DOMAIN journal.records : journal.records[n].kind = "event"})
LargestCap == CHOOSE r \in Caps : \A q \in Caps : q <= r

(* The events in the journal exceed the configured cap by no more than what *)
(* the threads emit while each of them is between its count and its trim.   *)
Bound         == LargestCap + Cardinality(Threads) * Interval
EventsBounded == EventCount <= Bound

(* "The runtime retains 500 records by default and trims periodically, so   *)
(* record counts can briefly exceed the configured cap" (docs/guide.md):    *)
(* whatever the records are, there never are several intervals of them      *)
(* beyond the cap, with nothing trimmed in all this time.                   *)
SeveralIntervals == 4
RecordsTrimmed   ==
    Cardinality(DOMAIN journal.records) <= Bound + SeveralIntervals * Interval
=============================================================================
