-------------------------------- MODULE Output --------------------------------
(***************************************************************************)
(* From a log call to the sinks: the thresholds of                         *)
(* src/src/runtime/log_level.rs, the configuration and its changes         *)
(* (src/src/configure.rs, update_writers in src/src/runtime/mod.rs), the   *)
(* sinks behind their filters in a MultiWriter, and the diagnostics, with  *)
(* application threads, the worker and sinks that fail.                    *)
(*                                                                         *)
(* The journal and what its records say are Runtime's subject, the queue's *)
(* other failures AsyncWriter's, the steps of a rotation Rotation's.  Here *)
(* a call on the writer has a ticket, the order in which the writer's lock *)
(* was taken, and a file is the tickets of its lines.                      *)
(***************************************************************************)
EXTENDS Naturals, Sequences, FiniteSets, Functions

CONSTANTS
    Threads,
    NoThread,     \* no thread holds the lock
    None,         \* Option::None
    Kinds,        \* levels of the events logged
    Thresholds,   \* levels passed to the set_ functions
    Setups,       \* arguments of setup
    Capacity,     \* WRITER_QUEUE_CAP
    MaxTickets,   \* bound: calls on the writer
    MaxLines,     \* bound: lines among them, of events, scopes and exits
    MaxUpdates,   \* bound: changes of the configuration or the record level
    MaxFaults     \* bound: operations of the sinks that fail

Debug == 0
Info  == 1
Off   == 4

ASSUME OutputAssumption ==
    /\ IsFiniteSet(Threads) /\ NoThread \notin Threads
    /\ Kinds \subseteq Debug..(Off - 1) /\ Thresholds \subseteq Debug..Off
    /\ Setups \subseteq [verbose : BOOLEAN, level : Debug..Off \cup {None},
                        consoleLevel : Debug..Off \cup {None}, fileLevel : Debug..Off \cup {None},
                        file : {"none", "off", "plain", "jsonl", "rotating"}, header : BOOLEAN]
    /\ Capacity \in Nat \ {0} /\ {MaxTickets, MaxLines, MaxUpdates, MaxFaults} \subseteq Nat

VARIABLES
    recordLevel, logLevel,   \* RECORD_LEVEL, LOG_LEVEL
    config,      \* Runtime::config, without layout and retention
    lastCfg,     \* Runtime::last_cfg, None before the first installation
    writer,      \* what the installed writer was built from, None for NoopWriter
    cfgLock, writerLock,
    pc,          \* where each thread is, with the locals it carries
    queue,       \* the writer's channel
    pending,     \* its worker's first unreported failure, or None
    health,      \* WriterState
    console, files, handle,   \* what the sinks hold; the file the file sink has open
    updates, faults,
    calls,       \* history: each ticket's call, the sinks it is due at, its fate
    failures,    \* history: every operation that failed, in order
    wanted, recorded,         \* history: records asked for, and made
    drained, clearedAt,       \* history: tickets of the last flush of any kind, and clear
    told         \* history: the last answer of flush()

levelVars == <<recordLevel, logLevel>>
cfgVars   == <<config, lastCfg, writer>>
sinkVars  == <<console, files, handle>>
countVars == <<wanted, recorded>>
vars == <<levelVars, cfgVars, cfgLock, writerLock, pc, queue, pending, health, sinkVars,
          updates, faults, calls, failures, countVars, drained, clearedAt, told>>

Sinks == {"console", "file"}
FileNames == {"active", "backup", "gone"}
Idle  == [at |-> "idle"]

-----------------------------------------------------------------------------
(* The configuration                                                        *)

DefaultConfig ==
    [console |-> TRUE, consoleLevel |-> Info, exits |-> TRUE,
     file |-> "off", fileLevel |-> Debug, jsonl |-> FALSE, mode |-> "bestEffort"]

EnableConsole(on)  == [config EXCEPT !.console = on]
SetConsoleLevel(l) == [config EXCEPT !.consoleLevel = l]
ShowExits(on)      == [config EXCEPT !.exits = on]
SetFileLevel(l)    == [config EXCEPT !.fileLevel = l]
SetFormat(jsonl)   == [config EXCEPT !.jsonl = jsonl]
SetMode(mode)      == [config EXCEPT !.mode = mode]
EnableFile(jsonl)  == [config EXCEPT !.file = "plain", !.jsonl = jsonl]
EnableRotating     == [config EXCEPT !.file = "rotating"]
DisableFile        == [config EXCEPT !.file = "off"]
DisableAll         == [config EXCEPT !.file = "off", !.console = FALSE]

(* setup: each sink's level, or the shared one, or what verbose implies; a  *)
(* rotating file keeps the format.                                          *)
ApplySetup(s) ==
    LET Or(l, other) == IF l = None THEN other ELSE l
        shared == Or(s.level, IF s.verbose THEN Debug ELSE Info)
    IN  [config EXCEPT !.console = s.verbose,
                       !.consoleLevel = Or(s.consoleLevel, shared),
                       !.fileLevel = Or(s.fileLevel, shared),
                       !.file  = CASE s.file = "none" -> @ [] s.file = "jsonl" -> "plain"
                                   [] OTHER -> s.file,
                       !.jsonl = IF s.file \in {"plain", "jsonl"} THEN s.file = "jsonl" ELSE @]

Installed(cfg) == {s \in Sinks : IF s = "console" THEN cfg.console ELSE cfg.file # "off"}
Level(cfg, s)  == IF s = "console" THEN cfg.consoleLevel ELSE cfg.fileLevel

(* Mutant of EffectiveLevel: a sink that is off counts.                     *)
EffectiveOfAll(cfg) ==
    CHOOSE l \in {cfg.consoleLevel, cfg.fileLevel} : l <= cfg.consoleLevel /\ l <= cfg.fileLevel
EffectiveLevel(cfg) ==
    LET levels == {Off} \cup {Level(cfg, s) : s \in Installed(cfg)}
    IN  CHOOSE l \in levels : \A other \in levels : l <= other

-----------------------------------------------------------------------------
(* Sinks                                                                    *)

(* FilteredWriter: events are compared, scopes and their exits pass.        *)
Passes(cfg, s, line) == line.type = "event" => line.level >= Level(cfg, s)

(* What StdoutWriter and the file writers make of it.                       *)
Writes(cfg, s, line) ==
    CASE line.type = "event" -> TRUE
      [] line.type = "exit"  -> s = "file" \/ cfg.exits
      [] line.type = "scope" -> s = "file" /\ cfg.jsonl

Attempted(cfg, line) == {s \in Installed(cfg) : Passes(cfg, s, line) /\ Writes(cfg, s, line)}

(* MultiWriter: the sinks that get a line when some of them fail.           *)
(* Mutant of Reached: the console comes first, and the loop ends there.     *)
ReachedUntilFailure(sinks, failing) == IF "console" \in failing THEN {} ELSE sinks \ failing
Reached(sinks, failing) == sinks \ failing

(* Its result.  Mutant: the result of the last sink.                        *)
LastResult(sinks, failing) == IF "file" \in sinks THEN "file" \notin failing ELSE failing = {}
Succeeds(sinks, failing)   == failing = {}

WantsScopes == writer # None /\ "file" \in Installed(writer) /\ writer.jsonl

Wrote(where, ticket) == [files EXCEPT ![where] = Append(@, ticket)]

-----------------------------------------------------------------------------
(* Diagnostics                                                              *)

NoFailures == [dropped |-> 0, failed |-> 0, last |-> None]
RecordError(h, failure) == [h EXCEPT !.failed = @ + 1, !.last = failure]
DropRecord(h) == [h EXCEPT !.dropped = @ + 1]

Failure(what, ticket, sinks) == [what |-> what, ticket |-> ticket, sinks |-> sinks]

(* An operation that fails is in the diagnostics when it returns.           *)
Fails(failure) ==
    /\ faults < MaxFaults /\ faults' = faults + 1
    /\ failures' = Append(failures, failure)
    /\ health' = RecordError(health, failure)
NothingFails == UNCHANGED <<faults, failures, health>>

-----------------------------------------------------------------------------
Init ==
    /\ recordLevel = Debug /\ logLevel = Info
    /\ config = DefaultConfig /\ lastCfg = None /\ writer = None
    /\ cfgLock = NoThread /\ writerLock = NoThread
    /\ pc = [t \in Threads |-> Idle]
    /\ queue = <<>> /\ pending = None /\ health = NoFailures
    /\ console = <<>> /\ files = [f \in FileNames |-> <<>>] /\ handle = None
    /\ updates = 0 /\ faults = 0
    /\ calls = <<>> /\ failures = <<>> /\ wanted = 0 /\ recorded = 0
    /\ drained = 0 /\ clearedAt = 0 /\ told = None

(* A call on the writer takes its lock and a ticket.                        *)
Ticket == Len(calls) + 1
Take(call, due, fate) ==
    /\ writerLock = NoThread /\ Len(calls) < MaxTickets
    /\ calls' = Append(calls, [call |-> call, due |-> due, fate |-> fate])

-----------------------------------------------------------------------------
(* The application: record in the journal, then write.                      *)

Lines == Cardinality({t \in Threads : pc[t].at = "write"})
         + Cardinality({n \in 1..Len(calls) : calls[n].call \in {"event", "exit", "scope"}})

MayWrite == Lines < MaxLines /\ Len(calls) < MaxTickets

(* Mutant of RecordingEnabled: the output's threshold decides.              *)
OutputEnabled(kind) == kind >= logLevel
RecordingEnabled(kind) == kind >= recordLevel

ToWrite(t, type, level) ==
    pc' = [pc EXCEPT ![t] = [at |-> "write", line |-> [type |-> type, level |-> level]]]

Undisturbed == UNCHANGED <<levelVars, cfgVars, cfgLock, writerLock, queue, pending, health, sinkVars,
                           updates, faults, calls, failures, drained, clearedAt, told>>

Emit(t, kind) == recorded' = recorded + 1 /\ ToWrite(t, "event", kind)

(* debug!, info!, warn!, error!                                             *)
Log(t, kind) ==
    /\ pc[t] = Idle /\ MayWrite
    /\ wanted' = wanted + (IF kind >= recordLevel THEN 1 ELSE 0)
    /\ IF RecordingEnabled(kind) THEN Emit(t, kind) ELSE UNCHANGED <<recorded, pc>>
    /\ Undisturbed

(* The log and tracing adapters call emit, whatever the recording threshold.*)
LogExternal(t, kind) ==
    /\ pc[t] = Idle /\ MayWrite
    /\ wanted' = wanted + 1
    /\ Emit(t, kind)
    /\ Undisturbed

ExitScope(t) ==
    /\ pc[t] = Idle /\ MayWrite
    /\ wanted' = wanted + 1 /\ recorded' = recorded + 1
    /\ ToWrite(t, "exit", None)
    /\ Undisturbed

EnterScope(t) ==
    /\ pc[t] = Idle /\ MayWrite
    /\ ToWrite(t, "scope", None)
    /\ UNCHANGED countVars /\ Undisturbed

(* History: the sinks a line is due at, whatever becomes of it.             *)
Due(line) ==
    IF writer = None THEN {}
    ELSE {s \in Sinks :
            /\ s = "console" => writer.console /\ (line.type = "exit" => writer.exits)
            /\ s = "file" => writer.file # "off" /\ (line.type = "scope" => writer.jsonl)
            /\ line.type = "event" => line.level >= Level(writer, s)
            /\ line.type = "scope" => s = "file"}

(* The writer's half: nothing to do for the NoopWriter and for metadata no  *)
(* sink wants; a full queue blocks the caller, which holds the lock, or     *)
(* drops the line.                                                          *)
Skip(t) ==
    /\ writer = None \/ (pc[t].line.type = "scope" /\ ~WantsScopes)
    /\ Take(pc[t].line.type, {}, "skipped")
    /\ UNCHANGED <<queue, health>>
Enqueue(t) ==
    /\ writer # None /\ (pc[t].line.type = "scope" => WantsScopes)
    /\ Len(queue) < Capacity
    /\ Take(pc[t].line.type, Due(pc[t].line), "queued")
    /\ queue' = Append(queue, [ticket |-> Ticket, line |-> pc[t].line])
    /\ UNCHANGED health
DropLine(t) ==
    /\ writer # None /\ (pc[t].line.type = "scope" => WantsScopes)
    /\ Len(queue) = Capacity /\ writer.mode = "bestEffort"
    /\ Take(pc[t].line.type, {}, "dropped")
    /\ health' = DropRecord(health)
    /\ UNCHANGED queue

WriteLine(t) ==
    /\ pc[t].at = "write"
    /\ Skip(t) \/ Enqueue(t) \/ DropLine(t)
    /\ pc' = [pc EXCEPT ![t] = Idle]
    /\ UNCHANGED <<levelVars, cfgVars, cfgLock, writerLock, pending, sinkVars,
                   updates, faults, failures, countVars, drained, clearedAt, told>>

-----------------------------------------------------------------------------
(* The worker writes the oldest line to every sink that takes it.           *)

Settle ==
    /\ queue # <<>>
    /\ LET n     == Head(queue).ticket
           sinks == Attempted(writer, Head(queue).line)
       IN  \E failing \in SUBSET sinks :
              LET reached == Reached(sinks, failing)
                  failure == Failure("write", n, failing)
              IN  /\ failing # {} => faults < MaxFaults
                  /\ faults' = faults + (IF failing = {} THEN 0 ELSE 1)
                  /\ failures' = IF failing = {} THEN failures ELSE Append(failures, failure)
                  /\ health' = IF Succeeds(sinks, failing) THEN health ELSE RecordError(health, failure)
                  /\ pending' = IF pending = None /\ ~Succeeds(sinks, failing)
                                THEN failure ELSE pending
                  /\ console' = IF "console" \in reached THEN Append(console, n) ELSE console
                  /\ files' = IF "file" \in reached THEN Wrote(handle, n) ELSE files
                  /\ calls' = [calls EXCEPT ![n].fate =
                                  IF "file" \in reached /\ handle # "active" THEN "astray" ELSE "settled"]
    /\ queue' = Tail(queue)
    /\ UNCHANGED <<levelVars, cfgVars, cfgLock, writerLock, pc, handle, updates,
                   countVars, drained, clearedAt, told>>

(* A flush is answered once everything before it is settled.                *)
(* Mutant of Drained: nobody waits.                                         *)
NeverDrained == TRUE
Drained == queue = <<>>

(* The worker flushes the sinks and answers with the pending failure first. *)
(* Only the console's flush does anything.                                  *)
FlushSinks(n, answer(_)) ==
    /\ Drained
    /\ pending' = None
    /\ drained' = n
    /\ \/ NothingFails /\ answer(pending)
       \/ /\ writer # None /\ "console" \in Installed(writer)
          /\ LET failure == Failure("flush", n, {"console"})
             IN  Fails(failure) /\ answer(IF pending = None THEN failure ELSE pending)

Flush(t) ==
    /\ pc[t] = Idle
    /\ Take("flush", {}, "done")
    /\ writerLock' = t /\ pc' = [pc EXCEPT ![t] = [at |-> "flush", ticket |-> Ticket]]
    /\ UNCHANGED <<levelVars, cfgVars, cfgLock, queue, pending, health, sinkVars, updates,
                   faults, failures, countVars, drained, clearedAt, told>>

FlushAnswered(t) ==
    /\ pc[t].at = "flush"
    /\ FlushSinks(pc[t].ticket,
          LAMBDA result : told' = [since |-> drained, ticket |-> pc[t].ticket, result |-> result])
    /\ writerLock' = NoThread /\ pc' = [pc EXCEPT ![t] = Idle]
    /\ UNCHANGED <<levelVars, cfgVars, cfgLock, queue, sinkVars, updates, calls, countVars, clearedAt>>

-----------------------------------------------------------------------------
(* clear, where Runtime has the journal's part: the answer of the flush is  *)
(* ignored, then the diagnostics are reset.                                 *)

ClearStart(t) ==
    /\ pc[t] = Idle
    /\ Take("clear", {}, "done")
    /\ writerLock' = t /\ pc' = [pc EXCEPT ![t] = [at |-> "clear", ticket |-> Ticket]]
    /\ UNCHANGED <<levelVars, cfgVars, cfgLock, queue, pending, health, sinkVars, updates,
                   faults, failures, countVars, drained, clearedAt, told>>

ClearFlushed(t) ==
    /\ pc[t].at = "clear"
    /\ FlushSinks(pc[t].ticket, LAMBDA ignored : TRUE)
    /\ pc' = [pc EXCEPT ![t].at = "reset"]
    /\ UNCHANGED <<levelVars, cfgVars, cfgLock, writerLock, queue, sinkVars, updates, calls,
                   countVars, clearedAt, told>>

ClearEnd(t) ==
    /\ pc[t].at = "reset"
    /\ health' = NoFailures /\ clearedAt' = pc[t].ticket
    /\ writerLock' = NoThread /\ pc' = [pc EXCEPT ![t] = Idle]
    /\ UNCHANGED <<levelVars, cfgVars, cfgLock, queue, pending, sinkVars, updates, faults,
                   calls, failures, countVars, drained, told>>

-----------------------------------------------------------------------------
(* update_writers                                                           *)

Update(t, cfg, header, force) ==
    /\ pc[t] = Idle /\ cfgLock = NoThread
    /\ updates < MaxUpdates /\ updates' = updates + 1
    /\ IF ~force /\ lastCfg = cfg THEN UNCHANGED <<pc, cfgLock>>
       ELSE /\ cfgLock' = t
            /\ pc' = [pc EXCEPT ![t] = [at |-> "update", cfg |-> cfg, header |-> header]]
    /\ UNCHANGED <<levelVars, cfgVars, writerLock, queue, pending, health, sinkVars, faults,
                   calls, failures, countVars, drained, clearedAt, told>>

UpdateStart(t) ==
    /\ pc[t].at = "update"
    /\ Take("update", {}, "done")
    /\ writerLock' = t
    /\ pc' = [pc EXCEPT ![t] = [at |-> "drain", cfg |-> pc[t].cfg, header |-> pc[t].header,
                                ticket |-> Ticket]]
    /\ UNCHANGED <<levelVars, cfgVars, cfgLock, queue, pending, health, sinkVars, updates,
                   faults, failures, countVars, drained, clearedAt, told>>

UpdateFlushed(t) ==
    /\ pc[t].at = "drain"
    /\ FlushSinks(pc[t].ticket, LAMBDA ignored : TRUE)
    /\ pc' = [pc EXCEPT ![t] = [at |-> "open", cfg |-> pc[t].cfg, header |-> pc[t].header,
                                ticket |-> pc[t].ticket]]
    /\ UNCHANGED <<levelVars, cfgVars, cfgLock, writerLock, queue, sinkVars, updates, calls,
                   countVars, clearedAt, told>>

(* Opening a rotating file moves a file that is too large, which the        *)
(* installed sink may have open; one backup is kept.                        *)
Moved(where) == CASE where = "active" -> "backup" [] where = None -> None [] OTHER -> "gone"
Rotate == /\ files' = [files EXCEPT !["active"] = <<>>, !["backup"] = files["active"],
                                    !["gone"] = @ \o files["backup"]]
          /\ handle' = Moved(handle)

BuildOpen(t) ==
    /\ pc[t].at = "open"
    /\ \/ UNCHANGED <<files, handle>>
       \/ pc[t].cfg.file = "rotating" /\ files["active"] # <<>> /\ Rotate
    /\ pc' = [pc EXCEPT ![t] = [pc[t] EXCEPT !.at = "header"]]
    /\ UNCHANGED <<levelVars, cfgVars, cfgLock, writerLock, queue, pending, health, console,
                   updates, faults, calls, failures, countVars, drained, clearedAt, told>>

BuildHeader(t) ==
    /\ pc[t].at = "header"
    /\ files' = IF pc[t].header /\ pc[t].cfg.file = "rotating"
                THEN Wrote("active", pc[t].ticket) ELSE files
    /\ pc' = [pc EXCEPT ![t] = [pc[t] EXCEPT !.at = "install"]]
    /\ UNCHANGED <<levelVars, cfgVars, cfgLock, writerLock, queue, pending, health, console, handle,
                   updates, faults, calls, failures, countVars, drained, clearedAt, told>>

Unlock(t) == cfgLock' = NoThread /\ writerLock' = NoThread /\ pc' = [pc EXCEPT ![t] = Idle]

(* Opening, the header or starting the worker fails: the previous writer    *)
(* stays, and the request may be repeated.                                  *)
BuildFails(t) ==
    /\ pc[t].at \in {"open", "header", "install"}
    /\ Fails(Failure("setup", pc[t].ticket, {}))
    /\ Unlock(t)
    /\ UNCHANGED <<levelVars, cfgVars, queue, pending, sinkVars, updates, calls, countVars,
                   drained, clearedAt, told>>

(* The new writer takes the place of the old one, whose worker writes what  *)
(* is left, flushes once more and ends.                                     *)
Install(t) ==
    /\ pc[t].at = "install" /\ queue = <<>>
    /\ \/ NothingFails
       \/ writer # None /\ "console" \in Installed(writer)
          /\ Fails(Failure("shutdown", pc[t].ticket, {"console"}))
    /\ writer' = pc[t].cfg /\ config' = pc[t].cfg /\ lastCfg' = pc[t].cfg
    /\ logLevel' = EffectiveLevel(pc[t].cfg)
    /\ handle' = IF pc[t].cfg.file = "off" THEN None ELSE "active"
    /\ Unlock(t)
    /\ UNCHANGED <<recordLevel, queue, pending, console, files, updates, calls, countVars,
                   drained, clearedAt, told>>

SetRecordLevel(l) ==
    /\ updates < MaxUpdates /\ updates' = updates + 1
    /\ recordLevel' = l
    /\ UNCHANGED <<logLevel, cfgVars, cfgLock, writerLock, pc, queue, pending, health, sinkVars,
                   faults, calls, failures, countVars, drained, clearedAt, told>>

-----------------------------------------------------------------------------
Reconfigure(t) ==
    \/ Update(t, config, FALSE, FALSE)          \* init
    \/ \E on \in BOOLEAN :
          \/ Update(t, EnableConsole(on), FALSE, FALSE) \/ Update(t, ShowExits(on), FALSE, FALSE)
          \/ Update(t, SetFormat(on), FALSE, FALSE) \/ Update(t, EnableFile(on), FALSE, TRUE)
          \/ Update(t, EnableRotating, on, TRUE)
    \/ \E l \in Thresholds :
          Update(t, SetConsoleLevel(l), FALSE, FALSE) \/ Update(t, SetFileLevel(l), FALSE, FALSE)
    \/ \E mode \in {"bestEffort", "blocking"} : Update(t, SetMode(mode), FALSE, FALSE)
    \/ Update(t, DisableFile, FALSE, FALSE) \/ Update(t, DisableAll, FALSE, FALSE)
    \/ \E s \in Setups : Update(t, ApplySetup(s), s.header, s.file \notin {"none", "off"})

Continue(t) ==
    \/ WriteLine(t) \/ FlushAnswered(t) \/ ClearFlushed(t) \/ ClearEnd(t)
    \/ UpdateStart(t) \/ UpdateFlushed(t) \/ BuildOpen(t) \/ BuildHeader(t) \/ BuildFails(t)
    \/ Install(t)

Next ==
    \/ \E t \in Threads :
          \/ (\E kind \in Kinds : Log(t, kind) \/ LogExternal(t, kind))
          \/ EnterScope(t) \/ ExitScope(t)
          \/ Flush(t) \/ ClearStart(t) \/ Reconfigure(t) \/ Continue(t)
    \/ Settle
    \/ \E l \in Thresholds : SetRecordLevel(l)

Spec == Init /\ [][Next]_vars

-----------------------------------------------------------------------------
(* Properties                                                               *)

Tickets == 1..Len(calls)
Sorted(seq) == \A i, j \in 1..Len(seq) : i < j => seq[i] < seq[j]
Records == {"event", "exit"}

Configs == [console : BOOLEAN, consoleLevel : Debug..Off, exits : BOOLEAN,
            file : {"off", "plain", "rotating"}, fileLevel : Debug..Off, jsonl : BOOLEAN,
            mode : {"bestEffort", "blocking"}]
FailureType(tickets) ==
    [what : {"write", "flush", "setup", "shutdown"}, ticket : tickets, sinks : SUBSET Sinks]
AnswerType == [since : Nat, ticket : Nat, result : FailureType(Nat) \cup {None}]
LineType == [type : {"event"}, level : Kinds] \cup [type : {"exit", "scope"}, level : {None}]
At(t) == pc[t].at

ASSUME NoneAssumption ==   \* Option::None is none of the values
    /\ None \notin Configs /\ None \notin FailureType(Nat) /\ None \notin AnswerType
    /\ None \notin FileNames

TypeOK ==
    /\ recordLevel \in Debug..Off /\ logLevel \in Debug..Off
    /\ config \in Configs /\ lastCfg \in Configs \cup {None} /\ writer \in Configs \cup {None}
    /\ cfgLock \in Threads \cup {NoThread} /\ writerLock \in Threads \cup {NoThread}
    /\ \A t \in Threads :
          /\ At(t) = "write" => pc[t].line \in LineType
          /\ At(t) \in {"update", "drain", "open", "header", "install"} =>
                cfgLock = t /\ pc[t].cfg \in Configs
          /\ At(t) \in {"flush", "clear", "reset", "drain", "open", "header", "install"} <=> writerLock = t
    /\ Len(queue) <= Capacity /\ pending \in FailureType(Tickets) \cup {None}
    /\ Range(failures) \subseteq FailureType(Tickets)
    /\ \A s \in {console, files["active"], files["backup"], files["gone"]} : Range(s) \subseteq Tickets
    /\ handle = None <=> "file" \notin (IF writer = None THEN {} ELSE Installed(writer))

(* "Sink filtering must not decide whether an event lands in the journal":  *)
(* every event asked for at the recording threshold or above it is recorded,*)
(* and every record has one fate: a thread is about to write it, it is in   *)
(* the queue, settled, or dropped and counted as such.                      *)
Accounted ==
    /\ wanted = recorded
    /\ recorded = Cardinality({t \in Threads : At(t) = "write" /\ pc[t].line.type \in Records})
                  + Cardinality({n \in Tickets : calls[n].call \in Records})
    /\ \A n \in Tickets : calls[n].fate = "queued" <=> \E i \in 1..Len(queue) : queue[i].ticket = n
    /\ health.dropped = Cardinality({n \in Tickets : n > clearedAt /\ calls[n].fate = "dropped"})

(* "Multiple sinks are all attempted even when one fails": a settled line   *)
(* is in exactly those sinks at which it was due when it was handed over    *)
(* and whose own write did not fail, whatever failed beside them and        *)
(* whatever was reconfigured since.                                         *)
FailedAt(n, s) == \E i \in 1..Len(failures) :
    failures[i].what = "write" /\ failures[i].ticket = n /\ s \in failures[i].sinks
InFile(n) == \E f \in FileNames : n \in Range(files[f])
SinksExact ==
    \A n \in Tickets : calls[n].call \in Records \cup {"scope"} =>
        LET sinks == {s \in calls[n].due : calls[n].fate # "queued" /\ ~FailedAt(n, s)}
        IN  /\ "console" \in sinks <=> n \in Range(console)
            /\ "file" \in sinks <=> InFile(n)

(* The diagnostics are those of what happened since the last clear: no      *)
(* failure is missing from them, though a reconfiguration and clear take    *)
(* the pending one away without telling anyone, and none from before the    *)
(* clear turns up after it.                                                 *)
DiagnosticsExact ==
    writerLock = NoThread =>
        LET since == {i \in 1..Len(failures) : failures[i].ticket > clearedAt}
        IN  /\ health.failed = Cardinality(since)
            /\ IF since = {} THEN health.last = None
               ELSE \E i \in since : health.last = failures[i] /\ \A j \in since : j <= i

(* flush() returns the first failure since the writer was last flushed, by  *)
(* a flush or by a clear or a configuration that kept the answer, and only  *)
(* then: success means that all that was handed over since reached its sinks*)
(* or was dropped.                                                          *)
FlushTells ==
    told # None =>
        LET since == {i \in 1..Len(failures) : failures[i].ticket \in (told.since + 1)..told.ticket}
        IN  /\ IF since = {} THEN told.result = None
               ELSE \E i \in since : told.result = failures[i] /\ \A j \in since : i <= j
            /\ \A n \in (told.since + 1)..told.ticket : calls[n].fate # "queued"

(* level_enabled says what the sinks do: outside update_writers, and from   *)
(* the first installation on, it lets a level through if and only if some   *)
(* installed sink would show an event of that level, though configurations  *)
(* failed or raced; and every variable is well typed, a lock held by the    *)
(* thread that is where it holds it.                                        *)
LevelAgrees ==
    /\ TypeOK
    /\ writer # None => \A kind \in Debug..(Off - 1) :
          OutputEnabled(kind) <=>
              \/ writer.console /\ kind >= writer.consoleLevel
              \/ writer.file # "off" /\ kind >= writer.fileLevel

(* "Queued output is drained before rotation or header insertion": over the *)
(* backup and the active file lines and headers stand in the order in which *)
(* they were handed over, across configurations that fail and that succeed; *)
(* except what the installed sink writes after a failed configuration has   *)
(* moved its file away, and until the next one succeeds.                    *)
Astray(n) == calls[n].fate = "astray"
FilesInOrder ==
    /\ Sorted(console) /\ \A f \in {"active", "backup"} : Sorted(files[f])
    /\ \A n \in Range(files["backup"]), m \in Range(files["active"]) : n < m \/ Astray(n) \/ Astray(m)
    /\ \A n \in Tickets : Astray(n) =>
          \E i \in 1..Len(failures) :
              /\ failures[i].what = "setup" /\ failures[i].ticket < n
              /\ n \in Range(files["backup"]) \cup Range(files["gone"])
=============================================================================
