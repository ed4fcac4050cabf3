----------------------------- MODULE OutputProofs -----------------------------
(***************************************************************************)
(* Theorems about Output for every number of threads, calls, failures and  *)
(* changes of the configuration.                                           *)
(***************************************************************************)
EXTENDS Output, ProofLemmas

-----------------------------------------------------------------------------
(* Types and locks                                                          *)

Holding     == {"flush", "clear", "reset", "drain", "open", "header", "install"}
Configuring == {"update", "drain", "open", "header", "install"}

WriteAt  == [at : {"write"}, line : LineType]
FlushAt  == [at : {"flush", "clear", "reset"}, ticket : Nat]
UpdateAt == [at : {"update"}, cfg : Configs, header : BOOLEAN]
BuildAt  == [at : {"drain", "open", "header", "install"}, cfg : Configs, header : BOOLEAN, ticket : Nat]
Places   == {Idle} \cup WriteAt \cup FlushAt \cup UpdateAt \cup BuildAt

CallType == [call : {"event", "exit", "scope", "flush", "clear", "update"}, due : SUBSET Sinks,
             fate : {"skipped", "queued", "dropped", "settled", "astray", "done"}]
ItemType == [ticket : Nat, line : LineType]
Failed   == FailureType(Nat)
Health   == [dropped : Nat, failed : Nat, last : Failed \cup {None}]

Typed ==
    /\ recordLevel \in Debug..Off /\ logLevel \in Debug..Off
    /\ config \in Configs /\ lastCfg \in Configs \cup {None} /\ writer \in Configs \cup {None}
    /\ pc \in [Threads -> Places]
    /\ queue \in Seq(ItemType) /\ Len(queue) <= Capacity
    /\ pending \in Failed \cup {None} /\ health \in Health
    /\ console \in Seq(Nat) /\ files \in [FileNames -> Seq(Nat)] /\ handle \in FileNames \cup {None}
    /\ calls \in Seq(CallType) /\ failures \in Seq(Failed)
    /\ drained \in Nat /\ clearedAt \in Nat /\ told \in AnswerType \cup {None}
    /\ handle = None <=> writer = None \/ writer.file = "off"

(* The locks: who is where it is held holds it, and nobody else; a ticket   *)
(* that is in hand is the newest, for its thread keeps the writer's lock.   *)
Locks ==
    /\ cfgLock \in Threads \cup {NoThread} /\ writerLock \in Threads \cup {NoThread}
    /\ \A t \in Threads :
          /\ At(t) \in Configuring => cfgLock = t
          /\ At(t) \in Holding <=> writerLock = t
          /\ At(t) \in Holding => pc[t].ticket = Len(calls)

Sound == Typed /\ Locks

(* Where the thread with the writer's lock is.                              *)
Stage == IF writerLock = NoThread THEN "free" ELSE At(writerLock)

LEMMA ConstantFacts ==
    /\ NoThread \notin Threads /\ Kinds \subseteq Debug..(Off - 1) /\ Thresholds \subseteq Debug..Off
    /\ IsFiniteSet(Threads) /\ Capacity \in Nat /\ Capacity # 0
    /\ None \notin Configs /\ None \notin Failed /\ None \notin AnswerType /\ None \notin FileNames
  BY OutputAssumption, NoneAssumption DEF OutputAssumption, NoneAssumption, Failed

LEMMA PlaceFields ==
    ASSUME NEW e \in Places
    PROVE  /\ e.at = "write" => e.line \in LineType
           /\ e.at \in {"flush", "clear", "reset"} => e \in FlushAt /\ e.ticket \in Nat
           /\ e.at = "update" => e.cfg \in Configs /\ e.header \in BOOLEAN
           /\ e.at \in {"drain", "open", "header", "install"} =>
                 e \in BuildAt /\ e.cfg \in Configs /\ e.header \in BOOLEAN /\ e.ticket \in Nat
           /\ e.at \in {"idle", "write", "flush", "clear", "reset", "update", "drain", "open",
                        "header", "install"}
  <1>1. CASE e = Idle
    BY <1>1 DEF Idle
  <1>2. CASE e \in WriteAt
    BY <1>2 DEF WriteAt
  <1>3. CASE e \in FlushAt
    BY <1>3 DEF FlushAt
  <1>4. CASE e \in UpdateAt
    BY <1>4 DEF UpdateAt
  <1>5. CASE e \in BuildAt
    BY <1>5 DEF BuildAt
  <1> QED  BY <1>1, <1>2, <1>3, <1>4, <1>5 DEF Places

(* A thread moves, taking or giving back the locks it needs where it goes.  *)
LEMMA MoveKeepsLocks ==
    ASSUME Sound, NEW t \in Threads, NEW e \in Places, pc' = [pc EXCEPT ![t] = e],
           Len(calls') = Len(calls) \/ writerLock = NoThread,
           e.at \in Holding => e.ticket = Len(calls'),
           writerLock' = (IF e.at \in Holding THEN t
                          ELSE IF At(t) \in Holding THEN NoThread ELSE writerLock),
           e.at \in Holding => At(t) \in Holding \/ writerLock = NoThread,
           cfgLock' = (IF e.at \in Configuring THEN t
                       ELSE IF At(t) \in Configuring THEN NoThread ELSE cfgLock),
           e.at \in Configuring => At(t) \in Configuring \/ cfgLock = NoThread
    PROVE  /\ Locks' /\ pc' \in [Threads -> Places]
           /\ Stage' = IF e.at \in Holding THEN e.at
                       ELSE IF At(t) \in Holding THEN "free" ELSE Stage
           /\ At(t) \in Holding => Stage = At(t)
           /\ At(t) \notin Holding /\ e.at \in Holding => Stage = "free"
  <1>1. pc \in [Threads -> Places] /\ Locks /\ NoThread \notin Threads
    BY ConstantFacts DEF Sound, Typed
  <1>2. pc' \in [Threads -> Places] /\ \A u \in Threads : pc'[u] = IF u = t THEN e ELSE pc[u]
    BY <1>1
  <1>3. cfgLock' \in Threads \cup {NoThread} /\ writerLock' \in Threads \cup {NoThread}
    BY <1>1 DEF Locks
  <1>4. ASSUME NEW u \in Threads
        PROVE  /\ pc'[u].at \in Configuring => cfgLock' = u
               /\ pc'[u].at \in Holding <=> writerLock' = u
               /\ pc'[u].at \in Holding => pc'[u].ticket = Len(calls')
    <2>1. CASE u = t
      BY <1>1, <1>2, <2>1 DEF Locks, At
    <2>2. CASE u # t
      <3>1. pc'[u] = pc[u]
        BY <1>2, <2>2
      <3>2. /\ pc[u].at \in Configuring => cfgLock = u
            /\ pc[u].at \in Holding <=> writerLock = u
            /\ pc[u].at \in Holding => pc[u].ticket = Len(calls)
            /\ At(t) \in Configuring => cfgLock = t
            /\ At(t) \in Holding <=> writerLock = t
        BY <1>1 DEF Locks, At
      <3> QED  BY <1>1, <2>2, <3>1, <3>2
    <2> QED  BY <2>1, <2>2
  <1>5. Locks'
    BY <1>3, <1>4 DEF Locks, At
  <1>6. Stage' = IF e.at \in Holding THEN e.at ELSE IF At(t) \in Holding THEN "free" ELSE Stage
    <2>1. CASE e.at \in Holding
      BY <1>1, <1>2, <2>1 DEF Stage, At
    <2>2. CASE e.at \notin Holding /\ At(t) \in Holding
      BY <1>1, <2>2 DEF Stage
    <2>3. CASE e.at \notin Holding /\ At(t) \notin Holding
      <3>1. writerLock' = writerLock /\ writerLock # t
        BY <1>1, <2>3 DEF Locks
      <3> QED  BY <1>1, <1>2, <2>3, <3>1 DEF Stage, At, Locks
    <2> QED  BY <2>1, <2>2, <2>3
  <1>7. At(t) \in Holding => Stage = At(t)
    BY <1>1 DEF Stage, Locks
  <1>8. At(t) \notin Holding /\ e.at \in Holding => Stage = "free"
    BY DEF Stage
  <1> QED  BY <1>2, <1>5, <1>6, <1>7, <1>8
-----------------------------------------------------------------------------
(* What a step does to the writer, its queue, the sinks, the diagnostics    *)
(* and the history, whoever takes it: the steps of the application and of   *)
(* the configuration that do nothing of the kind are all Quiet.             *)

Quiet ==
    /\ Stage' = Stage
    /\ UNCHANGED <<writer, queue, pending, health, console, files, handle, calls, failures, drained, clearedAt, told>>

CallOf(call, due, fate) == [call |-> call, due |-> due, fate |-> fate]

(* A record or scope metadata goes to the writer.                           *)
HandOver(line) ==
    /\ Stage = "free" /\ Stage' = "free"
    /\ \/ /\ calls' = Append(calls, CallOf(line.type, {}, "skipped"))
          /\ UNCHANGED <<queue, health>>
       \/ /\ writer # None
          /\ calls' = Append(calls, CallOf(line.type, Due(line), "queued"))
          /\ queue' = Append(queue, [ticket |-> Len(calls) + 1, line |-> line])
          /\ UNCHANGED health
       \/ /\ calls' = Append(calls, CallOf(line.type, {}, "dropped"))
          /\ health' = DropRecord(health)
          /\ UNCHANGED queue
    /\ UNCHANGED <<writer, pending, console, files, handle, failures, drained, clearedAt, told>>

(* A thread takes the writer's lock and waits for the queue to be drained.  *)
Wait ==
    /\ Stage = "free" /\ Stage' \in {"flush", "clear", "drain"}
    /\ \E call \in {"flush", "clear", "update"} : calls' = Append(calls, CallOf(call, {}, "done"))
    /\ UNCHANGED <<writer, queue, pending, health, console, files, handle, failures, drained, clearedAt, told>>

(* It has been drained, and the worker answers.                             *)
Answer(result) ==
    /\ Stage \in {"flush", "clear", "drain"} /\ queue = <<>>
    /\ pending' = None /\ drained' = Len(calls)
    /\ \/ UNCHANGED <<failures, health>> /\ result = pending
       \/ LET failure == Failure("flush", Len(calls), {"console"})
          IN  /\ failures' = Append(failures, failure) /\ health' = RecordError(health, failure)
              /\ result = IF pending = None THEN failure ELSE pending
    /\ \/ /\ Stage = "flush" /\ Stage' = "free"
          /\ told' = [since |-> drained, ticket |-> Len(calls), result |-> result]
       \/ Stage = "clear" /\ Stage' = "reset" /\ UNCHANGED told
       \/ Stage = "drain" /\ Stage' = "open" /\ UNCHANGED told
    /\ UNCHANGED <<writer, queue, console, files, handle, calls, clearedAt>>

Reset ==
    /\ Stage = "reset" /\ Stage' = "free"
    /\ health' = NoFailures /\ clearedAt' = Len(calls)
    /\ UNCHANGED <<writer, queue, pending, console, files, handle, calls, failures, drained, told>>

Opened ==
    /\ Stage = "open" /\ Stage' = "header"
    /\ UNCHANGED <<files, handle>> \/ Rotate
    /\ UNCHANGED <<writer, queue, pending, health, console, calls, failures, drained, clearedAt, told>>

Headed ==
    /\ Stage = "header" /\ Stage' = "install"
    /\ files' = files \/ files' = Wrote("active", Len(calls))
    /\ UNCHANGED <<writer, queue, pending, health, console, handle, calls, failures, drained,
                   clearedAt, told>>

GivenUp ==
    /\ Stage \in {"open", "header", "install"} /\ Stage' = "free"
    /\ LET failure == Failure("setup", Len(calls), {})
       IN  failures' = Append(failures, failure) /\ health' = RecordError(health, failure)
    /\ UNCHANGED <<writer, queue, pending, console, files, handle, calls, drained, clearedAt, told>>

Replaced ==
    /\ Stage = "install" /\ Stage' = "free" /\ queue = <<>>
    /\ \/ UNCHANGED <<failures, health>>
       \/ LET failure == Failure("shutdown", Len(calls), {"console"})
          IN  failures' = Append(failures, failure) /\ health' = RecordError(health, failure)
    /\ writer' \in Configs
    /\ handle' = IF writer'.file = "off" THEN None ELSE "active"
    /\ UNCHANGED <<queue, pending, console, files, calls, drained, clearedAt, told>>

Settled == Settle /\ Stage' = Stage

WriterStep ==
    \/ Quiet \/ (\E line \in LineType : HandOver(line)) \/ Wait \/ (\E result : Answer(result))
    \/ Reset \/ Opened \/ Headed \/ GivenUp \/ Replaced \/ Settled

-----------------------------------------------------------------------------
(* The application                                                          *)

LEMMA QuietTyped ==
    ASSUME Typed,
           UNCHANGED <<writer, queue, pending, health, console, files, handle, calls, failures, drained, clearedAt,
                       told, config, lastCfg, logLevel>>,
           recordLevel' \in Debug..Off, pc' \in [Threads -> Places]
    PROVE  Typed'
  BY DEF Typed

LEMMA UndisturbedFlat ==
    ASSUME Undisturbed
    PROVE  UNCHANGED <<recordLevel, logLevel, config, lastCfg, writer, cfgLock, writerLock, queue, pending,
                       health, console, files, handle, calls, failures, drained, clearedAt, told>>
  BY DEF Undisturbed, levelVars, cfgVars, sinkVars

LEMMA AppSteps ==
    ASSUME Sound, NEW t \in Threads,
           \/ \E kind \in Kinds : Log(t, kind) \/ LogExternal(t, kind)
           \/ EnterScope(t) \/ ExitScope(t)
    PROVE  Sound' /\ Quiet
  <1>1. CASE UNCHANGED pc /\ Undisturbed
    <2>1. Stage' = Stage /\ Locks'
      BY <1>1, UndisturbedFlat DEF Stage, At, Locks, Sound
    <2>2. pc' \in [Threads -> Places] /\ recordLevel' \in Debug..Off
      BY <1>1, UndisturbedFlat DEF Sound, Typed
    <2>3. Typed'
      BY <1>1, <2>2, UndisturbedFlat, QuietTyped DEF Sound
    <2> QED  BY <1>1, <2>1, <2>3, UndisturbedFlat DEF Quiet, Sound
  <1>2. ASSUME NEW line \in LineType, pc[t] = Idle, pc' = [pc EXCEPT ![t] = [at |-> "write", line |-> line]],
               Undisturbed
        PROVE  Sound' /\ Quiet
    <2> DEFINE e == [at |-> "write", line |-> line]
    <2>1. e \in Places /\ e.at = "write"
      BY DEF Places, WriteAt
    <2>2. At(t) = "idle" /\ pc' = [pc EXCEPT ![t] = e]
      BY <1>2 DEF At, Idle
    <2> HIDE DEF e
    <2>3. UNCHANGED <<writerLock, cfgLock, calls>> /\ e.at \notin Holding /\ e.at \notin Configuring
          /\ At(t) \notin Holding /\ At(t) \notin Configuring
      BY <1>2, <2>1, <2>2, UndisturbedFlat DEF Holding, Configuring
    <2>4. Locks' /\ pc' \in [Threads -> Places] /\ Stage' = Stage
      BY <2>1, <2>2, <2>3, MoveKeepsLocks
    <2>5. recordLevel' \in Debug..Off
      BY <1>2, UndisturbedFlat DEF Sound, Typed
    <2>6. Typed'
      BY <1>2, <2>4, <2>5, UndisturbedFlat, QuietTyped DEF Sound
    <2> QED  BY <1>2, <2>4, <2>6, UndisturbedFlat DEF Quiet, Sound
  <1>3. ASSUME NEW kind \in Kinds PROVE [type |-> "event", level |-> kind] \in LineType
    BY DEF LineType
  <1>4. [type |-> "exit", level |-> None] \in LineType /\ [type |-> "scope", level |-> None] \in LineType
    BY DEF LineType
  <1>5. CASE \E kind \in Kinds : Log(t, kind) \/ LogExternal(t, kind)
    <2>1. PICK kind \in Kinds : Log(t, kind) \/ LogExternal(t, kind)
      BY <1>5
    <2>2. UNCHANGED pc \/ Emit(t, kind)
      BY <2>1 DEF Log, LogExternal
    <2>3. pc[t] = Idle /\ Undisturbed
      BY <2>1 DEF Log, LogExternal
    <2> QED  BY <1>1, <1>2, <1>3, <2>2, <2>3 DEF Emit, ToWrite
  <1>6. CASE EnterScope(t) \/ ExitScope(t)
    BY <1>2, <1>4, <1>6 DEF EnterScope, ExitScope, ToWrite
  <1> QED  BY <1>5, <1>6

LEMMA RecordLevelStep ==
    ASSUME Sound, NEW l \in Thresholds, SetRecordLevel(l)
    PROVE  Sound' /\ Quiet
  <1>1. /\ Stage' = Stage /\ Locks' /\ recordLevel' \in Debug..Off
    BY ConstantFacts DEF SetRecordLevel, Stage, At, Locks, Sound
  <1>2. pc' \in [Threads -> Places]
        /\ UNCHANGED <<logLevel, config, lastCfg, writer, queue, pending, health, console, files, handle,
                       calls, failures, drained, clearedAt, told>>
    BY DEF SetRecordLevel, Sound, Typed, cfgVars, sinkVars
  <1>3. Typed'
    BY <1>1, <1>2, QuietTyped DEF Sound
  <1> QED  BY <1>1, <1>2, <1>3 DEF Quiet, Sound

LEMMA StutterStep ==
    ASSUME Sound, UNCHANGED vars
    PROVE  Sound' /\ Quiet
  <1>1. /\ Stage' = Stage /\ Locks'
    BY DEF vars, Stage, At, Locks, Sound
  <1>2. pc' \in [Threads -> Places] /\ recordLevel' \in Debug..Off
        /\ UNCHANGED <<logLevel, config, lastCfg, writer, queue, pending, health, console, files, handle,
                       calls, failures, drained, clearedAt, told>>
    BY DEF vars, levelVars, cfgVars, sinkVars, Sound, Typed
  <1>3. Typed'
    BY <1>1, <1>2, QuietTyped DEF Sound
  <1> QED  BY <1>1, <1>2, <1>3 DEF Quiet, Sound

-----------------------------------------------------------------------------
(* Calls on the writer                                                      *)

LEMMA HealthWith ==
    ASSUME NEW A, NEW h \in [dropped : Nat, failed : Nat, last : A], NEW n \in Nat, NEW a \in A
    PROVE  /\ [h EXCEPT !.failed = n] \in [dropped : Nat, failed : Nat, last : A]
           /\ [h EXCEPT !.failed = n].dropped = h.dropped /\ [h EXCEPT !.failed = n].failed = n
           /\ [h EXCEPT !.last = a] \in [dropped : Nat, failed : Nat, last : A]
           /\ [h EXCEPT !.last = a].dropped = h.dropped /\ [h EXCEPT !.last = a].failed = h.failed
           /\ [h EXCEPT !.last = a].last = a
  OBVIOUS

LEMMA HealthFields ==
    ASSUME NEW h \in Health, NEW f \in Failed
    PROVE  /\ NoFailures \in Health /\ NoFailures.dropped = 0 /\ NoFailures.failed = 0
           /\ NoFailures.last = None
           /\ RecordError(h, f) \in Health /\ RecordError(h, f).dropped = h.dropped
           /\ RecordError(h, f).failed = h.failed + 1 /\ RecordError(h, f).last = f
           /\ DropRecord(h) \in Health /\ DropRecord(h).dropped = h.dropped + 1
           /\ DropRecord(h).failed = h.failed /\ DropRecord(h).last = h.last
  <1>1. NoFailures \in Health /\ NoFailures.dropped = 0 /\ NoFailures.failed = 0 /\ NoFailures.last = None
    BY DEF NoFailures, Health
  <1>2. /\ DropRecord(h) \in Health /\ DropRecord(h).dropped = h.dropped + 1
        /\ DropRecord(h).failed = h.failed /\ DropRecord(h).last = h.last
    BY DEF DropRecord, Health
  <1>3. /\ RecordError(h, f) \in Health /\ RecordError(h, f).dropped = h.dropped
        /\ RecordError(h, f).failed = h.failed + 1 /\ RecordError(h, f).last = f
    <2> DEFINE counted == [h EXCEPT !.failed = h.failed + 1]
    <2>1. h.failed + 1 \in Nat /\ f \in Failed \cup {None}
      BY DEF Health
    <2>2. counted \in Health /\ counted.dropped = h.dropped /\ counted.failed = h.failed + 1
      BY <2>1, HealthWith DEF Health
    <2>3. RecordError(h, f) = [counted EXCEPT !.last = f]
      BY DEF RecordError
    <2> HIDE DEF counted
    <2> QED  BY <2>1, <2>2, <2>3, HealthWith DEF Health
  <1> QED  BY <1>1, <1>2, <1>3

LEMMA FailureFields ==
    ASSUME NEW what \in {"write", "flush", "setup", "shutdown"}, NEW n \in Nat, NEW sinks \in SUBSET Sinks
    PROVE  /\ Failure(what, n, sinks) \in Failed /\ Failure(what, n, sinks).what = what
           /\ Failure(what, n, sinks).ticket = n /\ Failure(what, n, sinks).sinks = sinks
  BY DEF Failure, Failed, FailureType

LEMMA CallFields ==
    ASSUME NEW call \in {"event", "exit", "scope", "flush", "clear", "update"}, NEW due \in SUBSET Sinks,
           NEW fate \in {"skipped", "queued", "dropped", "settled", "astray", "done"}
    PROVE  /\ CallOf(call, due, fate) \in CallType /\ CallOf(call, due, fate).call = call
           /\ CallOf(call, due, fate).due = due /\ CallOf(call, due, fate).fate = fate
  BY DEF CallOf, CallType

LEMMA TicketTypes ==
    ASSUME Typed
    PROVE  Len(calls) \in Nat /\ Len(queue) \in Nat /\ Len(failures) \in Nat
  BY LenProperties DEF Typed

LEMMA WriteLineStep ==
    ASSUME Sound, NEW t \in Threads, WriteLine(t)
    PROVE  Sound' /\ At(t) = "write" /\ pc[t].line \in LineType /\ HandOver(pc[t].line)
  <1> DEFINE line == pc[t].line
  <1>1. /\ Typed /\ pc[t] \in Places /\ At(t) = "write" /\ pc' = [pc EXCEPT ![t] = Idle]
        /\ UNCHANGED <<recordLevel, logLevel, config, lastCfg, writer, cfgLock, writerLock, pending,
                       console, files, handle, failures, drained, clearedAt, told>>
    BY DEF WriteLine, Sound, Typed, At, levelVars, cfgVars, sinkVars
  <1>2. line \in LineType /\ line.type \in {"event", "exit", "scope"}
    <2>1. line \in LineType
      BY <1>1, PlaceFields DEF At
    <2> QED  BY <2>1 DEF LineType
  <1>3. /\ writerLock = NoThread
        /\ \/ /\ calls' = Append(calls, CallOf(line.type, {}, "skipped"))
              /\ UNCHANGED <<queue, health>>
           \/ /\ writer # None /\ Len(queue) < Capacity
              /\ calls' = Append(calls, CallOf(line.type, Due(line), "queued"))
              /\ queue' = Append(queue, [ticket |-> Len(calls) + 1, line |-> line])
              /\ UNCHANGED health
           \/ /\ calls' = Append(calls, CallOf(line.type, {}, "dropped"))
              /\ health' = DropRecord(health)
              /\ UNCHANGED queue
    BY DEF WriteLine, Skip, Enqueue, DropLine, Take, Ticket, CallOf
  <1> HIDE DEF line
  <1>4. PICK due \in SUBSET Sinks, fate \in {"skipped", "queued", "dropped"} :
          calls' = Append(calls, CallOf(line.type, due, fate))
    <2>1. Due(line) \in SUBSET Sinks
      BY DEF Due
    <2> QED  BY <1>3, <2>1
  <1>5. calls' \in Seq(CallType)
    <2>1. CallOf(line.type, due, fate) \in CallType
      BY <1>2, CallFields
    <2> QED  BY <1>1, <1>4, <2>1, AppendProperties DEF Typed
  <1>6. queue' \in Seq(ItemType) /\ Len(queue') <= Capacity
    <2>1. [ticket |-> Len(calls) + 1, line |-> line] \in ItemType
      BY <1>1, <1>2, TicketTypes DEF ItemType
    <2>2. queue \in Seq(ItemType) /\ Len(queue) \in Nat /\ Len(queue) <= Capacity /\ Capacity \in Nat
      BY <1>1, TicketTypes, ConstantFacts DEF Typed
    <2> DEFINE item == [ticket |-> Len(calls) + 1, line |-> line]
    <2>3. queue' = queue \/ (queue' = Append(queue, item) /\ Len(queue) < Capacity)
      BY <1>3
    <2>4. item \in ItemType
      BY <2>1
    <2> HIDE DEF item
    <2>5. Append(queue, item) \in Seq(ItemType) /\ Len(Append(queue, item)) = Len(queue) + 1
      BY <2>2, <2>4, AppendProperties
    <2> QED  BY <2>2, <2>3, <2>5
  <1>7. health' \in Health
    <2>1. health \in Health /\ Failure("setup", 0, {}) \in Failed
      BY <1>1, FailureFields DEF Typed
    <2> QED  BY <1>3, <2>1, HealthFields
  <1>8. Idle \in Places /\ Idle.at \notin Holding /\ Idle.at \notin Configuring
        /\ At(t) \notin Holding /\ At(t) \notin Configuring
    BY <1>1 DEF Idle, Places, Holding, Configuring
  <1>9. Locks' /\ pc' \in [Threads -> Places] /\ Stage' = Stage
    BY <1>1, <1>3, <1>8, MoveKeepsLocks
  <1>10. Stage = "free"
    BY <1>3 DEF Stage
  <1>11. Typed'
    BY <1>1, <1>5, <1>6, <1>7, <1>9 DEF Typed
  <1>12. HandOver(line)
    BY <1>1, <1>3, <1>9, <1>10 DEF HandOver
  <1> QED  BY <1>1, <1>2, <1>9, <1>11, <1>12 DEF Sound, line

LEMMA WaitStep ==
    ASSUME Sound, NEW t \in Threads, Flush(t) \/ ClearStart(t) \/ UpdateStart(t)
    PROVE  Sound' /\ Wait
  <1>1. /\ Typed /\ pc[t] \in Places
        /\ UNCHANGED <<recordLevel, logLevel, config, lastCfg, writer, cfgLock, queue, pending, health,
                       console, files, handle, failures, drained, clearedAt, told>>
        /\ writerLock = NoThread /\ writerLock' = t
    BY DEF Flush, ClearStart, UpdateStart, Take, Sound, Typed, levelVars, cfgVars, sinkVars
  <1>2. PICK call \in {"flush", "clear", "update"} : calls' = Append(calls, CallOf(call, {}, "done"))
    BY DEF Flush, ClearStart, UpdateStart, Take, CallOf
  <1>3. calls' \in Seq(CallType) /\ Len(calls') = Len(calls) + 1 /\ Len(calls) \in Nat
    <2>1. CallOf(call, {}, "done") \in CallType
      BY CallFields
    <2> QED  BY <1>1, <1>2, <2>1, AppendProperties, TicketTypes DEF Typed
  <1>4. PICK e \in Places : /\ pc' = [pc EXCEPT ![t] = e] /\ e.ticket = Len(calls) + 1
                            /\ e.at \in {"flush", "clear", "drain"}
                            /\ e.at \in Configuring => At(t) \in Configuring
                            /\ e.at \notin Configuring => At(t) \notin Configuring
    <2>1. CASE Flush(t)
      <3> DEFINE e == [at |-> "flush", ticket |-> Len(calls) + 1]
      <3>1. e \in Places /\ e.ticket = Len(calls) + 1 /\ e.at = "flush"
        BY <1>3 DEF Places, FlushAt
      <3>2. pc' = [pc EXCEPT ![t] = e] /\ At(t) = "idle"
        BY <2>1 DEF Flush, Ticket, At, Idle
      <3> HIDE DEF e
      <3> QED  BY <3>1, <3>2 DEF Configuring
    <2>2. CASE ClearStart(t)
      <3> DEFINE e == [at |-> "clear", ticket |-> Len(calls) + 1]
      <3>1. e \in Places /\ e.ticket = Len(calls) + 1 /\ e.at = "clear"
        BY <1>3 DEF Places, FlushAt
      <3>2. pc' = [pc EXCEPT ![t] = e] /\ At(t) = "idle"
        BY <2>2 DEF ClearStart, Ticket, At, Idle
      <3> HIDE DEF e
      <3> QED  BY <3>1, <3>2 DEF Configuring
    <2>3. CASE UpdateStart(t)
      <3> DEFINE e == [at |-> "drain", cfg |-> pc[t].cfg, header |-> pc[t].header,
                       ticket |-> Len(calls) + 1]
      <3>1. At(t) = "update" /\ pc[t].cfg \in Configs /\ pc[t].header \in BOOLEAN
        BY <1>1, <2>3, PlaceFields DEF UpdateStart, At
      <3>2. e \in Places /\ e.ticket = Len(calls) + 1 /\ e.at = "drain"
        BY <1>3, <3>1 DEF Places, BuildAt
      <3>3. pc' = [pc EXCEPT ![t] = e]
        BY <2>3 DEF UpdateStart, Ticket
      <3> HIDE DEF e
      <3> QED  BY <3>1, <3>2, <3>3 DEF Configuring
    <2> QED  BY <2>1, <2>2, <2>3
  <1>5. At(t) \notin Holding /\ e.at \in Holding
    BY <1>1, <1>4, ConstantFacts DEF Sound, Locks, Holding
  <1>6. cfgLock' = IF e.at \in Configuring THEN t ELSE IF At(t) \in Configuring THEN NoThread ELSE cfgLock
    BY <1>1, <1>4 DEF Sound, Locks
  <1>7. Locks' /\ pc' \in [Threads -> Places] /\ Stage' = e.at /\ Stage = "free"
    BY <1>1, <1>3, <1>4, <1>5, <1>6, MoveKeepsLocks
  <1>8. Typed'
    BY <1>1, <1>3, <1>7 DEF Typed
  <1> QED  BY <1>1, <1>2, <1>4, <1>7, <1>8 DEF Sound, Wait

(* A failure is counted and remembered.                                     *)
LEMMA NotedTypes ==
    ASSUME Typed, NEW failure \in Failed
    PROVE  /\ Append(failures, failure) \in Seq(Failed)
           /\ Len(Append(failures, failure)) = Len(failures) + 1
           /\ \A i \in 1..Len(failures) : Append(failures, failure)[i] = failures[i]
           /\ Append(failures, failure)[Len(failures) + 1] = failure
           /\ RecordError(health, failure) \in Health
  <1>1. failures \in Seq(Failed) /\ health \in Health
    BY DEF Typed
  <1>2. RecordError(health, failure) \in Health
    BY <1>1, HealthFields
  <1> QED  BY <1>1, <1>2, AppendProperties

LEMMA AnswerStep ==
    ASSUME Sound, NEW t \in Threads, FlushAnswered(t) \/ ClearFlushed(t) \/ UpdateFlushed(t)
    PROVE  Sound' /\ \E result \in Failed \cup {None} : Answer(result)
  <1>1. /\ Typed /\ pc[t] \in Places /\ pc[t].ticket = Len(calls) /\ Len(calls) \in Nat
        /\ At(t) \in {"flush", "clear", "drain"} /\ writerLock = t /\ NoThread # t
        /\ UNCHANGED <<recordLevel, logLevel, config, lastCfg, writer, cfgLock, queue,
                       console, files, handle, calls, clearedAt>>
        /\ queue = <<>> /\ pending' = None /\ drained' = Len(calls)
    <2>1. Typed /\ pc[t] \in Places /\ Len(calls) \in Nat /\ At(t) \in {"flush", "clear", "drain"}
      BY TicketTypes DEF FlushAnswered, ClearFlushed, UpdateFlushed, Sound, Typed, At
    <2>2. writerLock = t /\ NoThread # t /\ pc[t].ticket = Len(calls)
      BY <2>1, ConstantFacts DEF Sound, Locks, Holding
    <2>3. UNCHANGED <<recordLevel, logLevel, config, lastCfg, writer, cfgLock, queue,
                      console, files, handle, calls, clearedAt>>
      BY DEF FlushAnswered, ClearFlushed, UpdateFlushed, levelVars, cfgVars, sinkVars
    <2>4. queue = <<>> /\ pending' = None /\ drained' = Len(calls)
      BY <2>2 DEF FlushAnswered, ClearFlushed, UpdateFlushed, FlushSinks, Drained
    <2> QED  BY <2>1, <2>2, <2>3, <2>4
  <1> DEFINE failure == Failure("flush", Len(calls), {"console"})
  <1>2. failure \in Failed
    BY <1>1, FailureFields DEF Sinks
  <1>3. PICK result \in Failed \cup {None} :
          /\ \/ UNCHANGED <<failures, health>> /\ result = pending
             \/ /\ failures' = Append(failures, failure) /\ health' = RecordError(health, failure)
                /\ result = IF pending = None THEN failure ELSE pending
          /\ \/ FlushAnswered(t) /\ told' = [since |-> drained, ticket |-> Len(calls), result |-> result]
             \/ (ClearFlushed(t) \/ UpdateFlushed(t)) /\ UNCHANGED told
    <2> DEFINE other == IF pending = None THEN failure ELSE pending
    <2>1. pending \in Failed \cup {None} /\ other \in Failed \cup {None}
      BY <1>1, <1>2 DEF Typed
    <2>2. CASE FlushAnswered(t)
      <3>1. \/ UNCHANGED <<failures, health>>
               /\ told' = [since |-> drained, ticket |-> Len(calls), result |-> pending]
            \/ /\ failures' = Append(failures, failure) /\ health' = RecordError(health, failure)
               /\ told' = [since |-> drained, ticket |-> Len(calls), result |-> other]
        BY <1>1, <2>2 DEF FlushAnswered, FlushSinks, NothingFails, Fails
      <3> HIDE DEF failure
      <3> QED  BY <2>1, <2>2, <3>1
    <2>3. CASE ClearFlushed(t) \/ UpdateFlushed(t)
      <3>1. \/ UNCHANGED <<failures, health>>
            \/ failures' = Append(failures, failure) /\ health' = RecordError(health, failure)
        BY <1>1, <2>3 DEF ClearFlushed, UpdateFlushed, FlushSinks, NothingFails, Fails
      <3>2. UNCHANGED told
        BY <2>3 DEF ClearFlushed, UpdateFlushed
      <3> HIDE DEF failure
      <3> QED  BY <2>1, <2>3, <3>1, <3>2
    <2> QED  BY <2>2, <2>3
  <1> HIDE DEF failure
  <1>4. failures' \in Seq(Failed) /\ health' \in Health
    <2>1. failures \in Seq(Failed) /\ health \in Health
      BY <1>1 DEF Typed
    <2> QED  BY <1>1, <1>2, <1>3, <2>1, NotedTypes
  <1>5. told' \in AnswerType \cup {None}
    <2>1. [since |-> drained, ticket |-> Len(calls), result |-> result] \in AnswerType
      BY <1>1 DEF AnswerType, Typed, Failed
    <2> QED  BY <1>1, <1>3, <2>1 DEF Typed
  <1>6. CASE FlushAnswered(t)
    <2>1. /\ At(t) = "flush" /\ pc' = [pc EXCEPT ![t] = Idle] /\ writerLock' = NoThread
          /\ Idle \in Places /\ Idle.at \notin Holding /\ Idle.at \notin Configuring
          /\ At(t) \in Holding /\ At(t) \notin Configuring
      BY <1>6 DEF FlushAnswered, At, Idle, Places, Holding, Configuring
    <2>2. Locks' /\ pc' \in [Threads -> Places] /\ Stage' = "free" /\ Stage = "flush"
      BY <1>1, <2>1, MoveKeepsLocks
    <2>3. Typed'
      BY <1>1, <1>4, <1>5, <2>2 DEF Typed
    <2>4. ~ ClearFlushed(t) /\ ~ UpdateFlushed(t)
      BY <2>1 DEF ClearFlushed, UpdateFlushed, At
    <2> QED  BY <1>1, <1>3, <2>2, <2>3, <2>4 DEF Answer, Sound, failure
  <1>7. CASE ClearFlushed(t)
    <2> DEFINE e == [pc[t] EXCEPT !.at = "reset"]
    <2>1. /\ At(t) = "clear" /\ pc' = [pc EXCEPT ![t] = e] /\ writerLock' = t
      BY <1>1, <1>7 DEF ClearFlushed, At
    <2>2. pc[t] \in FlushAt
      BY <1>1, <2>1, PlaceFields DEF At
    <2>3. e \in FlushAt /\ e.at = "reset" /\ e.ticket = Len(calls)
      BY <1>1, <2>2 DEF FlushAt
    <2> HIDE DEF e
    <2>4. /\ e \in Places /\ e.at \in Holding /\ e.at \notin Configuring
          /\ At(t) \in Holding /\ At(t) \notin Configuring
      BY <2>1, <2>3 DEF Places, Holding, Configuring
    <2>5. Locks' /\ pc' \in [Threads -> Places] /\ Stage' = "reset" /\ Stage = "clear"
      BY <1>1, <2>1, <2>3, <2>4, MoveKeepsLocks
    <2>6. Typed'
      BY <1>1, <1>4, <1>5, <2>5 DEF Typed
    <2>7. ~ FlushAnswered(t)
      BY <2>1 DEF FlushAnswered, At
    <2> QED  BY <1>1, <1>3, <2>5, <2>6, <2>7 DEF Answer, Sound, failure
  <1>8. CASE UpdateFlushed(t)
    <2> DEFINE e == [at |-> "open", cfg |-> pc[t].cfg, header |-> pc[t].header, ticket |-> pc[t].ticket]
    <2>1. At(t) = "drain" /\ pc' = [pc EXCEPT ![t] = e] /\ writerLock' = t
      BY <1>1, <1>8 DEF UpdateFlushed, At
    <2>2. pc[t] \in BuildAt
      BY <1>1, <2>1, PlaceFields DEF At
    <2>3. e \in BuildAt /\ e.at = "open" /\ e.ticket = Len(calls)
      BY <1>1, <2>2 DEF BuildAt
    <2> HIDE DEF e
    <2>4. /\ e \in Places /\ e.at \in Holding /\ e.at \in Configuring
          /\ At(t) \in Holding /\ At(t) \in Configuring
      BY <2>1, <2>3 DEF Places, Holding, Configuring
    <2>5. cfgLock' = t
      BY <1>1, <2>4 DEF Sound, Locks
    <2>6. Locks' /\ pc' \in [Threads -> Places] /\ Stage' = "open" /\ Stage = "drain"
      BY <1>1, <2>1, <2>3, <2>4, <2>5, MoveKeepsLocks
    <2>7. Typed'
      BY <1>1, <1>4, <1>5, <2>6 DEF Typed
    <2>8. ~ FlushAnswered(t)
      BY <2>1 DEF FlushAnswered, At
    <2> QED  BY <1>1, <1>3, <2>6, <2>7, <2>8 DEF Answer, Sound, failure
  <1> QED  BY <1>6, <1>7, <1>8

LEMMA ResetStep ==
    ASSUME Sound, NEW t \in Threads, ClearEnd(t)
    PROVE  Sound' /\ Reset
  <1>1. /\ Typed /\ pc[t] \in Places /\ At(t) = "reset" /\ At(t) \in Holding /\ At(t) \notin Configuring
        /\ UNCHANGED <<recordLevel, logLevel, config, lastCfg, writer, cfgLock, queue, pending,
                       console, files, handle, calls, failures, drained, told>>
        /\ health' = NoFailures /\ clearedAt' = pc[t].ticket
        /\ pc' = [pc EXCEPT ![t] = Idle] /\ writerLock' = NoThread
    BY DEF ClearEnd, Sound, Typed, At, Holding, Configuring, levelVars, cfgVars, sinkVars
  <1>2. pc[t].ticket = Len(calls) /\ Len(calls) \in Nat
    BY <1>1, TicketTypes DEF Sound, Locks
  <1>3. Idle \in Places /\ Idle.at \notin Holding /\ Idle.at \notin Configuring
    BY DEF Idle, Places, Holding, Configuring
  <1>4. Locks' /\ pc' \in [Threads -> Places] /\ Stage' = "free" /\ Stage = "reset"
    BY <1>1, <1>3, MoveKeepsLocks
  <1>5. NoFailures \in Health
    BY DEF NoFailures, Health
  <1>6. Typed'
    BY <1>1, <1>2, <1>4, <1>5 DEF Typed
  <1> QED  BY <1>1, <1>2, <1>4, <1>6 DEF Reset, Sound

-----------------------------------------------------------------------------
(* The configuration                                                        *)

LEMMA ConfigWith ==
    ASSUME NEW c \in Configs
    PROVE  /\ \A b \in BOOLEAN : [c EXCEPT !.console = b] \in Configs
           /\ \A b \in BOOLEAN : [c EXCEPT !.jsonl = b] \in Configs
           /\ \A l \in Debug..Off : [c EXCEPT !.consoleLevel = l] \in Configs
           /\ \A l \in Debug..Off : [c EXCEPT !.fileLevel = l] \in Configs
           /\ \A f \in {"off", "plain", "rotating"} : [c EXCEPT !.file = f] \in Configs
  BY DEF Configs

LEMMA SetupIsConfig ==
    ASSUME config \in Configs, NEW s \in Setups
    PROVE  ApplySetup(s) \in Configs /\ s.header \in BOOLEAN
  <1>1. /\ s.verbose \in BOOLEAN /\ s.header \in BOOLEAN
        /\ s.level \in Debug..Off \cup {None} /\ s.consoleLevel \in Debug..Off \cup {None}
        /\ s.fileLevel \in Debug..Off \cup {None}
        /\ s.file \in {"none", "off", "plain", "jsonl", "rotating"}
    BY OutputAssumption DEF OutputAssumption
  <1> DEFINE Or(l, other) == IF l = None THEN other ELSE l
             shared == Or(s.level, IF s.verbose THEN Debug ELSE Info)
             one   == [config EXCEPT !.console = s.verbose]
             two   == [one EXCEPT !.consoleLevel = Or(s.consoleLevel, shared)]
             three == [two EXCEPT !.fileLevel = Or(s.fileLevel, shared)]
             file  == CASE s.file = "none" -> three.file [] s.file = "jsonl" -> "plain"
                        [] OTHER -> s.file
             four  == [three EXCEPT !.file = file]
             jsonl == IF s.file \in {"plain", "jsonl"} THEN s.file = "jsonl" ELSE four.jsonl
  <1>2. shared \in Debug..Off /\ Or(s.consoleLevel, shared) \in Debug..Off
        /\ Or(s.fileLevel, shared) \in Debug..Off
    BY <1>1 DEF Debug, Info, Off
  <1>3. one \in Configs
    BY <1>1, ConfigWith
  <1>4. two \in Configs
    <2> HIDE DEF one, Or, shared
    <2> QED  BY <1>2, <1>3, ConfigWith
  <1>5. three \in Configs
    <2> HIDE DEF two, Or, shared
    <2> QED  BY <1>2, <1>4, ConfigWith
  <1>6. file \in {"off", "plain", "rotating"}
    <2>1. three.file \in {"off", "plain", "rotating"}
      <3> HIDE DEF three
      <3> QED  BY <1>5 DEF Configs
    <2> HIDE DEF three
    <2> QED  BY <1>1, <2>1
  <1>7. four \in Configs
    <2> HIDE DEF three, file
    <2> QED  BY <1>5, <1>6, ConfigWith
  <1>8. jsonl \in BOOLEAN
    <2>1. four.jsonl \in BOOLEAN
      <3> HIDE DEF four
      <3> QED  BY <1>7 DEF Configs
    <2> HIDE DEF four
    <2> QED  BY <2>1
  <1>9. [four EXCEPT !.jsonl = jsonl] \in Configs
    <2> HIDE DEF four, jsonl
    <2> QED  BY <1>7, <1>8, ConfigWith
  <1>10. ApplySetup(s) = [four EXCEPT !.jsonl = jsonl]
    BY DEF ApplySetup
  <1> QED  BY <1>1, <1>9, <1>10

LEMMA UpdateStep ==
    ASSUME Sound, NEW t \in Threads, NEW cfg \in Configs, NEW header \in BOOLEAN, NEW force \in BOOLEAN,
           Update(t, cfg, header, force)
    PROVE  Sound' /\ Quiet
  <1>1. /\ Typed /\ pc[t] = Idle /\ cfgLock = NoThread
        /\ UNCHANGED <<recordLevel, logLevel, config, lastCfg, writer, writerLock, queue, pending, health,
                       console, files, handle, calls, failures, drained, clearedAt, told>>
        /\ \/ UNCHANGED <<pc, cfgLock>>
           \/ cfgLock' = t /\ pc' = [pc EXCEPT ![t] = [at |-> "update", cfg |-> cfg, header |-> header]]
    BY DEF Update, Sound, levelVars, cfgVars, sinkVars
  <1>2. Locks' /\ pc' \in [Threads -> Places] /\ Stage' = Stage
    <2>1. CASE UNCHANGED <<pc, cfgLock>>
      BY <1>1, <2>1 DEF Sound, Locks, At, Stage, Typed
    <2>2. CASE cfgLock' = t /\ pc' = [pc EXCEPT ![t] = [at |-> "update", cfg |-> cfg, header |-> header]]
      <3> DEFINE e == [at |-> "update", cfg |-> cfg, header |-> header]
      <3>1. e \in Places /\ e.at = "update"
        BY DEF Places, UpdateAt
      <3>2. pc' = [pc EXCEPT ![t] = e] /\ At(t) = "idle"
        BY <1>1, <2>2 DEF At, Idle
      <3> HIDE DEF e
      <3>3. e.at \notin Holding /\ e.at \in Configuring /\ At(t) \notin Holding
        BY <3>1, <3>2 DEF Holding, Configuring
      <3> QED  BY <1>1, <2>2, <3>1, <3>2, <3>3, MoveKeepsLocks
    <2> QED  BY <1>1, <2>1, <2>2
  <1>3. Typed'
    BY <1>1, <1>2, QuietTyped DEF Typed
  <1> QED  BY <1>1, <1>2, <1>3 DEF Quiet, Sound

LEMMA ReconfigureStep ==
    ASSUME Sound, NEW t \in Threads, Reconfigure(t)
    PROVE  Sound' /\ Quiet
  <1>1. config \in Configs
    BY DEF Sound, Typed
  <1>2. PICK cfg \in Configs, header \in BOOLEAN, force \in BOOLEAN : Update(t, cfg, header, force)
    <2>1. CASE Update(t, config, FALSE, FALSE)
      BY <1>1, <2>1
    <2>2. CASE \E on \in BOOLEAN :
                 \/ Update(t, EnableConsole(on), FALSE, FALSE) \/ Update(t, ShowExits(on), FALSE, FALSE)
                 \/ Update(t, SetFormat(on), FALSE, FALSE) \/ Update(t, EnableFile(on), FALSE, TRUE)
                 \/ Update(t, EnableRotating, on, TRUE)
      <3>1. PICK on \in BOOLEAN :
                 \/ Update(t, EnableConsole(on), FALSE, FALSE) \/ Update(t, ShowExits(on), FALSE, FALSE)
                 \/ Update(t, SetFormat(on), FALSE, FALSE) \/ Update(t, EnableFile(on), FALSE, TRUE)
                 \/ Update(t, EnableRotating, on, TRUE)
        BY <2>2
      <3>2. /\ EnableConsole(on) \in Configs /\ ShowExits(on) \in Configs /\ SetFormat(on) \in Configs
            /\ EnableFile(on) \in Configs /\ EnableRotating \in Configs
        BY <1>1 DEF EnableConsole, ShowExits, SetFormat, EnableFile, EnableRotating, Configs
      <3> QED  BY <3>1, <3>2
    <2>3. CASE \E l \in Thresholds :
                 Update(t, SetConsoleLevel(l), FALSE, FALSE) \/ Update(t, SetFileLevel(l), FALSE, FALSE)
      <3>1. PICK l \in Thresholds :
                 Update(t, SetConsoleLevel(l), FALSE, FALSE) \/ Update(t, SetFileLevel(l), FALSE, FALSE)
        BY <2>3
      <3>2. SetConsoleLevel(l) \in Configs /\ SetFileLevel(l) \in Configs
        BY <1>1, ConstantFacts DEF SetConsoleLevel, SetFileLevel, Configs
      <3> QED  BY <3>1, <3>2
    <2>4. CASE \E mode \in {"bestEffort", "blocking"} : Update(t, SetMode(mode), FALSE, FALSE)
      <3>1. PICK mode \in {"bestEffort", "blocking"} : Update(t, SetMode(mode), FALSE, FALSE)
        BY <2>4
      <3>2. SetMode(mode) \in Configs
        BY <1>1 DEF SetMode, Configs
      <3> QED  BY <3>1, <3>2
    <2>5. CASE Update(t, DisableFile, FALSE, FALSE) \/ Update(t, DisableAll, FALSE, FALSE)
      <3>1. DisableFile \in Configs /\ DisableAll \in Configs
        BY <1>1 DEF DisableFile, DisableAll, Configs
      <3> QED  BY <2>5, <3>1
    <2>6. CASE \E s \in Setups : Update(t, ApplySetup(s), s.header, s.file \notin {"none", "off"})
      <3>1. PICK s \in Setups : Update(t, ApplySetup(s), s.header, s.file \notin {"none", "off"})
        BY <2>6
      <3>2. ApplySetup(s) \in Configs /\ s.header \in BOOLEAN /\ (s.file \notin {"none", "off"}) \in BOOLEAN
        BY <1>1, SetupIsConfig
      <3> QED  BY <3>1, <3>2
    <2> QED  BY <2>1, <2>2, <2>3, <2>4, <2>5, <2>6 DEF Reconfigure
  <1> QED  BY <1>2, UpdateStep

LEMMA RotateTypes ==
    ASSUME Typed, Rotate
    PROVE  /\ files' \in [FileNames -> Seq(Nat)] /\ handle' \in FileNames \cup {None}
           /\ files'["active"] = <<>> /\ files'["backup"] = files["active"]
           /\ files'["gone"] = files["gone"] \o files["backup"]
           /\ handle' = None <=> handle = None
           /\ handle' # "active"
  <1>1. /\ files["active"] \in Seq(Nat) /\ files["backup"] \in Seq(Nat) /\ files["gone"] \in Seq(Nat)
        /\ handle \in FileNames \cup {None} /\ None \notin FileNames
    BY ConstantFacts DEF Typed, FileNames
  <1>2. files["gone"] \o files["backup"] \in Seq(Nat) /\ <<>> \in Seq(Nat)
    BY <1>1, ConcatProperties, EmptySeq
  <1>3. /\ files' = [files EXCEPT !["active"] = <<>>, !["backup"] = files["active"],
                                !["gone"] = files["gone"] \o files["backup"]]
        /\ handle' = Moved(handle)
    BY DEF Rotate
  <1>4. /\ files' \in [FileNames -> Seq(Nat)]
        /\ files'["active"] = <<>> /\ files'["backup"] = files["active"]
        /\ files'["gone"] = files["gone"] \o files["backup"]
    BY <1>1, <1>2, <1>3 DEF Typed, FileNames
  <1>5. handle' \in FileNames \cup {None} /\ (handle' = None <=> handle = None) /\ handle' # "active"
    BY <1>1, <1>3 DEF Moved, FileNames
  <1> QED  BY <1>4, <1>5

LEMMA WroteTypes ==
    ASSUME Typed, NEW where \in FileNames, NEW n \in Nat
    PROVE  /\ Wrote(where, n) \in [FileNames -> Seq(Nat)]
           /\ Wrote(where, n)[where] = Append(files[where], n)
           /\ \A f \in FileNames : f # where => Wrote(where, n)[f] = files[f]
  <1>1. files \in [FileNames -> Seq(Nat)]
    BY DEF Typed
  <1>2. Append(files[where], n) \in Seq(Nat)
    BY <1>1, AppendProperties
  <1> QED  BY <1>1, <1>2 DEF Wrote

LEMMA BuildStep ==
    ASSUME Sound, NEW t \in Threads, BuildOpen(t) \/ BuildHeader(t)
    PROVE  Sound' /\ (Opened \/ Headed)
  <1> DEFINE e == [pc[t] EXCEPT !.at = IF At(t) = "open" THEN "header" ELSE "install"]
  <1>1. /\ Typed /\ pc[t] \in Places /\ At(t) \in {"open", "header"} /\ pc' = [pc EXCEPT ![t] = e]
        /\ UNCHANGED <<recordLevel, logLevel, config, lastCfg, writer, cfgLock, writerLock, queue, pending,
                       health, console, calls, failures, drained, clearedAt, told>>
    BY DEF BuildOpen, BuildHeader, Sound, Typed, At, levelVars, cfgVars
  <1>2. pc[t] \in BuildAt /\ pc[t].ticket = Len(calls) /\ Len(calls) \in Nat
    BY <1>1, PlaceFields, TicketTypes DEF At, Sound, Locks, Holding
  <1>3. /\ e \in BuildAt /\ e.ticket = Len(calls)
        /\ e.at = (IF At(t) = "open" THEN "header" ELSE "install")
    BY <1>1, <1>2 DEF BuildAt
  <1> HIDE DEF e
  <1>4. /\ e \in Places /\ e.at \in Holding /\ e.at \in Configuring
        /\ At(t) \in Holding /\ At(t) \in Configuring
    BY <1>1, <1>3 DEF Places, Holding, Configuring
  <1>5. cfgLock' = t /\ writerLock' = t
    BY <1>1, <1>4 DEF Sound, Locks
  <1>6. Locks' /\ pc' \in [Threads -> Places] /\ Stage' = e.at /\ Stage = At(t)
    BY <1>1, <1>3, <1>4, <1>5, MoveKeepsLocks
  <1>7. CASE BuildOpen(t)
    <2>1. At(t) = "open" /\ (UNCHANGED <<files, handle>> \/ Rotate)
      BY <1>7 DEF BuildOpen, At
    <2>2. /\ files' \in [FileNames -> Seq(Nat)] /\ handle' \in FileNames \cup {None}
          /\ handle' = None <=> handle = None
      BY <1>1, <2>1, RotateTypes DEF Typed
    <2>3. Typed'
      BY <1>1, <1>6, <2>2 DEF Typed
    <2> QED  BY <1>1, <1>3, <1>6, <2>1, <2>3 DEF Opened, Sound
  <1>8. CASE BuildHeader(t)
    <2>1. At(t) = "header" /\ (files' = files \/ files' = Wrote("active", Len(calls))) /\ UNCHANGED handle
      BY <1>2, <1>8 DEF BuildHeader, At
    <2>2. files' \in [FileNames -> Seq(Nat)]
      BY <1>1, <1>2, <2>1, WroteTypes DEF Typed, FileNames
    <2>3. Typed'
      BY <1>1, <1>6, <2>1, <2>2 DEF Typed
    <2> QED  BY <1>1, <1>3, <1>6, <2>1, <2>3 DEF Headed, Sound
  <1> QED  BY <1>7, <1>8

LEMMA EndOfUpdate ==
    ASSUME Sound, NEW t \in Threads, At(t) \in {"open", "header", "install"}, Unlock(t), UNCHANGED calls
    PROVE  Locks' /\ pc' \in [Threads -> Places] /\ Stage' = "free" /\ Stage = At(t)
  <1>1. /\ Idle \in Places /\ Idle.at \notin Holding /\ Idle.at \notin Configuring
        /\ At(t) \in Holding /\ At(t) \in Configuring
        /\ pc' = [pc EXCEPT ![t] = Idle] /\ cfgLock' = NoThread /\ writerLock' = NoThread
    BY DEF Idle, Places, Holding, Configuring, Unlock
  <1> QED  BY <1>1, MoveKeepsLocks

LEMMA GiveUpStep ==
    ASSUME Sound, NEW t \in Threads, BuildFails(t)
    PROVE  Sound' /\ GivenUp
  <1>1. /\ Typed /\ pc[t] \in Places /\ At(t) \in {"open", "header", "install"} /\ Unlock(t)
        /\ UNCHANGED <<recordLevel, logLevel, config, lastCfg, writer, queue, pending,
                       console, files, handle, calls, drained, clearedAt, told>>
    BY DEF BuildFails, Sound, Typed, At, levelVars, cfgVars, sinkVars
  <1>2. pc[t].ticket = Len(calls) /\ Len(calls) \in Nat
    BY <1>1, TicketTypes DEF Sound, Locks, Holding
  <1> DEFINE failure == Failure("setup", Len(calls), {})
  <1>3. failure \in Failed
    BY <1>2, FailureFields
  <1>4. failures' = Append(failures, failure) /\ health' = RecordError(health, failure)
    BY <1>2 DEF BuildFails, Fails
  <1>5. Locks' /\ pc' \in [Threads -> Places] /\ Stage' = "free" /\ Stage = At(t)
    BY <1>1, EndOfUpdate
  <1> HIDE DEF failure
  <1>6. Append(failures, failure) \in Seq(Failed) /\ RecordError(health, failure) \in Health
    BY <1>1, <1>3, NotedTypes
  <1>7. Typed'
    BY <1>1, <1>4, <1>5, <1>6 DEF Typed
  <1> QED  BY <1>1, <1>4, <1>5, <1>7 DEF GivenUp, Sound, failure

LEMMA LeastLevel ==
    ASSUME NEW cfg \in Configs
    PROVE  /\ EffectiveLevel(cfg) \in Debug..Off
           /\ \A l \in Debug..(Off - 1) :
                 l >= EffectiveLevel(cfg) <=> \E s \in Installed(cfg) : l >= Level(cfg, s)
  <1> DEFINE levels == {Off} \cup {Level(cfg, s) : s \in Installed(cfg)}
  <1>1. levels \in SUBSET (Debug..Off) /\ Off \in levels
    BY DEF Level, Configs, Debug, Off
  <1> HIDE DEF levels
  <1>2. levels \in SUBSET Nat /\ levels # {}
    BY <1>1 DEF Debug, Off
  <1>3. \E l \in levels : \A other \in levels : l <= other
    BY <1>2, LeastElement
  <1> DEFINE least == CHOOSE l \in levels : \A other \in levels : l <= other
  <1>4. least \in levels /\ \A other \in levels : least <= other
    BY <1>3
  <1>5. EffectiveLevel(cfg) = least
    BY DEF EffectiveLevel, levels
  <1> HIDE DEF least
  <1>6. ASSUME NEW l \in Debug..(Off - 1)
        PROVE  l >= least <=> \E s \in Installed(cfg) : l >= Level(cfg, s)
    <2>1. ASSUME l >= least PROVE \E s \in Installed(cfg) : l >= Level(cfg, s)
      <3>1. least # Off
        BY <2>1, <1>2 DEF Debug, Off
      <3>2. PICK s \in Installed(cfg) : least = Level(cfg, s)
        BY <1>4, <3>1 DEF levels
      <3> QED  BY <2>1, <3>2
    <2>2. ASSUME NEW s \in Installed(cfg), l >= Level(cfg, s) PROVE l >= least
      <3>1. Level(cfg, s) \in levels
        BY DEF levels
      <3>2. least <= Level(cfg, s) /\ least \in levels
        BY <1>4, <3>1
      <3>3. \A x \in levels : x \in Nat
        BY <1>2
      <3>4. least \in Nat /\ Level(cfg, s) \in Nat
        BY <3>1, <3>2, <3>3
      <3>5. l \in Nat
        BY DEF Debug, Off
      <3> QED  BY <2>2, <3>2, <3>4, <3>5
    <2> QED  BY <2>1, <2>2
  <1> QED  BY <1>1, <1>4, <1>5, <1>6

LEMMA InstallStep ==
    ASSUME Sound, NEW t \in Threads, Install(t)
    PROVE  Sound' /\ Replaced /\ writer' \in Configs /\ logLevel' = EffectiveLevel(writer')
  <1>1. /\ Typed /\ pc[t] \in Places /\ At(t) = "install" /\ Unlock(t) /\ queue = <<>>
        /\ UNCHANGED <<recordLevel, queue, pending, console, files, calls, drained, clearedAt, told>>
        /\ writer' = pc[t].cfg /\ config' = pc[t].cfg /\ lastCfg' = pc[t].cfg
        /\ logLevel' = EffectiveLevel(pc[t].cfg)
        /\ handle' = IF pc[t].cfg.file = "off" THEN None ELSE "active"
    BY DEF Install, Sound, Typed, At
  <1>2. pc[t].ticket = Len(calls) /\ Len(calls) \in Nat /\ pc[t].cfg \in Configs
    BY <1>1, TicketTypes, PlaceFields DEF Sound, Locks, Holding, At
  <1> DEFINE failure == Failure("shutdown", Len(calls), {"console"})
  <1>3. failure \in Failed
    BY <1>2, FailureFields DEF Sinks
  <1>4. \/ UNCHANGED <<failures, health>>
        \/ failures' = Append(failures, failure) /\ health' = RecordError(health, failure)
    BY <1>2 DEF Install, Fails, NothingFails
  <1>5. Locks' /\ pc' \in [Threads -> Places] /\ Stage' = "free" /\ Stage = "install"
    BY <1>1, EndOfUpdate
  <1> HIDE DEF failure
  <1>6. failures' \in Seq(Failed) /\ health' \in Health
    <2>1. Append(failures, failure) \in Seq(Failed) /\ RecordError(health, failure) \in Health
      BY <1>1, <1>3, NotedTypes
    <2> QED  BY <1>1, <1>4, <2>1 DEF Typed
  <1>7. writer' \in Configs /\ logLevel' \in Debug..Off /\ logLevel' = EffectiveLevel(writer')
    BY <1>1, <1>2, LeastLevel
  <1>8. handle' \in FileNames \cup {None} /\ (handle' = None <=> writer' = None \/ writer'.file = "off")
    BY <1>1, <1>2, <1>7, ConstantFacts DEF FileNames
  <1>9. Typed'
    BY <1>1, <1>2, <1>5, <1>6, <1>7, <1>8 DEF Typed
  <1>10. Replaced
    BY <1>1, <1>4, <1>5, <1>7 DEF Replaced, failure
  <1> QED  BY <1>5, <1>7, <1>9, <1>10 DEF Sound

-----------------------------------------------------------------------------
(* The worker                                                               *)

(* What the sinks make of a line is what it is due at, by the thresholds    *)
(* and by what each sink shows.                                             *)
LEMMA DueIsAttempted ==
    ASSUME writer \in Configs, NEW line \in LineType
    PROVE  Attempted(writer, line) = Due(line) /\ Due(line) \subseteq Sinks
  <1>1. writer # None
    BY ConstantFacts
  <1>2. line.type \in {"event", "exit", "scope"}
    BY DEF LineType
  <1>3. ASSUME NEW s \in Sinks PROVE s \in Attempted(writer, line) <=> s \in Due(line)
    <2>1. CASE s = "console"
      BY <1>1, <1>2, <2>1 DEF Attempted, Due, Installed, Passes, Writes, Level, Sinks
    <2>2. CASE s = "file"
      BY <1>1, <1>2, <2>2 DEF Attempted, Due, Installed, Passes, Writes, Level, Sinks
    <2> QED  BY <2>1, <2>2 DEF Sinks
  <1>4. Attempted(writer, line) \subseteq Sinks /\ Due(line) \subseteq Sinks
    BY DEF Attempted, Installed, Due
  <1> QED  BY <1>3, <1>4

(* What the worker does with the oldest line.                               *)
SettledAs(n, sinks, failing) ==
    /\ \/ failing = {} /\ UNCHANGED <<failures, health, pending>>
       \/ /\ failing # {}
          /\ failures' = Append(failures, Failure("write", n, failing))
          /\ health' = RecordError(health, Failure("write", n, failing))
          /\ pending' = IF pending = None THEN Failure("write", n, failing) ELSE pending
    /\ console' = IF "console" \in sinks \ failing THEN Append(console, n) ELSE console
    /\ files' = IF "file" \in sinks \ failing THEN Wrote(handle, n) ELSE files
    /\ calls' = [calls EXCEPT ![n].fate =
                    IF "file" \in sinks \ failing /\ handle # "active" THEN "astray" ELSE "settled"]
    /\ queue' = Tail(queue)
    /\ UNCHANGED <<writer, handle, drained, clearedAt, told>>

LEMMA SettleFields ==
    ASSUME Typed, Settle, Head(queue).ticket \in 1..Len(calls), writer # None
    PROVE  /\ queue # <<>> /\ Head(queue) \in ItemType
           /\ \E failing \in SUBSET Due(Head(queue).line) :
                 SettledAs(Head(queue).ticket, Due(Head(queue).line), failing)
           /\ Due(Head(queue).line) \subseteq Sinks
           /\ "file" \in Due(Head(queue).line) => handle \in FileNames
  <1> DEFINE n == Head(queue).ticket
             line == Head(queue).line
             sinks == Attempted(writer, line)
  <1>1. queue # <<>> /\ queue \in Seq(ItemType) /\ writer \in Configs
    BY DEF Settle, Typed
  <1>2. Head(queue) \in ItemType /\ line \in LineType
    <2>1. Head(queue) \in ItemType
      BY <1>1, HeadTailProperties
    <2> QED  BY <2>1 DEF ItemType
  <1>3. sinks = Due(line) /\ Due(line) \subseteq Sinks
    <2> HIDE DEF line
    <2> QED  BY <1>1, <1>2, DueIsAttempted DEF sinks
  <1>4. PICK failing \in SUBSET sinks :
          /\ failures' = IF failing = {} THEN failures ELSE Append(failures, Failure("write", n, failing))
          /\ health' = IF Succeeds(sinks, failing) THEN health
                       ELSE RecordError(health, Failure("write", n, failing))
          /\ pending' = IF pending = None /\ ~Succeeds(sinks, failing)
                        THEN Failure("write", n, failing) ELSE pending
          /\ console' = IF "console" \in Reached(sinks, failing) THEN Append(console, n) ELSE console
          /\ files' = IF "file" \in Reached(sinks, failing) THEN Wrote(handle, n) ELSE files
          /\ calls' = [calls EXCEPT ![n].fate =
                          IF "file" \in Reached(sinks, failing) /\ handle # "active"
                          THEN "astray" ELSE "settled"]
    BY DEF Settle
  <1>5. queue' = Tail(queue) /\ UNCHANGED <<writer, handle, drained, clearedAt, told>>
    BY DEF Settle, cfgVars
  <1> HIDE DEF n, line, sinks
  <1>6. SettledAs(n, sinks, failing)
    BY <1>4, <1>5 DEF SettledAs, Succeeds, Reached
  <1>7. "file" \in Due(line) => handle \in FileNames
    BY <1>1, ConstantFacts DEF Due, Typed
  <1> QED  BY <1>1, <1>2, <1>3, <1>6, <1>7 DEF n, line

-----------------------------------------------------------------------------
(* Tickets.  The queue holds tickets later than the last that was drained,  *)
(* in order; a thread with the writer's lock is before or after the draining*)
(* that answers it, which is later than the last clear and the last answer  *)
(* of flush().  Nothing is queued without an installed writer.              *)

Order ==
    /\ queue # <<>> => writer # None
    /\ \A i \in 1..Len(queue) : drained < queue[i].ticket /\ queue[i].ticket <= Len(calls)
    /\ \A i, j \in 1..Len(queue) : i < j => queue[i].ticket < queue[j].ticket
    /\ Stage # "free" => \A i \in 1..Len(queue) : queue[i].ticket < Len(calls)
    /\ drained <= Len(calls) /\ clearedAt <= drained
    /\ Stage \in {"flush", "clear", "drain"} => drained < Len(calls)
    /\ Stage \in {"reset", "open", "header", "install"} => drained = Len(calls) /\ clearedAt < drained
    /\ told # None => /\ told.since < told.ticket /\ told.ticket <= drained
                      /\ Stage \in {"reset", "open", "header", "install"} => told.ticket < drained

LEMMA QueueFields ==
    ASSUME Typed
    PROVE  /\ \A i \in 1..Len(queue) : queue[i] \in ItemType /\ queue[i].ticket \in Nat
                                       /\ queue[i].line \in LineType
           /\ queue # <<>> => /\ Head(queue) = queue[1] /\ 1 \in 1..Len(queue)
                              /\ Tail(queue) \in Seq(ItemType) /\ Len(Tail(queue)) = Len(queue) - 1
                              /\ \A i \in 1..Len(Tail(queue)) : Tail(queue)[i] = queue[i + 1]
           /\ queue = <<>> => Len(queue) = 0
  <1>1. queue \in Seq(ItemType) /\ Len(queue) \in Nat
    BY TicketTypes DEF Typed
  <1>2. \A i \in 1..Len(queue) : queue[i] \in ItemType
    BY <1>1, ElementOfSeq
  <1>3. queue # <<>> => /\ Head(queue) = queue[1] /\ Len(queue) # 0
                        /\ Tail(queue) \in Seq(ItemType) /\ Len(Tail(queue)) = Len(queue) - 1
                        /\ \A i \in 1..Len(Tail(queue)) : Tail(queue)[i] = queue[i + 1]
    BY <1>1, HeadTailProperties, EmptySeq
  <1>4. \A i \in 1..Len(queue) : queue[i].ticket \in Nat /\ queue[i].line \in LineType
    BY <1>2 DEF ItemType
  <1>5. queue # <<>> => 1 \in 1..Len(queue)
    BY <1>1, <1>3
  <1> QED  BY <1>2, <1>3, <1>4, <1>5

LEMMA CallTypes ==
    ASSUME Typed, NEW n \in 1..Len(calls)
    PROVE  calls[n] \in CallType
  BY ElementOfSeq DEF Typed

(* The fate of one ticket is decided.                                       *)
LEMMA FateFields ==
    ASSUME Typed, NEW n \in 1..Len(calls), NEW fate \in {"settled", "astray"},
           calls' = [calls EXCEPT ![n].fate = fate]
    PROVE  /\ calls' \in Seq(CallType) /\ Len(calls') = Len(calls)
           /\ \A m \in 1..Len(calls) : calls'[m].call = calls[m].call /\ calls'[m].due = calls[m].due
           /\ \A m \in 1..Len(calls) : calls'[m].fate = IF m = n THEN fate ELSE calls[m].fate
  <1>1. calls \in Seq(CallType) /\ calls[n] \in CallType
    BY CallTypes DEF Typed
  <1> DEFINE c == [calls[n] EXCEPT !.fate = fate]
  <1>2. c \in CallType /\ c.call = calls[n].call /\ c.due = calls[n].due /\ c.fate = fate
    BY <1>1 DEF CallType
  <1>3. calls' = [calls EXCEPT ![n] = c]
    OBVIOUS
  <1> HIDE DEF c
  <1>4. calls' \in Seq(CallType) /\ Len(calls') = Len(calls)
        /\ \A m \in 1..Len(calls) : calls'[m] = IF m = n THEN c ELSE calls[m]
    BY <1>1, <1>2, <1>3, ExceptSeq
  <1> QED  BY <1>2, <1>4

LEMMA SettleStep ==
    ASSUME Sound, Order, Settle
    PROVE  Sound' /\ Settled /\ UNCHANGED <<logLevel>>
  <1>1. /\ Typed /\ queue # <<>> /\ writer # None
        /\ UNCHANGED <<recordLevel, logLevel, config, lastCfg, writer, cfgLock, writerLock, pc, handle,
                       drained, clearedAt, told>>
    BY DEF Sound, Order, Settle, levelVars, cfgVars
  <1>2. /\ Head(queue).ticket \in 1..Len(calls) /\ Head(queue).ticket \in Nat
        /\ Tail(queue) \in Seq(ItemType) /\ Len(Tail(queue)) <= Capacity
    <2>1. queue[1].ticket \in 1..Len(calls) /\ queue[1].ticket \in Nat
      BY <1>1, QueueFields, TicketTypes DEF Order, Typed
    <2>2. Len(queue) \in Nat /\ Len(queue) <= Capacity /\ Capacity \in Nat
      BY <1>1, TicketTypes, ConstantFacts DEF Typed
    <2> QED  BY <1>1, <2>1, <2>2, QueueFields
  <1> DEFINE n == Head(queue).ticket
             sinks == Due(Head(queue).line)
  <1>3. PICK failing \in SUBSET sinks : SettledAs(n, sinks, failing)
    BY <1>1, <1>2, SettleFields
  <1>4. sinks \subseteq Sinks /\ ("file" \in sinks => handle \in FileNames)
    BY <1>1, <1>2, SettleFields
  <1> HIDE DEF n, sinks
  <1>5. n \in 1..Len(calls) /\ n \in Nat
    BY <1>2 DEF n
  <1>6. calls' \in Seq(CallType) /\ Len(calls') = Len(calls)
    BY <1>1, <1>3, <1>5, FateFields DEF SettledAs
  <1> DEFINE failure == Failure("write", n, failing)
  <1>7. failure \in Failed
    BY <1>4, <1>5, FailureFields
  <1>8. failures' \in Seq(Failed) /\ health' \in Health /\ pending' \in Failed \cup {None}
    <2>1. \/ UNCHANGED <<failures, health, pending>>
          \/ /\ failures' = Append(failures, failure) /\ health' = RecordError(health, failure)
             /\ pending' \in {failure, pending}
      BY <1>3 DEF SettledAs
    <2> HIDE DEF failure
    <2>2. Append(failures, failure) \in Seq(Failed) /\ RecordError(health, failure) \in Health
      BY <1>1, <1>7, NotedTypes
    <2> QED  BY <1>1, <1>7, <2>1, <2>2 DEF Typed
  <1>9. console' \in Seq(Nat)
    <2>1. console \in Seq(Nat)
      BY <1>1 DEF Typed
    <2> QED  BY <1>3, <1>5, <2>1, AppendProperties DEF SettledAs
  <1>10. files' \in [FileNames -> Seq(Nat)]
    <2>1. files \in [FileNames -> Seq(Nat)]
      BY <1>1 DEF Typed
    <2>2. CASE "file" \in sinks \ failing
      <3>1. Wrote(handle, n) \in [FileNames -> Seq(Nat)]
        BY <1>1, <1>4, <1>5, <2>2, WroteTypes
      <3> QED  BY <1>3, <2>2, <3>1 DEF SettledAs
    <2>3. CASE "file" \notin sinks \ failing
      BY <1>3, <2>1, <2>3 DEF SettledAs
    <2> QED  BY <2>2, <2>3
  <1>11. queue' = Tail(queue)
    BY <1>3 DEF SettledAs
  <1>12. Typed'
    BY <1>1, <1>2, <1>6, <1>8, <1>9, <1>10, <1>11 DEF Typed
  <1>13. Stage' = Stage /\ Locks'
    BY <1>1, <1>6 DEF Stage, At, Locks, Sound
  <1> QED  BY <1>1, <1>12, <1>13 DEF Settled, Sound

-----------------------------------------------------------------------------
LEMMA InitSound ==
    ASSUME Init
    PROVE  Sound /\ Order /\ Stage = "free"
  <1>1. /\ recordLevel \in Debug..Off /\ logLevel \in Debug..Off /\ config \in Configs
    BY DEF Init, DefaultConfig, Configs, Debug, Info, Off
  <1>2. pc \in [Threads -> Places] /\ \A t \in Threads : At(t) = "idle"
    BY DEF Init, Places, At, Idle
  <1>3. /\ lastCfg = None /\ writer = None /\ queue = <<>> /\ pending = None /\ console = <<>>
        /\ handle = None /\ calls = <<>> /\ failures = <<>> /\ drained = 0 /\ clearedAt = 0
        /\ told = None /\ cfgLock = NoThread /\ writerLock = NoThread /\ health = NoFailures
    BY DEF Init
  <1>4. files \in [FileNames -> Seq(Nat)]
    BY EmptySeq DEF Init
  <1>5. health \in Health
    BY <1>3 DEF NoFailures, Health
  <1>6. /\ <<>> \in Seq(ItemType) /\ <<>> \in Seq(Nat) /\ <<>> \in Seq(CallType) /\ <<>> \in Seq(Failed)
        /\ Len(<<>>) = 0
    BY EmptySeq
  <1>7. Typed
    BY <1>1, <1>2, <1>3, <1>4, <1>5, <1>6, ConstantFacts DEF Typed
  <1>8. Locks
    BY <1>2, <1>3, ConstantFacts DEF Locks, Holding, Configuring
  <1>9. Order /\ Stage = "free"
    BY <1>3, <1>6 DEF Order, Stage
  <1> QED  BY <1>7, <1>8, <1>9 DEF Sound

LEMMA SoundStep ==
    ASSUME Sound, Order, [Next]_vars
    PROVE  /\ Sound' /\ WriterStep
           /\ UNCHANGED <<logLevel, writer>> \/ (writer' \in Configs /\ logLevel' = EffectiveLevel(writer'))
  <1>1. CASE \E t \in Threads : Install(t)
    BY <1>1, InstallStep DEF WriterStep
  <1>2. CASE ~ \E t \in Threads : Install(t)
    <2>1. UNCHANGED <<logLevel, writer>>
      <3>1. CASE Settle \/ (\E l \in Thresholds : SetRecordLevel(l)) \/ UNCHANGED vars
        BY <3>1 DEF Settle, SetRecordLevel, vars, levelVars, cfgVars
      <3>2. ASSUME NEW t \in Threads,
                   \/ \E kind \in Kinds : Log(t, kind) \/ LogExternal(t, kind)
                   \/ EnterScope(t) \/ ExitScope(t)
            PROVE  UNCHANGED <<logLevel, writer>>
        <4>1. Undisturbed
          BY <3>2 DEF Log, LogExternal, EnterScope, ExitScope
        <4> QED  BY <4>1, UndisturbedFlat
      <3>3. ASSUME NEW t \in Threads, Reconfigure(t)
            PROVE  UNCHANGED <<logLevel, writer>>
        <4>1. \E cfg, header, force : Update(t, cfg, header, force)
          BY <3>3 DEF Reconfigure
        <4> QED  BY <4>1 DEF Update, levelVars, cfgVars
      <3>4. ASSUME NEW t \in Threads, Flush(t) \/ ClearStart(t) \/ Continue(t)
            PROVE  UNCHANGED <<logLevel, writer>>
        BY <1>2, <3>4 DEF Flush, ClearStart, Continue, WriteLine, FlushAnswered, ClearFlushed, ClearEnd,
                          UpdateStart, UpdateFlushed, BuildOpen, BuildHeader, BuildFails, levelVars, cfgVars
      <3> QED  BY <3>1, <3>2, <3>3, <3>4 DEF Next
    <2>2. Sound' /\ WriterStep
      <3>1. CASE Settle
        BY <3>1, SettleStep DEF WriterStep
      <3>2. CASE \E l \in Thresholds : SetRecordLevel(l)
        BY <3>2, RecordLevelStep DEF WriterStep
      <3>3. CASE UNCHANGED vars
        BY <3>3, StutterStep DEF WriterStep
      <3>4. ASSUME NEW t \in Threads,
                   \/ \E kind \in Kinds : Log(t, kind) \/ LogExternal(t, kind)
                   \/ EnterScope(t) \/ ExitScope(t) \/ Reconfigure(t)
            PROVE  Sound' /\ WriterStep
        BY <3>4, AppSteps, ReconfigureStep DEF WriterStep
      <3>5. ASSUME NEW t \in Threads, Flush(t) \/ ClearStart(t) \/ Continue(t)
            PROVE  Sound' /\ WriterStep
        <4>1. CASE Flush(t) \/ ClearStart(t) \/ UpdateStart(t)
          BY <4>1, WaitStep DEF WriterStep
        <4>2. CASE WriteLine(t)
          BY <4>2, WriteLineStep DEF WriterStep
        <4>3. CASE FlushAnswered(t) \/ ClearFlushed(t) \/ UpdateFlushed(t)
          BY <4>3, AnswerStep DEF WriterStep
        <4>4. CASE ClearEnd(t)
          BY <4>4, ResetStep DEF WriterStep
        <4>5. CASE BuildOpen(t) \/ BuildHeader(t)
          BY <4>5, BuildStep DEF WriterStep
        <4>6. CASE BuildFails(t)
          BY <4>6, GiveUpStep DEF WriterStep
        <4> QED  BY <1>2, <3>5, <4>1, <4>2, <4>3, <4>4, <4>5, <4>6 DEF Continue
      <3> QED  BY <3>1, <3>2, <3>3, <3>4, <3>5 DEF Next
    <2> QED  BY <2>1, <2>2
  <1> QED  BY <1>1, <1>2

-----------------------------------------------------------------------------
(* The steps in terms of tickets                                            *)

LEMMA CallAdded ==
    ASSUME Typed, NEW c \in CallType, calls' = Append(calls, c)
    PROVE  /\ Len(calls) \in Nat /\ Len(calls') = Len(calls) + 1 /\ calls'[Len(calls) + 1] = c
           /\ \A n \in 1..Len(calls) : calls'[n] = calls[n]
  <1>1. calls \in Seq(CallType)
    BY DEF Typed
  <1> QED  BY <1>1, AppendProperties, LenProperties

(* A line is skipped or dropped, or it is the newest in the queue.          *)
Held(line) ==
    /\ writer # None /\ Len(queue') = Len(queue) + 1 /\ UNCHANGED health
    /\ \A i \in 1..Len(queue) : queue'[i] = queue[i]
    /\ queue'[Len(queue) + 1].ticket = Len(calls) + 1 /\ queue'[Len(queue) + 1].line = line
    /\ calls'[Len(calls) + 1].due = Due(line) /\ calls'[Len(calls) + 1].fate = "queued"
LetGo ==
    /\ calls'[Len(calls) + 1].due = {} /\ UNCHANGED queue
    /\ \/ calls'[Len(calls) + 1].fate = "skipped" /\ UNCHANGED health
       \/ calls'[Len(calls) + 1].fate = "dropped" /\ health' = DropRecord(health)

LEMMA HandOverFields ==
    ASSUME Typed, NEW line \in LineType, HandOver(line)
    PROVE  /\ Stage = "free" /\ Stage' = "free" /\ Len(calls) \in Nat /\ Len(calls') = Len(calls) + 1
           /\ \A n \in 1..Len(calls) : calls'[n] = calls[n]
           /\ calls'[Len(calls) + 1].call = line.type
           /\ Held(line) \/ LetGo
           /\ UNCHANGED <<writer, pending, console, files, handle, failures, drained, clearedAt, told>>
  <1>1. /\ Stage = "free" /\ Stage' = "free"
        /\ UNCHANGED <<writer, pending, console, files, handle, failures, drained, clearedAt, told>>
    BY DEF HandOver
  <1>2. line.type \in {"event", "exit", "scope"} /\ Due(line) \in SUBSET Sinks
    BY DEF LineType, Due
  <1>3. ASSUME NEW due \in SUBSET Sinks, NEW fate \in {"skipped", "queued", "dropped"},
               calls' = Append(calls, CallOf(line.type, due, fate))
        PROVE  /\ Len(calls) \in Nat /\ Len(calls') = Len(calls) + 1
               /\ \A n \in 1..Len(calls) : calls'[n] = calls[n]
               /\ calls'[Len(calls) + 1].call = line.type /\ calls'[Len(calls) + 1].due = due
               /\ calls'[Len(calls) + 1].fate = fate
    <2>1. /\ CallOf(line.type, due, fate) \in CallType /\ CallOf(line.type, due, fate).call = line.type
          /\ CallOf(line.type, due, fate).due = due /\ CallOf(line.type, due, fate).fate = fate
      BY <1>2, CallFields
    <2> QED  BY <1>3, <2>1, CallAdded
  <1>4. CASE /\ writer # None /\ calls' = Append(calls, CallOf(line.type, Due(line), "queued"))
             /\ queue' = Append(queue, [ticket |-> Len(calls) + 1, line |-> line]) /\ UNCHANGED health
    <2> DEFINE item == [ticket |-> Len(calls) + 1, line |-> line]
    <2>1. item \in ItemType /\ item.ticket = Len(calls) + 1 /\ item.line = line
      BY TicketTypes DEF ItemType
    <2>2. queue \in Seq(ItemType) /\ queue' = Append(queue, item)
      BY <1>4 DEF Typed
    <2> HIDE DEF item
    <2>3. /\ Len(queue') = Len(queue) + 1 /\ queue'[Len(queue) + 1] = item
          /\ \A i \in 1..Len(queue) : queue'[i] = queue[i]
      BY <2>1, <2>2, AppendProperties
    <2>4. Held(line)
      BY <1>2, <1>3, <1>4, <2>1, <2>3 DEF Held
    <2> QED  BY <1>1, <1>2, <1>3, <1>4, <2>4
  <1>5. CASE \E fate \in {"skipped", "dropped"} :
               /\ calls' = Append(calls, CallOf(line.type, {}, fate)) /\ UNCHANGED queue
               /\ \/ fate = "skipped" /\ UNCHANGED health
                  \/ fate = "dropped" /\ health' = DropRecord(health)
    <2>1. PICK fate \in {"skipped", "dropped"} :
               /\ calls' = Append(calls, CallOf(line.type, {}, fate)) /\ UNCHANGED queue
               /\ \/ fate = "skipped" /\ UNCHANGED health
                  \/ fate = "dropped" /\ health' = DropRecord(health)
      BY <1>5
    <2>2. LetGo
      BY <1>3, <2>1 DEF LetGo
    <2> QED  BY <1>1, <1>3, <2>1, <2>2
  <1>6. \/ /\ calls' = Append(calls, CallOf(line.type, {}, "skipped"))
           /\ UNCHANGED <<queue, health>>
        \/ /\ writer # None
           /\ calls' = Append(calls, CallOf(line.type, Due(line), "queued"))
           /\ queue' = Append(queue, [ticket |-> Len(calls) + 1, line |-> line])
           /\ UNCHANGED health
        \/ /\ calls' = Append(calls, CallOf(line.type, {}, "dropped"))
           /\ health' = DropRecord(health)
           /\ UNCHANGED queue
    BY DEF HandOver
  <1> QED  BY <1>4, <1>5, <1>6

LEMMA WaitFields ==
    ASSUME Typed, Wait
    PROVE  /\ Stage = "free" /\ Stage' \in {"flush", "clear", "drain"}
           /\ Len(calls) \in Nat /\ Len(calls') = Len(calls) + 1
           /\ \A n \in 1..Len(calls) : calls'[n] = calls[n]
           /\ calls'[Len(calls) + 1].call \in {"flush", "clear", "update"}
           /\ calls'[Len(calls) + 1].due = {} /\ calls'[Len(calls) + 1].fate = "done"
           /\ UNCHANGED <<writer, queue, pending, health, console, files, handle, failures, drained,
                          clearedAt, told>>
  <1>1. PICK call \in {"flush", "clear", "update"} : calls' = Append(calls, CallOf(call, {}, "done"))
    BY DEF Wait
  <1>2. /\ CallOf(call, {}, "done") \in CallType /\ CallOf(call, {}, "done").call = call
        /\ CallOf(call, {}, "done").due = {} /\ CallOf(call, {}, "done").fate = "done"
    BY CallFields
  <1>3. /\ Len(calls) \in Nat /\ Len(calls') = Len(calls) + 1
        /\ calls'[Len(calls) + 1] = CallOf(call, {}, "done")
        /\ \A n \in 1..Len(calls) : calls'[n] = calls[n]
    BY <1>1, <1>2, CallAdded
  <1> QED  BY <1>2, <1>3 DEF Wait

(* The line at the head of the queue, with its ticket, leaves it settled.   *)
Leaves(n, due, failing, fate) ==
    /\ n \in 1..Len(calls) /\ n \in Nat /\ Len(queue) \in Nat /\ Len(queue) # 0
    /\ n = queue[1].ticket /\ due = Due(queue[1].line)
    /\ due \subseteq Sinks /\ failing \subseteq due
    /\ "file" \in due => handle \in FileNames
    /\ fate = (IF "file" \in due \ failing /\ handle # "active" THEN "astray" ELSE "settled")
    /\ SettledAs(n, due, failing)
    /\ Len(queue') = Len(queue) - 1 /\ \A i \in 1..Len(queue') : queue'[i] = queue[i + 1]
    /\ Len(calls) \in Nat /\ Len(calls') = Len(calls)
    /\ \A m \in 1..Len(calls) :
          /\ calls'[m].call = calls[m].call /\ calls'[m].due = calls[m].due
          /\ calls'[m].fate = IF m = n THEN fate ELSE calls[m].fate
    /\ Stage' = Stage

LEMMA SettledFields ==
    ASSUME Typed, Order, Settled
    PROVE  \E n, due, failing, fate : Leaves(n, due, failing, fate)
  <1>1. Settle /\ Stage' = Stage /\ queue # <<>> /\ writer # None
    BY DEF Settled, Settle, Order
  <1>2. /\ Head(queue) = queue[1] /\ queue[1].ticket \in 1..Len(calls) /\ Len(calls) \in Nat
        /\ Len(queue) \in Nat /\ Len(queue) # 0
        /\ Len(Tail(queue)) = Len(queue) - 1
        /\ \A i \in 1..Len(Tail(queue)) : Tail(queue)[i] = queue[i + 1]
    BY <1>1, QueueFields, TicketTypes DEF Order, Typed
  <1> DEFINE n == queue[1].ticket
             due == Due(queue[1].line)
  <1>3. PICK failing \in SUBSET due : SettledAs(n, due, failing)
    BY <1>1, <1>2, SettleFields
  <1>4. due \subseteq Sinks /\ ("file" \in due => handle \in FileNames)
    BY <1>1, <1>2, SettleFields
  <1>5. n \in 1..Len(calls) /\ n \in Nat
    BY <1>2
  <1> DEFINE fate == IF "file" \in due \ failing /\ handle # "active" THEN "astray" ELSE "settled"
  <1>6. calls' = [calls EXCEPT ![n].fate = fate] /\ queue' = Tail(queue)
    <2> HIDE DEF n, due
    <2> QED  BY <1>3 DEF SettledAs
  <1>7. fate \in {"settled", "astray"}
    OBVIOUS
  <1> HIDE DEF fate, due, n
  <1>8. /\ Len(calls') = Len(calls)
        /\ \A m \in 1..Len(calls) : calls'[m].call = calls[m].call /\ calls'[m].due = calls[m].due
        /\ \A m \in 1..Len(calls) : calls'[m].fate = IF m = n THEN fate ELSE calls[m].fate
    BY <1>5, <1>6, <1>7, FateFields
  <1>9. n = queue[1].ticket /\ due = Due(queue[1].line)
        /\ fate = (IF "file" \in due \ failing /\ handle # "active" THEN "astray" ELSE "settled")
    BY DEF n, due, fate
  <1>10. Leaves(n, due, failing, fate)
    BY <1>1, <1>2, <1>3, <1>4, <1>5, <1>6, <1>8, <1>9 DEF Leaves
  <1> QED  BY <1>10

(* While an update is built, or the diagnostics are reset, nothing is queued*)
LEMMA DrainedQueue ==
    ASSUME Typed, Order, Stage \in {"reset", "open", "header", "install"}
    PROVE  queue = <<>> /\ Len(queue) = 0 /\ Len(calls) \in 1..Len(calls)
  <1>1. drained = Len(calls) /\ clearedAt < drained /\ drained \in Nat /\ clearedAt \in Nat
    BY DEF Order, Typed
  <1>2. queue = <<>>
    <2> SUFFICES ASSUME queue # <<>> PROVE FALSE
      OBVIOUS
    <2>1. 1 \in 1..Len(queue) /\ queue[1].ticket \in Nat
      BY QueueFields
    <2>2. drained < queue[1].ticket /\ queue[1].ticket <= Len(calls)
      BY <2>1 DEF Order
    <2> QED  BY <1>1, <2>1, <2>2
  <1> QED  BY <1>1, <1>2, EmptySeq

LEMMA TypedTickets ==
    ASSUME Typed
    PROVE  /\ Len(calls) \in Nat /\ drained \in Nat /\ clearedAt \in Nat
           /\ Len(queue) \in Nat /\ \A i \in 1..Len(queue) : queue[i].ticket \in Nat
           /\ told # None => told.since \in Nat /\ told.ticket \in Nat
           /\ Len(failures) \in Nat
           /\ \A i \in 1..Len(failures) : failures[i] \in Failed /\ failures[i].ticket \in Nat
  <1>1. told # None => told.since \in Nat /\ told.ticket \in Nat
    BY DEF Typed, AnswerType
  <1>2. \A i \in 1..Len(failures) : failures[i] \in Failed
    BY ElementOfSeq DEF Typed
  <1>3. \A f \in Failed : f.ticket \in Nat
    BY DEF Failed, FailureType
  <1> QED  BY <1>1, <1>2, <1>3, TicketTypes, QueueFields DEF Typed

LEMMA OrderStep ==
    ASSUME Sound, Sound', Order, WriterStep
    PROVE  Order'
  <1>1. /\ Typed /\ Len(calls) \in Nat /\ drained \in Nat /\ clearedAt \in Nat
        /\ Len(queue) \in Nat /\ \A i \in 1..Len(queue) : queue[i].ticket \in Nat
        /\ told # None => told.since \in Nat /\ told.ticket \in Nat
    BY TypedTickets DEF Sound
  <1>2. CASE Quiet
    BY <1>2 DEF Quiet, Order
  <1>3. CASE \E line \in LineType : HandOver(line)
    <2>1. PICK line \in LineType : HandOver(line)
      BY <1>3
    <2>2. /\ Stage = "free" /\ Stage' = "free" /\ Len(calls') = Len(calls) + 1
          /\ Held(line) \/ LetGo
          /\ UNCHANGED <<writer, drained, clearedAt, told>>
      BY <1>1, <2>1, HandOverFields
    <2>3. CASE LetGo
      BY <1>1, <2>2, <2>3 DEF LetGo, Order
    <2>4. CASE Held(line)
      <3>1. /\ writer # None /\ Len(queue') = Len(queue) + 1
            /\ \A i \in 1..Len(queue) : queue'[i] = queue[i]
            /\ queue'[Len(queue) + 1].ticket = Len(calls) + 1
        BY <2>4 DEF Held
      <3>2. ASSUME NEW i \in 1..Len(queue')
            PROVE  /\ drained < queue'[i].ticket /\ queue'[i].ticket <= Len(calls) + 1
                   /\ \A j \in 1..Len(queue') : i < j => queue'[i].ticket < queue'[j].ticket
        BY <1>1, <3>1 DEF Order
      <3> QED  BY <1>1, <2>2, <3>1, <3>2 DEF Order
    <2> QED  BY <2>2, <2>3, <2>4
  <1>4. CASE Wait
    <2>1. /\ Stage = "free" /\ Stage' \in {"flush", "clear", "drain"} /\ Len(calls') = Len(calls) + 1
          /\ UNCHANGED <<writer, queue, drained, clearedAt, told>>
      BY <1>1, <1>4, WaitFields
    <2> QED  BY <1>1, <2>1 DEF Order
  <1>5. CASE \E result : Answer(result)
    <2>1. PICK result : Answer(result)
      BY <1>5
    <2>2. /\ Stage \in {"flush", "clear", "drain"} /\ queue = <<>> /\ drained' = Len(calls)
          /\ UNCHANGED <<writer, queue, calls, clearedAt>>
          /\ \/ Stage' = "free" /\ told' = [since |-> drained, ticket |-> Len(calls), result |-> result]
             \/ Stage' \in {"reset", "open"} /\ UNCHANGED told
      BY <2>1 DEF Answer
    <2>3. Len(queue) = 0
      BY <2>2, EmptySeq
    <2>4. CASE Stage' = "free" /\ told' = [since |-> drained, ticket |-> Len(calls), result |-> result]
      <3>1. told'.since = drained /\ told'.ticket = Len(calls)
        BY <2>4
      <3> QED  BY <1>1, <2>2, <2>3, <2>4, <3>1 DEF Order
    <2>5. CASE Stage' \in {"reset", "open"} /\ UNCHANGED told
      BY <1>1, <2>2, <2>3, <2>5 DEF Order
    <2> QED  BY <2>2, <2>4, <2>5
  <1>6. CASE Reset \/ Opened \/ Headed \/ GivenUp \/ Replaced
    <2>1. /\ Stage \in {"reset", "open", "header", "install"} /\ Stage' \in {"free", "header", "install"}
          /\ UNCHANGED <<queue, calls, drained, told>>
          /\ UNCHANGED clearedAt \/ (Stage' = "free" /\ clearedAt' = Len(calls))
      <3>1. CASE Reset
        BY <3>1 DEF Reset
      <3>2. CASE Opened \/ Headed
        BY <3>2 DEF Opened, Headed
      <3>3. CASE GivenUp \/ Replaced
        BY <3>3 DEF GivenUp, Replaced
      <3> QED  BY <1>6, <3>1, <3>2, <3>3
    <2>2. queue = <<>> /\ Len(queue) = 0
      BY <1>1, <2>1, DrainedQueue
    <2> QED  BY <1>1, <2>1, <2>2 DEF Order
  <1>7. CASE Settled
    <2>1. PICK n, due, failing, fate : Leaves(n, due, failing, fate)
      BY <1>1, <1>7, SettledFields
    <2>2. /\ Len(queue) # 0 /\ Len(queue') = Len(queue) - 1 /\ Len(calls') = Len(calls) /\ Stage' = Stage
          /\ \A i \in 1..Len(queue') : queue'[i] = queue[i + 1]
          /\ UNCHANGED <<writer, drained, clearedAt, told>>
      BY <2>1 DEF Leaves, SettledAs
    <2>3. queue # <<>> /\ writer # None
      BY <1>7 DEF Settled, Settle, Order
    <2>4. ASSUME NEW i \in 1..Len(queue')
          PROVE  /\ drained < queue'[i].ticket /\ queue'[i].ticket <= Len(calls)
                 /\ Stage # "free" => queue'[i].ticket < Len(calls)
                 /\ \A j \in 1..Len(queue') : i < j => queue'[i].ticket < queue'[j].ticket
      <3>1. \A k \in 1..Len(queue') : k \in Nat /\ k + 1 \in 1..Len(queue) /\ queue'[k] = queue[k + 1]
        BY <1>1, <2>2
      <3>2. /\ drained < queue[i + 1].ticket /\ queue[i + 1].ticket <= Len(calls)
            /\ Stage # "free" => queue[i + 1].ticket < Len(calls)
        BY <3>1 DEF Order
      <3>3. ASSUME NEW j \in 1..Len(queue'), i < j PROVE queue[i + 1].ticket < queue[j + 1].ticket
        <4>1. i + 1 < j + 1 /\ i + 1 \in 1..Len(queue) /\ j + 1 \in 1..Len(queue)
          BY <3>1, <3>3
        <4> QED  BY <4>1 DEF Order
      <3> QED  BY <3>1, <3>2, <3>3
    <2> QED  BY <1>1, <2>2, <2>3, <2>4 DEF Order
  <1> QED  BY <1>2, <1>3, <1>4, <1>5, <1>6, <1>7 DEF WriterStep

-----------------------------------------------------------------------------
(* What has failed and what the sinks hold is older than what is queued;    *)
(* while an update may still insert its header, older than the update.      *)

Before(n) == n \in 1..Len(calls) /\ \A i \in 1..Len(queue) : n < queue[i].ticket
Old(n)    == Before(n) /\ (Stage \in {"drain", "open", "header"} => n < Len(calls))

Past ==
    /\ \A i \in 1..Len(failures) : \A n : n = failures[i].ticket => Before(n)
    /\ \A n \in Range(console) : Old(n)
    /\ \A f \in FileNames : \A n \in Range(files[f]) : Old(n)

LEMMA OldStep ==
    ASSUME Sound, Order, WriterStep, NEW n
    PROVE  (Before(n) => Before(n)') /\ (Old(n) => Old(n)')
  <1>1. /\ Typed /\ Len(calls) \in Nat /\ Len(queue) \in Nat
        /\ \A i \in 1..Len(queue) : queue[i].ticket \in Nat
    BY TypedTickets DEF Sound
  <1>2. CASE Quiet
    BY <1>2 DEF Quiet, Before, Old
  <1>3. CASE \E line \in LineType : HandOver(line)
    <2>1. PICK line \in LineType : HandOver(line)
      BY <1>3
    <2>2. /\ Stage = "free" /\ Stage' = "free" /\ Len(calls') = Len(calls) + 1
          /\ Held(line) \/ LetGo
      BY <1>1, <2>1, HandOverFields
    <2>3. CASE LetGo
      BY <1>1, <2>2, <2>3 DEF LetGo, Before, Old
    <2>4. CASE Held(line)
      <3>1. /\ Len(queue') = Len(queue) + 1
            /\ \A i \in 1..Len(queue) : queue'[i] = queue[i]
            /\ queue'[Len(queue) + 1].ticket = Len(calls) + 1
        BY <2>4 DEF Held
      <3>2. ASSUME Before(n) PROVE Before(n)'
        <4>1. ASSUME NEW i \in 1..Len(queue') PROVE n < queue'[i].ticket
          BY <1>1, <3>1, <3>2 DEF Before
        <4> QED  BY <1>1, <2>2, <3>2, <4>1 DEF Before
      <3> QED  BY <2>2, <3>2 DEF Old
    <2> QED  BY <2>2, <2>3, <2>4
  <1>4. CASE Wait
    <2>1. /\ Len(calls') = Len(calls) + 1 /\ UNCHANGED queue
      BY <1>1, <1>4, WaitFields
    <2> QED  BY <1>1, <2>1 DEF Before, Old
  <1>5. CASE \E result : Answer(result)
    <2>1. /\ UNCHANGED <<queue, calls>>
          /\ Stage' = "open" => Stage = "drain"
          /\ Stage' \in {"free", "reset", "open"}
      BY <1>5 DEF Answer
    <2> QED  BY <2>1 DEF Before, Old
  <1>6. CASE Reset \/ GivenUp \/ Replaced
    <2>1. UNCHANGED <<queue, calls>> /\ Stage' = "free"
      <3>1. CASE Reset
        BY <3>1 DEF Reset
      <3>2. CASE GivenUp
        BY <3>2 DEF GivenUp
      <3>3. CASE Replaced
        BY <3>3 DEF Replaced
      <3> QED  BY <1>6, <3>1, <3>2, <3>3
    <2> QED  BY <2>1 DEF Before, Old
  <1>7. CASE Opened \/ Headed
    <2>1. UNCHANGED <<queue, calls>> /\ (Stage' = "install" \/ (Stage = "open" /\ Stage' = "header"))
      <3>1. CASE Opened
        BY <3>1 DEF Opened
      <3>2. CASE Headed
        BY <3>2 DEF Headed
      <3> QED  BY <1>7, <3>1, <3>2
    <2> QED  BY <2>1 DEF Before, Old
  <1>8. CASE Settled
    <2>1. PICK k, due, failing, fate : Leaves(k, due, failing, fate)
      BY <1>1, <1>8, SettledFields
    <2>2. /\ Len(queue) # 0 /\ Len(queue') = Len(queue) - 1 /\ Len(calls') = Len(calls) /\ Stage' = Stage
          /\ \A i \in 1..Len(queue') : queue'[i] = queue[i + 1]
      BY <2>1 DEF Leaves
    <2>3. ASSUME Before(n), NEW i \in 1..Len(queue') PROVE n < queue'[i].ticket
      <3>1. i + 1 \in 1..Len(queue)
        BY <1>1, <2>2
      <3> QED  BY <2>2, <2>3, <3>1 DEF Before
    <2> QED  BY <2>2, <2>3 DEF Before, Old
  <1> QED  BY <1>2, <1>3, <1>4, <1>5, <1>6, <1>7, <1>8 DEF WriterStep

(* What the worker settles is newer than all that the sinks hold.           *)
Newest(n) == n \in Nat /\ Old(n)' /\ \A m \in Nat : Old(m) => m < n

LEMMA SettlesNewest ==
    ASSUME Sound, Order, NEW n, NEW due, NEW failing, NEW fate, Leaves(n, due, failing, fate)
    PROVE  Newest(n) /\ Before(n)' /\ drained < n
  <1>1. /\ Typed /\ Len(calls) \in Nat /\ Len(queue) \in Nat
        /\ \A i \in 1..Len(queue) : queue[i].ticket \in Nat
    BY TypedTickets DEF Sound
  <1>2. /\ n \in 1..Len(calls) /\ n \in Nat /\ n = queue[1].ticket /\ 1 \in 1..Len(queue)
        /\ Len(queue') = Len(queue) - 1 /\ Len(calls') = Len(calls) /\ Stage' = Stage
        /\ \A i \in 1..Len(queue') : queue'[i] = queue[i + 1]
    BY <1>1 DEF Leaves
  <1>3. drained < n
    BY <1>2 DEF Order
  <1>4. ASSUME NEW i \in 1..Len(queue') PROVE n < queue'[i].ticket
    <2>1. i + 1 \in 1..Len(queue) /\ 1 < i + 1
      BY <1>1, <1>2
    <2> QED  BY <1>2, <2>1 DEF Order
  <1>5. Before(n)'
    BY <1>2, <1>4 DEF Before
  <1>6. ASSUME NEW m \in Nat, Old(m) PROVE m < n
    BY <1>2, <1>6 DEF Old, Before
  <1>7. Stage \in {"drain", "open", "header"} => n < Len(calls)
    BY <1>2 DEF Order
  <1> QED  BY <1>2, <1>3, <1>5, <1>6, <1>7 DEF Newest, Old

(* An operation that fails is newer than the last clear and the last answer *)
(* of flush(), and in the diagnostics.                                      *)
NewFailure(f) ==
    /\ f \in Failed /\ failures' = Append(failures, f) /\ health' = RecordError(health, f)
    /\ clearedAt < f.ticket /\ UNCHANGED clearedAt
    /\ told # None => told.ticket < f.ticket
    /\ Before(f.ticket)'
    /\ f.what = "write" => Settled

LEMMA WhatFails ==
    ASSUME Sound, Order, WriterStep
    PROVE  UNCHANGED failures \/ \E f : NewFailure(f)
  <1>1. /\ Typed /\ Len(calls) \in Nat /\ drained \in Nat /\ clearedAt \in Nat
        /\ told # None => told.since \in Nat /\ told.ticket \in Nat
    BY TypedTickets DEF Sound
  <1>2. CASE Settled
    <2>1. PICK n, due, failing, fate : Leaves(n, due, failing, fate)
      BY <1>1, <1>2, SettledFields
    <2>2. SettledAs(n, due, failing) /\ n \in Nat /\ failing \in SUBSET Sinks
      BY <2>1 DEF Leaves
    <2>3. Before(n)' /\ drained < n
      BY <2>1, SettlesNewest
    <2> DEFINE f == Failure("write", n, failing)
    <2>4. f \in Failed /\ f.ticket = n
      BY <2>2, FailureFields
    <2>5. \/ UNCHANGED failures
          \/ failures' = Append(failures, f) /\ health' = RecordError(health, f) /\ UNCHANGED clearedAt
      BY <2>2 DEF SettledAs
    <2> HIDE DEF f
    <2>6. clearedAt < n /\ (told # None => told.ticket < n)
      BY <1>1, <2>2, <2>3 DEF Order
    <2>7. CASE failures' = Append(failures, f) /\ health' = RecordError(health, f) /\ UNCHANGED clearedAt
      <3>1. PICK g : g = f
        OBVIOUS
      <3>2. NewFailure(g)
        BY <1>2, <2>3, <2>4, <2>6, <2>7, <3>1 DEF NewFailure
      <3> QED  BY <3>2
    <2> QED  BY <2>5, <2>7
  <1>3. ASSUME NEW what \in {"flush", "setup", "shutdown"}, NEW sinks \in SUBSET Sinks,
               failures' = Append(failures, Failure(what, Len(calls), sinks)),
               health' = RecordError(health, Failure(what, Len(calls), sinks)),
               UNCHANGED <<queue, calls, clearedAt>>, queue = <<>>,
               Stage \in {"flush", "clear", "drain"} \/ Stage \in {"open", "header", "install"}
        PROVE  \E f : NewFailure(f)
    <2>1. PICK n : n = Len(calls)
      OBVIOUS
    <2>2. PICK f : f = Failure(what, n, sinks)
      OBVIOUS
    <2>3. f \in Failed /\ f.what = what /\ f.ticket = n
      BY <1>1, <2>1, <2>2, FailureFields
    <2>4. clearedAt < n /\ (told # None => told.ticket < n)
      BY <1>1, <1>3, <2>1 DEF Order
    <2>5. n \in 1..Len(calls) /\ Len(queue) = 0
      BY <1>1, <1>3, <2>1, <2>4, EmptySeq DEF Order
    <2>6. Before(n)'
      BY <1>3, <2>5 DEF Before
    <2>7. failures' = Append(failures, f) /\ health' = RecordError(health, f)
      BY <1>3, <2>1, <2>2
    <2> QED  BY <1>3, <2>3, <2>4, <2>6, <2>7 DEF NewFailure
  <1>4. {"console"} \in SUBSET Sinks /\ {} \in SUBSET Sinks
    BY DEF Sinks
  <1>5. CASE \E result : Answer(result)
    <2>1. /\ Stage \in {"flush", "clear", "drain"} /\ queue = <<>> /\ UNCHANGED <<queue, calls, clearedAt>>
          /\ \/ UNCHANGED failures
             \/ /\ failures' = Append(failures, Failure("flush", Len(calls), {"console"}))
                /\ health' = RecordError(health, Failure("flush", Len(calls), {"console"}))
      BY <1>5 DEF Answer
    <2> QED  BY <1>3, <1>4, <2>1
  <1>6. CASE GivenUp
    <2>1. /\ Stage \in {"open", "header", "install"} /\ UNCHANGED <<queue, calls, clearedAt>>
          /\ failures' = Append(failures, Failure("setup", Len(calls), {}))
          /\ health' = RecordError(health, Failure("setup", Len(calls), {}))
      BY <1>6 DEF GivenUp
    <2>2. queue = <<>>
      BY <1>1, <2>1, DrainedQueue
    <2> QED  BY <1>3, <1>4, <2>1, <2>2
  <1>7. CASE Replaced
    <2>1. /\ Stage = "install" /\ queue = <<>> /\ UNCHANGED <<queue, calls, clearedAt>>
          /\ \/ UNCHANGED failures
             \/ /\ failures' = Append(failures, Failure("shutdown", Len(calls), {"console"}))
                /\ health' = RecordError(health, Failure("shutdown", Len(calls), {"console"}))
      BY <1>7 DEF Replaced
    <2> QED  BY <1>3, <1>4, <2>1
  <1>8. CASE Quiet \/ (\E line \in LineType : HandOver(line)) \/ Wait \/ Reset \/ Opened \/ Headed
    BY <1>8 DEF Quiet, HandOver, Wait, Reset, Opened, Headed
  <1> QED  BY <1>2, <1>5, <1>6, <1>7, <1>8 DEF WriterStep

(* A sink gets a line or a header that is newer than all the sinks hold.    *)
LEMMA WhatIsWritten ==
    ASSUME Sound, Order, WriterStep
    PROVE  /\ UNCHANGED console \/ \E n : Newest(n) /\ console' = Append(console, n)
           /\ \/ UNCHANGED files
              \/ Opened /\ Rotate
              \/ \E n : \E where \in FileNames : Newest(n) /\ files' = Wrote(where, n)
  <1>1. Typed /\ Len(calls) \in Nat
    BY TypedTickets DEF Sound
  <1>2. CASE Settled
    <2>1. PICK n, due, failing, fate : Leaves(n, due, failing, fate)
      BY <1>1, <1>2, SettledFields
    <2>2. /\ console' = IF "console" \in due \ failing THEN Append(console, n) ELSE console
          /\ files' = IF "file" \in due \ failing THEN Wrote(handle, n) ELSE files
          /\ "file" \in due => handle \in FileNames
      BY <2>1 DEF Leaves, SettledAs
    <2>3. Newest(n)
      BY <2>1, SettlesNewest
    <2> QED  BY <2>2, <2>3
  <1>3. CASE Headed
    <2>1. /\ Stage = "header" /\ Stage' = "install" /\ UNCHANGED <<queue, calls, console>>
          /\ files' = files \/ files' = Wrote("active", Len(calls))
      BY <1>3 DEF Headed
    <2>2. PICK n : n = Len(calls)
      OBVIOUS
    <2>3. Len(queue) = 0 /\ n \in 1..Len(calls)
      BY <1>1, <2>1, <2>2, DrainedQueue
    <2>4. Old(n)'
      BY <2>1, <2>3 DEF Old, Before
    <2>5. Newest(n)
      BY <1>1, <2>1, <2>2, <2>4 DEF Newest, Old
    <2>6. "active" \in FileNames
      BY DEF FileNames
    <2> QED  BY <2>1, <2>2, <2>5, <2>6
  <1>4. CASE Opened
    BY <1>4 DEF Opened
  <1>5. CASE Quiet \/ (\E line \in LineType : HandOver(line)) \/ Wait \/ (\E result : Answer(result))
             \/ Reset \/ GivenUp \/ Replaced
    <2>1. UNCHANGED <<console, files>>
      <3>1. CASE Quiet \/ (\E line \in LineType : HandOver(line)) \/ Wait
        BY <3>1 DEF Quiet, HandOver, Wait
      <3>2. CASE \E result : Answer(result)
        BY <3>2 DEF Answer
      <3>3. CASE Reset \/ GivenUp \/ Replaced
        BY <3>3 DEF Reset, GivenUp, Replaced
      <3> QED  BY <1>5, <3>1, <3>2, <3>3
    <2> QED  BY <2>1
  <1> QED  BY <1>2, <1>3, <1>4, <1>5 DEF WriterStep

LEMMA RangeSeq ==
    ASSUME NEW s \in Seq(Nat)
    PROVE  /\ Range(s) \subseteq Nat
           /\ \A m : m \in Range(s) <=> \E i \in 1..Len(s) : s[i] = m
  <1>1. DOMAIN s = 1..Len(s)
    BY LenProperties
  <1>2. \A m : m \in Range(s) <=> \E i \in 1..Len(s) : s[i] = m
    BY <1>1 DEF Range
  <1> QED  BY <1>2, ElementOfSeq

LEMMA RangeAppend ==
    ASSUME NEW s \in Seq(Nat), NEW n \in Nat
    PROVE  Range(Append(s, n)) = Range(s) \cup {n}
  <1>1. /\ Append(s, n) \in Seq(Nat) /\ Len(Append(s, n)) = Len(s) + 1 /\ Append(s, n)[Len(s) + 1] = n
        /\ \A i \in 1..Len(s) : Append(s, n)[i] = s[i]
    BY AppendProperties
  <1>2. ASSUME NEW m PROVE m \in Range(Append(s, n)) <=> m \in Range(s) \/ m = n
    <2>1. m \in Range(s) <=> \E i \in 1..Len(s) : s[i] = m
      BY RangeSeq
    <2>2. m \in Range(Append(s, n)) <=> \E i \in 1..(Len(s) + 1) : Append(s, n)[i] = m
      BY <1>1, RangeSeq
    <2>3. /\ \A i \in 1..(Len(s) + 1) : i \in 1..Len(s) \/ i = Len(s) + 1
          /\ Len(s) + 1 \in 1..(Len(s) + 1) /\ \A i \in 1..Len(s) : i \in 1..(Len(s) + 1)
      BY LenProperties
    <2> QED  BY <1>1, <2>1, <2>2, <2>3
  <1> QED  BY <1>2

LEMMA RangeConcat ==
    ASSUME NEW s \in Seq(Nat), NEW t \in Seq(Nat)
    PROVE  Range(s \o t) = Range(s) \cup Range(t)
  <1>1. Len(s) \in Nat /\ Len(t) \in Nat
    BY LenProperties
  <1>2. /\ s \o t \in Seq(Nat) /\ Len(s \o t) = Len(s) + Len(t)
        /\ \A i \in 1..(Len(s) + Len(t)) : (s \o t)[i] = IF i <= Len(s) THEN s[i] ELSE t[i - Len(s)]
    BY ConcatProperties
  <1>3. \A m : m \in Range(s \o t) <=> \E i \in 1..(Len(s) + Len(t)) : (s \o t)[i] = m
    BY <1>2, RangeSeq
  <1>4. /\ \A m : m \in Range(s) <=> \E i \in 1..Len(s) : s[i] = m
        /\ \A m : m \in Range(t) <=> \E i \in 1..Len(t) : t[i] = m
    BY RangeSeq
  <1>5. ASSUME NEW m, m \in Range(s \o t) PROVE m \in Range(s) \/ m \in Range(t)
    <2>1. PICK i \in 1..(Len(s) + Len(t)) : (s \o t)[i] = m
      BY <1>3, <1>5
    <2>2. i \in 1..Len(s) \/ (i - Len(s) \in 1..Len(t) /\ ~(i <= Len(s)))
      BY <1>1
    <2> QED  BY <1>1, <1>2, <1>4, <2>1, <2>2
  <1>6. ASSUME NEW m, m \in Range(s) PROVE m \in Range(s \o t)
    <2>1. PICK i \in 1..Len(s) : s[i] = m
      BY <1>4, <1>6
    <2>2. i \in 1..(Len(s) + Len(t)) /\ i <= Len(s)
      BY <1>1
    <2> QED  BY <1>2, <1>3, <2>1, <2>2
  <1>7. ASSUME NEW m, m \in Range(t) PROVE m \in Range(s \o t)
    <2>1. PICK i \in 1..Len(t) : t[i] = m
      BY <1>4, <1>7
    <2>2. i + Len(s) \in 1..(Len(s) + Len(t)) /\ ~(i + Len(s) <= Len(s)) /\ (i + Len(s)) - Len(s) = i
      BY <1>1
    <2>3. (s \o t)[i + Len(s)] = m
      BY <1>2, <2>1, <2>2
    <2> QED  BY <1>3, <2>2, <2>3
  <1> QED  BY <1>5, <1>6, <1>7

LEMMA FileTypes ==
    ASSUME Typed
    PROVE  /\ console \in Seq(Nat) /\ \A f \in FileNames : files[f] \in Seq(Nat)
           /\ files["active"] \in Seq(Nat) /\ files["backup"] \in Seq(Nat) /\ files["gone"] \in Seq(Nat)
           /\ FileNames = {"active", "backup", "gone"}
  BY DEF Typed, FileNames

LEMMA PastStep ==
    ASSUME Sound, Sound', Order, Past, WriterStep
    PROVE  Past'
  <1>1. Typed /\ failures \in Seq(Failed) /\ Len(failures) \in Nat
    BY TypedTickets DEF Sound, Typed
  <1>2. \A n : (Before(n) => Before(n)') /\ (Old(n) => Old(n)')
    BY OldStep
  <1>3. \A n : Newest(n) => n \in Nat /\ Old(n)'
    BY DEF Newest
  <1>4. ASSUME NEW i \in 1..Len(failures'), NEW n, n = failures'[i].ticket PROVE Before(n)'
    <2>2. CASE UNCHANGED failures
      BY <1>2, <1>4, <2>2 DEF Past
    <2>3. CASE \E f : NewFailure(f)
      <3>1. PICK f : NewFailure(f)
        BY <2>3
      <3>2. f \in Failed /\ failures' = Append(failures, f) /\ Before(f.ticket)'
        BY <3>1 DEF NewFailure
      <3>3. /\ Len(failures') = Len(failures) + 1 /\ failures'[Len(failures) + 1] = f
            /\ \A j \in 1..Len(failures) : failures'[j] = failures[j]
        BY <1>1, <3>2, AppendProperties
      <3>4. i \in 1..Len(failures) \/ i = Len(failures) + 1
        BY <1>1, <3>3
      <3>5. CASE i \in 1..Len(failures)
        <4>1. Before(n)
          BY <1>4, <3>3, <3>5 DEF Past
        <4> QED  BY <1>2, <4>1
      <3>6. CASE i = Len(failures) + 1
        <4>1. PICK m : m = f.ticket
          OBVIOUS
        <4> QED  BY <1>4, <3>2, <3>3, <3>6, <4>1 DEF Before
      <3> QED  BY <3>4, <3>5, <3>6
    <2> QED  BY <2>2, <2>3, WhatFails
  <1>5. ASSUME NEW n \in Range(console') PROVE Old(n)'
    <2>1. CASE UNCHANGED console
      BY <1>2, <2>1 DEF Past
    <2>2. CASE \E m : Newest(m) /\ console' = Append(console, m)
      <3>1. PICK m : Newest(m) /\ console' = Append(console, m)
        BY <2>2
      <3>2. n \in Range(console) \/ n = m
        BY <1>1, <1>3, <3>1, FileTypes, RangeAppend
      <3> QED  BY <1>2, <1>3, <3>1, <3>2 DEF Past
    <2> QED  BY <2>1, <2>2, WhatIsWritten
  <1>6. ASSUME NEW f \in FileNames, NEW n \in Range(files'[f]) PROVE Old(n)'
    <2>1. CASE UNCHANGED files
      BY <1>2, <1>6, <2>1 DEF Past
    <2>2. CASE Rotate
      <3>1. /\ files'["active"] = <<>> /\ files'["backup"] = files["active"]
            /\ files'["gone"] = files["gone"] \o files["backup"]
        BY <1>1, <2>2, RotateTypes
      <3>2. \E g \in FileNames : n \in Range(files[g])
        <4>1. CASE f = "active"
          BY <1>6, <3>1, <4>1, FileTypes, <1>1 DEF Range
        <4>2. CASE f = "backup"
          BY <1>6, <3>1, <4>2, FileTypes, <1>1
        <4>3. CASE f = "gone"
          <5>1. n \in Range(files["gone"]) \/ n \in Range(files["backup"])
            BY <1>1, <1>6, <3>1, <4>3, FileTypes, RangeConcat
          <5> QED  BY <1>1, <5>1, FileTypes
        <4> QED  BY <4>1, <4>2, <4>3, FileTypes, <1>1
      <3> QED  BY <1>2, <3>2 DEF Past
    <2>3. CASE \E m : \E where \in FileNames : Newest(m) /\ files' = Wrote(where, m)
      <3>1. PICK m : \E where \in FileNames : Newest(m) /\ files' = Wrote(where, m)
        BY <2>3
      <3>2. PICK where \in FileNames : Newest(m) /\ files' = Wrote(where, m)
        BY <3>1
      <3>3. n \in Range(files[f]) \/ n = m
        <4>1. /\ files'[where] = Append(files[where], m)
              /\ \A g \in FileNames : g # where => files'[g] = files[g]
          BY <1>1, <1>3, <3>2, WroteTypes
        <4>2. Range(Append(files[where], m)) = Range(files[where]) \cup {m}
          BY <1>1, <1>3, <3>2, FileTypes, RangeAppend
        <4> QED  BY <1>6, <4>1, <4>2
      <3> QED  BY <1>2, <1>3, <3>2, <3>3 DEF Past
    <2> QED  BY <2>1, <2>2, <2>3, WhatIsWritten
  <1> QED  BY <1>4, <1>5, <1>6 DEF Past

-----------------------------------------------------------------------------
(* What is in the queue is what the history calls queued, due where the     *)
(* installed writer has it due; a thread with the writer's lock has not     *)
(* handed over a line.                                                      *)

Fates ==
    /\ \A n \in 1..Len(calls) : calls[n].fate = "queued" <=> \E i \in 1..Len(queue) : queue[i].ticket = n
    /\ \A i \in 1..Len(queue) : \A line : line = queue[i].line => calls[queue[i].ticket].due = Due(line)
    /\ Stage # "free" => calls[Len(calls)].call \in {"flush", "clear", "update"}

(* Whoever holds the lock, the history and the queue are left alone.        *)
Apart ==
    /\ UNCHANGED <<calls, queue>> /\ (UNCHANGED writer \/ queue = <<>>)
    /\ Stage' # "free" => Stage # "free"

LEMMA ApartSteps ==
    ASSUME Quiet \/ (\E result : Answer(result)) \/ Reset \/ Opened \/ Headed \/ GivenUp \/ Replaced
    PROVE  Apart
  <1>1. CASE Quiet
    BY <1>1 DEF Quiet, Apart
  <1>2. CASE \E result : Answer(result)
    BY <1>2 DEF Answer, Apart
  <1>3. CASE Reset
    BY <1>3 DEF Reset, Apart
  <1>4. CASE Opened
    <2>1. Stage = "open" /\ UNCHANGED <<writer, queue, calls>>
      BY <1>4 DEF Opened
    <2> QED  BY <2>1 DEF Apart
  <1>5. CASE Headed
    <2>1. Stage = "header" /\ UNCHANGED <<writer, queue, calls>>
      BY <1>5 DEF Headed
    <2> QED  BY <2>1 DEF Apart
  <1>6. CASE GivenUp
    BY <1>6 DEF GivenUp, Apart
  <1>7. CASE Replaced
    BY <1>7 DEF Replaced, Apart
  <1> QED  BY <1>1, <1>2, <1>3, <1>4, <1>5, <1>6, <1>7

LEMMA FatesStep ==
    ASSUME Sound, Order, Fates, WriterStep
    PROVE  Fates'
  <1>1. /\ Typed /\ Len(calls) \in Nat /\ Len(queue) \in Nat
        /\ \A i \in 1..Len(queue) : queue[i].ticket \in Nat
        /\ \A i \in 1..Len(queue) : queue[i].ticket \in 1..Len(calls)
    <2>1. /\ Typed /\ Len(calls) \in Nat /\ Len(queue) \in Nat
          /\ \A i \in 1..Len(queue) : queue[i].ticket \in Nat
          /\ drained \in Nat
      BY TypedTickets DEF Sound
    <2>2. \A i \in 1..Len(queue) : drained < queue[i].ticket /\ queue[i].ticket <= Len(calls)
      BY DEF Order
    <2> QED  BY <2>1, <2>2
  <1>2. UNCHANGED writer => \A line : Due(line)' = Due(line)
    BY DEF Due
  <1>3. CASE Apart
    <2>1. queue = <<>> => Len(queue) = 0
      BY EmptySeq
    <2> QED  BY <1>2, <1>3, <2>1 DEF Apart, Fates
  <1>4. CASE \E line \in LineType : HandOver(line)
    <2>1. PICK line \in LineType : HandOver(line)
      BY <1>4
    <2>2. /\ Stage' = "free" /\ Len(calls') = Len(calls) + 1
          /\ \A n \in 1..Len(calls) : calls'[n] = calls[n]
          /\ Held(line) \/ LetGo
          /\ UNCHANGED writer
      BY <1>1, <2>1, HandOverFields
    <2>3. CASE LetGo
      <3>1. UNCHANGED queue /\ calls'[Len(calls) + 1].fate # "queued"
        BY <2>3 DEF LetGo
      <3>2. ASSUME NEW n \in 1..(Len(calls) + 1)
            PROVE  calls'[n].fate = "queued" <=> \E i \in 1..Len(queue) : queue[i].ticket = n
        <4>1. CASE n \in 1..Len(calls)
          BY <2>2, <4>1 DEF Fates
        <4>2. CASE n = Len(calls) + 1
          BY <1>1, <3>1, <4>2
        <4> QED  BY <1>1, <4>1, <4>2
      <3> QED  BY <1>1, <1>2, <2>2, <3>1, <3>2 DEF Fates
    <2>4. CASE Held(line)
      <3>1. /\ Len(queue') = Len(queue) + 1
            /\ \A i \in 1..Len(queue) : queue'[i] = queue[i]
            /\ queue'[Len(queue) + 1].ticket = Len(calls) + 1 /\ queue'[Len(queue) + 1].line = line
            /\ calls'[Len(calls) + 1].due = Due(line) /\ calls'[Len(calls) + 1].fate = "queued"
        BY <2>4 DEF Held
      <3>2. /\ \A i \in 1..(Len(queue) + 1) : i \in 1..Len(queue) \/ i = Len(queue) + 1
            /\ \A i \in 1..Len(queue) : i \in 1..(Len(queue) + 1)
            /\ Len(queue) + 1 \in 1..(Len(queue) + 1)
        BY <1>1
      <3>3. ASSUME NEW n \in 1..(Len(calls) + 1)
            PROVE  calls'[n].fate = "queued" <=> \E i \in 1..(Len(queue) + 1) : queue'[i].ticket = n
        <4>1. CASE n \in 1..Len(calls)
          <5>1. n # Len(calls) + 1
            BY <1>1, <4>1
          <5> QED  BY <2>2, <3>1, <3>2, <4>1, <5>1 DEF Fates
        <4>2. CASE n = Len(calls) + 1
          BY <3>1, <3>2, <4>2
        <4> QED  BY <1>1, <4>1, <4>2
      <3>4. ASSUME NEW i \in 1..(Len(queue) + 1), NEW l, l = queue'[i].line
            PROVE  calls'[queue'[i].ticket].due = Due(l)'
        <4>1. CASE i \in 1..Len(queue)
          BY <1>1, <1>2, <2>2, <3>1, <3>4, <4>1 DEF Fates
        <4>2. CASE i = Len(queue) + 1
          BY <1>2, <2>2, <3>1, <3>4, <4>2
        <4> QED  BY <3>2, <4>1, <4>2
      <3> QED  BY <2>2, <3>1, <3>3, <3>4 DEF Fates
    <2> QED  BY <2>2, <2>3, <2>4
  <1>5. CASE Wait
    <2>1. /\ Len(calls') = Len(calls) + 1 /\ UNCHANGED <<writer, queue>>
          /\ \A n \in 1..Len(calls) : calls'[n] = calls[n]
          /\ calls'[Len(calls) + 1].call \in {"flush", "clear", "update"}
          /\ calls'[Len(calls) + 1].fate # "queued"
      BY <1>1, <1>5, WaitFields
    <2>2. ASSUME NEW n \in 1..(Len(calls) + 1)
          PROVE  calls'[n].fate = "queued" <=> \E i \in 1..Len(queue) : queue[i].ticket = n
      <3>1. CASE n \in 1..Len(calls)
        BY <2>1, <3>1 DEF Fates
      <3>2. CASE n = Len(calls) + 1
        BY <1>1, <2>1, <3>2
      <3> QED  BY <1>1, <3>1, <3>2
    <2> QED  BY <1>1, <1>2, <2>1, <2>2 DEF Fates
  <1>6. CASE Settled
    <2>1. PICK k, due, failing, fate : Leaves(k, due, failing, fate)
      BY <1>1, <1>6, SettledFields
    <2>2. /\ k \in 1..Len(calls) /\ k = queue[1].ticket /\ Len(queue) # 0
          /\ fate # "queued" /\ Stage' = Stage /\ UNCHANGED writer
          /\ Len(queue') = Len(queue) - 1 /\ \A i \in 1..Len(queue') : queue'[i] = queue[i + 1]
          /\ Len(calls') = Len(calls)
          /\ \A m \in 1..Len(calls) :
                /\ calls'[m].call = calls[m].call /\ calls'[m].due = calls[m].due
                /\ calls'[m].fate = IF m = k THEN fate ELSE calls[m].fate
      BY <2>1 DEF Leaves, SettledAs
    <2>3. /\ \A i \in 1..Len(queue') : i + 1 \in 1..Len(queue) /\ 1 < i + 1
          /\ \A j \in 1..Len(queue) : j # 1 => j - 1 \in 1..Len(queue') /\ (j - 1) + 1 = j
          /\ 1 \in 1..Len(queue)
      BY <1>1, <2>2
    <2>4. \A j \in 1..Len(queue) : 1 < j => queue[1].ticket < queue[j].ticket
      BY <2>3 DEF Order
    <2>5. ASSUME NEW n \in 1..Len(calls)
          PROVE  calls'[n].fate = "queued" <=> \E i \in 1..Len(queue') : queue'[i].ticket = n
      <3>1. CASE n = k
        <4>1. \A i \in 1..Len(queue') : k < queue'[i].ticket /\ queue'[i].ticket \in Nat
          BY <1>1, <2>2, <2>3, <2>4
        <4>2. \A i \in 1..Len(queue') : queue'[i].ticket # k
          BY <4>1, <2>2
        <4> QED  BY <2>2, <3>1, <4>2
      <3>2. CASE n # k
        <4>1. calls'[n].fate = calls[n].fate
          BY <2>2, <3>2
        <4>2. ASSUME NEW j \in 1..Len(queue), queue[j].ticket = n
              PROVE  \E i \in 1..Len(queue') : queue'[i].ticket = n
          <5>1. j # 1
            BY <2>2, <3>2, <4>2
          <5>2. j - 1 \in 1..Len(queue') /\ queue'[j - 1] = queue[j]
            BY <2>2, <2>3, <5>1
          <5> QED  BY <4>2, <5>2
        <4>3. ASSUME NEW i \in 1..Len(queue'), queue'[i].ticket = n
              PROVE  \E j \in 1..Len(queue) : queue[j].ticket = n
          BY <2>2, <2>3, <4>3
        <4> QED  BY <4>1, <4>2, <4>3 DEF Fates
      <3> QED  BY <3>1, <3>2
    <2>6. ASSUME NEW i \in 1..Len(queue'), NEW l, l = queue'[i].line
          PROVE  calls'[queue'[i].ticket].due = Due(l)'
      <3>1. queue'[i] = queue[i + 1] /\ i + 1 \in 1..Len(queue)
        BY <2>2, <2>3
      <3>2. calls[queue[i + 1].ticket].due = Due(l)
        BY <2>6, <3>1 DEF Fates
      <3> QED  BY <1>1, <1>2, <2>2, <3>1, <3>2
    <2> QED  BY <1>1, <2>2, <2>5, <2>6 DEF Fates
  <1> QED  BY <1>3, <1>4, <1>5, <1>6, ApartSteps DEF WriterStep

-----------------------------------------------------------------------------
(* Each sink's share of a line                                              *)

Shown(n, s) == IF s = "console" THEN n \in Range(console) ELSE InFile(n)
Exact(n, s) == (s \in calls[n].due /\ calls[n].fate # "queued" /\ ~FailedAt(n, s)) <=> Shown(n, s)
IsLine(n)   == calls[n].call \in Records \cup {"scope"}

LEMMA SinksPlain ==
    SinksExact <=> \A n \in 1..Len(calls) : IsLine(n) => \A s \in Sinks : Exact(n, s)
  BY DEF SinksExact, Tickets, IsLine, Exact, Shown, Sinks

LEMMA FailedAtAppend ==
    ASSUME Typed, NEW f \in Failed, failures' = Append(failures, f), NEW n, NEW s
    PROVE  FailedAt(n, s)' <=> FailedAt(n, s) \/ (f.what = "write" /\ f.ticket = n /\ s \in f.sinks)
  <1>1. failures \in Seq(Failed) /\ Len(failures) \in Nat
    BY TypedTickets DEF Typed
  <1>2. /\ Len(failures') = Len(failures) + 1 /\ failures'[Len(failures) + 1] = f
        /\ \A i \in 1..Len(failures) : failures'[i] = failures[i]
    BY <1>1, AppendProperties
  <1>3. /\ \A i \in 1..(Len(failures) + 1) : i \in 1..Len(failures) \/ i = Len(failures) + 1
        /\ \A i \in 1..Len(failures) : i \in 1..(Len(failures) + 1)
        /\ Len(failures) + 1 \in 1..(Len(failures) + 1)
    BY <1>1
  <1> QED  BY <1>2, <1>3 DEF FailedAt

LEMMA InFileWrote ==
    ASSUME Typed, NEW k \in Nat, NEW where \in FileNames, files' = Wrote(where, k), NEW n
    PROVE  InFile(n)' <=> InFile(n) \/ n = k
  <1>1. /\ files'[where] = Append(files[where], k)
        /\ \A g \in FileNames : g # where => files'[g] = files[g]
    BY WroteTypes
  <1>2. Range(Append(files[where], k)) = Range(files[where]) \cup {k}
    BY FileTypes, RangeAppend
  <1> QED  BY <1>1, <1>2 DEF InFile

LEMMA InFileRotated ==
    ASSUME Typed, Rotate, NEW n
    PROVE  InFile(n)' <=> InFile(n)
  <1>1. /\ files'["active"] = <<>> /\ files'["backup"] = files["active"]
        /\ files'["gone"] = files["gone"] \o files["backup"]
    BY RotateTypes
  <1>2. Range(files["gone"] \o files["backup"]) = Range(files["gone"]) \cup Range(files["backup"])
    BY FileTypes, RangeConcat
  <1>3. Range(<<>>) = {}
    BY DEF Range
  <1>4. InFile(n) <=> n \in Range(files["active"]) \cup Range(files["backup"]) \cup Range(files["gone"])
    BY DEF InFile, FileNames
  <1>5. InFile(n)' <=> n \in Range(files'["active"]) \cup Range(files'["backup"]) \cup Range(files'["gone"])
    BY DEF InFile, FileNames
  <1> QED  BY <1>1, <1>2, <1>3, <1>4, <1>5

(* Apart from the worker, only a header is written, and a rotation moves    *)
(* what is there.                                                           *)
LEMMA Unwritten ==
    ASSUME Sound, Order, WriterStep, ~Settled, NEW n, NEW s \in Sinks
    PROVE  /\ FailedAt(n, s)' <=> FailedAt(n, s)
           /\ Shown(n, s) => Shown(n, s)'
           /\ Shown(n, s)' => Shown(n, s) \/ (Stage # "free" /\ n = Len(calls) /\ UNCHANGED calls)
  <1>1. Typed /\ Len(calls) \in Nat
    BY TypedTickets DEF Sound
  <1>2. FailedAt(n, s)' <=> FailedAt(n, s)
    <2>1. CASE UNCHANGED failures
      BY <2>1 DEF FailedAt
    <2>2. CASE \E f : NewFailure(f)
      <3>1. PICK f : NewFailure(f)
        BY <2>2
      <3>2. f \in Failed /\ failures' = Append(failures, f) /\ f.what # "write"
        BY <3>1 DEF NewFailure
      <3> QED  BY <1>1, <3>2, FailedAtAppend
    <2> QED  BY <2>1, <2>2, WhatFails
  <1>3. /\ UNCHANGED console
        /\ \/ UNCHANGED files \/ Rotate
           \/ Stage # "free" /\ UNCHANGED calls /\ files' = Wrote("active", Len(calls))
    <2>1. CASE Quiet
      BY <2>1 DEF Quiet
    <2>2. CASE \E line \in LineType : HandOver(line)
      BY <2>2 DEF HandOver
    <2>3. CASE Wait
      BY <2>3 DEF Wait
    <2>4. CASE \E result : Answer(result)
      BY <2>4 DEF Answer
    <2>5. CASE Reset
      BY <2>5 DEF Reset
    <2>6. CASE Opened
      BY <2>6 DEF Opened
    <2>7. CASE Headed
      BY <2>7 DEF Headed
    <2>8. CASE GivenUp
      BY <2>8 DEF GivenUp
    <2>9. CASE Replaced
      BY <2>9 DEF Replaced
    <2> QED  BY <2>1, <2>2, <2>3, <2>4, <2>5, <2>6, <2>7, <2>8, <2>9 DEF WriterStep
  <1>4. CASE UNCHANGED <<console, files>>
    BY <1>2, <1>4 DEF Shown, InFile
  <1>5. CASE UNCHANGED console /\ Rotate
    BY <1>1, <1>2, <1>5, InFileRotated DEF Shown
  <1>6. CASE UNCHANGED console /\ Stage # "free" /\ UNCHANGED calls /\ files' = Wrote("active", Len(calls))
    <2>1. "active" \in FileNames
      BY DEF FileNames
    <2>2. InFile(n)' <=> InFile(n) \/ n = Len(calls)
      BY <1>1, <1>6, <2>1, InFileWrote
    <2> QED  BY <1>2, <1>6, <2>2 DEF Shown
  <1> QED  BY <1>3, <1>4, <1>5, <1>6

(* The worker writes a line to the sinks at which it is due, except those   *)
(* that fail, and nothing else.                                             *)
LEMMA Written ==
    ASSUME Sound, Order, NEW k, NEW due, NEW failing, NEW fate, Leaves(k, due, failing, fate),
           NEW n, NEW s \in Sinks
    PROVE  /\ FailedAt(n, s)' <=> FailedAt(n, s) \/ (n = k /\ s \in failing)
           /\ Shown(n, s)' <=> Shown(n, s) \/ (n = k /\ s \in due \ failing)
  <1>1. Typed
    BY DEF Sound
  <1>2. k \in Nat /\ failing \in SUBSET Sinks /\ SettledAs(k, due, failing)
        /\ ("file" \in due => handle \in FileNames)
    BY DEF Leaves
  <1>3. FailedAt(n, s)' <=> FailedAt(n, s) \/ (n = k /\ s \in failing)
    <2> DEFINE f == Failure("write", k, failing)
    <2>1. f \in Failed /\ f.what = "write" /\ f.ticket = k /\ f.sinks = failing
      BY <1>2, FailureFields
    <2>2. (failing = {} /\ UNCHANGED failures) \/ failures' = Append(failures, f)
      BY <1>2 DEF SettledAs
    <2> HIDE DEF f
    <2>3. CASE failing = {} /\ UNCHANGED failures
      BY <2>3 DEF FailedAt
    <2>4. CASE failures' = Append(failures, f)
      BY <1>1, <2>1, <2>4, FailedAtAppend
    <2> QED  BY <2>2, <2>3, <2>4
  <1>4. /\ console' = IF "console" \in due \ failing THEN Append(console, k) ELSE console
        /\ files' = IF "file" \in due \ failing THEN Wrote(handle, k) ELSE files
    BY <1>2 DEF SettledAs
  <1>5. s = "console" => (Shown(n, s)' <=> Shown(n, s) \/ (n = k /\ s \in due \ failing))
    <2>1. Range(Append(console, k)) = Range(console) \cup {k}
      BY <1>1, <1>2, FileTypes, RangeAppend
    <2> QED  BY <1>4, <2>1 DEF Shown
  <1>6. s = "file" => (Shown(n, s)' <=> Shown(n, s) \/ (n = k /\ s \in due \ failing))
    <2>1. CASE "file" \in due \ failing
      <3>1. InFile(n)' <=> InFile(n) \/ n = k
        BY <1>1, <1>2, <1>4, <2>1, InFileWrote
      <3> QED  BY <2>1, <3>1 DEF Shown
    <2>2. CASE "file" \notin due \ failing
      BY <1>4, <2>2 DEF Shown, InFile
    <2> QED  BY <2>1, <2>2
  <1> QED  BY <1>3, <1>5, <1>6 DEF Sinks

LEMMA SinksStep ==
    ASSUME Sound, Order, Past, Fates, SinksExact, WriterStep
    PROVE  SinksExact'
  <1>1. Typed /\ Len(calls) \in Nat
    BY TypedTickets DEF Sound
  <1>2. \A n \in 1..Len(calls) : IsLine(n) => \A s \in Sinks : Exact(n, s)
    BY SinksPlain
  <1>3. SUFFICES ASSUME NEW n \in 1..Len(calls'), IsLine(n)', NEW s \in Sinks
                 PROVE  Exact(n, s)'
    <2>1. SinksExact' <=> \A n \in 1..Len(calls') : IsLine(n)' => \A s \in Sinks : Exact(n, s)'
      BY DEF SinksExact, Tickets, IsLine, Exact, Shown, Sinks
    <2> QED  BY <2>1
  (* Nothing failed on a line that is queued or not yet handed over, and    *)
  (* no sink shows it.                                                      *)
  <1>4. ASSUME Shown(n, s) \/ FailedAt(n, s)
        PROVE  n \in 1..Len(calls) /\ \A i \in 1..Len(queue) : queue[i].ticket # n
    <2>1. Before(n)
      <3>1. CASE Shown(n, s)
        BY <3>1 DEF Shown, InFile, Past, Old
      <3>2. CASE FailedAt(n, s)
        <4>1. PICK i \in 1..Len(failures) : failures[i].ticket = n
          BY <3>2 DEF FailedAt
        <4> QED  BY <4>1 DEF Past
      <3> QED  BY <1>4, <3>1, <3>2
    <2> QED  BY <1>1, <2>1 DEF Before
  <1>5. CASE Settled
    <2>1. PICK k, due, failing, fate : Leaves(k, due, failing, fate)
      BY <1>1, <1>5, SettledFields
    <2>2. /\ FailedAt(n, s)' <=> FailedAt(n, s) \/ (n = k /\ s \in failing)
          /\ Shown(n, s)' <=> Shown(n, s) \/ (n = k /\ s \in due \ failing)
      BY <2>1, Written
    <2>3. /\ k \in 1..Len(calls) /\ k = queue[1].ticket /\ 1 \in 1..Len(queue) /\ due = Due(queue[1].line)
          /\ fate # "queued" /\ failing \subseteq due /\ Len(calls') = Len(calls)
          /\ \A m \in 1..Len(calls) :
                /\ calls'[m].call = calls[m].call /\ calls'[m].due = calls[m].due
                /\ calls'[m].fate = IF m = k THEN fate ELSE calls[m].fate
      BY <2>1 DEF Leaves
    <2>4. CASE n = k
      <3>1. calls[k].due = due
        BY <2>3 DEF Fates
      <3>2. ~Shown(n, s) /\ ~FailedAt(n, s)
        BY <1>4, <2>3, <2>4
      <3> QED  BY <2>2, <2>3, <2>4, <3>1, <3>2 DEF Exact
    <2>5. CASE n # k
      <3>1. n \in 1..Len(calls) /\ IsLine(n)
        BY <1>3, <2>3 DEF IsLine
      <3> QED  BY <1>2, <2>2, <2>3, <2>5, <3>1 DEF Exact
    <2> QED  BY <2>4, <2>5
  <1>6. CASE ~Settled
    <2>1. /\ FailedAt(n, s)' <=> FailedAt(n, s)
          /\ Shown(n, s) => Shown(n, s)'
          /\ Shown(n, s)' => Shown(n, s) \/ (Stage # "free" /\ n = Len(calls) /\ UNCHANGED calls)
      BY <1>6, Unwritten
    <2>2. CASE UNCHANGED calls
      <3>1. n \in 1..Len(calls) /\ IsLine(n)
        BY <1>3, <2>2 DEF IsLine
      <3>2. ~(Stage # "free" /\ n = Len(calls))
        BY <3>1 DEF IsLine, Fates, Records
      <3> QED  BY <1>2, <2>1, <2>2, <3>1, <3>2 DEF Exact
    <2>3. CASE /\ Len(calls') = Len(calls) + 1 /\ \A m \in 1..Len(calls) : calls'[m] = calls[m]
               /\ calls'[Len(calls) + 1].due = {} \/ calls'[Len(calls) + 1].fate = "queued"
      <3>1. ~ UNCHANGED calls
        BY <1>1, <2>3
      <3>2. CASE n \in 1..Len(calls)
        <4>1. IsLine(n)
          BY <1>3, <2>3, <3>2 DEF IsLine
        <4> QED  BY <1>2, <2>1, <2>3, <3>1, <3>2, <4>1 DEF Exact
      <3>3. CASE n = Len(calls) + 1
        <4>1. ~Shown(n, s)
          BY <1>1, <1>4, <3>3
        <4> QED  BY <2>1, <2>3, <3>1, <3>3, <4>1 DEF Exact
      <3> QED  BY <1>1, <2>3, <3>2, <3>3
    <2>4. CASE \E line \in LineType : HandOver(line)
      <3>1. PICK line \in LineType : HandOver(line)
        BY <2>4
      <3>2. /\ Len(calls') = Len(calls) + 1 /\ \A m \in 1..Len(calls) : calls'[m] = calls[m]
            /\ Held(line) \/ LetGo
        BY <1>1, <3>1, HandOverFields
      <3>3. calls'[Len(calls) + 1].due = {} \/ calls'[Len(calls) + 1].fate = "queued"
        BY <3>2 DEF Held, LetGo
      <3> QED  BY <2>3, <3>2, <3>3
    <2>5. CASE Wait
      BY <1>1, <2>3, <2>5, WaitFields
    <2> QED  BY <1>6, <2>2, <2>4, <2>5, ApartSteps DEF WriterStep, Apart
  <1> QED  BY <1>5, <1>6

-----------------------------------------------------------------------------
(* Failures by their tickets                                                *)

Hits(s, T) == {i \in 1..Len(s) : s[i].ticket \in T}
After(n)   == {m \in Nat : m > n}

FirstOf(x, s, hits) ==
    IF hits = {} THEN x = None ELSE \E i \in hits : x = s[i] /\ \A j \in hits : i <= j
LastOf(x, s, hits) ==
    IF hits = {} THEN x = None ELSE \E i \in hits : x = s[i] /\ \A j \in hits : j <= i

LEMMA HitsAppend ==
    ASSUME NEW s \in Seq(Failed), NEW f \in Failed, NEW T
    PROVE  /\ IsFiniteSet(Hits(s, T)) /\ Cardinality(Hits(s, T)) \in Nat
           /\ f.ticket \notin T => Hits(Append(s, f), T) = Hits(s, T)
           /\ f.ticket \in T =>
                 /\ Hits(Append(s, f), T) = Hits(s, T) \cup {Len(s) + 1}
                 /\ Cardinality(Hits(Append(s, f), T)) = Cardinality(Hits(s, T)) + 1
           /\ \A i \in Hits(s, T) : i \in Nat /\ i <= Len(s) /\ Append(s, f)[i] = s[i]
           /\ Append(s, f)[Len(s) + 1] = f /\ Len(s) \in Nat
  <1>1. /\ Append(s, f) \in Seq(Failed) /\ Len(Append(s, f)) = Len(s) + 1 /\ Append(s, f)[Len(s) + 1] = f
        /\ \A i \in 1..Len(s) : Append(s, f)[i] = s[i]
        /\ Len(s) \in Nat
    BY AppendProperties, LenProperties
  <1>2. IsFiniteSet(Hits(s, T)) /\ Cardinality(Hits(s, T)) \in Nat
    <2>1. IsFiniteSet(1..Len(s)) /\ Hits(s, T) \in SUBSET (1..Len(s))
      BY <1>1, FS_Interval DEF Hits
    <2> QED  BY <2>1, FS_Subset, FS_CardinalityType
  <1>3. /\ \A i \in 1..(Len(s) + 1) : i \in 1..Len(s) \/ i = Len(s) + 1
        /\ \A i \in 1..Len(s) : i \in 1..(Len(s) + 1)
        /\ Len(s) + 1 \in 1..(Len(s) + 1) /\ Len(s) + 1 \notin 1..Len(s)
    BY <1>1
  <1>4. f.ticket \notin T => Hits(Append(s, f), T) = Hits(s, T)
    BY <1>1, <1>3 DEF Hits
  <1>5. f.ticket \in T => Hits(Append(s, f), T) = Hits(s, T) \cup {Len(s) + 1}
    BY <1>1, <1>3 DEF Hits
  <1>6. Len(s) + 1 \notin Hits(s, T)
    BY <1>3 DEF Hits
  <1>7. Cardinality(Hits(s, T) \cup {Len(s) + 1}) = Cardinality(Hits(s, T)) + 1
    BY <1>2, <1>6, FS_AddElement
  <1>8. \A i \in Hits(s, T) : i \in 1..Len(s)
    BY DEF Hits
  <1>9. \A i \in Hits(s, T) : i \in Nat /\ i <= Len(s) /\ Append(s, f)[i] = s[i]
    BY <1>1, <1>8
  <1> QED  BY <1>1, <1>2, <1>4, <1>5, <1>7, <1>9

LEMMA FirstAppend ==
    ASSUME NEW s \in Seq(Failed), NEW f \in Failed, NEW T, NEW x, FirstOf(x, s, Hits(s, T))
    PROVE  /\ x = None <=> Hits(s, T) = {}
           /\ f.ticket \notin T => FirstOf(x, Append(s, f), Hits(Append(s, f), T))
           /\ f.ticket \in T => FirstOf(IF x = None THEN f ELSE x, Append(s, f), Hits(Append(s, f), T))
  <1>1. x = None <=> Hits(s, T) = {}
    <2>1. \A i \in Hits(s, T) : s[i] # None
      BY ElementOfSeq, ConstantFacts DEF Hits
    <2> QED  BY <2>1 DEF FirstOf
  <1>2. /\ \A i \in Hits(s, T) : i \in Nat /\ i <= Len(s) /\ Append(s, f)[i] = s[i]
        /\ Append(s, f)[Len(s) + 1] = f /\ Len(s) \in Nat
        /\ f.ticket \notin T => Hits(Append(s, f), T) = Hits(s, T)
        /\ f.ticket \in T => Hits(Append(s, f), T) = Hits(s, T) \cup {Len(s) + 1}
    <2>1. \A i \in Hits(s, T) : i \in Nat /\ i <= Len(s) /\ Append(s, f)[i] = s[i]
      <3>1. \A i \in Hits(s, T) : i \in 1..Len(s)
        BY DEF Hits
      <3> QED  BY <3>1, AppendProperties, LenProperties
    <2>2. Append(s, f)[Len(s) + 1] = f /\ Len(s) \in Nat
      BY AppendProperties, LenProperties
    <2>3. f.ticket \notin T => Hits(Append(s, f), T) = Hits(s, T)
      BY HitsAppend
    <2>4. f.ticket \in T => Hits(Append(s, f), T) = Hits(s, T) \cup {Len(s) + 1}
      BY HitsAppend
    <2> QED  BY <2>1, <2>2, <2>3, <2>4
  <1>3. CASE f.ticket \notin T
    BY <1>1, <1>2, <1>3 DEF FirstOf
  <1>4. CASE f.ticket \in T /\ Hits(s, T) = {}
    <2>1. Hits(Append(s, f), T) = {Len(s) + 1} /\ x = None
      BY <1>1, <1>2, <1>4
    <2> QED  BY <1>1, <1>2, <1>4, <2>1 DEF FirstOf
  <1>5. CASE f.ticket \in T /\ Hits(s, T) # {}
    <2>1. PICK i \in Hits(s, T) : x = s[i] /\ \A j \in Hits(s, T) : i <= j
      BY <1>5 DEF FirstOf
    <2>2. /\ i \in Hits(Append(s, f), T) /\ x = Append(s, f)[i]
          /\ \A j \in Hits(Append(s, f), T) : i <= j
      <3>1. i \in Nat /\ i <= Len(s) /\ Append(s, f)[i] = s[i]
        BY <1>2
      <3>2. ASSUME NEW j \in Hits(Append(s, f), T) PROVE i <= j
        <4>1. j \in Hits(s, T) \/ j = Len(s) + 1
          BY <1>2, <1>5
        <4>2. Len(s) \in Nat
          BY <1>2
        <4> QED  BY <2>1, <3>1, <4>1, <4>2
      <3> QED  BY <1>2, <1>5, <2>1, <3>1, <3>2
    <2> QED  BY <1>1, <1>5, <2>2 DEF FirstOf
  <1> QED  BY <1>3, <1>4, <1>5

LEMMA LastAppend ==
    ASSUME NEW s \in Seq(Failed), NEW f \in Failed, NEW T, f.ticket \in T
    PROVE  LastOf(f, Append(s, f), Hits(Append(s, f), T))
  <1>1. /\ \A i \in Hits(s, T) : i \in Nat /\ i <= Len(s)
        /\ Append(s, f)[Len(s) + 1] = f /\ Len(s) \in Nat
        /\ Hits(Append(s, f), T) = Hits(s, T) \cup {Len(s) + 1}
    BY HitsAppend
  <1>2. /\ Len(s) + 1 \in Hits(Append(s, f), T)
        /\ \A j \in Hits(Append(s, f), T) : j <= Len(s) + 1
    BY <1>1
  <1> QED  BY <1>1, <1>2 DEF LastOf

-----------------------------------------------------------------------------
(* The diagnostics                                                          *)

Diagnosed ==
    /\ health.failed = Cardinality(Hits(failures, After(clearedAt)))
    /\ LastOf(health.last, failures, Hits(failures, After(clearedAt)))

LEMMA DiagnosedIsExact ==
    ASSUME Typed, Diagnosed
    PROVE  DiagnosticsExact
  <1> DEFINE since == {i \in 1..Len(failures) : failures[i].ticket > clearedAt}
  <1>1. since = Hits(failures, After(clearedAt))
    BY TypedTickets DEF Hits, After
  <1>2. /\ health.failed = Cardinality(since)
        /\ IF since = {} THEN health.last = None
           ELSE \E i \in since : health.last = failures[i] /\ \A j \in since : j <= i
    BY <1>1 DEF Diagnosed, LastOf
  <1> QED  BY <1>2 DEF DiagnosticsExact

LEMMA HealthStep ==
    ASSUME Sound, Order, WriterStep, UNCHANGED failures
    PROVE  \/ Reset
           \/ /\ UNCHANGED clearedAt /\ health'.failed = health.failed /\ health'.last = health.last
              /\ UNCHANGED health \/ \E line \in LineType : HandOver(line)
  <1>1. Typed /\ health \in Health /\ failures \in Seq(Failed) /\ Len(failures) \in Nat
    BY TypedTickets DEF Sound, Typed
  <1>2. \A f \in Failed : failures' # Append(failures, f)
    BY <1>1, AppendProperties
  <1>3. CASE \E line \in LineType : HandOver(line)
    <2>1. PICK line \in LineType : HandOver(line)
      BY <1>3
    <2>2. UNCHANGED clearedAt /\ (UNCHANGED health \/ health' = DropRecord(health))
      BY <1>1, <2>1, HandOverFields DEF Held, LetGo
    <2>3. Failure("setup", 0, {}) \in Failed
      BY FailureFields
    <2> QED  BY <1>1, <1>3, <2>2, <2>3, HealthFields
  <1>4. CASE Settled
    <2>1. PICK n, due, failing, fate : Leaves(n, due, failing, fate)
      BY <1>1, <1>4, SettledFields
    <2>2. SettledAs(n, due, failing) /\ n \in Nat /\ failing \in SUBSET Sinks
      BY <2>1 DEF Leaves
    <2>3. Failure("write", n, failing) \in Failed
      BY <2>2, FailureFields
    <2> QED  BY <1>2, <2>2, <2>3 DEF SettledAs
  <1>5. Len(calls) \in Nat /\ {"console"} \in SUBSET Sinks /\ {} \in SUBSET Sinks
    BY <1>1, TypedTickets DEF Sinks
  <1>6. CASE \E result : Answer(result)
    <2>1. /\ UNCHANGED clearedAt
          /\ UNCHANGED health \/ failures' = Append(failures, Failure("flush", Len(calls), {"console"}))
      BY <1>6 DEF Answer
    <2>2. Failure("flush", Len(calls), {"console"}) \in Failed
      BY <1>5, FailureFields
    <2> QED  BY <1>2, <2>1, <2>2
  <1>7. CASE GivenUp
    <2>1. failures' = Append(failures, Failure("setup", Len(calls), {}))
      BY <1>7 DEF GivenUp
    <2>2. Failure("setup", Len(calls), {}) \in Failed
      BY <1>5, FailureFields
    <2> QED  BY <1>2, <2>1, <2>2
  <1>8. CASE Replaced
    <2>1. /\ UNCHANGED clearedAt
          /\ UNCHANGED health \/ failures' = Append(failures, Failure("shutdown", Len(calls), {"console"}))
      BY <1>8 DEF Replaced
    <2>2. Failure("shutdown", Len(calls), {"console"}) \in Failed
      BY <1>5, FailureFields
    <2> QED  BY <1>2, <2>1, <2>2
  <1>9. CASE Quiet \/ Wait
    BY <1>9 DEF Quiet, Wait
  <1>10. CASE Opened \/ Headed
    <2>1. UNCHANGED <<health, clearedAt>>
      <3>1. CASE Opened
        BY <3>1 DEF Opened
      <3>2. CASE Headed
        BY <3>2 DEF Headed
      <3> QED  BY <1>10, <3>1, <3>2
    <2> QED  BY <2>1
  <1> QED  BY <1>3, <1>4, <1>6, <1>7, <1>8, <1>9, <1>10 DEF WriterStep

LEMMA DiagnosedStep ==
    ASSUME Sound, Order, Past, Diagnosed, WriterStep
    PROVE  Diagnosed'
  <1>1. /\ Typed /\ health \in Health /\ failures \in Seq(Failed) /\ clearedAt \in Nat
        /\ \A i \in 1..Len(failures) : failures[i].ticket \in Nat
    BY TypedTickets DEF Sound, Typed
  <1>2. CASE UNCHANGED failures /\ ~Reset
    BY <1>2, HealthStep DEF Diagnosed
  <1>3. CASE Reset
    <2>1. UNCHANGED failures /\ clearedAt' = Len(calls) /\ health' = NoFailures
      BY <1>3 DEF Reset
    <2>2. \A i \in 1..Len(failures) : failures[i].ticket \in 1..Len(calls)
      BY DEF Past, Before
    <2>3. Hits(failures, After(Len(calls))) = {}
      BY <1>1, <2>2, TypedTickets DEF Hits, After
    <2>4. health'.failed = 0 /\ health'.last = None
      BY <2>1 DEF NoFailures
    <2> QED  BY <2>1, <2>3, <2>4, FS_EmptySet DEF Diagnosed, LastOf
  <1>4. CASE \E f : NewFailure(f)
    <2>1. PICK f : NewFailure(f)
      BY <1>4
    <2>2. /\ f \in Failed /\ failures' = Append(failures, f) /\ health' = RecordError(health, f)
          /\ UNCHANGED clearedAt /\ clearedAt < f.ticket
      BY <2>1 DEF NewFailure
    <2>3. f.ticket \in After(clearedAt)
      <3>1. f.ticket \in Nat
        BY <2>2 DEF Failed, FailureType
      <3> QED  BY <1>1, <2>2, <3>1 DEF After
    <2>4. health'.failed = health.failed + 1 /\ health'.last = f
      BY <1>1, <2>2, HealthFields
    <2>5. /\ Cardinality(Hits(Append(failures, f), After(clearedAt)))
                = Cardinality(Hits(failures, After(clearedAt))) + 1
          /\ LastOf(f, Append(failures, f), Hits(Append(failures, f), After(clearedAt)))
      BY <1>1, <2>2, <2>3, HitsAppend, LastAppend
    <2> QED  BY <2>2, <2>4, <2>5 DEF Diagnosed
  <1> QED  BY <1>2, <1>3, <1>4, WhatFails

-----------------------------------------------------------------------------
(* The answers of flush()                                                   *)

Reported == FirstOf(pending, failures, Hits(failures, After(drained)))
Told     == told # None =>
               FirstOf(told.result, failures, Hits(failures, (told.since + 1)..told.ticket))

LEMMA ReportedStep ==
    ASSUME Sound, Sound', Order, Past, Past', Reported, WriterStep
    PROVE  Reported'
  <1>1. /\ Typed /\ Len(calls) \in Nat /\ drained \in Nat /\ failures \in Seq(Failed)
    BY TypedTickets DEF Sound, Typed
  <1>2. CASE UNCHANGED <<pending, failures, drained>>
    BY <1>2 DEF Reported
  <1>3. CASE Settled
    <2>1. PICK n, due, failing, fate : Leaves(n, due, failing, fate)
      BY <1>1, <1>3, SettledFields
    <2>2. SettledAs(n, due, failing) /\ n \in Nat /\ failing \in SUBSET Sinks
      BY <2>1 DEF Leaves
    <2>3. drained < n
      BY <2>1, SettlesNewest
    <2> DEFINE f == Failure("write", n, failing)
    <2>4. f \in Failed /\ f.ticket = n
      BY <2>2, FailureFields
    <2>5. /\ UNCHANGED drained
          /\ \/ UNCHANGED <<pending, failures>>
             \/ /\ failures' = Append(failures, f)
                /\ pending' = IF pending = None THEN f ELSE pending
      BY <2>2 DEF SettledAs
    <2> HIDE DEF f
    <2>6. f.ticket \in After(drained)
      BY <1>1, <2>2, <2>3, <2>4 DEF After
    <2>7. FirstOf(IF pending = None THEN f ELSE pending, Append(failures, f),
                  Hits(Append(failures, f), After(drained)))
      BY <1>1, <2>4, <2>6, FirstAppend DEF Reported
    <2> QED  BY <1>2, <2>5, <2>7 DEF Reported
  <1>4. CASE \E result : Answer(result)
    <2>1. pending' = None /\ drained' = Len(calls) /\ UNCHANGED calls
      BY <1>4 DEF Answer
    <2>2. \A i \in 1..Len(failures') : failures'[i].ticket \in 1..Len(calls')
      BY DEF Past, Before
    <2>3. Hits(failures', After(Len(calls))) = {}
      BY <1>1, <2>1, <2>2 DEF Hits, After
    <2> QED  BY <2>1, <2>3 DEF Reported, FirstOf
  <1>5. ASSUME NEW what \in {"setup", "shutdown"}, NEW sinks \in SUBSET Sinks,
               failures' = Append(failures, Failure(what, Len(calls), sinks)),
               UNCHANGED <<pending, drained>>, drained = Len(calls)
        PROVE  Reported'
    <2> DEFINE f == Failure(what, Len(calls), sinks)
    <2>1. f \in Failed /\ f.ticket = Len(calls)
      BY <1>1, FailureFields
    <2>2. failures' = Append(failures, f)
      BY <1>5
    <2> HIDE DEF f
    <2>3. f.ticket \notin After(drained)
      BY <1>1, <1>5, <2>1 DEF After
    <2>4. FirstOf(pending, Append(failures, f), Hits(Append(failures, f), After(drained)))
      BY <1>1, <2>1, <2>3, FirstAppend DEF Reported
    <2> QED  BY <1>5, <2>2, <2>4 DEF Reported
  <1>6. {"console"} \in SUBSET Sinks /\ {} \in SUBSET Sinks
    BY DEF Sinks
  <1>7. CASE GivenUp
    <2>1. /\ failures' = Append(failures, Failure("setup", Len(calls), {}))
          /\ UNCHANGED <<pending, drained>> /\ drained = Len(calls)
      BY <1>7 DEF GivenUp, Order
    <2> QED  BY <1>5, <1>6, <2>1
  <1>8. CASE Replaced
    <2>1. /\ UNCHANGED failures \/ failures' = Append(failures, Failure("shutdown", Len(calls), {"console"}))
          /\ UNCHANGED <<pending, drained>> /\ drained = Len(calls)
      BY <1>8 DEF Replaced, Order
    <2> QED  BY <1>2, <1>5, <1>6, <2>1
  <1>9. CASE Quiet \/ (\E line \in LineType : HandOver(line)) \/ Wait \/ Reset
    BY <1>2, <1>9 DEF Quiet, HandOver, Wait, Reset
  <1>10. CASE Opened
    BY <1>2, <1>10 DEF Opened
  <1>11. CASE Headed
    BY <1>2, <1>11 DEF Headed
  <1> QED  BY <1>3, <1>4, <1>7, <1>8, <1>9, <1>10, <1>11 DEF WriterStep

LEMMA ToldStep ==
    ASSUME Sound, Order, Past, Reported, Told, WriterStep
    PROVE  Told'
  <1>1. /\ Typed /\ Len(calls) \in Nat /\ drained \in Nat /\ failures \in Seq(Failed)
        /\ told # None => told.since \in Nat /\ told.ticket \in Nat
    BY TypedTickets DEF Sound, Typed
  <1>2. CASE UNCHANGED told
    <2>1. CASE UNCHANGED failures
      BY <1>2, <2>1 DEF Told
    <2>2. CASE \E f : NewFailure(f)
      <3>1. PICK f : NewFailure(f)
        BY <2>2
      <3>2. /\ f \in Failed /\ failures' = Append(failures, f) /\ f.ticket \in Nat
            /\ told # None => told.ticket < f.ticket
        BY <3>1 DEF NewFailure, Failed, FailureType
      <3>3. ASSUME told # None
            PROVE  FirstOf(told.result, Append(failures, f),
                           Hits(Append(failures, f), (told.since + 1)..told.ticket))
        <4>1. f.ticket \notin (told.since + 1)..told.ticket
          BY <1>1, <3>2, <3>3
        <4> QED  BY <1>1, <3>2, <3>3, <4>1, FirstAppend DEF Told
      <3> QED  BY <1>2, <3>2, <3>3 DEF Told
    <2> QED  BY <2>1, <2>2, WhatFails
  <1>3. CASE ~ UNCHANGED told
    <2>1. PICK result : Answer(result)
      <3>1. CASE Quiet \/ (\E line \in LineType : HandOver(line)) \/ Wait \/ Reset \/ Opened \/ Headed
        BY <1>3, <3>1 DEF Quiet, HandOver, Wait, Reset, Opened, Headed
      <3>2. CASE GivenUp \/ Replaced
        BY <1>3, <3>2 DEF GivenUp, Replaced
      <3>3. CASE Settled
        <4>1. PICK n, due, failing, fate : Leaves(n, due, failing, fate)
          BY <1>1, <3>3, SettledFields
        <4> QED  BY <1>3, <4>1 DEF Leaves, SettledAs
      <3> QED  BY <3>1, <3>2, <3>3 DEF WriterStep
    <2> DEFINE f == Failure("flush", Len(calls), {"console"})
               T == (drained + 1)..Len(calls)
    <2>2. /\ Stage = "flush"
          /\ told' = [since |-> drained, ticket |-> Len(calls), result |-> result]
          /\ \/ UNCHANGED failures /\ result = pending
             \/ failures' = Append(failures, f) /\ result = IF pending = None THEN f ELSE pending
      BY <1>3, <2>1 DEF Answer
    <2>3. told'.since = drained /\ told'.ticket = Len(calls) /\ told'.result = result
      BY <2>2
    <2>4. f \in Failed /\ f.ticket = Len(calls)
      BY <1>1, FailureFields DEF Sinks
    <2>5. f.ticket \in T
      BY <1>1, <2>2, <2>4 DEF Order
    <2>6. Hits(failures, After(drained)) = Hits(failures, T)
      <3>1. \A i \in 1..Len(failures) : failures[i].ticket \in 1..Len(calls)
        BY DEF Past, Before
      <3> QED  BY <1>1, <3>1 DEF Hits, After
    <2>7. FirstOf(pending, failures, Hits(failures, T))
      BY <2>6 DEF Reported
    <2> HIDE DEF f, T
    <2>8. FirstOf(IF pending = None THEN f ELSE pending, Append(failures, f), Hits(Append(failures, f), T))
      BY <1>1, <2>4, <2>5, <2>7, FirstAppend
    <2>9. FirstOf(result, failures', Hits(failures', T))
      BY <2>2, <2>7, <2>8
    <2> QED  BY <2>3, <2>9 DEF Told, T
  <1> QED  BY <1>2, <1>3

LEMMA ToldIsExact ==
    ASSUME Typed, Order, Fates, Told
    PROVE  FlushTells
  <1>1. /\ Len(calls) \in Nat /\ drained \in Nat /\ Len(queue) \in Nat
        /\ \A i \in 1..Len(queue) : queue[i].ticket \in Nat
        /\ told # None => told.since \in Nat /\ told.ticket \in Nat
    BY TypedTickets
  <1> SUFFICES ASSUME told # None PROVE FlushTells
    BY DEF FlushTells
  <1> DEFINE since == {i \in 1..Len(failures) : failures[i].ticket \in (told.since + 1)..told.ticket}
  <1>2. since = Hits(failures, (told.since + 1)..told.ticket)
    BY DEF Hits
  <1>3. IF since = {} THEN told.result = None
        ELSE \E i \in since : told.result = failures[i] /\ \A j \in since : i <= j
    BY <1>2 DEF Told, FirstOf
  <1>4. ASSUME NEW n \in (told.since + 1)..told.ticket PROVE calls[n].fate # "queued"
    <2>1. told.ticket <= drained /\ drained <= Len(calls)
      BY DEF Order
    <2>2. n \in 1..Len(calls) /\ n <= drained
      BY <1>1, <2>1
    <2>3. \A i \in 1..Len(queue) : queue[i].ticket # n
      BY <1>1, <2>2 DEF Order
    <2> QED  BY <2>2, <2>3 DEF Fates
  <1> QED  BY <1>3, <1>4 DEF FlushTells

-----------------------------------------------------------------------------
(* The order of the files                                                   *)

LEMMA SortedAppend ==
    ASSUME NEW s \in Seq(Nat), NEW n \in Nat, Sorted(s), \A m \in Range(s) : m < n
    PROVE  Sorted(Append(s, n))
  <1>1. /\ Len(Append(s, n)) = Len(s) + 1 /\ Append(s, n)[Len(s) + 1] = n
        /\ \A i \in 1..Len(s) : Append(s, n)[i] = s[i]
        /\ Len(s) \in Nat
    BY AppendProperties, LenProperties
  <1>2. \A i \in 1..Len(s) : s[i] < n
    BY RangeSeq
  <1>3. ASSUME NEW i \in 1..(Len(s) + 1), NEW j \in 1..(Len(s) + 1), i < j
        PROVE  Append(s, n)[i] < Append(s, n)[j]
    <2>1. i \in 1..Len(s)
      BY <1>1, <1>3
    <2>2. CASE j \in 1..Len(s)
      BY <1>1, <1>3, <2>1, <2>2 DEF Sorted
    <2>3. CASE j = Len(s) + 1
      BY <1>1, <1>2, <2>1, <2>3
    <2> QED  BY <1>1, <2>2, <2>3
  <1> QED  BY <1>1, <1>3 DEF Sorted

LEMMA FailuresKept ==
    ASSUME Sound, Order, WriterStep
    PROVE  \A i \in 1..Len(failures) : i \in 1..Len(failures') /\ failures'[i] = failures[i]
  <1>1. failures \in Seq(Failed) /\ Len(failures) \in Nat
    BY TypedTickets DEF Sound, Typed
  <1>2. CASE \E f : NewFailure(f)
    <2>1. PICK f \in Failed : failures' = Append(failures, f)
      BY <1>2 DEF NewFailure
    <2>2. /\ Len(failures') = Len(failures) + 1
          /\ \A i \in 1..Len(failures) : failures'[i] = failures[i]
      BY <1>1, <2>1, AppendProperties
    <2> QED  BY <1>1, <2>2
  <1> QED  BY <1>2, WhatFails

(* A file sink that has the backup or an older file open is in the middle   *)
(* of an update, or an update has failed.                                   *)
Moves ==
    handle \in {"backup", "gone"} =>
        \/ Stage \in {"header", "install"}
        \/ \E i \in 1..Len(failures) : failures[i].what = "setup" /\ failures[i].ticket <= drained

LEMMA MovesStep ==
    ASSUME Sound, Order, Order', Moves, WriterStep
    PROVE  Moves'
  <1>1. /\ Typed /\ Len(calls) \in Nat /\ drained \in Nat /\ failures \in Seq(Failed)
        /\ Len(failures) \in Nat /\ \A i \in 1..Len(failures) : failures[i].ticket \in Nat
    BY TypedTickets DEF Sound, Typed
  <1>2. CASE /\ UNCHANGED handle /\ (UNCHANGED drained \/ drained' = Len(calls))
             /\ UNCHANGED Stage \/ Stage \notin {"header", "install"}
    <2>1. drained <= Len(calls)
      BY DEF Order
    <2>2. ASSUME NEW i \in 1..Len(failures), failures[i].what = "setup", failures[i].ticket <= drained
          PROVE  /\ i \in 1..Len(failures') /\ failures'[i].what = "setup"
                 /\ failures'[i].ticket <= drained'
      BY <1>1, <1>2, <2>1, <2>2, FailuresKept
    <2> QED  BY <1>2, <2>2 DEF Moves
  <1>3. CASE Quiet \/ (\E line \in LineType : HandOver(line)) \/ Wait \/ Reset
    BY <1>2, <1>3 DEF Quiet, HandOver, Wait, Reset
  <1>4. CASE \E result : Answer(result)
    <2>1. UNCHANGED handle /\ drained' = Len(calls) /\ Stage \notin {"header", "install"}
      BY <1>4 DEF Answer
    <2> QED  BY <1>2, <2>1
  <1>5. CASE Settled
    <2>1. PICK n, due, failing, fate : Leaves(n, due, failing, fate)
      BY <1>1, <1>5, SettledFields
    <2> QED  BY <1>2, <2>1 DEF Leaves, SettledAs
  <1>6. CASE Opened
    <2>1. Stage' = "header"
      BY <1>6 DEF Opened
    <2> QED  BY <2>1 DEF Moves
  <1>7. CASE Headed
    <2>1. Stage' = "install"
      BY <1>7 DEF Headed
    <2> QED  BY <2>1 DEF Moves
  <1>8. CASE GivenUp
    <2> DEFINE f == Failure("setup", Len(calls), {})
    <2>1. /\ failures' = Append(failures, f) /\ UNCHANGED drained
          /\ Stage \in {"open", "header", "install"}
      BY <1>8 DEF GivenUp
    <2>2. f \in Failed /\ f.what = "setup" /\ f.ticket = Len(calls)
      BY <1>1, FailureFields
    <2> HIDE DEF f
    <2>3. Len(failures) + 1 \in 1..Len(failures') /\ failures'[Len(failures) + 1] = f
      BY <1>1, <2>1, <2>2, AppendProperties
    <2>4. f.ticket <= drained'
      BY <1>1, <2>1, <2>2 DEF Order
    <2> QED  BY <2>2, <2>3, <2>4 DEF Moves
  <1>9. CASE Replaced
    <2>1. handle' \in {None, "active"}
      BY <1>9 DEF Replaced
    <2>2. None \notin {"backup", "gone"}
      BY ConstantFacts DEF FileNames
    <2> QED  BY <2>1, <2>2 DEF Moves
  <1> QED  BY <1>3, <1>4, <1>5, <1>6, <1>7, <1>8, <1>9 DEF WriterStep

(* What has been astray stays in a file that has been moved.                *)
InMoved(n) == n \in Range(files["backup"]) \cup Range(files["gone"])

LEMMA InMovedStep ==
    ASSUME Sound, Order, WriterStep, NEW n, InMoved(n)
    PROVE  InMoved(n)'
  <1>1. Typed
    BY DEF Sound
  <1>2. CASE UNCHANGED files
    BY <1>2 DEF InMoved
  <1>3. CASE Rotate
    <2>1. /\ files'["gone"] = files["gone"] \o files["backup"]
      BY <1>1, <1>3, RotateTypes
    <2>2. Range(files["gone"] \o files["backup"]) = Range(files["gone"]) \cup Range(files["backup"])
      BY <1>1, FileTypes, RangeConcat
    <2> QED  BY <2>1, <2>2 DEF InMoved
  <1>4. CASE \E m : \E where \in FileNames : Newest(m) /\ files' = Wrote(where, m)
    <2>1. PICK m : \E where \in FileNames : Newest(m) /\ files' = Wrote(where, m)
      BY <1>4
    <2>2. PICK where \in FileNames : m \in Nat /\ files' = Wrote(where, m)
      BY <2>1 DEF Newest
    <2>3. /\ files'[where] = Append(files[where], m)
          /\ \A g \in FileNames : g # where => files'[g] = files[g]
      BY <1>1, <2>2, WroteTypes
    <2>4. Range(Append(files[where], m)) = Range(files[where]) \cup {m}
      BY <1>1, <2>2, FileTypes, RangeAppend
    <2>5. \A g \in FileNames : Range(files[g]) \subseteq Range(files'[g])
      BY <2>3, <2>4
    <2> QED  BY <2>5 DEF InMoved, FileNames
  <1> QED  BY <1>2, <1>3, <1>4, WhatIsWritten

LEMMA AstrayStep ==
    ASSUME Sound, Order, Fates, WriterStep
    PROVE  /\ \A n \in 1..Len(calls) : Astray(n) => Astray(n)'
           /\ ~Settled => \A n \in 1..Len(calls') : Astray(n)' => n \in 1..Len(calls) /\ Astray(n)
  <1>1. Typed /\ Len(calls) \in Nat
    BY TypedTickets DEF Sound
  <1>2. CASE Settled
    <2>1. PICK k, due, failing, fate : Leaves(k, due, failing, fate)
      BY <1>1, <1>2, SettledFields
    <2>2. /\ k \in 1..Len(calls) /\ k = queue[1].ticket /\ 1 \in 1..Len(queue)
          /\ \A m \in 1..Len(calls) : calls'[m].fate = IF m = k THEN fate ELSE calls[m].fate
      BY <2>1 DEF Leaves
    <2>3. calls[k].fate = "queued"
      BY <2>2 DEF Fates
    <2> QED  BY <1>2, <2>2, <2>3 DEF Astray
  <1>3. CASE Apart
    BY <1>3 DEF Apart, Astray
  <1>4. CASE /\ Len(calls') = Len(calls) + 1 /\ calls'[Len(calls) + 1].fate # "astray"
             /\ \A m \in 1..Len(calls) : calls'[m] = calls[m]
    <2>1. \A n \in 1..(Len(calls) + 1) : n \in 1..Len(calls) \/ n = Len(calls) + 1
      BY <1>1
    <2> QED  BY <1>4, <2>1 DEF Astray
  <1>5. CASE \E line \in LineType : HandOver(line)
    <2>1. PICK line \in LineType : HandOver(line)
      BY <1>5
    <2>2. /\ Len(calls') = Len(calls) + 1 /\ \A m \in 1..Len(calls) : calls'[m] = calls[m]
          /\ Held(line) \/ LetGo
      BY <1>1, <2>1, HandOverFields
    <2>3. calls'[Len(calls) + 1].fate # "astray"
      BY <2>2 DEF Held, LetGo
    <2> QED  BY <1>4, <2>2, <2>3
  <1>6. CASE Wait
    BY <1>1, <1>4, <1>6, WaitFields
  <1> QED  BY <1>2, <1>3, <1>5, <1>6, ApartSteps DEF WriterStep

FailedBefore(n) == \E i \in 1..Len(failures) : failures[i].what = "setup" /\ failures[i].ticket < n
Crossed   == \A n \in Range(files["backup"]), m \in Range(files["active"]) : n < m \/ Astray(n) \/ Astray(m)
Explained == \A n \in 1..Len(calls) : Astray(n) => FailedBefore(n) /\ InMoved(n)

LEMMA FilesPlain ==
    FilesInOrder <=> /\ Sorted(console) /\ Sorted(files["active"]) /\ Sorted(files["backup"])
                     /\ Crossed /\ Explained
  BY DEF FilesInOrder, Crossed, Explained, FailedBefore, InMoved, Tickets

LEMMA SortedStep ==
    ASSUME Sound, Order, Past, FilesInOrder, WriterStep
    PROVE  Sorted(console') /\ Sorted(files'["active"]) /\ Sorted(files'["backup"])
  <1>1. /\ Typed /\ Sorted(console) /\ Sorted(files["active"]) /\ Sorted(files["backup"])
    BY FilesPlain DEF Sound
  <1>2. Sorted(<<>>)
    BY DEF Sorted
  <1>3. Sorted(console')
    <2>1. CASE \E n : Newest(n) /\ console' = Append(console, n)
      <3>1. PICK n : Newest(n) /\ console' = Append(console, n)
        BY <2>1
      <3>2. n \in Nat /\ \A m \in Range(console) : m < n
        <4>1. \A m \in Range(console) : m \in Nat /\ Old(m)
          BY <1>1, FileTypes, RangeSeq DEF Past
        <4> QED  BY <3>1, <4>1 DEF Newest
      <3> QED  BY <1>1, <3>1, <3>2, FileTypes, SortedAppend
    <2> QED  BY <1>1, <2>1, WhatIsWritten
  <1>4. Sorted(files'["active"]) /\ Sorted(files'["backup"])
    <2>1. CASE Rotate
      BY <1>1, <1>2, <2>1, RotateTypes
    <2>2. CASE \E n : \E where \in FileNames : Newest(n) /\ files' = Wrote(where, n)
      <3>1. PICK n : \E where \in FileNames : Newest(n) /\ files' = Wrote(where, n)
        BY <2>2
      <3>2. PICK where \in FileNames : Newest(n) /\ files' = Wrote(where, n)
        BY <3>1
      <3>3. n \in Nat /\ \A m \in Range(files[where]) : m < n
        <4>1. \A m \in Range(files[where]) : m \in Nat /\ Old(m)
          BY <1>1, FileTypes, RangeSeq DEF Past
        <4> QED  BY <3>1, <4>1 DEF Newest
      <3>4. /\ files'[where] = Append(files[where], n)
            /\ \A g \in FileNames : g # where => files'[g] = files[g]
        BY <1>1, <3>2, <3>3, WroteTypes
      <3>5. Sorted(files[where]) => Sorted(Append(files[where], n))
        BY <1>1, <3>3, FileTypes, SortedAppend
      <3>6. "active" \in FileNames /\ "backup" \in FileNames
        BY DEF FileNames
      <3> QED  BY <1>1, <3>4, <3>5, <3>6
    <2> QED  BY <1>1, <2>1, <2>2, WhatIsWritten
  <1> QED  BY <1>3, <1>4

LEMMA CrossedStep ==
    ASSUME Sound, Order, Past, Fates, FilesInOrder, WriterStep
    PROVE  Crossed'
  <1>1. Typed /\ Crossed /\ "active" \in FileNames /\ "backup" \in FileNames
    BY FilesPlain DEF Sound, FileNames
  <1>2. \A f \in FileNames : \A n \in Range(files[f]) : n \in Nat /\ Old(n) /\ n \in 1..Len(calls)
    BY <1>1, FileTypes, RangeSeq DEF Past, Old, Before
  <1>3. \A n \in 1..Len(calls) : Astray(n) => Astray(n)'
    BY AstrayStep
  <1>4. CASE UNCHANGED files
    BY <1>1, <1>2, <1>3, <1>4 DEF Crossed
  <1>5. CASE Rotate
    <2>1. Range(files'["active"]) = {}
      BY <1>1, <1>5, RotateTypes DEF Range
    <2> QED  BY <2>1 DEF Crossed
  <1>6. ASSUME NEW k \in Nat, NEW where \in FileNames, Newest(k), files' = Wrote(where, k),
               where = "backup" => Astray(k)'
        PROVE  Crossed'
    <2>1. /\ files'[where] = Append(files[where], k)
          /\ \A g \in FileNames : g # where => files'[g] = files[g]
      BY <1>1, <1>6, WroteTypes
    <2>2. Range(Append(files[where], k)) = Range(files[where]) \cup {k}
      BY <1>1, <1>6, FileTypes, RangeAppend
    <2>3. ASSUME NEW n \in Range(files'["backup"]), NEW m \in Range(files'["active"])
          PROVE  n < m \/ Astray(n)' \/ Astray(m)'
      <3>1. CASE n \in Range(files["backup"]) /\ m \in Range(files["active"])
        BY <1>1, <1>2, <1>3, <3>1 DEF Crossed
      <3>2. CASE where = "backup" /\ n = k
        BY <1>6, <3>2
      <3>3. CASE where = "active" /\ m = k /\ n \in Range(files["backup"])
        BY <1>1, <1>2, <1>6, <3>3 DEF Newest
      <3> QED  BY <1>1, <2>1, <2>2, <3>1, <3>2, <3>3
    <2> QED  BY <2>3 DEF Crossed
  <1>7. CASE Settled
    <2>1. PICK k, due, failing, fate : Leaves(k, due, failing, fate)
      BY <1>1, <1>7, SettledFields
    <2>2. /\ k \in Nat /\ k \in 1..Len(calls)
          /\ "file" \in due => handle \in FileNames
          /\ fate = (IF "file" \in due \ failing /\ handle # "active" THEN "astray" ELSE "settled")
          /\ files' = IF "file" \in due \ failing THEN Wrote(handle, k) ELSE files
          /\ calls'[k].fate = fate
      BY <2>1 DEF Leaves, SettledAs
    <2>3. Newest(k)
      BY <2>1, SettlesNewest
    <2>4. CASE "file" \in due \ failing
      <3>1. PICK where \in FileNames : where = handle
        BY <2>2, <2>4
      <3>2. where = "backup" => Astray(k)'
        BY <2>2, <2>4, <3>1 DEF Astray
      <3> QED  BY <1>6, <2>2, <2>3, <2>4, <3>1, <3>2
    <2> QED  BY <1>4, <2>2, <2>4
  <1>8. CASE Headed
    <2>1. CASE files' = Wrote("active", Len(calls))
      <3>1. /\ Stage = "header" /\ Stage' = "install" /\ UNCHANGED <<queue, calls>>
        BY <1>8 DEF Headed
      <3>2. PICK k : k = Len(calls)
        OBVIOUS
      <3>3. Len(queue) = 0 /\ k \in 1..Len(calls) /\ k \in Nat
        BY <1>1, <3>1, <3>2, DrainedQueue, TypedTickets
      <3>4. Old(k)'
        BY <3>1, <3>3 DEF Old, Before
      <3>5. Newest(k)
        BY <1>1, <3>1, <3>2, <3>3, <3>4 DEF Newest, Old
      <3>6. "active" # "backup"
        OBVIOUS
      <3> QED  BY <1>1, <1>6, <2>1, <3>2, <3>3, <3>5, <3>6
    <2> QED  BY <1>4, <1>8, <2>1 DEF Headed
  <1>9. CASE Quiet \/ (\E line \in LineType : HandOver(line)) \/ Wait \/ (\E result : Answer(result))
             \/ Reset \/ GivenUp \/ Replaced
    <2>1. CASE Quiet \/ (\E line \in LineType : HandOver(line)) \/ Wait
      BY <1>4, <2>1 DEF Quiet, HandOver, Wait
    <2>2. CASE \E result : Answer(result)
      BY <1>4, <2>2 DEF Answer
    <2>3. CASE Reset \/ GivenUp \/ Replaced
      BY <1>4, <2>3 DEF Reset, GivenUp, Replaced
    <2> QED  BY <1>9, <2>1, <2>2, <2>3
  <1>10. CASE Opened
    BY <1>4, <1>5, <1>10 DEF Opened
  <1> QED  BY <1>7, <1>8, <1>9, <1>10 DEF WriterStep

LEMMA ExplainedStep ==
    ASSUME Sound, Order, Past, Fates, Moves, FilesInOrder, WriterStep
    PROVE  Explained'
  <1>1. Typed /\ Explained
    BY FilesPlain DEF Sound
  <1>2. ASSUME NEW n, FailedBefore(n) PROVE FailedBefore(n)'
    BY <1>2, FailuresKept DEF FailedBefore
  <1>3. ASSUME NEW n \in 1..Len(calls), Astray(n) PROVE FailedBefore(n)' /\ InMoved(n)'
    BY <1>1, <1>2, <1>3, InMovedStep DEF Explained
  <1>4. CASE ~Settled
    <2>1. \A n \in 1..Len(calls') : Astray(n)' => n \in 1..Len(calls) /\ Astray(n)
      BY <1>4, AstrayStep
    <2> QED  BY <1>3, <2>1 DEF Explained
  <1>5. CASE Settled
    <2>1. PICK k, due, failing, fate : Leaves(k, due, failing, fate)
      BY <1>1, <1>5, SettledFields
    <2>2. /\ k \in Nat /\ k \in 1..Len(calls) /\ Len(queue) # 0 /\ Len(calls') = Len(calls)
          /\ "file" \in due => handle \in FileNames
          /\ fate = (IF "file" \in due \ failing /\ handle # "active" THEN "astray" ELSE "settled")
          /\ files' = IF "file" \in due \ failing THEN Wrote(handle, k) ELSE files
          /\ \A m \in 1..Len(calls) : calls'[m].fate = IF m = k THEN fate ELSE calls[m].fate
      BY <2>1 DEF Leaves, SettledAs
    <2>3. drained < k
      BY <2>1, SettlesNewest
    <2>4. ASSUME fate = "astray" PROVE FailedBefore(k)' /\ InMoved(k)'
      <3>1. /\ handle \in {"backup", "gone"} /\ files' = Wrote(handle, k) /\ handle \in FileNames
        BY <2>2, <2>4 DEF FileNames
      <3>2. Stage \notin {"header", "install"}
        BY <1>1, <2>2, DrainedQueue
      <3>3. PICK i \in 1..Len(failures) : failures[i].what = "setup" /\ failures[i].ticket <= drained
        BY <3>1, <3>2 DEF Moves
      <3>4. failures[i].ticket < k
        <4>1. failures[i].ticket \in Nat /\ drained \in Nat
          BY <1>1, TypedTickets
        <4> QED  BY <2>2, <2>3, <3>3, <4>1
      <3>5. FailedBefore(k)
        BY <3>3, <3>4 DEF FailedBefore
      <3>6. InMoved(k)'
        <4>1. files'[handle] = Append(files[handle], k)
          BY <1>1, <2>2, <3>1, WroteTypes
        <4>2. Range(Append(files[handle], k)) = Range(files[handle]) \cup {k}
          BY <1>1, <2>2, <3>1, FileTypes, RangeAppend
        <4>3. k \in Range(files'[handle])
          BY <4>1, <4>2
        <4> QED  BY <3>1, <4>3 DEF InMoved
      <3> QED  BY <1>2, <3>5, <3>6
    <2>5. ASSUME NEW n \in 1..Len(calls'), Astray(n)' PROVE FailedBefore(n)' /\ InMoved(n)'
      <3>1. CASE n = k
        <4>1. fate = "astray"
          BY <2>2, <2>5, <3>1 DEF Astray
        <4> QED  BY <2>4, <3>1, <4>1
      <3>2. CASE n # k
        <4>1. n \in 1..Len(calls) /\ Astray(n)
          BY <2>2, <2>5, <3>2 DEF Astray
        <4> QED  BY <1>3, <4>1
      <3> QED  BY <3>1, <3>2
    <2> QED  BY <2>5 DEF Explained
  <1> QED  BY <1>4, <1>5

LEMMA FilesStep ==
    ASSUME Sound, Order, Past, Fates, Moves, FilesInOrder, WriterStep
    PROVE  FilesInOrder'
  <1>1. /\ Sorted(console') /\ Sorted(files'["active"]) /\ Sorted(files'["backup"])
        /\ Crossed' /\ Explained'
    BY SortedStep, CrossedStep, ExplainedStep
  <1>2. FilesInOrder' <=> /\ Sorted(console') /\ Sorted(files'["active"]) /\ Sorted(files'["backup"])
                          /\ Crossed' /\ Explained'
    BY DEF FilesInOrder, Crossed, Explained, FailedBefore, InMoved, Tickets
  <1> QED  BY <1>1, <1>2

-----------------------------------------------------------------------------
(* Every record has one fate                                                *)

Dropped  == {n \in 1..Len(calls) : n > clearedAt /\ calls[n].fate = "dropped"}
Logged   == {n \in 1..Len(calls) : calls[n].call \in Records}
Writing  == {t \in Threads : At(t) = "write" /\ pc[t].line.type \in Records}

LEMMA DroppedStep ==
    ASSUME Sound, Order, Fates, health.dropped = Cardinality(Dropped), WriterStep
    PROVE  health'.dropped = Cardinality(Dropped')
  <1>1. /\ Typed /\ Len(calls) \in Nat /\ drained \in Nat /\ clearedAt \in Nat /\ health \in Health
        /\ clearedAt <= Len(calls)
    <2>1. /\ Typed /\ Len(calls) \in Nat /\ drained \in Nat /\ clearedAt \in Nat /\ health \in Health
      BY TypedTickets DEF Sound, Typed
    <2>2. drained <= Len(calls) /\ clearedAt <= drained
      BY DEF Order
    <2> QED  BY <2>1, <2>2
  <1>2. IsFiniteSet(Dropped) /\ Cardinality(Dropped) \in Nat
    <2>1. IsFiniteSet(1..Len(calls)) /\ Dropped \in SUBSET (1..Len(calls))
      BY <1>1, FS_Interval DEF Dropped
    <2> QED  BY <2>1, FS_Subset, FS_CardinalityType
  <1>3. CASE Reset
    <2>1. health'.dropped = 0 /\ clearedAt' = Len(calls) /\ UNCHANGED calls
      BY <1>3 DEF Reset, NoFailures
    <2>2. Dropped' = {}
      BY <1>1, <2>1 DEF Dropped
    <2> QED  BY <2>1, <2>2, FS_EmptySet
  <1>4. CASE \E line \in LineType : HandOver(line)
    <2>1. PICK line \in LineType : HandOver(line)
      BY <1>4
    <2>2. /\ Len(calls') = Len(calls) + 1 /\ \A n \in 1..Len(calls) : calls'[n] = calls[n]
          /\ UNCHANGED clearedAt
          /\ \/ calls'[Len(calls) + 1].fate # "dropped" /\ UNCHANGED health
             \/ calls'[Len(calls) + 1].fate = "dropped" /\ health' = DropRecord(health)
      <3>1. /\ Len(calls') = Len(calls) + 1 /\ \A n \in 1..Len(calls) : calls'[n] = calls[n]
            /\ UNCHANGED clearedAt /\ (Held(line) \/ LetGo)
        BY <1>1, <2>1, HandOverFields
      <3> QED  BY <3>1 DEF Held, LetGo
    <2>3. Dropped' = Dropped \cup (IF calls'[Len(calls) + 1].fate = "dropped" THEN {Len(calls) + 1} ELSE {})
      <3>1. \A n : n \in 1..Len(calls') <=> n \in 1..Len(calls) \/ n = Len(calls) + 1
        BY <1>1, <2>2
      <3>2. Len(calls) + 1 > clearedAt
        BY <1>1
      <3> QED  BY <2>2, <3>1, <3>2 DEF Dropped
    <2>4. Len(calls) + 1 \notin Dropped
      BY <1>1 DEF Dropped
    <2>5. Cardinality(Dropped \cup {Len(calls) + 1}) = Cardinality(Dropped) + 1
      BY <1>2, <2>4, FS_AddElement
    <2>6. DropRecord(health).dropped = health.dropped + 1
      <3>1. Failure("setup", 0, {}) \in Failed
        BY FailureFields
      <3> QED  BY <1>1, <3>1, HealthFields
    <2> QED  BY <2>2, <2>3, <2>5, <2>6
  <1>5. CASE ~Reset /\ ~(\E line \in LineType : HandOver(line))
    <2>1. UNCHANGED clearedAt /\ health'.dropped = health.dropped
      <3>1. CASE UNCHANGED failures
        BY <1>5, <3>1, HealthStep
      <3>2. CASE \E f : NewFailure(f)
        <4>1. PICK f \in Failed : health' = RecordError(health, f) /\ UNCHANGED clearedAt
          BY <3>2 DEF NewFailure
        <4> QED  BY <1>1, <4>1, HealthFields
      <3> QED  BY <3>1, <3>2, WhatFails
    <2>2. CASE Apart
      <3>1. UNCHANGED calls
        BY <2>2 DEF Apart
      <3> QED  BY <2>1, <3>1 DEF Dropped
    <2>3. CASE Wait
      <3>1. /\ Len(calls') = Len(calls) + 1 /\ calls'[Len(calls) + 1].fate # "dropped"
            /\ \A n \in 1..Len(calls) : calls'[n] = calls[n]
        BY <1>1, <2>3, WaitFields
      <3>2. \A n : n \in 1..Len(calls') <=> n \in 1..Len(calls) \/ n = Len(calls) + 1
        BY <1>1, <3>1
      <3>3. Dropped' = Dropped
        BY <2>1, <3>1, <3>2 DEF Dropped
      <3> QED  BY <2>1, <3>3
    <2>4. CASE Settled
      <3>1. PICK k, due, failing, fate : Leaves(k, due, failing, fate)
        BY <1>1, <2>4, SettledFields
      <3>2. /\ k \in 1..Len(calls) /\ k = queue[1].ticket /\ 1 \in 1..Len(queue) /\ fate # "dropped"
            /\ Len(calls') = Len(calls)
            /\ \A m \in 1..Len(calls) : calls'[m].fate = IF m = k THEN fate ELSE calls[m].fate
        BY <3>1 DEF Leaves
      <3>3. calls[k].fate = "queued"
        BY <3>2 DEF Fates
      <3>4. Dropped' = Dropped
        BY <2>1, <3>2, <3>3 DEF Dropped
      <3> QED  BY <2>1, <3>4
    <2> QED  BY <1>5, <2>2, <2>3, <2>4, ApartSteps DEF WriterStep
  <1> QED  BY <1>3, <1>4, <1>5

LEMMA LoggedStep ==
    ASSUME Sound, Order, WriterStep
    PROVE  /\ IsFiniteSet(Logged) /\ Cardinality(Logged) \in Nat
           /\ \A line \in LineType : HandOver(line) =>
                 Cardinality(Logged') = Cardinality(Logged) + (IF line.type \in Records THEN 1 ELSE 0)
           /\ Apart \/ Wait \/ Settled => Logged' = Logged
  <1>1. Typed /\ Len(calls) \in Nat
    BY TypedTickets DEF Sound
  <1>2. IsFiniteSet(Logged) /\ Cardinality(Logged) \in Nat
    <2>1. IsFiniteSet(1..Len(calls)) /\ Logged \in SUBSET (1..Len(calls))
      BY <1>1, FS_Interval DEF Logged
    <2> QED  BY <2>1, FS_Subset, FS_CardinalityType
  <1>3. ASSUME Len(calls') = Len(calls) + 1, \A n \in 1..Len(calls) : calls'[n] = calls[n]
        PROVE  Logged' = Logged \cup (IF calls'[Len(calls) + 1].call \in Records THEN {Len(calls) + 1} ELSE {})
    <2>1. \A n : n \in 1..Len(calls') <=> n \in 1..Len(calls) \/ n = Len(calls) + 1
      BY <1>1, <1>3
    <2> QED  BY <1>3, <2>1 DEF Logged
  <1>4. ASSUME NEW line \in LineType, HandOver(line)
        PROVE  Cardinality(Logged') = Cardinality(Logged) + (IF line.type \in Records THEN 1 ELSE 0)
    <2>1. /\ Len(calls') = Len(calls) + 1 /\ \A n \in 1..Len(calls) : calls'[n] = calls[n]
          /\ calls'[Len(calls) + 1].call = line.type
      BY <1>1, <1>4, HandOverFields
    <2>2. Len(calls) + 1 \notin Logged
      BY <1>1 DEF Logged
    <2>3. Cardinality(Logged \cup {Len(calls) + 1}) = Cardinality(Logged) + 1
      BY <1>2, <2>2, FS_AddElement
    <2>4. Logged' = Logged \cup (IF line.type \in Records THEN {Len(calls) + 1} ELSE {})
      BY <1>3, <2>1
    <2>5. CASE line.type \in Records
      BY <2>3, <2>4, <2>5
    <2>6. CASE line.type \notin Records
      <3>1. Logged' = Logged
        BY <2>4, <2>6
      <3> QED  BY <1>2, <2>6, <3>1
    <2> QED  BY <2>5, <2>6
  <1>5. Wait => Logged' = Logged
    <2> SUFFICES ASSUME Wait PROVE Logged' = Logged
      OBVIOUS
    <2>1. /\ Len(calls') = Len(calls) + 1 /\ \A n \in 1..Len(calls) : calls'[n] = calls[n]
          /\ calls'[Len(calls) + 1].call \notin Records
      BY <1>1, WaitFields DEF Records
    <2> QED  BY <1>3, <2>1
  <1>6. Apart => Logged' = Logged
    BY DEF Apart, Logged
  <1>7. Settled => Logged' = Logged
    <2> SUFFICES ASSUME Settled PROVE Logged' = Logged
      OBVIOUS
    <2>1. PICK k, due, failing, fate : Leaves(k, due, failing, fate)
      BY <1>1, SettledFields
    <2>2. Len(calls') = Len(calls) /\ \A m \in 1..Len(calls) : calls'[m].call = calls[m].call
      BY <2>1 DEF Leaves
    <2> QED  BY <2>2 DEF Logged
  <1> QED  BY <1>2, <1>4, <1>5, <1>6, <1>7

(* Every record asked for is made, and a thread has it in hand or the       *)
(* writer has had it.                                                       *)
Counted ==
    /\ wanted \in Nat /\ recorded \in Nat /\ wanted = recorded
    /\ recorded = Cardinality(Writing) + Cardinality(Logged)

(* No thread begins to write, or is done writing.                           *)
Elsewhere == \A u \in Threads : pc'[u] = pc[u] \/ (At(u) # "write" /\ pc'[u].at # "write")

LEMMA CountKept ==
    ASSUME Sound, Order, WriterStep, Counted, Elsewhere, UNCHANGED <<wanted, recorded>>,
           Apart \/ Wait \/ Settled
    PROVE  Counted'
  <1>1. Writing' = Writing
    BY DEF Writing, Elsewhere, At
  <1>2. Logged' = Logged
    BY LoggedStep
  <1> QED  BY <1>1, <1>2 DEF Counted

LEMMA CountBegun ==
    ASSUME Sound, Order, WriterStep, Counted, Apart, NEW t \in Threads, NEW line \in LineType,
           At(t) = "idle", pc' = [pc EXCEPT ![t] = [at |-> "write", line |-> line]],
           wanted' = wanted + (IF line.type \in Records THEN 1 ELSE 0),
           recorded' = recorded + (IF line.type \in Records THEN 1 ELSE 0)
    PROVE  Counted'
  <1> DEFINE e == [at |-> "write", line |-> line]
  <1>1. pc \in [Threads -> Places]
    BY DEF Sound, Typed
  <1>2. pc' \in [Threads -> Places \cup {e}] /\ \A u \in Threads : pc'[u] = IF u = t THEN e ELSE pc[u]
    BY <1>1
  <1>3. e.at = "write" /\ e.line = line
    OBVIOUS
  <1> HIDE DEF e
  <1>4. Writing' = Writing \cup (IF line.type \in Records THEN {t} ELSE {}) /\ t \notin Writing
    BY <1>2, <1>3 DEF Writing, At
  <1>5. IsFiniteSet(Writing) /\ Cardinality(Writing) \in Nat
    <2>1. Writing \in SUBSET Threads
      BY DEF Writing
    <2> QED  BY <2>1, ConstantFacts, FS_Subset, FS_CardinalityType
  <1>6. Cardinality(Writing \cup {t}) = Cardinality(Writing) + 1
    BY <1>4, <1>5, FS_AddElement
  <1>7. Logged' = Logged /\ Cardinality(Logged) \in Nat
    BY LoggedStep
  <1>8. CASE line.type \in Records
    <2>1. Writing' = Writing \cup {t}
      BY <1>4, <1>8
    <2> QED  BY <1>5, <1>6, <1>7, <1>8, <2>1 DEF Counted
  <1>9. CASE line.type \notin Records
    <2>1. Writing' = Writing
      BY <1>4, <1>9
    <2> QED  BY <1>7, <1>9, <2>1 DEF Counted
  <1> QED  BY <1>8, <1>9

LEMMA CountWritten ==
    ASSUME Sound, Order, WriterStep, Counted, NEW t \in Threads, WriteLine(t)
    PROVE  Counted'
  <1> DEFINE line == pc[t].line
  <1>1. /\ pc \in [Threads -> Places] /\ At(t) = "write" /\ line \in LineType /\ HandOver(line)
        /\ pc' = [pc EXCEPT ![t] = Idle] /\ UNCHANGED <<wanted, recorded>>
    BY WriteLineStep DEF WriteLine, Sound, Typed, countVars
  <1>2. \A u \in Threads : pc'[u] = IF u = t THEN Idle ELSE pc[u]
    BY <1>1
  <1>3. Idle.at # "write"
    BY DEF Idle
  <1>4. Writing' = Writing \ {t} /\ (line.type \in Records <=> t \in Writing)
    BY <1>1, <1>2, <1>3 DEF Writing, At
  <1> HIDE DEF line
  <1>5. IsFiniteSet(Writing) /\ Cardinality(Writing) \in Nat
    <2>1. Writing \in SUBSET Threads
      BY DEF Writing
    <2> QED  BY <2>1, ConstantFacts, FS_Subset, FS_CardinalityType
  <1>6. /\ Cardinality(Logged) \in Nat
        /\ Cardinality(Logged') = Cardinality(Logged) + (IF line.type \in Records THEN 1 ELSE 0)
    BY <1>1, LoggedStep
  <1>7. CASE line.type \in Records
    <2>1. Cardinality(Writing \ {t}) = Cardinality(Writing) - 1
      BY <1>4, <1>5, <1>7, FS_RemoveElement
    <2> QED  BY <1>1, <1>4, <1>5, <1>6, <1>7, <2>1 DEF Counted
  <1>8. CASE line.type \notin Records
    <2>1. Writing' = Writing
      BY <1>4, <1>8
    <2> QED  BY <1>1, <1>6, <1>8, <2>1 DEF Counted
  <1> QED  BY <1>7, <1>8

LEMMA CountedStep ==
    ASSUME Sound, Order, Counted, [Next]_vars
    PROVE  Counted'
  <1>1. WriterStep /\ pc \in [Threads -> Places] /\ wanted \in Nat /\ recorded \in Nat
    BY SoundStep DEF Sound, Typed, Counted
  <1>2. ASSUME NEW t \in Threads,
               \/ \E kind \in Kinds : Log(t, kind) \/ LogExternal(t, kind)
               \/ EnterScope(t) \/ ExitScope(t)
        PROVE  Counted'
    <2>1. Apart
      BY <1>2, AppSteps, ApartSteps
    <2>2. At(t) = "idle"
      BY <1>2 DEF Log, LogExternal, EnterScope, ExitScope, At, Idle
    <2>3. CASE \E kind \in Kinds : LogExternal(t, kind) \/ (Log(t, kind) /\ kind >= recordLevel)
      <3>1. PICK kind \in Kinds : LogExternal(t, kind) \/ (Log(t, kind) /\ kind >= recordLevel)
        BY <2>3
      <3> DEFINE line == [type |-> "event", level |-> kind]
      <3>2. /\ wanted' = wanted + 1 /\ recorded' = recorded + 1
            /\ pc' = [pc EXCEPT ![t] = [at |-> "write", line |-> line]]
        BY <3>1 DEF Log, LogExternal, Emit, ToWrite, RecordingEnabled
      <3>3. line \in LineType /\ line.type \in Records
        BY DEF LineType, Records
      <3> HIDE DEF line
      <3> QED  BY <1>1, <2>1, <2>2, <3>2, <3>3, CountBegun
    <2>4. CASE \E kind \in Kinds : Log(t, kind) /\ ~(kind >= recordLevel)
      <3>1. UNCHANGED <<pc, recorded>> /\ wanted' = wanted
        BY <1>1, <2>4 DEF Log, RecordingEnabled
      <3> QED  BY <1>1, <2>1, <3>1, CountKept DEF Elsewhere
    <2>5. CASE ExitScope(t)
      <3> DEFINE line == [type |-> "exit", level |-> None]
      <3>1. /\ wanted' = wanted + 1 /\ recorded' = recorded + 1
            /\ pc' = [pc EXCEPT ![t] = [at |-> "write", line |-> line]]
        BY <2>5 DEF ExitScope, ToWrite
      <3>2. line \in LineType /\ line.type \in Records
        BY DEF LineType, Records
      <3> HIDE DEF line
      <3> QED  BY <1>1, <2>1, <2>2, <3>1, <3>2, CountBegun
    <2>6. CASE EnterScope(t)
      <3> DEFINE line == [type |-> "scope", level |-> None]
      <3>1. /\ wanted' = wanted + 0 /\ recorded' = recorded + 0
            /\ pc' = [pc EXCEPT ![t] = [at |-> "write", line |-> line]]
        BY <1>1, <2>6 DEF EnterScope, ToWrite, countVars
      <3>2. line \in LineType /\ line.type \notin Records
        BY DEF LineType, Records
      <3> HIDE DEF line
      <3> QED  BY <1>1, <2>1, <2>2, <3>1, <3>2, CountBegun
    <2> QED  BY <1>2, <2>3, <2>4, <2>5, <2>6
  <1>3. CASE Settle \/ (\E l \in Thresholds : SetRecordLevel(l)) \/ UNCHANGED vars
    <2>1. UNCHANGED <<pc, wanted, recorded>>
      BY <1>3 DEF Settle, SetRecordLevel, vars, countVars
    <2>2. Apart \/ Settled
      BY <1>3, SettleStep, RecordLevelStep, StutterStep, ApartSteps
    <2> QED  BY <1>1, <2>1, <2>2, CountKept DEF Elsewhere
  <1>4. ASSUME NEW t \in Threads, Reconfigure(t)
        PROVE  Counted'
    <2>1. PICK cfg, header, force : Update(t, cfg, header, force)
      BY <1>4 DEF Reconfigure
    <2>2. /\ UNCHANGED <<wanted, recorded>> /\ pc[t] = Idle
          /\ \/ UNCHANGED pc
             \/ pc' = [pc EXCEPT ![t] = [at |-> "update", cfg |-> cfg, header |-> header]]
      BY <2>1 DEF Update, countVars
    <2>3. Elsewhere
      BY <1>1, <2>2 DEF Elsewhere, At, Idle
    <2>4. Apart
      BY <1>4, ReconfigureStep, ApartSteps
    <2> QED  BY <1>1, <2>2, <2>3, <2>4, CountKept
  <1>5. ASSUME NEW t \in Threads, Flush(t) \/ ClearStart(t) \/ UpdateStart(t)
        PROVE  Counted'
    <2>1. UNCHANGED <<wanted, recorded>> /\ Wait
      BY <1>5, WaitStep DEF Flush, ClearStart, UpdateStart, countVars
    <2>2. Elsewhere
      BY <1>1, <1>5 DEF Elsewhere, Flush, ClearStart, UpdateStart, At, Idle
    <2> QED  BY <1>1, <2>1, <2>2, CountKept
  <1>6. ASSUME NEW t \in Threads, FlushAnswered(t) \/ ClearFlushed(t) \/ UpdateFlushed(t) \/ ClearEnd(t)
        PROVE  Counted'
    <2>1. UNCHANGED <<wanted, recorded>>
      BY <1>6 DEF FlushAnswered, ClearFlushed, UpdateFlushed, ClearEnd, countVars
    <2>2. Apart
      BY <1>6, AnswerStep, ResetStep, ApartSteps
    <2>3. CASE ClearFlushed(t)
      <3>1. pc[t] \in FlushAt /\ pc' = [pc EXCEPT ![t].at = "reset"] /\ pc[t].at = "clear"
        BY <1>1, <2>3, PlaceFields DEF ClearFlushed
      <3>2. [pc[t] EXCEPT !.at = "reset"].at = "reset"
        BY <3>1 DEF FlushAt
      <3>3. \A u \in Threads : pc'[u] = IF u = t THEN [pc[t] EXCEPT !.at = "reset"] ELSE pc[u]
        BY <1>1, <3>1
      <3>4. Elsewhere
        BY <3>1, <3>2, <3>3 DEF Elsewhere, At
      <3> QED  BY <1>1, <2>1, <2>2, <3>4, CountKept
    <2>4. CASE FlushAnswered(t) \/ UpdateFlushed(t) \/ ClearEnd(t)
      <3>1. Elsewhere
        BY <1>1, <2>4 DEF Elsewhere, FlushAnswered, UpdateFlushed, ClearEnd, At, Idle
      <3> QED  BY <1>1, <2>1, <2>2, <3>1, CountKept
    <2> QED  BY <1>6, <2>3, <2>4
  <1>7. ASSUME NEW t \in Threads, BuildOpen(t) \/ BuildHeader(t)
        PROVE  Counted'
    <2>1. UNCHANGED <<wanted, recorded>>
      BY <1>7 DEF BuildOpen, BuildHeader, countVars
    <2>2. Apart
      BY <1>7, BuildStep, ApartSteps
    <2>3. PICK at \in {"header", "install"} : pc' = [pc EXCEPT ![t] = [pc[t] EXCEPT !.at = at]]
      BY <1>7 DEF BuildOpen, BuildHeader
    <2>4. pc[t] \in BuildAt /\ pc[t].at \in {"open", "header"}
      BY <1>1, <1>7, PlaceFields DEF BuildOpen, BuildHeader
    <2>5. [pc[t] EXCEPT !.at = at].at = at
      BY <2>4 DEF BuildAt
    <2>6. \A u \in Threads : pc'[u] = IF u = t THEN [pc[t] EXCEPT !.at = at] ELSE pc[u]
      BY <1>1, <2>3
    <2>7. Elsewhere
      BY <2>3, <2>4, <2>5, <2>6 DEF Elsewhere, At
    <2> QED  BY <1>1, <2>1, <2>2, <2>7, CountKept
  <1>8. ASSUME NEW t \in Threads, BuildFails(t) \/ Install(t)
        PROVE  Counted'
    <2>1. UNCHANGED <<wanted, recorded>> /\ pc' = [pc EXCEPT ![t] = Idle] /\ pc[t].at # "write"
      BY <1>8 DEF BuildFails, Install, Unlock, countVars
    <2>2. Apart
      BY <1>8, GiveUpStep, InstallStep, ApartSteps
    <2>3. Elsewhere
      BY <1>1, <2>1 DEF Elsewhere, At, Idle
    <2> QED  BY <1>1, <2>1, <2>2, <2>3, CountKept
  <1>9. ASSUME NEW t \in Threads, WriteLine(t)
         PROVE  Counted'
    BY <1>1, <1>9, CountWritten
  <1> QED  BY <1>2, <1>3, <1>4, <1>5, <1>6, <1>7, <1>8, <1>9 DEF Next, Continue

-----------------------------------------------------------------------------
(* The inductive invariant                                                  *)

Levelled == writer # None => logLevel = EffectiveLevel(writer)
Lost     == health.dropped = Cardinality(Dropped)

Inv ==
    /\ Sound /\ Order /\ Past /\ Fates /\ Moves
    /\ Levelled /\ SinksExact /\ Diagnosed /\ Reported /\ Told /\ FilesInOrder
    /\ Counted /\ Lost

LEMMA InitInv == Init => Inv
  <1> SUFFICES ASSUME Init PROVE Inv
    OBVIOUS
  <1>1. Sound /\ Order /\ Stage = "free"
    BY InitSound
  <1>2. /\ calls = <<>> /\ failures = <<>> /\ queue = <<>> /\ console = <<>> /\ pending = None
        /\ told = None /\ handle = None /\ writer = None /\ wanted = 0 /\ recorded = 0
        /\ health.failed = 0 /\ health.dropped = 0 /\ health.last = None
        /\ \A f \in FileNames : files[f] = <<>>
        /\ \A t \in Threads : At(t) = "idle"
    BY DEF Init, NoFailures, At, Idle
  <1>3. \A i : i \notin 1..Len(<<>>)
    BY EmptySeq
  <1>4. Past /\ Fates /\ Moves
    <2>1. Range(<<>>) = {}
      BY <1>3 DEF Range
    <2>2. handle \notin {"backup", "gone"}
      BY <1>2, ConstantFacts DEF FileNames
    <2> QED  BY <1>1, <1>2, <1>3, <2>1, <2>2 DEF Past, Fates, Moves
  <1>5. Levelled /\ SinksExact
    BY <1>2, <1>3 DEF Levelled, SinksExact, Tickets
  <1>6. Diagnosed /\ Reported /\ Told
    <2>1. \A T : Hits(failures, T) = {}
      BY <1>2, <1>3 DEF Hits
    <2> QED  BY <1>2, <2>1, FS_EmptySet DEF Diagnosed, Reported, Told, FirstOf, LastOf
  <1>7. FilesInOrder
    <2>1. Range(<<>>) = {} /\ Sorted(<<>>)
      BY <1>3 DEF Range, Sorted
    <2> QED  BY <1>2, <1>3, <2>1 DEF FilesInOrder, FileNames, Tickets
  <1>8. Counted /\ Lost
    <2>1. Writing = {} /\ Logged = {} /\ Dropped = {}
      BY <1>2, <1>3 DEF Writing, Logged, Dropped
    <2> QED  BY <1>2, <2>1, FS_EmptySet DEF Counted, Lost
  <1> QED  BY <1>1, <1>4, <1>5, <1>6, <1>7, <1>8 DEF Inv

LEMMA InvStep == Inv /\ [Next]_vars => Inv'
  <1> SUFFICES ASSUME Inv, [Next]_vars PROVE Inv'
    OBVIOUS
  <1>1. /\ Sound /\ Order /\ Past /\ Fates /\ Moves
        /\ Levelled /\ SinksExact /\ Diagnosed /\ Reported /\ Told /\ FilesInOrder
        /\ Counted /\ Lost
    BY DEF Inv
  <1>2. Sound' /\ WriterStep
    BY <1>1, SoundStep
  <1>3. Order'
    BY <1>1, <1>2, OrderStep
  <1>4. Past'
    BY <1>1, <1>2, PastStep
  <1>5. Fates' /\ Moves'
    BY <1>1, <1>2, <1>3, FatesStep, MovesStep
  <1>6. Levelled'
    <2>1. UNCHANGED <<logLevel, writer>> \/ logLevel' = EffectiveLevel(writer')
      BY <1>1, SoundStep
    <2> QED  BY <1>1, <2>1 DEF Levelled, EffectiveLevel
  <1>7. SinksExact'
    BY <1>1, <1>2, SinksStep
  <1>8. Diagnosed'
    BY <1>1, <1>2, DiagnosedStep
  <1>9. Reported' /\ Told'
    BY <1>1, <1>2, <1>4, ReportedStep, ToldStep
  <1>10. FilesInOrder'
    BY <1>1, <1>2, FilesStep
  <1>11. Counted'
    BY <1>1, CountedStep
  <1>12. Lost'
    BY <1>1, <1>2, DroppedStep DEF Lost
  <1> QED  BY <1>2, <1>3, <1>4, <1>5, <1>6, <1>7, <1>8, <1>9, <1>10, <1>11, <1>12 DEF Inv

(* Every variable keeps its type, and the pending failure, the history of   *)
(* failures and the sinks speak of tickets that were given out.             *)
LEMMA WellTyped ==
    ASSUME Inv
    PROVE  TypeOK
  <1>1. Sound /\ Past /\ Reported /\ Typed /\ Locks
    BY DEF Inv, Sound
  <1>2. \A i \in 1..Len(failures) : failures[i] \in FailureType(Tickets)
    <2> SUFFICES ASSUME NEW i \in 1..Len(failures), NEW n, n = failures[i].ticket
                 PROVE  failures[i] \in FailureType(Tickets)
      OBVIOUS
    <2>1. failures[i] \in Failed
      BY <1>1, TypedTickets
    <2>2. n \in Tickets
      BY <1>1 DEF Past, Before, Tickets
    <2> QED  BY <2>1, <2>2 DEF Failed, FailureType
  <1>3. Range(failures) \subseteq FailureType(Tickets)
    <2>1. failures \in Seq(Failed)
      BY <1>1 DEF Typed
    <2>2. DOMAIN failures = 1..Len(failures)
      BY <2>1
    <2> QED  BY <1>2, <2>2 DEF Range
  <1>4. pending \in FailureType(Tickets) \cup {None}
    <2>1. pending = None \/ \E i \in 1..Len(failures) : pending = failures[i]
      BY <1>1 DEF Reported, FirstOf, Hits
    <2> QED  BY <1>2, <2>1
  <1>5. \A s \in {console, files["active"], files["backup"], files["gone"]} : Range(s) \subseteq Tickets
    <2>1. \A n : Old(n) => n \in Tickets
      BY DEF Old, Before, Tickets
    <2> QED  BY <1>1, <2>1 DEF Past, FileNames
  <1>6. handle = None <=> "file" \notin (IF writer = None THEN {} ELSE Installed(writer))
    BY <1>1 DEF Typed, Installed, Sinks
  <1>7. ASSUME NEW t \in Threads
        PROVE  /\ At(t) = "write" => pc[t].line \in LineType
               /\ At(t) \in Configuring => cfgLock = t /\ pc[t].cfg \in Configs
               /\ At(t) \in Holding <=> writerLock = t
    <2>1. pc[t] \in Places
      BY <1>1 DEF Typed
    <2>2. pc[t].at \in Configuring => pc[t].cfg \in Configs
      BY <2>1, PlaceFields DEF Configuring
    <2>3. At(t) = "write" => pc[t].line \in LineType
      BY <2>1, PlaceFields DEF At
    <2> QED  BY <1>1, <2>2, <2>3 DEF Locks, At
  <1> QED  BY <1>1, <1>3, <1>4, <1>5, <1>6, <1>7 DEF TypeOK, Typed, Locks, Configuring, Holding

-----------------------------------------------------------------------------
(* The theorems                                                             *)

(* All of it together is inductive: each part relies on the locks and on   *)
(* the order of the tickets, and most on what the queue still holds.        *)
THEOREM Invariant == Spec => []Inv
  BY InitInv, InvStep, PTL DEF Spec

(* For every history of configurations, failed ones and racing ones among   *)
(* them, the threshold that level_enabled consults lets through exactly     *)
(* what some installed sink would show, because it is stored together with  *)
(* the writer it was computed for; and every variable keeps its type.       *)
THEOREM LevelFollowsWriter == Spec => []LevelAgrees
  <1>1. ASSUME Inv PROVE LevelAgrees
    <2>1. TypeOK
      BY <1>1, WellTyped
    <2>2. ASSUME writer # None, NEW kind \in Debug..(Off - 1)
          PROVE  OutputEnabled(kind) <=> \/ writer.console /\ kind >= writer.consoleLevel
                                         \/ writer.file # "off" /\ kind >= writer.fileLevel
      <3>1. writer \in Configs /\ logLevel = EffectiveLevel(writer)
        BY <1>1, <2>2 DEF Inv, Sound, Typed, Levelled
      <3>2. kind >= EffectiveLevel(writer) <=> \E s \in Installed(writer) : kind >= Level(writer, s)
        BY <3>1, LeastLevel
      <3> QED  BY <3>1, <3>2 DEF OutputEnabled, Installed, Level, Sinks
    <2> QED  BY <2>1, <2>2 DEF LevelAgrees
  <1> QED  BY <1>1, Invariant, PTL

(* A settled line is in exactly the sinks at which it was due and whose own *)
(* write did not fail, whatever failed beside them.                         *)
THEOREM SinksGetTheirLines == Spec => []SinksExact
  <1>1. Inv => SinksExact
    BY DEF Inv
  <1> QED  BY <1>1, Invariant, PTL

(* Between calls, the diagnostics count every failure since the last clear  *)
(* and name the latest.                                                     *)
THEOREM DiagnosticsCount == Spec => []DiagnosticsExact
  <1>1. Inv => DiagnosticsExact
    BY DiagnosedIsExact DEF Inv, Sound
  <1> QED  BY <1>1, Invariant, PTL

(* flush() returns the first failure since the worker was last asked, and   *)
(* nothing older or younger.                                                *)
THEOREM FlushReports == Spec => []FlushTells
  <1>1. Inv => FlushTells
    BY ToldIsExact DEF Inv, Sound
  <1> QED  BY <1>1, Invariant, PTL

(* No record is lost between the journal and the sinks: each one asked for  *)
(* is made, and is in a thread's hand, in the queue, settled, or dropped    *)
(* and counted as such.                                                     *)
THEOREM RecordsAccounted == Spec => []Accounted
  <1>1. ASSUME Inv PROVE Accounted
    <2>1. Counted /\ Fates /\ Lost
      BY <1>1 DEF Inv
    <2>2. /\ wanted = recorded
          /\ recorded = Cardinality({t \in Threads : At(t) = "write" /\ pc[t].line.type \in Records})
                        + Cardinality({n \in Tickets : calls[n].call \in Records})
      BY <2>1 DEF Counted, Writing, Logged, Tickets
    <2>3. health.dropped = Cardinality({n \in Tickets : n > clearedAt /\ calls[n].fate = "dropped"})
      BY <2>1 DEF Lost, Dropped, Tickets
    <2>4. \A n \in Tickets : calls[n].fate = "queued" <=> \E i \in 1..Len(queue) : queue[i].ticket = n
      BY <2>1 DEF Fates, Tickets
    <2> QED  BY <2>2, <2>3, <2>4 DEF Accounted
  <1> QED  BY <1>1, Invariant, PTL

(* Lines and headers stand in the files in the order in which they were     *)
(* handed over; a line astray has a failed configuration before it and is   *)
(* in a file that was moved.                                                *)
THEOREM FilesKeepOrder == Spec => []FilesInOrder
  <1>1. Inv => FilesInOrder
    BY DEF Inv
  <1> QED  BY <1>1, Invariant, PTL
=============================================================================
