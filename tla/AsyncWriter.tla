----------------------------- MODULE AsyncWriter -----------------------------
(***************************************************************************)
(* The background writer of src/src/journal/writer.rs: a caller that holds *)
(* the writer exclusively (&mut self), a bounded channel, and one worker   *)
(* thread that owns the sink.  An entry (a record, or the metadata of a    *)
(* scope) is named by the ordinal of the call that submitted it, so an     *)
(* error is named by the entry whose write failed.                         *)
(*                                                                         *)
(* sent and settled are history: what entered the channel, and what the    *)
(* worker dealt with and how it went.  What was sent and is not settled    *)
(* when the receiver is gone is lost.                                      *)
(***************************************************************************)
EXTENDS Naturals, Sequences, FiniteSets

CONSTANTS
    Capacities,    \* values of queue_cap
    MaxCalls,      \* bound: entries submitted in one behaviour
    MaxFlushes,    \* bound: flush and set_run_id calls in one behaviour
    Ok,            \* io::Result::Ok(())
    FlushFailed,   \* the sink's flush() returned an error
    Unavailable    \* BrokenPipe: shut down, worker gone, or no acknowledgement

ASSUME CapacityAssumption == Capacities \subseteq Nat
ASSUME BoundsAssumption   == MaxCalls \in Nat /\ MaxFlushes \in Nat
ASSUME ResultsAssumption  ==
    /\ Ok \notin Nat /\ FlushFailed \notin Nat /\ Unavailable \notin Nat
    /\ Ok # FlushFailed /\ Ok # Unavailable /\ FlushFailed # Unavailable

VARIABLES
    capacity,   \* queue_cap, fixed at construction
    mode,       \* WriteMode of the writer, fixed at construction
    metadata,   \* scope_metadata: the sink wants scope entries
    tx,         \* the sender is present (Option<SyncSender<Msg>>)
    queue,      \* messages in the channel
    rx,         \* the worker's receiver still exists
    worker,     \* control state of the worker thread
    inflight,   \* the message the worker has received and not finished, if any
    pending,    \* pending_error, or Ok for None
    caller,     \* control state of the exclusive caller
    reply,      \* answer in the flush's one-shot channel, if any
    answer,     \* which flush call was the last to return, and its result
    stats,      \* WriterState: failed_writes, dropped_records, last_error
    calls,      \* entries submitted
    flushes,    \* flush and set_run_id calls
    sent, settled

chanVars    == <<tx, queue, rx>>
workerVars  == <<worker, inflight, pending>>
historyVars == <<calls, flushes, sent, settled>>
fixed       == <<capacity, mode, metadata>>
vars == <<fixed, chanVars, workerVars, caller, reply, answer, stats, historyVars>>

-----------------------------------------------------------------------------
(* Messages and results                                                     *)

Entry(kind, n)   == [kind |-> kind, id |-> n]
EntryKinds       == {"record", "scope"}
Flush            == Entry("flush", 0)
RunId            == Entry("runid", 0)
Msg              == [kind : EntryKinds, id : 1..MaxCalls] \cup {Flush, RunId}
Results          == 1..MaxCalls \cup {Ok, FlushFailed, Unavailable}

Returned(r)      == [nth |-> answer.nth + 1, is |-> r]
Settled(m, how)  == Append(settled, [msg |-> m, result |-> how])

(* WriterState::record_error and drop_record.                               *)
RecordError(s, operation) == [s EXCEPT !.failed = @ + 1, !.last = operation]
UncountedDrop(s)          == s   \* mutant of DropRecord: the counter is forgotten
DropRecord(s)             == [s EXCEPT !.dropped = @ + 1]

(* unavailable(): every BrokenPipe the caller sees is also a diagnostic.    *)
Refused(s) == RecordError(s, "background writer queue")

(* pending_error.get_or_insert(error): the first failure is kept.           *)
KeepLast(old, error)  == IF error = Ok THEN old ELSE error   \* mutant of KeepFirst
KeepFirst(old, error) == IF old = Ok THEN error ELSE old

(* sync_channel(queue_cap.max(1))                                           *)
Bound          == IF capacity = 0 THEN 1 ELSE capacity
RoomForOneMore == Len(queue) <= Bound   \* mutant of Room: off by one
Room           == Len(queue) < Bound

Idle          == [op |-> "idle"]
Sending(m)    == [op |-> "send", msg |-> m]
Awaiting      == [op |-> "await"]
Joining       == [op |-> "join"]
Gone          == [op |-> "dropped"]
Callers       == {Idle, Awaiting, Joining, Gone} \cup {Sending(m) : m \in Msg}

Contract == INSTANCE SinkContract WITH
    Message <- Msg, dropped <- stats.dropped, alive <- worker \in {"recv", "closing"}

-----------------------------------------------------------------------------
(* spawn_with_mode: the thread starts, or its failure is kept as a          *)
(* diagnostic and the writer has no sender.                                 *)
Init ==
    /\ capacity \in Capacities
    /\ mode \in {"BestEffort", "Blocking"}
    /\ metadata \in BOOLEAN
    /\ queue = <<>> /\ inflight = <<>> /\ pending = Ok
    /\ caller = Idle /\ reply = <<>> /\ answer = [nth |-> 0, is |-> Ok]
    /\ calls = 0 /\ flushes = 0 /\ sent = <<>> /\ settled = <<>>
    /\ \/ /\ tx = TRUE /\ rx = TRUE /\ worker = "recv"
          /\ stats = [failed |-> 0, dropped |-> 0, last |-> "none"]
       \/ /\ tx = FALSE /\ rx = FALSE /\ worker = "exited"
          /\ stats = [failed |-> 1, dropped |-> 0, last |-> "starting background writer"]

-----------------------------------------------------------------------------
(* The caller                                                               *)

(* Mutant of Accept: a flush overtakes what is queued.                      *)
AcceptFlushFirst(m) ==
    /\ queue' = IF m = Flush THEN <<m>> \o queue ELSE Append(queue, m)
    /\ sent' = Append(sent, m)

Accept(m) ==
    /\ queue' = Append(queue, m)
    /\ sent' = Append(sent, m)

(* enqueue, with no sender left: dropped, and an error is returned.         *)
EnqueueShutDown ==
    /\ ~tx
    /\ stats' = Refused(DropRecord(stats))
    /\ UNCHANGED <<caller, queue, sent>>

(* enqueue in Blocking mode: SyncSender::send waits for room.               *)
EnqueueBlocking(m) ==
    /\ tx /\ mode = "Blocking"
    /\ caller' = Sending(m)
    /\ UNCHANGED <<stats, queue, sent>>

(* enqueue in BestEffort mode: try_send; a full queue drops the entry and   *)
(* the caller is told Ok, a disconnected one is an error.                   *)
EnqueueBestEffort(m) ==
    /\ tx /\ mode = "BestEffort"
    /\ \/ /\ ~rx
          /\ stats' = Refused(DropRecord(stats))
          /\ UNCHANGED <<queue, sent>>
       \/ /\ rx /\ ~Room
          /\ stats' = DropRecord(stats)
          /\ UNCHANGED <<queue, sent>>
       \/ /\ rx /\ Room
          /\ Accept(m)
          /\ UNCHANGED stats
    /\ UNCHANGED caller

Enqueue(m) == EnqueueShutDown \/ EnqueueBlocking(m) \/ EnqueueBestEffort(m)

(* write_record, and write_scope for a sink that wants scope metadata (for  *)
(* another sink write_scope does nothing).                                  *)
Write(kind) ==
    /\ caller = Idle /\ calls < MaxCalls
    /\ kind = "scope" => metadata
    /\ calls' = calls + 1
    /\ Enqueue(Entry(kind, calls + 1))
    /\ UNCHANGED <<fixed, tx, rx, workerVars, reply, answer, flushes, settled>>

(* flush and set_run_id always use the blocking send.                       *)
FlushCall ==
    /\ caller = Idle /\ flushes < MaxFlushes
    /\ flushes' = flushes + 1
    /\ reply' = <<>>
    /\ IF tx THEN /\ caller' = Sending(Flush)
                  /\ UNCHANGED <<stats, answer>>
             ELSE /\ answer' = Returned(Unavailable)
                  /\ stats' = Refused(stats)
                  /\ UNCHANGED caller
    /\ UNCHANGED <<fixed, chanVars, workerVars, calls, sent, settled>>

SetRunId ==
    /\ caller = Idle /\ flushes < MaxFlushes
    /\ flushes' = flushes + 1
    /\ IF tx THEN caller' = Sending(RunId) /\ UNCHANGED stats
             ELSE stats' = Refused(stats) /\ UNCHANGED caller
    /\ UNCHANGED <<fixed, chanVars, workerVars, reply, answer, calls, sent, settled>>

(* A blocked send finds room.                                               *)
SendDone ==
    /\ caller.op = "send" /\ rx /\ Room
    /\ Accept(caller.msg)
    /\ caller' = IF caller.msg = Flush THEN Awaiting ELSE Idle
    /\ UNCHANGED <<fixed, tx, rx, workerVars, reply, answer, stats, calls, flushes, settled>>

(* A blocked send is woken because the receiver was dropped.                *)
SendDisconnected ==
    /\ caller.op = "send" /\ ~rx
    /\ stats' = Refused(IF caller.msg.kind \in EntryKinds THEN DropRecord(stats) ELSE stats)
    /\ answer' = IF caller.msg = Flush THEN Returned(Unavailable) ELSE answer
    /\ caller' = Idle
    /\ UNCHANGED <<fixed, chanVars, workerVars, reply, historyVars>>

(* reply_rx.recv(): the answer arrives ...                                  *)
FlushAnswered ==
    /\ caller = Awaiting /\ reply # <<>>
    /\ answer' = Returned(reply[1])
    /\ caller' = Idle
    /\ UNCHANGED <<fixed, chanVars, workerVars, reply, stats, historyVars>>

(* ... or the sending half was dropped with the message that held it.       *)
FlushAbandoned ==
    /\ caller = Awaiting /\ reply = <<>>
    /\ inflight # <<Flush>> /\ \A i \in 1..Len(queue) : queue[i] # Flush
    /\ answer' = Returned(Unavailable)
    /\ stats' = Refused(stats)
    /\ caller' = Idle
    /\ UNCHANGED <<fixed, chanVars, workerVars, reply, historyVars>>

(* Drop: close the sender, join the worker.                                 *)
DropWriter ==
    /\ caller = Idle
    /\ tx' = FALSE
    /\ caller' = Joining
    /\ UNCHANGED <<fixed, queue, rx, workerVars, reply, answer, stats, historyVars>>

Joined ==
    /\ caller = Joining /\ worker = "exited"
    /\ caller' = Gone
    /\ UNCHANGED <<fixed, chanVars, workerVars, reply, answer, stats, historyVars>>

Caller ==
    \/ \E kind \in EntryKinds : Write(kind)
    \/ FlushCall \/ SetRunId
    \/ SendDone \/ SendDisconnected
    \/ FlushAnswered \/ FlushAbandoned
    \/ DropWriter \/ Joined

-----------------------------------------------------------------------------
(* The worker                                                               *)

Receive ==
    /\ worker = "recv" /\ inflight = <<>> /\ queue # <<>>
    /\ inflight' = <<Head(queue)>>
    /\ queue' = Tail(queue)
    /\ UNCHANGED <<fixed, tx, rx, worker, pending, caller, reply, answer, stats, historyVars>>

Busy(kinds) == worker = "recv" /\ inflight # <<>> /\ inflight[1].kind \in kinds

(* The sink writes the entry, or fails: the failure is a diagnostic and     *)
(* becomes the pending error unless one is pending already.                 *)
WriteEntry ==
    /\ Busy(EntryKinds)
    /\ \/ /\ settled' = Settled(inflight[1], "done")
          /\ UNCHANGED <<stats, pending>>
       \/ /\ settled' = Settled(inflight[1], "failed")
          /\ stats' = RecordError(stats, IF inflight[1].kind = "record"
                                         THEN "writing record" ELSE "writing scope metadata")
          /\ pending' = KeepFirst(pending, inflight[1].id)
    /\ inflight' = <<>>
    /\ UNCHANGED <<fixed, chanVars, worker, caller, reply, answer, calls, flushes, sent>>

ApplyRunId ==
    /\ Busy({"runid"})
    /\ settled' = Settled(RunId, "done")
    /\ inflight' = <<>>
    /\ UNCHANGED <<fixed, chanVars, worker, pending, caller, reply, answer, stats, calls, flushes, sent>>

(* Mutant of AnswerFlush: the pending error is copied, not taken.           *)
AnswerFlushAgain ==
    /\ Busy({"flush"})
    /\ \E result \in {Ok, FlushFailed} :
          /\ stats' = IF result = Ok THEN stats ELSE RecordError(stats, "flushing writer")
          /\ reply' = <<KeepFirst(pending, result)>>
          /\ settled' = Settled(Flush, IF result = Ok THEN "done" ELSE "failed")
    /\ inflight' = <<>>
    /\ UNCHANGED <<fixed, chanVars, worker, pending, caller, answer, calls, flushes, sent>>

(* Mutant of AnswerFlush: a pending error returns before the answer is sent. *)
AnswerFlushUnlessPending ==
    /\ Busy({"flush"})
    /\ \E result \in {Ok, FlushFailed} :
          /\ stats' = IF result = Ok THEN stats ELSE RecordError(stats, "flushing writer")
          /\ reply' = IF pending = Ok THEN <<result>> ELSE reply
          /\ settled' = Settled(Flush, IF result = Ok THEN "done" ELSE "failed")
    /\ pending' = Ok
    /\ inflight' = <<>>
    /\ UNCHANGED <<fixed, chanVars, worker, caller, answer, calls, flushes, sent>>

(* The flush barrier: a pending error wins over the flush's own result.     *)
AnswerFlush ==
    /\ Busy({"flush"})
    /\ \E result \in {Ok, FlushFailed} :
          /\ stats' = IF result = Ok THEN stats ELSE RecordError(stats, "flushing writer")
          /\ reply' = <<KeepFirst(pending, result)>>
          /\ settled' = Settled(Flush, IF result = Ok THEN "done" ELSE "failed")
    /\ pending' = Ok
    /\ inflight' = <<>>
    /\ UNCHANGED <<fixed, chanVars, worker, caller, answer, calls, flushes, sent>>

(* The sink panics: unwinding drops the message in hand, the sink and the   *)
(* pending error; the receiver outlives the unwinding.                      *)
Panic ==
    /\ worker \in {"recv", "closing"} /\ (worker = "recv" => inflight # <<>>)
    /\ worker' = "panicked"
    /\ settled' = IF inflight = <<>> THEN settled ELSE Settled(inflight[1], "aborted")
    /\ inflight' = <<>>
    /\ pending' = Ok
    /\ UNCHANGED <<fixed, chanVars, caller, reply, answer, stats, calls, flushes, sent>>

(* Mutant of RecordPanic: the result of catch_unwind is ignored.            *)
IgnorePanic ==
    /\ worker = "panicked"
    /\ worker' = "unwound"
    /\ UNCHANGED <<fixed, chanVars, inflight, pending, caller, reply, answer, stats, historyVars>>

RecordPanic ==
    /\ worker = "panicked"
    /\ stats' = RecordError(stats, "background writer")
    /\ worker' = "unwound"
    /\ UNCHANGED <<fixed, chanVars, inflight, pending, caller, reply, answer, historyVars>>

(* Mutant of DropReceiver: the receiver outlives the thread.                *)
LeakReceiver ==
    /\ worker = "unwound"
    /\ worker' = "exited"
    /\ UNCHANGED <<fixed, chanVars, inflight, pending, caller, reply, answer, stats, historyVars>>

(* The thread's closure returns: dropping the receiver disconnects the      *)
(* channel and discards what is queued.                                     *)
DropReceiver ==
    /\ worker = "unwound"
    /\ rx' = FALSE
    /\ queue' = <<>>
    /\ worker' = "exited"
    /\ UNCHANGED <<fixed, tx, inflight, pending, caller, reply, answer, stats, historyVars>>

(* Mutant of ChannelClosed: shutdown does not wait for the queue to drain.  *)
ChannelClosedEarly ==
    /\ worker = "recv" /\ inflight = <<>> /\ ~tx
    /\ worker' = "closing"
    /\ UNCHANGED <<fixed, chanVars, inflight, pending, caller, reply, answer, stats, historyVars>>

(* recv() fails only when the channel is empty and the sender is gone.      *)
ChannelClosed ==
    /\ worker = "recv" /\ inflight = <<>> /\ queue = <<>> /\ ~tx
    /\ worker' = "closing"
    /\ UNCHANGED <<fixed, chanVars, inflight, pending, caller, reply, answer, stats, historyVars>>

FinalFlush ==
    /\ worker = "closing"
    /\ stats' \in {stats, RecordError(stats, "flushing writer at shutdown")}
    /\ worker' = "exited" /\ rx' = FALSE
    /\ UNCHANGED <<fixed, tx, queue, inflight, pending, caller, reply, answer, historyVars>>

Worker ==
    \/ Receive \/ WriteEntry \/ ApplyRunId \/ AnswerFlush \/ Panic
    \/ RecordPanic \/ DropReceiver \/ ChannelClosed \/ FinalFlush

-----------------------------------------------------------------------------
Next == Caller \/ Worker

Spec == Init /\ [][Next]_vars

(* The worker thread is scheduled, and a caller whose blocking operation    *)
(* can return does return.  Nothing obliges a caller to start an operation. *)
Returns == SendDone \/ SendDisconnected \/ FlushAnswered \/ FlushAbandoned \/ Joined

FairSpec == Spec /\ WF_vars(Worker) /\ WF_vars(Returns)

-----------------------------------------------------------------------------
(* Properties                                                               *)

Operations == {"none", "writing record", "writing scope metadata", "flushing writer",
               "flushing writer at shutdown", "background writer",
               "background writer queue", "starting background writer"}
Stats    == [failed : Nat, dropped : Nat, last : Operations]
Handled  == [msg : Msg, result : {"done", "failed", "aborted"}]

TypeOK ==
    /\ capacity \in Capacities
    /\ mode \in {"BestEffort", "Blocking"} /\ metadata \in BOOLEAN
    /\ tx \in BOOLEAN /\ rx \in BOOLEAN
    /\ queue \in Seq(Msg) /\ (Len(queue) <= capacity \/ Len(queue) <= 1)
    /\ worker \in {"recv", "closing", "panicked", "unwound", "exited"}
    /\ inflight \in {<<>>} \cup {<<m>> : m \in Msg}
    /\ pending \in Results /\ answer \in [nth : Nat, is : Results]
    /\ caller \in Callers
    /\ reply \in {<<>>} \cup {<<r>> : r \in Results}
    /\ stats \in Stats
    /\ calls \in 0..MaxCalls /\ flushes \in 0..MaxFlushes
    /\ sent \in Seq(Msg) /\ settled \in Seq(Handled)

(* flush() waits for an answer that can still come: while the sink lives,   *)
(* the flush is in the channel, behind everything else, or in the worker's  *)
(* hand, or it is answered; nothing of a flush that has returned is on the  *)
(* move.  The worker outlives its sender only while drop waits for it, and  *)
(* it shuts down with nothing left to write; the channel keeps to its bound *)
(* (TypeOK).                                                                *)
FlushServed ==
    /\ TypeOK
    /\ rx <=> worker # "exited"
    /\ ~tx /\ rx => caller = Joining
    /\ LET moving == inflight \o queue
       IN  /\ worker = "closing" => ~tx /\ moving = <<>>
           /\ caller = Awaiting /\ reply = <<>> /\ worker \in {"recv", "closing"}
                 => \E i \in 1..Len(moving) : moving[i] = Flush
           /\ rx => \A i \in 1..Len(moving) :
                       moving[i] = Flush => i = Len(moving) /\ caller = Awaiting /\ reply = <<>>

(* Nothing overtakes, nothing is written twice and nothing vanishes while   *)
(* the receiver exists: what was sent is what was settled, then the message *)
(* in hand, then the queue.  A panic keeps the order of what it cuts off.   *)
ChannelOrder ==
    /\ Len(settled) <= Len(sent)
    /\ \A i \in 1..Len(settled) : settled[i].msg = sent[i]
    /\ LET moving == inflight \o queue
       IN  rx => /\ Len(sent) = Len(settled) + Len(moving)
                 /\ \A i \in 1..Len(moving) : sent[Len(settled) + i] = moving[i]

(* Every entry submitted is on exactly one of three accounts: sent, counted *)
(* in dropped_records, or held by the caller's blocked send; and it is sent *)
(* under its own ordinal, in submission order.                              *)
EveryCallCounted ==
    LET entries == {i \in 1..Len(sent) : sent[i].kind \in EntryKinds}
        blocked == caller.op = "send" /\ caller.msg.kind \in EntryKinds
    IN  /\ calls = Cardinality(entries) + stats.dropped + (IF blocked THEN 1 ELSE 0)
        /\ \A i, j \in entries : i < j => sent[i].id < sent[j].id
        /\ blocked => caller.msg.id = calls

(* "flush() waits for queued work and reports the first write failure since *)
(* the previous flush, even if the underlying flush succeeds": an answer in *)
(* the reply channel covers everything sent before the flush, and it is the *)
(* one the settled entries call for.                                        *)
FlushContract ==
    caller = Awaiting /\ reply # <<>> =>
        /\ Len(settled) = Len(sent) /\ settled[Len(settled)].msg = Flush
        /\ Contract!Answers(settled, Len(settled), reply[1])

(* An entry the channel took and the file did not get leaves a trace in     *)
(* writer_diagnostics once the worker is gone, whichever way it was lost:   *)
(* a failed write, a panic over it, or a queue discarded behind a panic.    *)
NothingLostSilently ==
    worker = "exited" =>
        LET unwritten == {i \in 1..Len(sent) : /\ sent[i].kind \in EntryKinds
                                               /\ i <= Len(settled) => settled[i].result # "done"}
            panicked  == \E i \in unwritten : i > Len(settled) \/ settled[i].result = "aborted"
            failed    == {i \in unwritten : i <= Len(settled) /\ settled[i].result = "failed"}
        IN  stats.failed >= Cardinality(failed) + (IF panicked THEN 1 ELSE 0)

(* Dropping the writer drains it: once drop returns, every message sent was *)
(* settled, unless the sink panicked over one of them.                      *)
DropDrains ==
    caller = Gone => \/ Len(settled) = Len(sent)
                     \/ \E i \in 1..Len(settled) : settled[i].result = "aborted"

(* A blocked write, a flush and a drop all return, also when the sink       *)
(* panics at the worst moment.                                              *)
CallsReturn == caller.op \in {"send", "await", "join"} ~> caller.op \in {"idle", "dropped"}

(* The background writer keeps the contract of a sink that has no queue.    *)
RefinesContract == Contract!Spec
=============================================================================
