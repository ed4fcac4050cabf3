-------------------------- MODULE AsyncWriterProofs --------------------------
(***************************************************************************)
(* Theorems about AsyncWriter for every queue capacity and every number of *)
(* calls: types, the queue and its two ends; and what a caller may rely    *)
(* on: dropping drains, the flush contract, the refinement of              *)
(* SinkContract, and an account of every entry submitted.                  *)
(***************************************************************************)
EXTENDS AsyncWriter, ProofLemmas

USE CapacityAssumption, BoundsAssumption DEF CapacityAssumption, BoundsAssumption

(* A caller inside a blocking send holds one message.                       *)
LEMMA SendingHoldsMsg ==
    ASSUME caller \in Callers, caller.op = "send"
    PROVE  caller.msg \in Msg /\ caller = Sending(caller.msg)
  BY DEF Callers, Idle, Awaiting, Joining, Gone, Sending

LEMMA KeepFirstType ==
    ASSUME NEW old \in Results, NEW error \in Results
    PROVE  KeepFirst(old, error) \in Results
  BY DEF KeepFirst

LEMMA StatsType ==
    ASSUME NEW s \in Stats, NEW operation \in Operations
    PROVE  /\ RecordError(s, operation) \in Stats
           /\ DropRecord(s) \in Stats
  <1>1. s.failed + 1 \in Nat /\ s.dropped + 1 \in Nat
    BY DEF Stats
  <1> DEFINE counted == [s EXCEPT !.failed = s.failed + 1]
  <1>2. counted \in Stats
    BY <1>1 DEF Stats
  <1>3. [counted EXCEPT !.last = operation] \in Stats
    BY <1>2 DEF Stats
  <1>4. [s EXCEPT !.dropped = s.dropped + 1] \in Stats
    BY <1>1 DEF Stats
  <1> QED  BY <1>3, <1>4 DEF Stats, RecordError, DropRecord

LEMMA RefusedType ==
    ASSUME NEW s \in Stats
    PROVE  Refused(s) \in Stats /\ Refused(DropRecord(s)) \in Stats
  <1>1. "background writer queue" \in Operations
    BY DEF Operations
  <1> QED  BY <1>1, StatsType DEF Refused

LEMMA SettledType ==
    ASSUME settled \in Seq(Handled), NEW m \in Msg, NEW how \in {"done", "failed", "aborted"}
    PROVE  Settled(m, how) \in Seq(Handled)
  <1>1. [msg |-> m, result |-> how] \in Handled
    BY DEF Handled
  <1> QED  BY <1>1, AppendProperties DEF Settled

LEMMA AcceptType ==
    ASSUME TypeOK, NEW m \in Msg, Room, Accept(m)
    PROVE  /\ queue' \in Seq(Msg) /\ (Len(queue') <= capacity \/ Len(queue') <= 1)
           /\ sent' \in Seq(Msg)
  BY AppendProperties DEF TypeOK, Accept, Room, Bound

LEMMA EntryIsMsg ==
    ASSUME NEW kind \in EntryKinds, calls \in 0..MaxCalls, calls < MaxCalls
    PROVE  Entry(kind, calls + 1) \in Msg
  BY DEF Entry, Msg

(* Only entries have an ordinal.                                            *)
LEMMA EntryId ==
    ASSUME NEW m \in Msg, m.kind \in EntryKinds
    PROVE  m.id \in 1..MaxCalls
  BY DEF Msg, EntryKinds, Flush, RunId, Entry

(* The other messages are known by their kind.                              *)
LEMMA ControlByKind ==
    ASSUME NEW m \in Msg
    PROVE  (m.kind = "flush" => m = Flush) /\ (m.kind = "runid" => m = RunId)
  BY DEF Msg, EntryKinds, Flush, RunId, Entry

LEMMA ControlIsMsg == Flush \in Msg /\ RunId \in Msg
  BY DEF Msg

LEMMA ReturnedType ==
    ASSUME TypeOK, NEW r \in Results
    PROVE  Returned(r) \in [nth : Nat, is : Results]
  <1>1. answer.nth + 1 \in Nat
    BY DEF TypeOK
  <1> QED  BY <1>1 DEF Returned

LEMMA InflightMsg ==
    ASSUME TypeOK, inflight # <<>>
    PROVE  inflight[1] \in Msg /\ inflight = <<inflight[1]>>
  BY DEF TypeOK

LEMMA InitTypeOK ==
    ASSUME Init
    PROVE  TypeOK
  <1>1. /\ queue = <<>> /\ sent = <<>> /\ settled = <<>> /\ calls = 0 /\ flushes = 0
    BY DEF Init
  <1>2. stats \in Stats /\ worker \in {"recv", "exited"} /\ tx \in BOOLEAN /\ rx \in BOOLEAN
    <2>1. [failed |-> 0, dropped |-> 0, last |-> "none"] \in Stats
      BY DEF Stats, Operations
    <2>2. [failed |-> 1, dropped |-> 0, last |-> "starting background writer"] \in Stats
      BY DEF Stats, Operations
    <2> QED  BY <2>1, <2>2 DEF Init
  <1>3. /\ queue \in Seq(Msg) /\ Len(queue) <= 1
        /\ sent \in Seq(Msg) /\ settled \in Seq(Handled)
    BY <1>1, EmptySeq
  <1>4. calls \in 0..MaxCalls /\ flushes \in 0..MaxFlushes
    BY <1>1
  <1>5. caller \in Callers /\ pending \in Results /\ answer \in [nth : Nat, is : Results]
    BY DEF Init, Callers, Results
  <1> QED  BY <1>2, <1>3, <1>4, <1>5 DEF Init, TypeOK

LEMMA TypeStep ==
    ASSUME TypeOK, [Next]_vars
    PROVE  TypeOK'
  <1>1. ASSUME NEW kind \in EntryKinds, Write(kind) PROVE TypeOK'
    <2>1. Entry(kind, calls + 1) \in Msg
      BY <1>1, EntryIsMsg DEF Write, TypeOK
    <2>2. CASE EnqueueShutDown
      BY <1>1, <2>2, RefusedType DEF EnqueueShutDown, Write, TypeOK, fixed, workerVars
    <2>3. CASE EnqueueBlocking(Entry(kind, calls + 1))
      BY <1>1, <2>1, <2>3 DEF EnqueueBlocking, Write, TypeOK, fixed, workerVars, Callers
    <2>4. CASE EnqueueBestEffort(Entry(kind, calls + 1))
      <3>1. stats' \in {stats, DropRecord(stats), Refused(DropRecord(stats))}
        BY <2>4 DEF EnqueueBestEffort
      <3>2. stats' \in Stats /\ caller' \in Callers
        BY <2>4, <3>1, StatsType, RefusedType DEF EnqueueBestEffort, TypeOK, Operations
      <3>3. /\ queue' \in Seq(Msg) /\ (Len(queue') <= capacity \/ Len(queue') <= 1)
            /\ sent' \in Seq(Msg)
        BY <2>1, <2>4, AcceptType DEF EnqueueBestEffort, TypeOK
      <3> QED  BY <1>1, <3>2, <3>3 DEF Write, TypeOK, fixed, workerVars
    <2> QED  BY <1>1, <2>2, <2>3, <2>4 DEF Write, Enqueue
  <1>2. CASE FlushCall
    <2>1. stats' \in Stats /\ caller' \in Callers
      BY <1>2, RefusedType, ControlIsMsg DEF FlushCall, TypeOK, Callers
    <2>2. answer' \in [nth : Nat, is : Results]
      BY <1>2, ReturnedType DEF FlushCall, TypeOK, Results
    <2> QED  BY <1>2, <2>1, <2>2 DEF FlushCall, TypeOK, fixed, workerVars, chanVars
  <1>3. CASE SetRunId
    <2>1. stats' \in Stats /\ caller' \in Callers
      BY <1>3, RefusedType, ControlIsMsg DEF SetRunId, TypeOK, Callers
    <2> QED  BY <1>3, <2>1 DEF SetRunId, TypeOK, fixed, workerVars, chanVars
  <1>4. CASE SendDone
    BY <1>4, SendingHoldsMsg, AcceptType
       DEF SendDone, TypeOK, fixed, workerVars, Callers
  <1>5. CASE SendDisconnected
    BY <1>5, RefusedType, StatsType, ReturnedType
       DEF SendDisconnected, TypeOK, fixed, workerVars, chanVars, historyVars, Callers, Results
  <1>6. CASE FlushAnswered
    BY <1>6, ReturnedType DEF FlushAnswered, TypeOK, fixed, workerVars, chanVars, historyVars, Callers
  <1>7. CASE FlushAbandoned
    BY <1>7, RefusedType, StatsType, ReturnedType
       DEF FlushAbandoned, TypeOK, fixed, workerVars, chanVars, historyVars, Callers, Results
  <1>8. CASE DropWriter \/ Joined
    BY <1>8 DEF DropWriter, Joined, TypeOK, fixed, workerVars, chanVars, historyVars, Callers
  <1>9. CASE Receive
    <2>1. Head(queue) \in Msg /\ Tail(queue) \in Seq(Msg) /\ Len(Tail(queue)) = Len(queue) - 1
      BY <1>9, HeadTailProperties DEF Receive, TypeOK
    <2>2. Len(queue) \in Nat
      BY LenProperties DEF TypeOK
    <2>3. queue' = Tail(queue) /\ inflight' = <<Head(queue)>> /\ capacity' = capacity
      BY <1>9 DEF Receive, fixed
    <2>4. queue' \in Seq(Msg) /\ (Len(queue') <= capacity' \/ Len(queue') <= 1)
      <3>1. capacity \in Nat /\ (Len(queue) <= capacity \/ Len(queue) <= 1)
        BY DEF TypeOK
      <3> QED  BY <2>1, <2>2, <2>3, <3>1
    <2>5. inflight' \in {<<>>} \cup {<<m>> : m \in Msg}
      BY <2>1, <2>3
    <2> QED  BY <1>9, <2>4, <2>5 DEF Receive, TypeOK, fixed, historyVars
  <1>10. CASE WriteEntry
    <2>1. inflight[1] \in Msg /\ inflight[1].id \in Results
      BY <1>10, InflightMsg, EntryId DEF WriteEntry, Busy, Results
    <2>2. settled' \in Seq(Handled)
      BY <1>10, <2>1, SettledType DEF WriteEntry, TypeOK
    <2>3. stats' \in Stats /\ pending' \in Results
      BY <1>10, <2>1, StatsType, KeepFirstType DEF WriteEntry, TypeOK, Operations
    <2> QED  BY <1>10, <2>2, <2>3 DEF WriteEntry, TypeOK, fixed, chanVars
  <1>11. CASE ApplyRunId
    BY <1>11, SettledType, ControlIsMsg DEF ApplyRunId, TypeOK, fixed, chanVars
  <1>12. CASE AnswerFlush
    <2>1. PICK result \in {Ok, FlushFailed} :
            /\ stats' = IF result = Ok THEN stats ELSE RecordError(stats, "flushing writer")
            /\ reply' = <<KeepFirst(pending, result)>>
            /\ settled' = Settled(Flush, IF result = Ok THEN "done" ELSE "failed")
      BY <1>12 DEF AnswerFlush
    <2>2. stats' \in Stats
      BY <2>1, StatsType DEF TypeOK, Operations
    <2>3. KeepFirst(pending, result) \in Results
      BY KeepFirstType DEF TypeOK, Results
    <2>4. settled' \in Seq(Handled)
      BY <2>1, SettledType, ControlIsMsg DEF TypeOK
    <2> QED  BY <1>12, <2>1, <2>2, <2>3, <2>4 DEF AnswerFlush, TypeOK, fixed, chanVars, Results
  <1>13. CASE Panic
    <2>1. settled' \in Seq(Handled)
      BY <1>13, InflightMsg, SettledType DEF Panic, TypeOK
    <2> QED  BY <1>13, <2>1 DEF Panic, TypeOK, fixed, chanVars, Results
  <1>14. CASE RecordPanic
    BY <1>14, StatsType DEF RecordPanic, Operations, TypeOK, fixed, chanVars, historyVars
  <1>15. CASE DropReceiver
    <2>1. queue' \in Seq(Msg) /\ Len(queue') <= 1
      BY <1>15, EmptySeq DEF DropReceiver
    <2> QED  BY <1>15, <2>1 DEF DropReceiver, TypeOK, fixed, historyVars
  <1>16. CASE ChannelClosed
    BY <1>16 DEF ChannelClosed, TypeOK, fixed, chanVars, historyVars
  <1>17. CASE FinalFlush
    BY <1>17, StatsType DEF FinalFlush, Operations, TypeOK, fixed, historyVars
  <1>18. CASE UNCHANGED vars
    BY <1>18 DEF vars, fixed, chanVars, workerVars, historyVars, TypeOK
  <1> QED  BY <1>1, <1>2, <1>3, <1>4, <1>5, <1>6, <1>7, <1>8, <1>9, <1>10, <1>11,
              <1>12, <1>13, <1>14, <1>15, <1>16, <1>17, <1>18 DEF Next, Caller, Worker

(* Every variable, and the messages and results that travel through the     *)
(* channel, stay in the sets of the code's types, and the channel never     *)
(* holds more than its capacity.                                            *)
THEOREM TypeCorrect == Spec => []TypeOK
  <1>1. Init => TypeOK
    BY InitTypeOK
  <1>2. TypeOK /\ [Next]_vars => TypeOK'
    BY TypeStep
  <1> QED  BY <1>1, <1>2, PTL DEF Spec

-----------------------------------------------------------------------------
(* Order in the channel.  ChannelOrder is inductive together with the fact  *)
(* that the receiver lives exactly as long as the worker thread: only then  *)
(* is the message a worker step settles the one that was sent next.         *)

ReceiverLives == rx <=> worker # "exited"
OrderInv      == TypeOK /\ ReceiverLives /\ ChannelOrder

LEMMA InflightSeq ==
    ASSUME TypeOK
    PROVE  inflight \in Seq(Msg)
  <1>1. CASE inflight = <<>>
    BY <1>1, EmptySeq
  <1>2. CASE inflight # <<>>
    <2>1. PICK m \in Msg : inflight = <<m>>
      BY <1>2 DEF TypeOK
    <2>2. <<m>> \in Seq(Msg)
      OBVIOUS
    <2> QED  BY <2>1, <2>2
  <1> QED  BY <1>1, <1>2

(* One message is accepted behind those on the move.                        *)
LEMMA AcceptKeepsOrder ==
    ASSUME TypeOK, ChannelOrder, rx, NEW m \in Msg, Accept(m),
           UNCHANGED <<rx, inflight, settled>>
    PROVE  ChannelOrder'
  <1> DEFINE moving == inflight \o queue
  <1>1. inflight \in Seq(Msg) /\ queue \in Seq(Msg) /\ sent \in Seq(Msg) /\ settled \in Seq(Handled)
    BY InflightSeq DEF TypeOK
  <1>2. /\ queue' \in Seq(Msg) /\ Len(queue') = Len(queue) + 1
        /\ \A i \in 1..Len(queue) : queue'[i] = queue[i]
        /\ queue'[Len(queue) + 1] = m
    BY <1>1, AppendProperties DEF Accept
  <1>3. /\ Len(sent') = Len(sent) + 1
        /\ \A i \in 1..Len(sent) : sent'[i] = sent[i]
        /\ sent'[Len(sent) + 1] = m
    BY <1>1, AppendProperties DEF Accept
  <1>4. /\ Len(inflight) \in Nat /\ Len(queue) \in Nat
        /\ Len(sent) \in Nat /\ Len(settled) \in Nat
    BY <1>1, LenProperties
  <1>5. /\ Len(moving) = Len(inflight) + Len(queue)
        /\ \A i \in 1..Len(inflight) + Len(queue) :
              moving[i] = IF i <= Len(inflight) THEN inflight[i] ELSE queue[i - Len(inflight)]
    BY <1>1, ConcatProperties
  <1>6. /\ Len(moving') = Len(inflight) + Len(queue) + 1
        /\ \A i \in 1..Len(inflight) + Len(queue) + 1 :
              moving'[i] = IF i <= Len(inflight) THEN inflight[i] ELSE queue'[i - Len(inflight)]
    <2>1. /\ Len(inflight \o queue') = Len(inflight) + Len(queue')
          /\ \A i \in 1..Len(inflight) + Len(queue') : (inflight \o queue')[i] =
                IF i <= Len(inflight) THEN inflight[i] ELSE queue'[i - Len(inflight)]
      BY <1>1, <1>2, ConcatProperties
    <2>2. Len(inflight) + Len(queue') = Len(inflight) + Len(queue) + 1
      BY <1>2, <1>4
    <2>3. moving' = inflight \o queue'
      OBVIOUS
    <2> QED  BY <2>1, <2>2, <2>3
  <1>7. \A i \in 1..Len(moving) : moving'[i] = moving[i]
    BY <1>2, <1>4, <1>5, <1>6
  <1>8. moving'[Len(moving) + 1] = m
    BY <1>2, <1>4, <1>5, <1>6
  <1>9. /\ Len(settled) <= Len(sent)
        /\ \A i \in 1..Len(settled) : settled[i].msg = sent[i]
        /\ Len(sent) = Len(settled) + Len(moving)
        /\ \A i \in 1..Len(moving) : sent[Len(settled) + i] = moving[i]
    BY DEF ChannelOrder
  <1>10. Len(moving) \in Nat /\ Len(moving') = Len(moving) + 1
    BY <1>4, <1>5, <1>6
  <1>11. \A i \in 1..Len(moving') : sent'[Len(settled) + i] = moving'[i]
    <2> SUFFICES ASSUME NEW i \in 1..Len(moving') PROVE sent'[Len(settled) + i] = moving'[i]
      OBVIOUS
    <2>1. CASE i \in 1..Len(moving)
      <3>1. Len(settled) + i \in 1..Len(sent)
        BY <2>1, <1>4, <1>9, <1>10
      <3>2. sent'[Len(settled) + i] = sent[Len(settled) + i]
        BY <3>1, <1>3
      <3>3. sent[Len(settled) + i] = moving[i] /\ moving'[i] = moving[i]
        BY <2>1, <1>7, <1>9
      <3> QED  BY <3>2, <3>3
    <2>2. CASE i = Len(moving) + 1
      BY <2>2, <1>3, <1>4, <1>8, <1>9, <1>10
    <2> QED  BY <2>1, <2>2, <1>10
  <1>12. \A i \in 1..Len(settled) : settled[i].msg = sent'[i]
    BY <1>3, <1>4, <1>9
  <1>13. Len(settled) <= Len(sent') /\ Len(sent') = Len(settled) + Len(moving')
    BY <1>3, <1>4, <1>9, <1>10
  <1>14. settled' = settled /\ moving' = inflight' \o queue'
    OBVIOUS
  <1> HIDE DEF moving
  <1> QED  BY <1>11, <1>12, <1>13, <1>14 DEF ChannelOrder

(* The message in hand is settled.                                          *)
LEMMA SettleKeepsOrder ==
    ASSUME TypeOK, ChannelOrder, rx, inflight # <<>>,
           NEW how \in {"done", "failed", "aborted"},
           settled' = Settled(inflight[1], how), inflight' = <<>>,
           UNCHANGED <<rx, queue, sent>>
    PROVE  ChannelOrder'
  <1> DEFINE moving == inflight \o queue
  <1>1. PICK m \in Msg : inflight = <<m>>
    BY DEF TypeOK
  <1>2. /\ <<m>> \in Seq(Msg) /\ Len(<<m>>) = 1 /\ <<m>>[1] = m
        /\ queue \in Seq(Msg) /\ sent \in Seq(Msg) /\ settled \in Seq(Handled)
    BY DEF TypeOK
  <1>3. Len(queue) \in Nat /\ Len(sent) \in Nat /\ Len(settled) \in Nat
    BY <1>2, LenProperties
  <1>4. /\ Len(moving) = 1 + Len(queue)
        /\ \A i \in 1..1 + Len(queue) : moving[i] = IF i <= 1 THEN <<m>>[i] ELSE queue[i - 1]
    BY <1>1, <1>2, ConcatProperties
  <1>5. moving' = queue
    BY <1>2, ConcatEmptySeq
  <1>6. [msg |-> m, result |-> how] \in Handled
    BY DEF Handled
  <1>7. /\ Len(settled') = Len(settled) + 1
        /\ \A i \in 1..Len(settled) : settled'[i] = settled[i]
        /\ settled'[Len(settled) + 1] = [msg |-> m, result |-> how]
    BY <1>1, <1>2, <1>6, AppendProperties DEF Settled
  <1>8. /\ Len(settled) <= Len(sent)
        /\ \A i \in 1..Len(settled) : settled[i].msg = sent[i]
        /\ Len(sent) = Len(settled) + Len(moving)
        /\ \A i \in 1..Len(moving) : sent[Len(settled) + i] = moving[i]
    BY DEF ChannelOrder
  <1>9. sent[Len(settled) + 1] = m
    BY <1>2, <1>3, <1>4, <1>8
  <1>10. \A i \in 1..Len(settled') : settled'[i].msg = sent[i]
    BY <1>3, <1>7, <1>8, <1>9
  <1>11. \A i \in 1..Len(queue) : sent[Len(settled') + i] = queue[i]
    <2> SUFFICES ASSUME NEW i \in 1..Len(queue) PROVE sent[Len(settled') + i] = queue[i]
      OBVIOUS
    <2>1. i + 1 \in 1..Len(moving) /\ moving[i + 1] = queue[i]
      BY <1>3, <1>4
    <2>2. sent[Len(settled) + (i + 1)] = queue[i]
      BY <2>1, <1>8
    <2> QED  BY <2>2, <1>3, <1>7
  <1>12. Len(settled') <= Len(sent) /\ Len(sent) = Len(settled') + Len(queue)
    BY <1>3, <1>4, <1>7, <1>8
  <1> QED  BY <1>5, <1>10, <1>11, <1>12 DEF ChannelOrder

(* The worker takes the head of the queue.                                  *)
LEMMA ReceiveKeepsOrder ==
    ASSUME TypeOK, ChannelOrder, Receive
    PROVE  ChannelOrder'
  <1>1. queue \in Seq(Msg) /\ queue # <<>> /\ inflight = <<>>
    BY DEF TypeOK, Receive
  <1>2. <<Head(queue)>> \o Tail(queue) = queue
    BY <1>1
  <1> QED  BY <1>2 DEF ChannelOrder, Receive, historyVars

(* Whatever does not touch the channel or the history keeps the order; it   *)
(* may drop the receiver.                                                   *)
LEMMA OtherKeepsOrder ==
    ASSUME ChannelOrder, UNCHANGED <<sent, settled>>,
           rx' => rx /\ UNCHANGED <<queue, inflight>>
    PROVE  ChannelOrder'
  <1>1. CASE rx'
    BY <1>1 DEF ChannelOrder
  <1>2. CASE ~rx'
    BY <1>2 DEF ChannelOrder
  <1> QED  BY <1>1, <1>2

LEMMA OrderStep ==
    ASSUME OrderInv, [Next]_vars, TypeOK'
    PROVE  OrderInv'
  <1> USE DEF OrderInv
  <1>1. ReceiverLives'
    <2>1. CASE Worker
      BY <2>1 DEF Worker, Receive, WriteEntry, ApplyRunId, AnswerFlush, Panic, RecordPanic,
         DropReceiver, ChannelClosed, FinalFlush, Busy, ReceiverLives, chanVars
    <2>2. CASE Caller \/ UNCHANGED vars
      BY <2>2 DEF Caller, Write, FlushCall, SetRunId, SendDone, SendDisconnected, FlushAnswered,
         FlushAbandoned, DropWriter, Joined, ReceiverLives, chanVars, workerVars, vars
    <2> QED  BY <2>1, <2>2 DEF Next
  <1>2. ChannelOrder'
    <2>1. ASSUME NEW kind \in EntryKinds, Write(kind) PROVE ChannelOrder'
      <3>1. Entry(kind, calls + 1) \in Msg
        BY <2>1, EntryIsMsg DEF Write, TypeOK
      <3>2. UNCHANGED <<rx, inflight, settled>>
        BY <2>1 DEF Write, workerVars
      <3>3. CASE rx /\ Accept(Entry(kind, calls + 1))
        BY <3>1, <3>2, <3>3, AcceptKeepsOrder
      <3>4. CASE UNCHANGED <<queue, sent>>
        BY <3>2, <3>4, OtherKeepsOrder
      <3> QED  BY <2>1, <3>3, <3>4
               DEF Write, Enqueue, EnqueueShutDown, EnqueueBlocking, EnqueueBestEffort
    <2>2. CASE SendDone
      BY <2>2, AcceptKeepsOrder, SendingHoldsMsg DEF SendDone, TypeOK, workerVars
    <2>3. CASE Receive
      BY <2>3, ReceiveKeepsOrder
    <2>4. CASE WriteEntry
      <3>1. /\ rx /\ inflight # <<>> /\ inflight' = <<>> /\ UNCHANGED <<rx, queue, sent>>
            /\ \E how \in {"done", "failed"} : settled' = Settled(inflight[1], how)
        BY <2>4 DEF WriteEntry, Busy, ReceiverLives, chanVars
      <3> QED  BY <3>1, SettleKeepsOrder
    <2>5. CASE ApplyRunId
      <3>1. /\ rx /\ inflight # <<>> /\ inflight[1] = RunId /\ inflight' = <<>>
            /\ UNCHANGED <<rx, queue, sent>> /\ settled' = Settled(RunId, "done")
        BY <2>5, InflightMsg, ControlByKind DEF ApplyRunId, Busy, ReceiverLives, chanVars
      <3> QED  BY <3>1, SettleKeepsOrder
    <2>6. CASE AnswerFlush
      <3>1. /\ rx /\ inflight # <<>> /\ inflight[1] = Flush /\ inflight' = <<>>
            /\ UNCHANGED <<rx, queue, sent>>
            /\ \E how \in {"done", "failed"} : settled' = Settled(Flush, how)
        BY <2>6, InflightMsg, ControlByKind DEF AnswerFlush, Busy, ReceiverLives, chanVars
      <3> QED  BY <3>1, SettleKeepsOrder
    <2>7. CASE Panic
      <3>1. rx /\ UNCHANGED <<rx, queue, sent>> /\ inflight' = <<>>
        BY <2>7 DEF Panic, ReceiverLives, chanVars
      <3>2. CASE inflight = <<>>
        BY <2>7, <3>1, <3>2, OtherKeepsOrder DEF Panic
      <3>3. CASE inflight # <<>>
        BY <2>7, <3>1, <3>3, SettleKeepsOrder DEF Panic
      <3> QED  BY <3>2, <3>3
    <2>8. CASE \/ FlushCall \/ SetRunId \/ SendDisconnected \/ FlushAnswered \/ FlushAbandoned
               \/ DropWriter \/ Joined \/ RecordPanic \/ ChannelClosed \/ UNCHANGED vars
      <3>1. UNCHANGED <<sent, settled, rx, queue, inflight>>
        BY <2>8 DEF FlushCall, SetRunId, SendDisconnected, FlushAnswered, FlushAbandoned, DropWriter,
           Joined, RecordPanic, ChannelClosed, vars, chanVars, workerVars, historyVars
      <3> QED  BY <3>1, OtherKeepsOrder
    <2>9. CASE DropReceiver \/ FinalFlush
      BY <2>9, OtherKeepsOrder DEF DropReceiver, FinalFlush, historyVars
    <2> QED  BY <2>1, <2>2, <2>3, <2>4, <2>5, <2>6, <2>7, <2>8, <2>9 DEF Next, Caller, Worker
  <1> QED  BY <1>1, <1>2

LEMMA InitOrder ==
    ASSUME Init
    PROVE  OrderInv
  <1>1. TypeOK
    BY InitTypeOK
  <1>2. ReceiverLives
    BY DEF Init, ReceiverLives
  <1>3. settled = <<>> /\ sent = <<>> /\ inflight = <<>> /\ queue = <<>>
    BY DEF Init
  <1>4. Len(<<>>) = 0 /\ <<>> \o <<>> = <<>>
    OBVIOUS
  <1>5. ChannelOrder
    BY <1>3, <1>4 DEF ChannelOrder
  <1> QED  BY <1>1, <1>2, <1>5 DEF OrderInv

(* The channel is first in, first out, and settles each message at most     *)
(* once: nothing overtakes, nothing is written twice, and while the         *)
(* receiver exists nothing vanishes (writer.rs, worker loop).               *)
THEOREM OrderKept == Spec => []ChannelOrder
  <1>1. Init => OrderInv
    BY InitOrder
  <1>2. OrderInv /\ [Next]_vars => OrderInv'
    BY OrderStep, TypeStep DEF OrderInv
  <1>3. OrderInv => ChannelOrder
    BY DEF OrderInv
  <1> QED  BY <1>1, <1>2, <1>3, PTL DEF Spec

-----------------------------------------------------------------------------
(* What a caller may rely on                                                *)

(* A step adds at most one entry to settled.                                *)
LEMMA SettledGrows ==
    ASSUME TypeOK, [Next]_vars
    PROVE  \/ settled' = settled
           \/ /\ inflight # <<>> /\ inflight' = <<>> /\ UNCHANGED sent
              /\ \E how \in {"done", "failed", "aborted"} : settled' = Settled(inflight[1], how)
  <1>1. CASE Caller \/ UNCHANGED vars
    BY <1>1 DEF Caller, Write, FlushCall, SetRunId, SendDone, SendDisconnected, FlushAnswered,
       FlushAbandoned, DropWriter, Joined, vars, historyVars
  <1>2. CASE Receive \/ RecordPanic \/ DropReceiver \/ ChannelClosed \/ FinalFlush
    BY <1>2 DEF Receive, RecordPanic, DropReceiver, ChannelClosed, FinalFlush, historyVars
  <1>3. CASE WriteEntry \/ Panic
    BY <1>3 DEF WriteEntry, Panic, Busy
  <1>4. CASE ApplyRunId \/ AnswerFlush
    BY <1>4, InflightMsg, ControlByKind DEF ApplyRunId, AnswerFlush, Busy
  <1> QED  BY <1>1, <1>2, <1>3, <1>4 DEF Next, Worker

LEMMA SettledExtends ==
    ASSUME TypeOK, inflight # <<>>, NEW how \in {"done", "failed", "aborted"},
           settled' = Settled(inflight[1], how)
    PROVE  /\ Len(settled) \in Nat /\ Len(settled') = Len(settled) + 1
           /\ \A i \in 1..Len(settled) : settled'[i] = settled[i]
           /\ settled'[Len(settled) + 1] = [msg |-> inflight[1], result |-> how]
  <1>1. [msg |-> inflight[1], result |-> how] \in Handled
    BY InflightMsg DEF Handled
  <1>2. settled \in Seq(Handled)
    BY DEF TypeOK
  <1> QED  BY <1>1, <1>2, AppendProperties, LenProperties DEF Settled

-----------------------------------------------------------------------------
(* Dropping drains.  Once the worker has stopped receiving, either the sink *)
(* panicked over a message or everything sent is settled; and as the sender *)
(* is gone by then, or the receiver is, nothing more is sent.               *)

Aborted == \E i \in 1..Len(settled) : settled[i].result = "aborted"

DrainInv ==
    /\ worker = "closing" => ~tx /\ inflight = <<>> /\ queue = <<>>
    /\ worker # "recv" => Len(settled) = Len(sent) \/ Aborted
    /\ worker \in {"panicked", "unwound"} => Aborted \/ ~tx
    /\ ~tx /\ rx => caller \in {Joining, Gone}
    /\ caller = Gone => worker = "exited"

LEMMA AbortedStays ==
    ASSUME TypeOK, [Next]_vars, Aborted
    PROVE  Aborted'
  <1>1. CASE settled' = settled
    BY <1>1 DEF Aborted
  <1>2. ASSUME inflight # <<>>, NEW how \in {"done", "failed", "aborted"},
               settled' = Settled(inflight[1], how)
        PROVE  Aborted'
    <2>1. PICK i \in 1..Len(settled) : settled[i].result = "aborted"
      BY DEF Aborted
    <2>2. i \in 1..Len(settled') /\ settled'[i].result = "aborted"
      BY <1>2, <2>1, SettledExtends
    <2> QED  BY <2>2 DEF Aborted
  <1> QED  BY <1>1, <1>2, SettledGrows

LEMMA DrainStep ==
    ASSUME OrderInv, DrainInv, [Next]_vars
    PROVE  DrainInv'
  <1> USE DEF OrderInv
  <1>1. Aborted => Aborted'
    BY AbortedStays
  <1>2. CASE \E kind \in EntryKinds : Write(kind)
    BY <1>1, <1>2 DEF Write, Enqueue, EnqueueShutDown, EnqueueBlocking, EnqueueBestEffort,
       DrainInv, ReceiverLives, Aborted, Idle, Joining, Gone, Sending, workerVars, TypeOK
  <1>3. CASE FlushCall \/ SetRunId
    BY <1>1, <1>3 DEF FlushCall, SetRunId, DrainInv, ReceiverLives, Aborted, Idle, Joining, Gone,
       Sending, chanVars, workerVars, TypeOK
  <1>4. CASE SendDone
    <2>1. caller \notin {Joining, Gone} /\ caller' \in {Awaiting, Idle}
      BY <1>4 DEF SendDone, Joining, Gone
    <2>2. caller' \notin {Joining, Gone}
      BY <2>1 DEF Awaiting, Idle, Joining, Gone
    <2>3. rx /\ rx' /\ tx /\ tx' /\ UNCHANGED <<worker, settled>>
      BY <1>4, <2>1 DEF SendDone, DrainInv, workerVars
    <2>4. worker = "recv" \/ Aborted
      BY <2>3 DEF DrainInv, ReceiverLives, TypeOK
    <2> QED  BY <1>1, <2>2, <2>3, <2>4 DEF DrainInv, ReceiverLives
  <1>5. CASE SendDisconnected \/ FlushAnswered \/ FlushAbandoned
    BY <1>1, <1>5 DEF SendDisconnected, FlushAnswered, FlushAbandoned, DrainInv, ReceiverLives,
       Aborted, Awaiting, Idle, Joining, Gone, chanVars, workerVars, historyVars, TypeOK
  <1>6. CASE DropWriter \/ Joined \/ UNCHANGED vars
    BY <1>1, <1>6 DEF DropWriter, Joined, vars, DrainInv, ReceiverLives, Aborted, Idle, Joining, Gone,
       chanVars, workerVars, historyVars, TypeOK
  <1>7. CASE Receive \/ WriteEntry \/ ApplyRunId \/ AnswerFlush
    <2>1. worker = "recv" /\ UNCHANGED <<worker, tx, rx, caller>>
      BY <1>7 DEF Receive, WriteEntry, ApplyRunId, AnswerFlush, Busy, chanVars
    <2> QED  BY <2>1 DEF DrainInv
  <1>8. CASE Panic
    <2>1. CASE inflight # <<>>
      <3>1. settled' = Settled(inflight[1], "aborted")
        BY <1>8, <2>1 DEF Panic
      <3>2. Aborted'
        BY <2>1, <3>1, SettledExtends DEF Aborted
      <3> QED  BY <1>8, <3>2 DEF Panic, DrainInv, chanVars, TypeOK
    <2>2. CASE inflight = <<>>
      BY <1>1, <1>8, <2>2 DEF Panic, DrainInv, Aborted, chanVars, TypeOK
    <2> QED  BY <2>1, <2>2
  <1>9. CASE RecordPanic \/ DropReceiver \/ FinalFlush
    <2>1. /\ UNCHANGED <<tx, caller, sent, settled>> /\ (rx' => rx)
          /\ worker' \in {"unwound", "exited"} /\ worker \in {"panicked", "unwound", "closing"}
          /\ worker' = "unwound" => worker = "panicked"
      <3>1. CASE RecordPanic
        BY <3>1 DEF RecordPanic, chanVars, historyVars
      <3>2. CASE DropReceiver
        BY <3>2 DEF DropReceiver, historyVars
      <3>3. CASE FinalFlush
        BY <3>3 DEF FinalFlush, historyVars
      <3> QED  BY <1>9, <3>1, <3>2, <3>3
    <2> QED  BY <2>1 DEF DrainInv, Aborted
  <1>10. CASE ChannelClosed
    <2>1. <<>> \o <<>> = <<>> /\ Len(<<>>) = 0
      OBVIOUS
    <2>2. Len(sent) = Len(settled) + 0
      BY <1>10, <2>1 DEF ChannelClosed, ChannelOrder, ReceiverLives
    <2>3. Len(settled) \in Nat
      BY LenProperties DEF TypeOK
    <2> QED  BY <1>10, <2>2, <2>3 DEF ChannelClosed, DrainInv, chanVars, historyVars, TypeOK
  <1> QED  BY <1>2, <1>3, <1>4, <1>5, <1>6, <1>7, <1>8, <1>9, <1>10 DEF Next, Caller, Worker

LEMMA InitDrain ==
    ASSUME Init
    PROVE  DrainInv
  <1>1. worker \in {"recv", "exited"} /\ (~tx => ~rx) /\ settled = sent /\ caller = Idle
    BY DEF Init
  <1>2. caller # Gone
    BY <1>1 DEF Idle, Gone
  <1> QED  BY <1>1, <1>2 DEF DrainInv

(* When drop returns, every message sent was settled, unless the sink       *)
(* panicked over one of them (writer.rs, Drop for AsyncWriter).             *)
THEOREM DropsDrained == Spec => []DropDrains
  <1>1. Init => OrderInv /\ DrainInv
    BY InitOrder, InitDrain
  <1>2. (OrderInv /\ DrainInv) /\ [Next]_vars => (OrderInv /\ DrainInv)'
    BY OrderStep, DrainStep, TypeStep DEF OrderInv
  <1>3. OrderInv /\ DrainInv => DropDrains
    BY DEF DrainInv, DropDrains, Aborted
  <1> QED  BY <1>1, <1>2, <1>3, PTL DEF Spec

-----------------------------------------------------------------------------
(* The flush contract.  The flush the caller waits for is the last message  *)
(* sent, and pending_error is the first failure settled since the flush     *)
(* before it.                                                               *)

FlushOnItsWay ==
    /\ caller = Sending(Flush) => reply = <<>>
    /\ caller = Awaiting => sent # <<>> /\ sent[Len(sent)] = Flush
    /\ caller = Awaiting /\ reply = <<>> /\ worker = "recv" => Len(settled) < Len(sent)
    /\ rx => \A i \in 1..Len(sent) :
                 i > Len(settled) /\ sent[i] = Flush
                 => i = Len(sent) /\ caller = Awaiting /\ reply = <<>>

(* e is the error of the first failure among the positions in failures.     *)
FirstFailure(s, failures, e) ==
    IF failures = {} THEN e = Ok
    ELSE \E i \in failures : /\ \A j \in failures : i <= j
                             /\ e = s[i].msg.id

PendingIsFirst ==
    worker = "recv" =>
        FirstFailure(settled, Contract!Failures(settled, Len(settled) + 1), pending)

FlushInv == FlushOnItsWay /\ PendingIsFirst /\ FlushContract

(* Settling one more message changes the failures at most by that message,  *)
(* and a flush starts a new count.                                          *)
LEMMA FailuresGrow ==
    ASSUME TypeOK, inflight # <<>>, NEW how \in {"done", "failed", "aborted"},
           settled' = Settled(inflight[1], how)
    PROVE  LET n == Len(settled) + 1
               now == Contract!Failures(settled, n)
           IN  /\ Contract!Failures(settled', n) = now
               /\ now \subseteq 1..Len(settled)
               /\ Contract!Failures(settled', n + 1) =
                     IF inflight[1] = Flush THEN {}
                     ELSE IF how = "failed" THEN now \cup {n} ELSE now
  <1> DEFINE n == Len(settled) + 1
             now == Contract!Failures(settled, n)
  <1>1. /\ Len(settled) \in Nat
        /\ \A i \in 1..Len(settled) : settled'[i] = settled[i]
        /\ settled'[n].msg = inflight[1] /\ settled'[n].result = how
    BY SettledExtends
  <1>2. Contract!Failures(settled', n) = now /\ now \subseteq 1..Len(settled)
    BY <1>1 DEF Contract!Failures, Contract!Since
  <1>3. CASE inflight[1] = Flush
    <2>1. Contract!Since(settled', n + 1) = {}
      BY <1>1, <1>3 DEF Contract!Since
    <2> QED  BY <1>2, <1>3, <2>1 DEF Contract!Failures
  <1>4. CASE inflight[1] # Flush
    <2>1. Contract!Since(settled', n + 1) = Contract!Since(settled, n) \cup {n}
      BY <1>1, <1>4 DEF Contract!Since
    <2>2. Contract!Since(settled, n) \subseteq 1..Len(settled)
      BY <1>1 DEF Contract!Since
    <2> QED  BY <1>1, <1>2, <1>4, <2>1, <2>2 DEF Contract!Failures
  <1> QED  BY <1>2, <1>3, <1>4

(* An error names an entry, so it is not the absence of one.                *)
LEMMA ErrorIsNotOk ==
    ASSUME NEW m \in Msg
    PROVE  m.id \in Nat /\ m.id # Ok
  <1>1. m.id \in Nat
    BY DEF Msg, Flush, RunId, Entry
  <1> QED  BY <1>1, ResultsAssumption DEF ResultsAssumption

LEMMA FirstFailureIsError ==
    ASSUME NEW s \in Seq(Handled), NEW failures \in SUBSET (1..Len(s)), NEW e,
           FirstFailure(s, failures, e)
    PROVE  e = Ok <=> failures = {}
  <1>1. CASE failures = {}
    BY <1>1 DEF FirstFailure
  <1>2. CASE failures # {}
    <2>1. PICK i \in failures : e = s[i].msg.id
      BY <1>2 DEF FirstFailure
    <2>2. s[i] \in Handled
      BY <2>1, ElementOfSeq
    <2>3. s[i].msg \in Msg
      BY <2>2 DEF Handled
    <2> QED  BY <1>2, <2>1, <2>3, ErrorIsNotOk
  <1> QED  BY <1>1, <1>2

LEMMA FirstFailureStays ==
    ASSUME NEW s, NEW u, NEW failures, NEW e,
           \A i \in failures : u[i] = s[i], FirstFailure(s, failures, e)
    PROVE  FirstFailure(u, failures, e)
  BY DEF FirstFailure

LEMMA PendingStep ==
    ASSUME TypeOK, PendingIsFirst, [Next]_vars
    PROVE  PendingIsFirst'
  <1> DEFINE n == Len(settled) + 1
             now == Contract!Failures(settled, n)
  <1>1. CASE UNCHANGED <<settled, pending>> /\ (worker' = "recv" => worker = "recv")
    BY <1>1 DEF PendingIsFirst, FirstFailure, Contract!Failures, Contract!Since
  <1>2. CASE WriteEntry
    <2>1. /\ worker = "recv" /\ inflight # <<>> /\ inflight[1] \in Msg
          /\ inflight[1] # Flush /\ n \in Nat
      <3>1. Flush.kind \notin EntryKinds
        BY DEF Flush, Entry, EntryKinds
      <3>2. Len(settled) \in Nat
        BY LenProperties DEF TypeOK
      <3>3. worker = "recv" /\ inflight # <<>> /\ inflight[1].kind \in EntryKinds
        BY <1>2 DEF WriteEntry, Busy
      <3>4. inflight[1] \in Msg /\ inflight[1] # Flush
        BY <3>1, <3>3, InflightMsg
      <3> QED  BY <3>2, <3>3, <3>4
    <2>2. FirstFailure(settled, now, pending)
      BY <2>1 DEF PendingIsFirst
    <2>3. CASE settled' = Settled(inflight[1], "done") /\ UNCHANGED pending
      <3>1. /\ Contract!Failures(settled', n + 1) = now /\ now \subseteq 1..Len(settled)
            /\ Len(settled') = n /\ \A i \in 1..Len(settled) : settled'[i] = settled[i]
        BY <2>1, <2>3, FailuresGrow, SettledExtends
      <3>2. FirstFailure(settled', now, pending)
        BY <2>2, <3>1, FirstFailureStays
      <3> QED  BY <2>3, <3>1, <3>2 DEF PendingIsFirst
    <2>4. CASE /\ settled' = Settled(inflight[1], "failed")
               /\ pending' = KeepFirst(pending, inflight[1].id)
      <3>1. /\ Contract!Failures(settled', n + 1) = now \cup {n} /\ now \subseteq 1..Len(settled)
            /\ Len(settled') = n /\ \A i \in 1..Len(settled) : settled'[i] = settled[i]
            /\ settled'[n].msg = inflight[1]
        BY <2>1, <2>4, FailuresGrow, SettledExtends
      <3>2. pending = Ok <=> now = {}
        BY <2>2, <3>1, FirstFailureIsError DEF TypeOK
      <3>3. CASE now = {}
        <4>1. pending' = settled'[n].msg.id
          BY <2>4, <3>1, <3>2, <3>3 DEF KeepFirst
        <4>2. FirstFailure(settled', {n}, pending')
          BY <2>1, <4>1 DEF FirstFailure
        <4> QED  BY <3>1, <3>3, <4>2 DEF PendingIsFirst
      <3>4. CASE now # {}
        <4>1. pending' = pending
          BY <2>4, <3>2, <3>4 DEF KeepFirst
        <4>2. PICK i \in now : (\A j \in now : i <= j) /\ pending = settled[i].msg.id
          BY <2>2, <3>4 DEF FirstFailure
        <4>3. /\ i \in now \cup {n} /\ pending' = settled'[i].msg.id
              /\ \A j \in now \cup {n} : i <= j
          BY <2>1, <3>1, <4>1, <4>2
        <4>4. FirstFailure(settled', now \cup {n}, pending')
          BY <4>3 DEF FirstFailure
        <4> QED  BY <3>1, <4>4 DEF PendingIsFirst
      <3> QED  BY <3>3, <3>4
    <2> QED  BY <1>2, <2>3, <2>4 DEF WriteEntry
  <1>3. CASE ApplyRunId
    <2>1. /\ worker = "recv" /\ inflight # <<>> /\ inflight[1] = RunId /\ RunId # Flush
          /\ settled' = Settled(inflight[1], "done") /\ UNCHANGED pending
      BY <1>3, InflightMsg, ControlByKind DEF ApplyRunId, Busy, RunId, Flush, Entry
    <2>2. /\ Contract!Failures(settled', n + 1) = now /\ now \subseteq 1..Len(settled)
          /\ Len(settled') = n /\ \A i \in 1..Len(settled) : settled'[i] = settled[i]
      BY <2>1, FailuresGrow, SettledExtends
    <2>3. FirstFailure(settled', now, pending)
      BY <2>1, <2>2, FirstFailureStays DEF PendingIsFirst
    <2> QED  BY <2>1, <2>2, <2>3 DEF PendingIsFirst
  <1>4. CASE AnswerFlush
    <2>1. /\ inflight # <<>> /\ inflight[1] = Flush /\ pending' = Ok
          /\ \E how \in {"done", "failed"} : settled' = Settled(inflight[1], how)
      BY <1>4, InflightMsg, ControlByKind DEF AnswerFlush, Busy
    <2>2. Contract!Failures(settled', n + 1) = {} /\ Len(settled') = n
      BY <2>1, FailuresGrow, SettledExtends
    <2> QED  BY <2>1, <2>2 DEF PendingIsFirst, FirstFailure
  <1>5. CASE Panic \/ RecordPanic \/ DropReceiver \/ ChannelClosed \/ FinalFlush
    <2>1. worker' # "recv"
      BY <1>5 DEF Panic, RecordPanic, DropReceiver, ChannelClosed, FinalFlush
    <2> QED  BY <2>1 DEF PendingIsFirst
  <1>6. CASE Caller \/ Receive \/ UNCHANGED vars
    <2>1. UNCHANGED <<settled, pending, worker>>
      BY <1>6 DEF Caller, Write, FlushCall, SetRunId, SendDone, SendDisconnected, FlushAnswered,
         FlushAbandoned, DropWriter, Joined, Receive, vars, workerVars, historyVars
    <2> QED  BY <1>1, <2>1
  <1> QED  BY <1>2, <1>3, <1>4, <1>5, <1>6 DEF Next, Worker

(* While the receiver lives, the next message to settle is the one in hand, *)
(* and what is sent and not settled is in hand or queued.                   *)
LEMMA NextInHand ==
    ASSUME OrderInv, rx, inflight # <<>>
    PROVE  /\ Len(settled) \in Nat /\ Len(sent) \in Nat /\ Len(settled) < Len(sent)
           /\ sent[Len(settled) + 1] = inflight[1]
  <1> USE DEF OrderInv
  <1>1. PICK m \in Msg : inflight = <<m>>
    BY DEF TypeOK
  <1>2. <<m>> \in Seq(Msg) /\ Len(<<m>>) = 1 /\ <<m>>[1] = m /\ queue \in Seq(Msg)
    BY DEF TypeOK
  <1>3. Len(queue) \in Nat /\ Len(settled) \in Nat /\ Len(sent) \in Nat
    BY LenProperties DEF TypeOK
  <1>4. /\ Len(<<m>> \o queue) = 1 + Len(queue)
        /\ \A i \in 1..1 + Len(queue) : (<<m>> \o queue)[i] = IF i <= 1 THEN <<m>>[i] ELSE queue[i - 1]
    BY <1>2, ConcatProperties
  <1>5. /\ Len(sent) = Len(settled) + (1 + Len(queue))
        /\ sent[Len(settled) + 1] = (<<m>> \o queue)[1]
    BY <1>1, <1>3, <1>4 DEF ChannelOrder
  <1> QED  BY <1>1, <1>2, <1>3, <1>4, <1>5

LEMMA NoFlushOnItsWay ==
    ASSUME OrderInv, rx, inflight # <<Flush>>, \A i \in 1..Len(queue) : queue[i] # Flush
    PROVE  \A i \in 1..Len(sent) : i > Len(settled) => sent[i] # Flush
  <1> USE DEF OrderInv
  <1> SUFFICES ASSUME NEW i \in 1..Len(sent), i > Len(settled) PROVE sent[i] # Flush
    OBVIOUS
  <1>1. inflight \in Seq(Msg) /\ queue \in Seq(Msg)
    BY InflightSeq DEF TypeOK
  <1>2. Len(inflight) \in Nat /\ Len(queue) \in Nat /\ Len(settled) \in Nat /\ Len(sent) \in Nat
    BY <1>1, LenProperties DEF TypeOK
  <1>3. \A k \in 1..Len(inflight) : inflight[k] # Flush
    <2>1. CASE inflight = <<>>
      BY <2>1, EmptySeq
    <2>2. CASE inflight # <<>>
      <3>1. PICK m \in Msg : inflight = <<m>>
        BY <2>2 DEF TypeOK
      <3>2. m # Flush /\ Len(<<m>>) = 1 /\ <<m>>[1] = m
        BY <3>1
      <3> QED  BY <3>1, <3>2
    <2> QED  BY <2>1, <2>2
  <1>4. /\ Len(inflight \o queue) = Len(inflight) + Len(queue)
        /\ \A k \in 1..Len(inflight) + Len(queue) : (inflight \o queue)[k] =
              IF k <= Len(inflight) THEN inflight[k] ELSE queue[k - Len(inflight)]
    BY <1>1, ConcatProperties
  <1> DEFINE k == i - Len(settled)
  <1>5. k \in Nat /\ i = Len(settled) + k /\ k > 0
    BY <1>2
  <1>6. k \in 1..Len(inflight) + Len(queue) /\ sent[Len(settled) + k] = (inflight \o queue)[k]
    <2>1. Len(sent) = Len(settled) + Len(inflight \o queue)
      BY DEF ChannelOrder
    <2>2. k \in 1..Len(inflight) + Len(queue)
      BY <1>2, <1>4, <1>5, <2>1
    <2> HIDE DEF k
    <2> QED  BY <1>4, <2>2 DEF ChannelOrder
  <1> HIDE DEF k
  <1>7. CASE k <= Len(inflight)
    BY <1>3, <1>4, <1>5, <1>6, <1>7
  <1>8. CASE ~(k <= Len(inflight))
    BY <1>2, <1>4, <1>5, <1>6, <1>8
  <1> QED  BY <1>7, <1>8

LEMMA CallerStates ==
    /\ Idle # Awaiting /\ Idle # Joining /\ Awaiting # Joining /\ Gone # Awaiting
    /\ Flush # RunId
    /\ \A m : Sending(m) \notin {Idle, Awaiting, Joining, Gone} /\ Sending(m).msg = m
    /\ Idle.op # "send" /\ Awaiting.op # "send" /\ Joining.op # "send" /\ Gone.op # "send"
    /\ \A n : \A kind \in EntryKinds : Entry(kind, n) # Flush
  BY DEF Idle, Awaiting, Joining, Gone, Sending, Flush, RunId, Entry, EntryKinds

(* A message that is accepted is the flush its caller sent, or no flush.    *)
LEMMA AcceptKeepsFlush ==
    ASSUME TypeOK, FlushOnItsWay, caller # Awaiting, NEW m \in Msg, Accept(m),
           UNCHANGED <<rx, settled, reply>>,
           m = Flush => caller' = Awaiting /\ reply = <<>>,
           m # Flush => caller' \notin {Awaiting, Sending(Flush)},
           caller' # Sending(Flush), Len(settled) <= Len(sent)
    PROVE  FlushOnItsWay'
  <1>1. Len(sent) \in Nat /\ Len(settled) \in Nat
    BY LenProperties DEF TypeOK
  <1>2. /\ sent' # <<>> /\ Len(sent') = Len(sent) + 1 /\ sent'[Len(sent) + 1] = m
        /\ \A i \in 1..Len(sent) : sent'[i] = sent[i]
    <2>1. sent \in Seq(Msg) /\ sent' = Append(sent, m)
      BY DEF TypeOK, Accept
    <2> QED  BY <2>1, AppendProperties
  <1>3. ASSUME rx', NEW i \in 1..Len(sent'), i > Len(settled'), sent'[i] = Flush
        PROVE  i = Len(sent') /\ caller' = Awaiting /\ reply' = <<>>
    <2>1. CASE i \in 1..Len(sent)
      BY <1>2, <1>3, <2>1 DEF FlushOnItsWay
    <2>2. CASE i = Len(sent) + 1
      BY <1>2, <1>3, <2>2
    <2> QED  BY <1>1, <1>2, <2>1, <2>2
  <1>4. caller' = Awaiting => /\ sent' # <<>> /\ sent'[Len(sent')] = Flush
                             /\ Len(settled') < Len(sent')
    BY <1>1, <1>2
  <1> QED  BY <1>3, <1>4 DEF FlushOnItsWay

LEMMA FlushOnItsWayStep ==
    ASSUME OrderInv, FlushOnItsWay, [Next]_vars
    PROVE  FlushOnItsWay'
  <1> USE DEF OrderInv
  <1>1. Len(settled) <= Len(sent)
    BY DEF ChannelOrder
  <1>2. ASSUME NEW kind \in EntryKinds, Write(kind) PROVE FlushOnItsWay'
    <2>1. caller = Idle /\ caller' \in {Idle, Sending(Entry(kind, calls + 1))}
      BY <1>2 DEF Write, Enqueue, EnqueueShutDown, EnqueueBlocking, EnqueueBestEffort
    <2>2. caller' \notin {Awaiting, Sending(Flush)} /\ caller # Awaiting
      BY <2>1, CallerStates
    <2>3. UNCHANGED <<rx, settled, reply, worker>>
      BY <1>2 DEF Write, workerVars
    <2>4. CASE Accept(Entry(kind, calls + 1))
      <3>1. Entry(kind, calls + 1) \in Msg /\ Entry(kind, calls + 1) # Flush
        BY <1>2, EntryIsMsg, CallerStates DEF Write, TypeOK
      <3> QED  BY <1>1, <2>2, <2>3, <2>4, <3>1, AcceptKeepsFlush
    <2>5. CASE UNCHANGED sent
      BY <2>1, <2>2, <2>3, <2>5 DEF FlushOnItsWay
    <2> QED  BY <1>2, <2>4, <2>5
             DEF Write, Enqueue, EnqueueShutDown, EnqueueBlocking, EnqueueBestEffort
  <1>3. CASE SendDone
    <2>1. /\ caller.msg \in Msg /\ caller = Sending(caller.msg) /\ Accept(caller.msg)
          /\ UNCHANGED <<rx, settled, reply>>
          /\ caller' = IF caller.msg = Flush THEN Awaiting ELSE Idle
      BY <1>3, SendingHoldsMsg DEF SendDone, TypeOK
    <2>2. caller # Awaiting /\ caller' # Sending(Flush)
      BY <2>1, CallerStates
    <2>3. caller.msg = Flush => reply = <<>>
      BY <2>1 DEF FlushOnItsWay
    <2>4. caller.msg # Flush => caller' \notin {Awaiting, Sending(Flush)}
      BY <2>1, CallerStates
    <2> QED  BY <1>1, <2>1, <2>2, <2>3, <2>4, AcceptKeepsFlush
  <1>4. CASE FlushCall
    <2>1. caller = Idle /\ caller' \in {Idle, Sending(Flush)} /\ reply' = <<>>
          /\ UNCHANGED <<rx, sent, settled, worker>>
      BY <1>4 DEF FlushCall, chanVars, workerVars
    <2>2. caller # Awaiting /\ caller' # Awaiting
      BY <2>1, CallerStates
    <2> QED  BY <2>1, <2>2 DEF FlushOnItsWay
  <1>5. CASE SetRunId
    <2>1. caller = Idle /\ caller' \in {Idle, Sending(RunId)}
          /\ UNCHANGED <<rx, sent, settled, worker, reply>>
      BY <1>5 DEF SetRunId, chanVars, workerVars
    <2>2. caller # Awaiting /\ caller' \notin {Awaiting, Sending(Flush)}
      BY <2>1, CallerStates
    <2> QED  BY <2>1, <2>2 DEF FlushOnItsWay
  <1>6. CASE SendDisconnected
    <2>1. caller' = Idle /\ ~rx' /\ caller' \notin {Awaiting, Sending(Flush)}
      BY <1>6, CallerStates DEF SendDisconnected, chanVars
    <2> QED  BY <2>1 DEF FlushOnItsWay
  <1>7. CASE FlushAnswered \/ FlushAbandoned
    <2>1. caller' = Idle /\ UNCHANGED <<rx, sent, settled>>
      BY <1>7 DEF FlushAnswered, FlushAbandoned, chanVars, historyVars
    <2>2. caller' \notin {Awaiting, Sending(Flush)}
      BY <2>1, CallerStates
    <2>3. rx => \A i \in 1..Len(sent) : i > Len(settled) => sent[i] # Flush
      <3>1. CASE FlushAnswered
        BY <3>1 DEF FlushAnswered, FlushOnItsWay
      <3>2. CASE FlushAbandoned
        BY <3>2, NoFlushOnItsWay DEF FlushAbandoned
      <3> QED  BY <1>7, <3>1, <3>2
    <2> QED  BY <2>1, <2>2, <2>3 DEF FlushOnItsWay
  <1>8. CASE DropWriter \/ Joined
    <2>1. caller \in {Idle, Joining} /\ caller' \in {Joining, Gone}
          /\ UNCHANGED <<rx, sent, settled>>
      BY <1>8 DEF DropWriter, Joined, chanVars, historyVars
    <2>2. caller # Awaiting /\ caller' \notin {Awaiting, Sending(Flush)}
      BY <2>1, CallerStates
    <2> QED  BY <2>1, <2>2 DEF FlushOnItsWay
  <1>9. CASE Receive \/ UNCHANGED vars
    <2>1. UNCHANGED <<rx, sent, settled, caller, reply, worker>>
      BY <1>9 DEF Receive, vars, chanVars, workerVars, historyVars
    <2> QED  BY <2>1 DEF FlushOnItsWay
  <1>10. CASE WriteEntry \/ ApplyRunId \/ (Panic /\ inflight # <<>>)
    <2>1. /\ rx /\ inflight # <<>> /\ UNCHANGED <<rx, sent, caller, reply>>
          /\ worker' = "recv" => inflight[1] # Flush
          /\ \E how \in {"done", "failed", "aborted"} : settled' = Settled(inflight[1], how)
      <3>1. CASE WriteEntry \/ ApplyRunId
        <4>1. rx /\ inflight # <<>> /\ UNCHANGED <<rx, sent, caller, reply>>
          BY <3>1 DEF WriteEntry, ApplyRunId, Busy, ReceiverLives, chanVars
        <4>2. inflight[1].kind # "flush"
          BY <3>1 DEF WriteEntry, ApplyRunId, Busy, EntryKinds
        <4>3. inflight[1] # Flush
          BY <4>2 DEF Flush, Entry
        <4> QED  BY <3>1, <4>1, <4>3, InflightMsg, ControlByKind DEF WriteEntry, ApplyRunId, Busy
      <3>2. CASE Panic /\ inflight # <<>>
        BY <3>2 DEF Panic, ReceiverLives, chanVars
      <3> QED  BY <1>10, <3>1, <3>2
    <2>2. /\ Len(settled) \in Nat /\ Len(sent) \in Nat /\ Len(settled) < Len(sent)
          /\ sent[Len(settled) + 1] = inflight[1] /\ Len(settled') = Len(settled) + 1
      BY <2>1, NextInHand, SettledExtends
    <2>3. caller' = Awaiting /\ worker' = "recv" => Len(settled') < Len(sent')
      BY <2>1, <2>2 DEF FlushOnItsWay
    <2> QED  BY <2>1, <2>2, <2>3 DEF FlushOnItsWay
  <1>11. CASE AnswerFlush
    <2>1. /\ rx /\ inflight # <<>> /\ inflight[1] = Flush /\ UNCHANGED <<rx, sent, caller>>
          /\ \E how \in {"done", "failed", "aborted"} : settled' = Settled(inflight[1], how)
          /\ reply' # <<>>
      <3>1. rx /\ inflight # <<>> /\ inflight[1] = Flush /\ UNCHANGED <<rx, sent, caller>>
        BY <1>11, InflightMsg, ControlByKind DEF AnswerFlush, Busy, ReceiverLives, chanVars
      <3>2. PICK result \in {Ok, FlushFailed} :
               /\ reply' = <<KeepFirst(pending, result)>>
               /\ settled' = Settled(Flush, IF result = Ok THEN "done" ELSE "failed")
        BY <1>11 DEF AnswerFlush
      <3> QED  BY <3>1, <3>2
    <2>2. /\ Len(settled) \in Nat /\ Len(sent) \in Nat /\ Len(settled) < Len(sent)
          /\ sent[Len(settled) + 1] = Flush /\ Len(settled') = Len(settled) + 1
      BY <2>1, NextInHand, SettledExtends
    <2>3. Len(settled) + 1 = Len(sent) /\ caller = Awaiting
      BY <2>1, <2>2 DEF FlushOnItsWay
    <2>4. caller' # Sending(Flush)
      BY <2>1, <2>3, CallerStates
    <2> QED  BY <2>1, <2>2, <2>3, <2>4 DEF FlushOnItsWay
  <1>12. CASE RecordPanic \/ ChannelClosed \/ (Panic /\ inflight = <<>>)
    <2>1. UNCHANGED <<rx, sent, settled, caller, reply>> /\ worker' # "recv"
      BY <1>12 DEF RecordPanic, ChannelClosed, Panic, chanVars, historyVars
    <2> QED  BY <2>1 DEF FlushOnItsWay
  <1>13. CASE DropReceiver \/ FinalFlush
    <2>1. ~rx' /\ UNCHANGED <<sent, settled, caller, reply>> /\ worker' # "recv"
      BY <1>13 DEF DropReceiver, FinalFlush, historyVars
    <2> QED  BY <2>1 DEF FlushOnItsWay
  <1> QED  BY <1>2, <1>3, <1>4, <1>5, <1>6, <1>7, <1>8, <1>9, <1>10, <1>11, <1>12, <1>13
           DEF Next, Caller, Worker

(* The answer in the reply channel is the one the settled entries call for. *)
LEMMA AnswerIsFirstFailure ==
    ASSUME OrderInv, FlushOnItsWay, PendingIsFirst, AnswerFlush
    PROVE  FlushContract'
  <1> USE DEF OrderInv
  <1> DEFINE n == Len(settled) + 1
             now == Contract!Failures(settled, n)
  <1>1. /\ rx /\ worker = "recv" /\ inflight # <<>> /\ inflight[1] = Flush
        /\ UNCHANGED <<sent, caller>>
    BY InflightMsg, ControlByKind DEF AnswerFlush, Busy, ReceiverLives
  <1>2. PICK result \in {Ok, FlushFailed} :
           /\ reply' = <<KeepFirst(pending, result)>>
           /\ settled' = Settled(Flush, IF result = Ok THEN "done" ELSE "failed")
    BY DEF AnswerFlush
  <1> DEFINE how == IF result = Ok THEN "done" ELSE "failed"
  <1>3. how \in {"done", "failed", "aborted"} /\ settled' = Settled(inflight[1], how)
    BY <1>1, <1>2
  <1>4. /\ Len(settled) \in Nat /\ Len(sent) \in Nat /\ Len(settled) < Len(sent)
        /\ sent[n] = Flush
    BY <1>1, NextInHand
  <1>5. Len(sent') = n
    BY <1>1, <1>4 DEF FlushOnItsWay
  <1> HIDE DEF how
  <1>6. /\ Len(settled') = n /\ settled'[n] = [msg |-> Flush, result |-> how]
        /\ \A i \in 1..Len(settled) : settled'[i] = settled[i]
    BY <1>1, <1>3, SettledExtends
  <1>7. Contract!Failures(settled', n) = now /\ now \subseteq 1..Len(settled)
    BY <1>1, <1>3, FailuresGrow
  <1>8. FirstFailure(settled', now, pending)
    BY <1>1, <1>6, <1>7, FirstFailureStays DEF PendingIsFirst
  <1>9. Contract!Answers(settled', n, KeepFirst(pending, result))
    <2>1. CASE now = {}
      <3>1. pending = Ok
        BY <1>8, <2>1 DEF FirstFailure
      <3>2. KeepFirst(pending, result) = IF how = "done" THEN Ok ELSE FlushFailed
        BY <1>2, <3>1 DEF KeepFirst, how
      <3> QED  BY <1>6, <1>7, <2>1, <3>2 DEF Contract!Answers
    <2>2. CASE now # {}
      <3>1. pending # Ok
        BY <1>1, <1>7, <2>2, FirstFailureIsError DEF PendingIsFirst, TypeOK
      <3>2. KeepFirst(pending, result) = pending
        BY <3>1 DEF KeepFirst
      <3>3. \E i \in now : (\A j \in now : i <= j) /\ pending = settled'[i].msg.id
        BY <1>8, <2>2 DEF FirstFailure
      <3> QED  BY <1>7, <2>2, <3>2, <3>3 DEF Contract!Answers
    <2> QED  BY <2>1, <2>2
  <1>10. reply'[1] = KeepFirst(pending, result)
    BY <1>2
  <1> HIDE DEF n
  <1> QED  BY <1>5, <1>6, <1>9, <1>10 DEF FlushContract

LEMMA FlushContractStep ==
    ASSUME OrderInv, FlushOnItsWay, PendingIsFirst, FlushContract, [Next]_vars
    PROVE  FlushContract'
  <1> USE DEF OrderInv
  <1>1. CASE AnswerFlush
    BY <1>1, AnswerIsFirstFailure
  <1>2. CASE caller' # Awaiting \/ reply' = <<>>
    BY <1>2 DEF FlushContract
  <1>3. CASE UNCHANGED <<caller, reply, sent, settled>>
    BY <1>3 DEF FlushContract, Contract!Answers, Contract!Failures, Contract!Since
  <1>4. ASSUME NEW kind \in EntryKinds, Write(kind) PROVE FlushContract'
    <2>1. caller' \in {Idle, Sending(Entry(kind, calls + 1))}
      BY <1>4 DEF Write, Enqueue, EnqueueShutDown, EnqueueBlocking, EnqueueBestEffort
    <2> QED  BY <1>2, <2>1, CallerStates
  <1>5. CASE FlushCall \/ SetRunId
    <2>1. caller' \in {Idle, Sending(Flush), Sending(RunId)}
      BY <1>5 DEF FlushCall, SetRunId
    <2> QED  BY <1>2, <2>1, CallerStates
  <1>6. CASE SendDone
    <2>1. /\ caller = Sending(caller.msg) /\ reply' = reply
          /\ caller' = IF caller.msg = Flush THEN Awaiting ELSE Idle
      BY <1>6, SendingHoldsMsg DEF SendDone, TypeOK
    <2> QED  BY <1>2, <2>1, CallerStates DEF FlushOnItsWay
  <1>7. CASE SendDisconnected \/ FlushAnswered \/ FlushAbandoned \/ DropWriter \/ Joined
    <2>1. caller' \in {Idle, Joining, Gone}
      BY <1>7 DEF SendDisconnected, FlushAnswered, FlushAbandoned, DropWriter, Joined
    <2> QED  BY <1>2, <2>1, CallerStates
  <1>8. CASE Receive \/ RecordPanic \/ DropReceiver \/ ChannelClosed \/ FinalFlush
             \/ (Panic /\ inflight = <<>>) \/ UNCHANGED vars
    <2>1. UNCHANGED <<caller, reply, sent, settled>>
      BY <1>8 DEF Receive, RecordPanic, DropReceiver, ChannelClosed, FinalFlush, Panic, vars,
         historyVars
    <2> QED  BY <1>3, <2>1
  <1>9. CASE WriteEntry \/ ApplyRunId \/ (Panic /\ inflight # <<>>)
    <2>1. inflight # <<>> /\ rx /\ UNCHANGED <<caller, reply>>
      BY <1>9 DEF WriteEntry, ApplyRunId, Panic, Busy, ReceiverLives
    <2>2. ~(caller = Awaiting /\ reply # <<>>)
      BY <2>1, NextInHand DEF FlushContract
    <2> QED  BY <1>2, <2>1, <2>2
  <1> QED  BY <1>1, <1>4, <1>5, <1>6, <1>7, <1>8, <1>9 DEF Next, Caller, Worker

LEMMA InitFlush ==
    ASSUME Init
    PROVE  FlushInv
  <1>1. /\ settled = <<>> /\ sent = <<>> /\ caller = Idle /\ reply = <<>> /\ pending = Ok
    BY DEF Init
  <1>2. caller # Awaiting /\ caller # Sending(Flush)
    BY <1>1, CallerStates
  <1>3. Contract!Failures(settled, Len(settled) + 1) = {}
    BY <1>1 DEF Contract!Failures, Contract!Since
  <1> QED  BY <1>1, <1>2, <1>3
           DEF FlushInv, FlushOnItsWay, PendingIsFirst, FirstFailure, FlushContract

(* An answered flush covers everything sent before it, and reports the      *)
(* first write failure since the flush before it (writer.rs, flush).        *)
THEOREM FlushKept == Spec => []FlushContract
  <1>1. Init => OrderInv /\ FlushInv
    BY InitOrder, InitFlush
  <1>2. (OrderInv /\ FlushInv) /\ [Next]_vars => (OrderInv /\ FlushInv)'
    BY OrderStep, TypeStep, FlushOnItsWayStep, PendingStep, FlushContractStep
       DEF OrderInv, FlushInv
  <1>3. OrderInv /\ FlushInv => FlushContract
    BY DEF FlushInv
  <1> QED  BY <1>1, <1>2, <1>3, PTL DEF Spec

-----------------------------------------------------------------------------
(* The refinement.  Queue, thread and write mode disappear: what remains is *)
(* a sink that takes, settles, refuses, answers and may die.                *)

WriterInv == OrderInv /\ DrainInv /\ FlushInv

LEMMA WriterInvariant == Spec => []WriterInv
  <1>1. Init => WriterInv
    BY InitOrder, InitDrain, InitFlush DEF WriterInv
  <1>2. WriterInv /\ [Next]_vars => WriterInv'
    BY OrderStep, TypeStep, DrainStep, FlushOnItsWayStep, PendingStep, FlushContractStep
       DEF WriterInv, OrderInv, FlushInv
  <1> QED  BY <1>1, <1>2, PTL DEF Spec

SinkAlive == worker \in {"recv", "closing"}

(* Once the receiver is gone nothing is settled any more; an idle caller    *)
(* that finds no sender is in that situation.                               *)
LEMMA DeadSink ==
    ASSUME WriterInv, ~rx \/ (~tx /\ caller = Idle)
    PROVE  ~SinkAlive
  <1>1. caller = Idle => caller \notin {Joining, Gone}
    BY CallerStates DEF Idle, Gone
  <1> QED  BY <1>1 DEF WriterInv, OrderInv, DrainInv, ReceiverLives, SinkAlive, TypeOK

LEMMA WriteRefines ==
    ASSUME WriterInv, NEW kind \in EntryKinds, Write(kind)
    PROVE  [Contract!Next]_Contract!vars
  <1> USE DEF Contract!Next, Contract!vars
  <1> DEFINE m == Entry(kind, calls + 1)
  <1>1. UNCHANGED <<settled, answer, worker>> /\ m \in Msg /\ stats \in Stats
    BY EntryIsMsg DEF Write, workerVars, WriterInv, OrderInv, TypeOK
  <1>2. DropRecord(stats).dropped = stats.dropped + 1
        /\ Refused(DropRecord(stats)).dropped = stats.dropped + 1
    BY <1>1 DEF Refused, RecordError, DropRecord, Stats
  <1> HIDE DEF m
  <1>3. CASE stats' \in {DropRecord(stats), Refused(DropRecord(stats))} /\ UNCHANGED sent
    BY <1>1, <1>2, <1>3 DEF Contract!Refuse
  <1>4. CASE Accept(m) /\ UNCHANGED stats
    BY <1>1, <1>4 DEF Contract!Send, Accept
  <1>5. CASE UNCHANGED <<stats, sent>>
    BY <1>1, <1>5
  <1>6. Enqueue(m)
    BY DEF Write, m
  <1> QED  BY <1>3, <1>4, <1>5, <1>6
           DEF Enqueue, EnqueueShutDown, EnqueueBlocking, EnqueueBestEffort

LEMMA SendRefines ==
    ASSUME WriterInv, SendDone \/ SendDisconnected
    PROVE  [Contract!Next]_Contract!vars
  <1> USE DEF Contract!Next, Contract!vars
  <1>1. UNCHANGED <<settled, worker>> /\ caller.msg \in Msg /\ stats \in Stats
    BY SendingHoldsMsg
       DEF SendDone, SendDisconnected, workerVars, historyVars, WriterInv, OrderInv, TypeOK
  <1>2. CASE SendDone
    BY <1>1, <1>2 DEF SendDone, Accept, Contract!Send
  <1>3. CASE SendDisconnected
    <2>1. /\ Refused(stats).dropped = stats.dropped
          /\ Refused(DropRecord(stats)).dropped = stats.dropped + 1
      BY <1>1 DEF Refused, RecordError, DropRecord, Stats
    <2>2. UNCHANGED sent /\ ~SinkAlive
      BY <1>3, DeadSink DEF SendDisconnected, historyVars
    <2>3. CASE caller.msg.kind \in EntryKinds
      <3>1. caller.msg # Flush
        BY <2>3 DEF Flush, Entry, EntryKinds
      <3> QED  BY <1>1, <1>3, <2>1, <2>2, <2>3, <3>1 DEF SendDisconnected, Contract!Refuse
    <2>4. CASE caller.msg.kind \notin EntryKinds /\ caller.msg = Flush
      <3>1. answer' = Returned(Unavailable) /\ stats' = Refused(stats)
        BY <1>3, <2>4 DEF SendDisconnected
      <3>2. Contract!FlushReturns(Unavailable)
        BY <1>1, <2>1, <2>2, <3>1 DEF Contract!FlushReturns, SinkAlive, Returned
      <3> QED  BY <3>2
    <2>5. CASE caller.msg.kind \notin EntryKinds /\ caller.msg # Flush
      BY <1>1, <1>3, <2>1, <2>2, <2>5 DEF SendDisconnected
    <2> QED  BY <2>3, <2>4, <2>5
  <1> QED  BY <1>2, <1>3

(* Only a sink that has died leaves a flush without an answer.              *)
LEMMA AbandonedIsDead ==
    ASSUME WriterInv, FlushAbandoned
    PROVE  ~SinkAlive
  <1> USE DEF WriterInv, OrderInv, FlushInv
  <1>1. caller = Awaiting /\ reply = <<>> /\ caller \notin {Joining, Gone}
    BY CallerStates DEF FlushAbandoned
  <1>2. CASE worker = "recv"
    <2>1. rx /\ sent # <<>> /\ sent[Len(sent)] = Flush /\ Len(settled) < Len(sent)
      BY <1>1, <1>2 DEF FlushOnItsWay, ReceiverLives
    <2>2. Len(sent) \in Nat /\ Len(settled) \in Nat
      BY LenProperties DEF TypeOK
    <2>3. sent[Len(sent)] # Flush
      BY <2>1, <2>2, NoFlushOnItsWay DEF FlushAbandoned
    <2> QED  BY <2>1, <2>3
  <1>3. CASE worker = "closing"
    BY <1>1, <1>3 DEF DrainInv, ReceiverLives
  <1> QED  BY <1>2, <1>3 DEF SinkAlive

(* A flush waits for an answer that can still come, and nothing of it stays *)
(* behind when it returns; a channel without a sender or a receiver goes    *)
(* with a caller that drops the writer or a worker that is gone; and the    *)
(* channel keeps to its capacity (writer.rs, flush, drop and the worker).   *)
THEOREM FlushesAreServed == Spec => []FlushServed
  <1> DEFINE moving == inflight \o queue
  <1>1. WriterInv => FlushServed
    <2> SUFFICES ASSUME WriterInv PROVE FlushServed
      OBVIOUS
    <2> USE DEF WriterInv, OrderInv, FlushInv
    <2>1. ~tx /\ rx => caller = Joining
      BY DEF DrainInv, ReceiverLives
    <2>2. worker = "closing" => ~tx /\ moving = <<>>
      <3>1. <<>> \o <<>> = <<>>
        OBVIOUS
      <3> QED  BY <3>1 DEF DrainInv
    <2>3. ASSUME caller = Awaiting, reply = <<>>, worker \in {"recv", "closing"}
          PROVE  \E i \in 1..Len(moving) : moving[i] = Flush
      <3>1. caller \notin {Joining, Gone}
        BY <2>3, CallerStates
      <3>2. worker = "recv" /\ rx
        BY <2>3, <3>1 DEF DrainInv, ReceiverLives
      <3>3. sent # <<>> /\ sent[Len(sent)] = Flush /\ Len(settled) < Len(sent)
        BY <2>3, <3>2 DEF FlushOnItsWay
      <3>4. Len(sent) \in Nat /\ Len(settled) \in Nat /\ Len(moving) \in Nat
        BY InflightSeq, ConcatProperties, LenProperties DEF TypeOK
      <3>5. /\ Len(sent) = Len(settled) + Len(moving)
            /\ \A i \in 1..Len(moving) : sent[Len(settled) + i] = moving[i]
        BY <3>2 DEF ChannelOrder
      <3> HIDE DEF moving
      <3>6. Len(moving) \in 1..Len(moving)
        BY <3>3, <3>4, <3>5
      <3>7. moving[Len(moving)] = Flush
        BY <3>3, <3>5, <3>6
      <3> QED  BY <3>6, <3>7
    <2>4. ASSUME rx, NEW i \in 1..Len(moving), moving[i] = Flush
          PROVE  i = Len(moving) /\ caller = Awaiting /\ reply = <<>>
      <3>1. Len(sent) \in Nat /\ Len(settled) \in Nat /\ Len(moving) \in Nat
        BY InflightSeq, ConcatProperties, LenProperties DEF TypeOK
      <3>2. Len(sent) = Len(settled) + Len(moving) /\ sent[Len(settled) + i] = moving[i]
        BY <2>4 DEF ChannelOrder
      <3> HIDE DEF moving
      <3> DEFINE k == Len(settled) + i
      <3>3. k \in 1..Len(sent) /\ k > Len(settled) /\ sent[k] = Flush
        BY <2>4, <3>1, <3>2
      <3>4. k = Len(sent) /\ caller = Awaiting /\ reply = <<>>
        <4> HIDE DEF k
        <4> QED  BY <2>4, <3>3 DEF FlushOnItsWay
      <3> QED  BY <3>1, <3>2, <3>4
    <2> QED  BY <2>1, <2>2, <2>3, <2>4 DEF FlushServed, ReceiverLives
  <1> QED  BY <1>1, WriterInvariant, PTL

LEMMA FlushRefines ==
    ASSUME WriterInv, FlushCall \/ SetRunId \/ FlushAnswered \/ FlushAbandoned
    PROVE  [Contract!Next]_Contract!vars
  <1> USE DEF Contract!Next, Contract!vars
  <1>1. UNCHANGED <<sent, settled, worker>> /\ stats \in Stats
    BY DEF FlushCall, SetRunId, FlushAnswered, FlushAbandoned, workerVars, historyVars,
           WriterInv, OrderInv, TypeOK
  <1>2. Refused(stats).dropped = stats.dropped
    BY <1>1 DEF Refused, RecordError, Stats
  <1>3. CASE ~SinkAlive /\ answer' = Returned(Unavailable) /\ stats'.dropped = stats.dropped
    BY <1>1, <1>3 DEF Contract!FlushReturns, SinkAlive, Returned
  <1>4. CASE FlushCall
    BY <1>1, <1>2, <1>3, <1>4, DeadSink DEF FlushCall
  <1>5. CASE SetRunId
    BY <1>1, <1>2, <1>5 DEF SetRunId
  <1>6. CASE FlushAbandoned
    BY <1>2, <1>3, <1>6, AbandonedIsDead DEF FlushAbandoned
  <1>7. CASE FlushAnswered
    <2>1. caller = Awaiting /\ reply # <<>> /\ answer' = Returned(reply[1]) /\ UNCHANGED stats
      BY <1>7 DEF FlushAnswered
    <2>2. reply[1] \in Results
      BY <2>1 DEF WriterInv, OrderInv, TypeOK
    <2>3. reply[1] \in {m.id : m \in Msg} \cup {Ok, FlushFailed, Unavailable}
      <3>1. ASSUME NEW n \in 1..MaxCalls PROVE n \in {m.id : m \in Msg}
        <4>1. Entry("record", n) \in Msg /\ Entry("record", n).id = n
          BY DEF Entry, Msg, EntryKinds
        <4> QED  BY <4>1
      <3> QED  BY <2>2, <3>1 DEF Results
    <2>4. /\ Len(settled) = Len(sent) /\ sent # <<>> /\ settled[Len(settled)].msg = Flush
          /\ Contract!Answers(settled, Len(settled), reply[1])
      BY <2>1 DEF WriterInv, FlushInv, FlushContract, FlushOnItsWay
    <2>5. Contract!FlushReturns(reply[1])
      BY <1>1, <2>1, <2>4 DEF Contract!FlushReturns, Returned
    <2> QED  BY <2>3, <2>5
  <1> QED  BY <1>4, <1>5, <1>6, <1>7

(* A message the worker settles is the next one in the order of sending.    *)
LEMMA SettleRefines ==
    ASSUME WriterInv, WriteEntry \/ ApplyRunId \/ AnswerFlush
    PROVE  [Contract!Next]_Contract!vars
  <1> USE DEF Contract!Next, Contract!vars, WriterInv
  <1>1. /\ rx /\ inflight # <<>> /\ worker = "recv" /\ UNCHANGED <<sent, answer, worker>>
    BY DEF WriteEntry, ApplyRunId, AnswerFlush, Busy, OrderInv, ReceiverLives
  <1>2. stats'.dropped = stats.dropped
    <2>1. stats' = stats \/ \E operation \in Operations : stats' = RecordError(stats, operation)
      BY DEF WriteEntry, ApplyRunId, AnswerFlush, Operations
    <2>2. stats \in Stats
      BY DEF OrderInv, TypeOK
    <2> QED  BY <2>1, <2>2 DEF RecordError, Stats
  <1>3. PICK how \in {"done", "failed"} : settled' = Settled(inflight[1], how)
    <2>1. CASE WriteEntry
      BY <2>1 DEF WriteEntry
    <2>2. CASE ApplyRunId
      BY <1>1, <2>2, InflightMsg, ControlByKind DEF ApplyRunId, Busy, OrderInv
    <2>3. CASE AnswerFlush
      BY <1>1, <2>3, InflightMsg, ControlByKind DEF AnswerFlush, Busy, OrderInv
    <2> QED  BY <2>1, <2>2, <2>3
  <1>4. Len(settled) < Len(sent) /\ sent[Len(settled) + 1] = inflight[1]
    BY <1>1, NextInHand
  <1>5. Contract!Settle(how)
    BY <1>1, <1>2, <1>3, <1>4 DEF Contract!Settle, Settled
  <1> QED  BY <1>5

LEMMA PanicRefines ==
    ASSUME WriterInv, Panic
    PROVE  [Contract!Next]_Contract!vars
  <1> USE DEF Contract!Next, Contract!vars, WriterInv
  <1>1. SinkAlive /\ ~SinkAlive' /\ UNCHANGED <<sent, answer, stats>>
    BY DEF Panic, SinkAlive
  <1>2. CASE inflight = <<>>
    <2>1. Contract!Die
      BY <1>1, <1>2 DEF Panic, Contract!Die, SinkAlive
    <2> QED  BY <2>1
  <1>3. CASE inflight # <<>>
    <2>1. rx
      BY DEF Panic, OrderInv, ReceiverLives
    <2>2. Len(settled) < Len(sent) /\ sent[Len(settled) + 1] = inflight[1]
      BY <1>3, <2>1, NextInHand
    <2>3. Contract!Die
      BY <1>1, <1>3, <2>2 DEF Panic, Contract!Die, Settled, SinkAlive
    <2> QED  BY <2>3
  <1> QED  BY <1>2, <1>3

LEMMA QuietRefines ==
    ASSUME WriterInv,
           Receive \/ RecordPanic \/ DropReceiver \/ ChannelClosed \/ FinalFlush
           \/ DropWriter \/ Joined \/ UNCHANGED vars
    PROVE  [Contract!Next]_Contract!vars
  <1> USE DEF Contract!Next, Contract!vars, WriterInv
  <1>1. UNCHANGED <<sent, settled, answer>>
    BY DEF Receive, RecordPanic, DropReceiver, ChannelClosed, FinalFlush, DropWriter, Joined,
           vars, historyVars
  <1>2. stats'.dropped = stats.dropped
    <2>1. stats' = stats \/ \E operation \in Operations : stats' = RecordError(stats, operation)
      BY DEF Receive, RecordPanic, DropReceiver, ChannelClosed, FinalFlush, DropWriter, Joined,
             vars, Operations
    <2>2. stats \in Stats
      BY DEF OrderInv, TypeOK
    <2> QED  BY <2>1, <2>2 DEF RecordError, Stats
  <1>3. CASE FinalFlush
    <2>1. SinkAlive /\ ~SinkAlive'
      BY <1>3 DEF FinalFlush, SinkAlive
    <2>2. Contract!Die
      BY <1>1, <1>2, <2>1 DEF Contract!Die, SinkAlive
    <2> QED  BY <2>2
  <1>4. CASE ~FinalFlush
    <2>1. worker' = worker \/ {worker, worker'} \subseteq {"recv", "closing"}
             \/ {worker, worker'} \subseteq {"panicked", "unwound", "exited"}
      BY <1>4 DEF Receive, RecordPanic, DropReceiver, ChannelClosed, DropWriter, Joined,
                  vars, workerVars
    <2>2. SinkAlive' <=> SinkAlive
      BY <2>1 DEF SinkAlive
    <2> QED  BY <1>1, <1>2, <2>2 DEF SinkAlive
  <1> QED  BY <1>3, <1>4

(* The background writer keeps the contract of a sink without a queue       *)
(* (writer.rs, the JournalWriter implementation of AsyncWriter).            *)
THEOREM ContractRefined == Spec => RefinesContract
  <1>1. Init => Contract!Init
    <2> SUFFICES ASSUME Init PROVE Contract!Init
      OBVIOUS
    <2>1. (worker \in {"recv", "closing"}) \in BOOLEAN
      OBVIOUS
    <2>2. sent = <<>> /\ settled = <<>> /\ answer = [nth |-> 0, is |-> Ok]
      BY DEF Init
    <2>3. PICK failed, last : stats = [failed |-> failed, dropped |-> 0, last |-> last]
      BY DEF Init
    <2>4. stats.dropped = 0
      BY <2>3
    <2> QED  BY <2>1, <2>2, <2>4 DEF Contract!Init
  <1>2. WriterInv /\ [Next]_vars => [Contract!Next]_Contract!vars
    BY WriteRefines, SendRefines, FlushRefines, SettleRefines, PanicRefines, QuietRefines
       DEF Next, Caller, Worker
  <1> QED  BY <1>1, <1>2, WriterInvariant, PTL DEF Spec, RefinesContract, Contract!Spec
-----------------------------------------------------------------------------
(* Every entry is on one account.  What makes the count inductive is that   *)
(* an entry is named by the call that submitted it: what was sent has an    *)
(* ordinal up to calls, and a blocked send holds the last one.              *)

Entries     == {m \in Msg : m.kind \in EntryKinds}
EntriesSent == Where(sent, Entries)
Blocked     == caller.op = "send" /\ caller.msg.kind \in EntryKinds

CountInv ==
    /\ calls = Cardinality(EntriesSent) + stats.dropped + (IF Blocked THEN 1 ELSE 0)
    /\ \A i, j \in EntriesSent : i < j => sent[i].id < sent[j].id
    /\ \A i \in EntriesSent : sent[i].id <= calls /\ (Blocked => sent[i].id < calls)
    /\ Blocked => caller.msg.id = calls

LEMMA StatsFields ==
    ASSUME NEW s \in Stats, NEW operation \in Operations
    PROVE  /\ RecordError(s, operation).failed = s.failed + 1
           /\ RecordError(s, operation).dropped = s.dropped
  BY DEF Stats, RecordError

LEMMA RefusedFields ==
    ASSUME NEW s \in Stats
    PROVE  /\ DropRecord(s).failed = s.failed
           /\ DropRecord(s).dropped = s.dropped + 1
           /\ Refused(s).failed = s.failed + 1
           /\ Refused(s).dropped = s.dropped
           /\ Refused(DropRecord(s)).failed = s.failed + 1
           /\ Refused(DropRecord(s)).dropped = s.dropped + 1
  BY DEF Stats, RecordError, DropRecord, Refused

LEMMA CountTypes ==
    ASSUME TypeOK
    PROVE  /\ EntriesSent \in SUBSET Nat /\ Cardinality(EntriesSent) \in Nat
           /\ calls \in Nat /\ stats.dropped \in Nat /\ stats.failed \in Nat
           /\ \A i \in EntriesSent : sent[i] \in Entries /\ sent[i].id \in Nat
           /\ Blocked => caller.msg \in Entries
  <1>1. sent \in Seq(Msg)
    BY DEF TypeOK
  <1>2. EntriesSent \in SUBSET Nat /\ Cardinality(EntriesSent) \in Nat
    <2>1. EntriesSent \in SUBSET Nat
      BY <1>1, LenProperties DEF EntriesSent, Where
    <2>2. Cardinality(EntriesSent) \in Nat
      BY <1>1, WhereFinite DEF EntriesSent
    <2> QED  BY <2>1, <2>2
  <1>3. calls \in Nat /\ stats.dropped \in Nat /\ stats.failed \in Nat
    BY DEF TypeOK, Stats
  <1>4. ASSUME NEW i \in EntriesSent PROVE sent[i] \in Entries /\ sent[i].id \in Nat
    BY EntryId DEF EntriesSent, Where, Entries
  <1>5. ASSUME Blocked PROVE caller.msg \in Entries
    BY <1>5, SendingHoldsMsg DEF Blocked, TypeOK, Entries
  <1> QED  BY <1>2, <1>3, <1>4, <1>5

LEMMA SendCounts ==
    ASSUME TypeOK, NEW m \in Msg, sent' = Append(sent, m)
    PROVE  /\ EntriesSent' = EntriesSent \cup (IF m \in Entries THEN {Len(sent) + 1} ELSE {})
           /\ Cardinality(EntriesSent') =
                 Cardinality(EntriesSent) + (IF m \in Entries THEN 1 ELSE 0)
           /\ sent'[Len(sent) + 1] = m
           /\ \A i \in EntriesSent : sent'[i] = sent[i] /\ i < Len(sent) + 1
  <1>1. sent \in Seq(Msg)
    BY DEF TypeOK
  <1>2. EntriesSent' = Where(Append(sent, m), Entries)
    BY DEF EntriesSent, Entries, Where
  <1>3. /\ Where(Append(sent, m), Entries) =
              Where(sent, Entries) \cup (IF m \in Entries THEN {Len(sent) + 1} ELSE {})
        /\ Cardinality(Where(Append(sent, m), Entries)) =
              Cardinality(Where(sent, Entries)) + (IF m \in Entries THEN 1 ELSE 0)
    BY <1>1, WhereAppend
  <1>4. /\ Len(sent) \in Nat /\ sent'[Len(sent) + 1] = m
        /\ \A i \in 1..Len(sent) : sent'[i] = sent[i]
    BY <1>1, AppendProperties, LenProperties
  <1>5. \A i \in EntriesSent : i \in 1..Len(sent) /\ i < Len(sent) + 1
    BY <1>4 DEF EntriesSent, Where
  <1> QED  BY <1>2, <1>3, <1>4, <1>5 DEF EntriesSent

(* One entry is submitted: refused, sent, or held by the blocked send.      *)
LEMMA SubmitCounts ==
    ASSUME TypeOK, CountInv, NEW kind \in EntryKinds, Write(kind)
    PROVE  CountInv'
  <1> DEFINE m == Entry(kind, calls + 1)
  <1>1. m \in Msg /\ m.kind = kind /\ m.id = calls + 1 /\ m \in Entries
    BY EntryIsMsg DEF Write, TypeOK, Entry, Entries
  <1>2. /\ calls' = calls + 1 /\ ~Blocked /\ stats \in Stats
    BY CallerStates DEF Write, Blocked, TypeOK
  <1>3. Enqueue(m)
    BY DEF Write
  <1> HIDE DEF m
  <1>4. CASE /\ stats' \in {DropRecord(stats), Refused(DropRecord(stats))}
             /\ UNCHANGED <<sent, caller>>
    <2>1. stats'.dropped = stats.dropped + 1
      BY <1>2, <1>4, RefusedFields
    <2>2. EntriesSent' = EntriesSent /\ ~Blocked'
      BY <1>2, <1>4 DEF EntriesSent, Entries, Blocked
    <2> QED  BY <1>2, <1>4, <2>1, <2>2, CountTypes DEF CountInv
  <1>5. CASE sent' = Append(sent, m) /\ UNCHANGED <<stats, caller>>
    <2>1. /\ EntriesSent' = EntriesSent \cup {Len(sent) + 1}
          /\ Cardinality(EntriesSent') = Cardinality(EntriesSent) + 1
          /\ sent'[Len(sent) + 1] = m
          /\ \A i \in EntriesSent : sent'[i] = sent[i] /\ i < Len(sent) + 1
      BY <1>1, <1>5, SendCounts
    <2>2. ~Blocked' /\ Len(sent) + 1 \in Nat
      BY <1>2, <1>5, LenProperties DEF Blocked, TypeOK
    <2>3. \A i \in EntriesSent : sent'[i].id <= calls /\ sent'[i].id \in Nat
      BY <2>1, CountTypes DEF CountInv
    <2>4. \A i \in EntriesSent' : sent'[i].id <= calls'
      BY <1>1, <1>2, <2>1, <2>3, CountTypes
    <2>5. ASSUME NEW i \in EntriesSent', NEW j \in EntriesSent', i < j
          PROVE  sent'[i].id < sent'[j].id
      <3>1. i \in EntriesSent
        BY <2>1, <2>2, <2>5, CountTypes
      <3>2. CASE j \in EntriesSent
        BY <2>1, <2>5, <3>1, <3>2 DEF CountInv
      <3>3. CASE j = Len(sent) + 1
        BY <1>1, <2>1, <2>3, <3>1, <3>3, CountTypes
      <3> QED  BY <2>1, <3>2, <3>3
    <2>6. calls' = Cardinality(EntriesSent') + stats'.dropped
      <3>1. calls = Cardinality(EntriesSent) + stats.dropped
        BY <1>2, CountTypes DEF CountInv
      <3>2. stats'.dropped = stats.dropped
        BY <1>5
      <3> QED  BY <1>2, <2>1, <3>1, <3>2, CountTypes
    <2>7. Cardinality(EntriesSent') + stats'.dropped + 0 = Cardinality(EntriesSent') + stats'.dropped
      BY <1>5, <2>1, CountTypes
    <2> QED  BY <2>2, <2>4, <2>5, <2>6, <2>7 DEF CountInv
  <1>6. CASE caller' = Sending(m) /\ UNCHANGED <<stats, sent>>
    <2>1. Blocked' /\ caller'.msg.id = calls'
      BY <1>1, <1>2, <1>6, CallerStates DEF Blocked, Entries, Sending
    <2>2. EntriesSent' = EntriesSent
      BY <1>6 DEF EntriesSent, Entries
    <2> QED  BY <1>2, <1>6, <2>1, <2>2, CountTypes DEF CountInv
  <1> QED  BY <1>3, <1>4, <1>5, <1>6
           DEF Enqueue, EnqueueShutDown, EnqueueBlocking, EnqueueBestEffort, Accept

(* The blocked send ends: sent, or refused when the receiver is gone.       *)
LEMMA SendEndCounts ==
    ASSUME TypeOK, CountInv, SendDone \/ SendDisconnected
    PROVE  CountInv'
  <1>1. caller.op = "send" /\ caller.msg \in Msg /\ calls' = calls /\ stats \in Stats
    BY SendingHoldsMsg DEF SendDone, SendDisconnected, historyVars, TypeOK
  <1>2. ~Blocked'
    BY CallerStates DEF SendDone, SendDisconnected, Blocked
  <1>3. Blocked <=> caller.msg \in Entries
    BY <1>1 DEF Blocked, Entries
  <1>4. CASE SendDone
    <2>1. sent' = Append(sent, caller.msg) /\ stats' = stats
      BY <1>4 DEF SendDone, Accept
    <2>2. /\ EntriesSent' = EntriesSent \cup (IF caller.msg \in Entries THEN {Len(sent) + 1} ELSE {})
          /\ Cardinality(EntriesSent') =
                Cardinality(EntriesSent) + (IF caller.msg \in Entries THEN 1 ELSE 0)
          /\ sent'[Len(sent) + 1] = caller.msg
          /\ \A i \in EntriesSent : sent'[i] = sent[i] /\ i < Len(sent) + 1
      BY <1>1, <2>1, SendCounts
    <2>3. calls' = Cardinality(EntriesSent') + stats'.dropped
      BY <1>1, <1>3, <2>1, <2>2, CountTypes DEF CountInv
    <2>4. \A i \in EntriesSent : sent'[i].id <= calls /\ (Blocked => sent'[i].id < calls)
      BY <2>2 DEF CountInv
    <2>5. \A i \in EntriesSent' : sent'[i].id <= calls'
      <3>1. Blocked => caller.msg.id <= calls
        BY CountTypes DEF CountInv
      <3> QED  BY <1>1, <1>3, <2>2, <2>4, <3>1
    <2>6. ASSUME NEW i \in EntriesSent', NEW j \in EntriesSent', i < j
          PROVE  sent'[i].id < sent'[j].id
      <3>1. Len(sent) \in Nat
        BY LenProperties DEF TypeOK
      <3>2. i \in EntriesSent
        BY <2>2, <2>6, <3>1, CountTypes
      <3>3. CASE j \in EntriesSent
        BY <2>2, <2>6, <3>2, <3>3 DEF CountInv
      <3>4. CASE j \notin EntriesSent
        <4>1. Blocked /\ j = Len(sent) + 1
          BY <1>3, <2>2, <3>4
        <4> QED  BY <2>2, <2>4, <3>2, <4>1 DEF CountInv
      <3> QED  BY <3>3, <3>4
    <2>7. Cardinality(EntriesSent') + stats'.dropped + 0 = Cardinality(EntriesSent') + stats'.dropped
      BY <2>1, <2>2, CountTypes
    <2> QED  BY <1>2, <2>3, <2>5, <2>6, <2>7 DEF CountInv
  <1>5. CASE SendDisconnected
    <2>1. UNCHANGED sent /\ EntriesSent' = EntriesSent
      BY <1>5 DEF SendDisconnected, historyVars, EntriesSent, Entries
    <2>2. stats'.dropped = stats.dropped + (IF Blocked THEN 1 ELSE 0)
      <3>1. stats' = Refused(IF Blocked THEN DropRecord(stats) ELSE stats)
        BY <1>1, <1>5 DEF SendDisconnected, Blocked
      <3> QED  BY <1>1, <3>1, RefusedFields, CountTypes
    <2> QED  BY <1>1, <1>2, <2>1, <2>2, CountTypes DEF CountInv
  <1> QED  BY <1>4, <1>5

LEMMA CountStep ==
    ASSUME TypeOK, CountInv, [Next]_vars
    PROVE  CountInv'
  <1>1. stats \in Stats
    BY DEF TypeOK
  <1>2. CASE UNCHANGED <<calls, sent>> /\ stats'.dropped = stats.dropped /\ (Blocked' <=> Blocked)
             /\ (Blocked => caller' = caller)
    <2>1. EntriesSent' = EntriesSent
      BY <1>2 DEF EntriesSent, Entries
    <2> QED  BY <1>2, <2>1 DEF CountInv
  <1>3. CASE FlushCall \/ SetRunId
    <2>1. UNCHANGED <<calls, sent>> /\ stats' \in {stats, Refused(stats)} /\ ~Blocked
      BY <1>3, CallerStates DEF FlushCall, SetRunId, Blocked
    <2>2. ~Blocked'
      <3>1. caller' \in {caller, Sending(Flush), Sending(RunId)}
        BY <1>3 DEF FlushCall, SetRunId
      <3>2. Flush.kind \notin EntryKinds /\ RunId.kind \notin EntryKinds
        BY DEF Flush, RunId, Entry, EntryKinds
      <3> QED  BY <2>1, <3>1, <3>2, CallerStates DEF Blocked
    <2>3. stats'.dropped = stats.dropped
      BY <1>1, <2>1, RefusedFields
    <2> QED  BY <1>2, <2>1, <2>2, <2>3
  <1>4. CASE FlushAnswered \/ FlushAbandoned \/ DropWriter \/ Joined
    <2>1. UNCHANGED <<calls, sent>> /\ stats' \in {stats, Refused(stats)}
      BY <1>4 DEF FlushAnswered, FlushAbandoned, DropWriter, Joined, historyVars
    <2>2. ~Blocked /\ ~Blocked'
      BY <1>4, CallerStates DEF FlushAnswered, FlushAbandoned, DropWriter, Joined, Blocked
    <2>3. stats'.dropped = stats.dropped
      BY <1>1, <2>1, RefusedFields
    <2> QED  BY <1>2, <2>1, <2>2, <2>3
  <1>5. CASE Worker \/ UNCHANGED vars
    <2>1. UNCHANGED <<calls, sent, caller>>
      BY <1>5 DEF Worker, Receive, WriteEntry, ApplyRunId, AnswerFlush, Panic, RecordPanic,
         DropReceiver, ChannelClosed, FinalFlush, vars, historyVars
    <2>2. \/ stats' = stats
          \/ \E operation \in Operations : stats' = RecordError(stats, operation)
      BY <1>5 DEF Worker, Receive, WriteEntry, ApplyRunId, AnswerFlush, Panic, RecordPanic,
         DropReceiver, ChannelClosed, FinalFlush, vars, Operations
    <2> QED  BY <1>1, <1>2, <2>1, <2>2, StatsFields DEF Blocked
  <1> QED  BY <1>3, <1>4, <1>5, SubmitCounts, SendEndCounts DEF Next, Caller

LEMMA InitCount ==
    ASSUME Init
    PROVE  CountInv
  <1>1. sent = <<>> /\ calls = 0 /\ stats.dropped = 0 /\ caller = Idle
    <2>1. /\ [failed |-> 0, dropped |-> 0, last |-> "none"].dropped = 0
          /\ [failed |-> 1, dropped |-> 0, last |-> "starting background writer"].dropped = 0
      OBVIOUS
    <2> QED  BY <2>1 DEF Init
  <1>2. EntriesSent = {}
    BY <1>1 DEF EntriesSent, Where
  <1>3. ~Blocked
    BY <1>1, CallerStates DEF Blocked
  <1> QED  BY <1>1, <1>2, <1>3, FS_EmptySet DEF CountInv

(* Whatever the write mode, every entry submitted was sent, was counted in  *)
(* dropped_records, or is held by the one blocked send, and entries enter   *)
(* the channel in submission order (writer.rs, enqueue).                    *)
THEOREM CallsCounted == Spec => []EveryCallCounted
  <1>1. Init => TypeOK /\ CountInv
    BY InitTypeOK, InitCount
  <1>2. (TypeOK /\ CountInv) /\ [Next]_vars => (TypeOK /\ CountInv)'
    BY TypeStep, CountStep
  <1>3. TypeOK /\ CountInv => EveryCallCounted
    <2> SUFFICES ASSUME TypeOK, CountInv PROVE EveryCallCounted
      OBVIOUS
    <2>1. {i \in 1..Len(sent) : sent[i].kind \in EntryKinds} = EntriesSent
      BY ElementOfSeq DEF EntriesSent, Where, Entries, TypeOK
    <2> QED  BY <2>1 DEF CountInv, EveryCallCounted, Blocked
  <1> QED  BY <1>1, <1>2, <1>3, PTL DEF Spec
-----------------------------------------------------------------------------
(* What was accepted and not written is on record.  Each failed write has   *)
(* its own diagnostic; a panic has one more from the moment it is recorded, *)
(* and only a recorded panic leaves sent messages behind.                   *)

FailedEntries == {h \in Handled : h.msg \in Entries /\ h.result = "failed"}
WritesFailed  == Where(settled, FailedEntries)
CutOff        == Aborted \/ Len(settled) < Len(sent)
PanicRecorded == worker = "unwound" \/ (worker = "exited" /\ CutOff)

LossInv ==
    /\ Aborted => worker \in {"panicked", "unwound", "exited"}
    /\ stats.failed >= Cardinality(WritesFailed) + (IF PanicRecorded THEN 1 ELSE 0)

LEMMA LossTypes ==
    ASSUME TypeOK
    PROVE  Cardinality(WritesFailed) \in Nat /\ stats.failed \in Nat
  BY WhereFinite DEF TypeOK, Stats, WritesFailed

(* The two ways to use the count: nothing failed, or one write more did.    *)
LEMMA SettleCounts ==
    ASSUME TypeOK, inflight # <<>>, NEW how \in {"done", "failed", "aborted"},
           settled' = Settled(inflight[1], how)
    PROVE  Cardinality(WritesFailed') = Cardinality(WritesFailed) +
              (IF inflight[1].kind \in EntryKinds /\ how = "failed" THEN 1 ELSE 0)
  <1> DEFINE h == [msg |-> inflight[1], result |-> how]
  <1>1. h \in Handled /\ h.msg = inflight[1] /\ h.result = how /\ inflight[1] \in Msg
    BY InflightMsg DEF Handled
  <1>2. h \in FailedEntries <=> inflight[1].kind \in EntryKinds /\ how = "failed"
    BY <1>1 DEF FailedEntries, Entries
  <1>3. settled \in Seq(Handled) /\ settled' = Append(settled, h)
    BY DEF TypeOK, Settled
  <1>4. WritesFailed' = Where(settled', FailedEntries)
    BY DEF WritesFailed, FailedEntries, Entries
  <1> HIDE DEF h
  <1>5. Cardinality(Where(Append(settled, h), FailedEntries)) =
           Cardinality(Where(settled, FailedEntries)) + (IF h \in FailedEntries THEN 1 ELSE 0)
    BY <1>1, <1>3, WhereAppend
  <1> QED  BY <1>2, <1>3, <1>4, <1>5 DEF WritesFailed

(* The diagnostics are never taken back.                                    *)
LEMMA FailedGrows ==
    ASSUME TypeOK, [Next]_vars
    PROVE  stats'.failed \in Nat /\ stats'.failed >= stats.failed
  <1>1. stats \in Stats /\ stats.failed \in Nat
    BY DEF TypeOK, Stats
  <1>2. \/ stats' \in {stats, DropRecord(stats), Refused(stats), Refused(DropRecord(stats))}
        \/ \E operation \in Operations : stats' = RecordError(stats, operation)
    <2>1. CASE Caller
      BY <2>1 DEF Caller, Write, Enqueue, EnqueueShutDown, EnqueueBlocking, EnqueueBestEffort,
         FlushCall, SetRunId, SendDone, SendDisconnected, FlushAnswered, FlushAbandoned,
         DropWriter, Joined
    <2>2. CASE Worker \/ UNCHANGED vars
      BY <2>2 DEF Worker, Receive, WriteEntry, ApplyRunId, AnswerFlush, Panic, RecordPanic,
         DropReceiver, ChannelClosed, FinalFlush, vars, Operations
    <2> QED  BY <2>1, <2>2 DEF Next
  <1> QED  BY <1>1, <1>2, StatsFields, RefusedFields

LEMMA LossStep ==
    ASSUME OrderInv, DrainInv, LossInv, [Next]_vars
    PROVE  LossInv'
  <1> USE DEF OrderInv
  <1>1. stats \in Stats /\ Cardinality(WritesFailed) \in Nat /\ stats.failed \in Nat
        /\ stats'.failed \in Nat /\ stats'.failed >= stats.failed
    BY LossTypes, FailedGrows DEF TypeOK
  <1>2. CASE UNCHANGED settled
             /\ (worker' = worker \/ worker' \in {"panicked", "closing"})
             /\ (PanicRecorded' => PanicRecorded)
             /\ (Aborted => worker' \in {"panicked", "unwound", "exited"})
    <2>1. WritesFailed' = WritesFailed /\ (Aborted' <=> Aborted)
      BY <1>2 DEF WritesFailed, FailedEntries, Entries, Aborted
    <2> QED  BY <1>1, <1>2, <2>1 DEF LossInv
  <1>3. CASE Caller \/ Receive \/ UNCHANGED vars
    <2>1. UNCHANGED <<settled, worker>>
      BY <1>3 DEF Caller, Write, FlushCall, SetRunId, SendDone, SendDisconnected, FlushAnswered,
         FlushAbandoned, DropWriter, Joined, Receive, workerVars, historyVars, vars
    <2>2. worker = "exited" => UNCHANGED sent
      BY <1>3 DEF Caller, Write, Enqueue, EnqueueShutDown, EnqueueBlocking, EnqueueBestEffort,
         FlushCall, SetRunId, SendDone, SendDisconnected, FlushAnswered, FlushAbandoned,
         DropWriter, Joined, Receive, historyVars, vars, ReceiverLives
    <2>3. PanicRecorded' => PanicRecorded
      BY <2>1, <2>2 DEF PanicRecorded, CutOff, Aborted
    <2> QED  BY <1>2, <2>1, <2>3 DEF LossInv
  <1>4. CASE ChannelClosed
    <2>1. UNCHANGED settled /\ worker = "recv" /\ worker' = "closing"
      BY <1>4 DEF ChannelClosed, historyVars
    <2> QED  BY <1>2, <2>1 DEF LossInv, PanicRecorded
  <1>5. CASE WriteEntry \/ ApplyRunId \/ AnswerFlush
    <2>1. PICK how \in {"done", "failed"} :
            /\ settled' = Settled(inflight[1], how)
            /\ inflight[1].kind \in EntryKinds /\ how = "failed" => stats'.failed = stats.failed + 1
      <3>1. CASE WriteEntry
        BY <1>1, <3>1, StatsFields DEF WriteEntry, Operations
      <3>2. CASE ApplyRunId
        BY <3>2, InflightMsg, ControlByKind DEF ApplyRunId, Busy, EntryKinds
      <3>3. CASE AnswerFlush
        BY <3>3, InflightMsg, ControlByKind DEF AnswerFlush, Busy, EntryKinds
      <3> QED  BY <1>5, <3>1, <3>2, <3>3
    <2>2. inflight # <<>> /\ worker = "recv" /\ worker' = worker
      BY <1>5 DEF WriteEntry, ApplyRunId, AnswerFlush, Busy
    <2>3. Cardinality(WritesFailed') = Cardinality(WritesFailed) +
             (IF inflight[1].kind \in EntryKinds /\ how = "failed" THEN 1 ELSE 0)
      BY <2>1, <2>2, SettleCounts
    <2>4. ~PanicRecorded'
      BY <2>2 DEF PanicRecorded
    <2>5. ~Aborted'
      <3>1. \A i \in 1..Len(settled) : settled[i].result # "aborted"
        BY <2>2 DEF LossInv, Aborted
      <3>2. /\ Len(settled) \in Nat /\ Len(settled') = Len(settled) + 1
            /\ \A i \in 1..Len(settled) : settled'[i] = settled[i]
            /\ settled'[Len(settled) + 1] = [msg |-> inflight[1], result |-> how]
        BY <2>1, <2>2, SettledExtends
      <3>3. settled'[Len(settled) + 1].result # "aborted"
        BY <3>2
      <3> QED  BY <3>1, <3>2, <3>3 DEF Aborted
    <2>6. stats.failed >= Cardinality(WritesFailed)
      BY <1>1 DEF LossInv
    <2>7. stats'.failed >= Cardinality(WritesFailed')
      BY <1>1, <2>1, <2>3, <2>6
    <2>8. Cardinality(WritesFailed') \in Nat
      BY <1>1, <2>3
    <2> QED  BY <2>4, <2>5, <2>7, <2>8 DEF LossInv
  <1>6. CASE Panic
    <2>1. worker' = "panicked" /\ ~PanicRecorded'
      BY <1>6 DEF Panic, PanicRecorded
    <2>2. Cardinality(WritesFailed') = Cardinality(WritesFailed)
      <3>1. CASE inflight = <<>>
        BY <1>6, <3>1 DEF Panic, WritesFailed, FailedEntries, Entries
      <3>2. CASE inflight # <<>>
        <4>1. settled' = Settled(inflight[1], "aborted")
          BY <1>6, <3>2 DEF Panic
        <4>2. Cardinality(WritesFailed') = Cardinality(WritesFailed) +
                (IF inflight[1].kind \in EntryKinds /\ "aborted" = "failed" THEN 1 ELSE 0)
          BY <3>2, <4>1, SettleCounts
        <4> QED  BY <1>1, <4>2
      <3> QED  BY <3>1, <3>2
    <2> QED  BY <1>1, <2>1, <2>2 DEF LossInv
  <1>7. CASE RecordPanic
    <2>1. /\ worker = "panicked" /\ worker' = "unwound" /\ UNCHANGED settled
          /\ stats'.failed = stats.failed + 1
      BY <1>1, <1>7, StatsFields DEF RecordPanic, historyVars, Operations
    <2>2. WritesFailed' = WritesFailed /\ ~PanicRecorded
      BY <2>1 DEF WritesFailed, FailedEntries, Entries, PanicRecorded
    <2> QED  BY <1>1, <2>1, <2>2 DEF LossInv
  <1>8. CASE DropReceiver
    <2>1. worker = "unwound" /\ worker' = "exited" /\ UNCHANGED settled
      BY <1>8 DEF DropReceiver, historyVars
    <2>2. WritesFailed' = WritesFailed /\ PanicRecorded
      BY <2>1 DEF WritesFailed, FailedEntries, Entries, PanicRecorded
    <2> QED  BY <1>1, <2>1, <2>2 DEF LossInv
  <1>9. CASE FinalFlush
    <2>1. worker = "closing" /\ worker' = "exited" /\ UNCHANGED <<settled, sent>>
      BY <1>9 DEF FinalFlush, historyVars
    <2>2. ~Aborted /\ Len(settled) = Len(sent)
      BY <2>1 DEF LossInv, DrainInv
    <2>3. ~PanicRecorded'
      BY <2>1, <2>2, LenProperties DEF PanicRecorded, CutOff, Aborted, TypeOK
    <2>4. WritesFailed' = WritesFailed
      BY <2>1 DEF WritesFailed, FailedEntries, Entries
    <2>5. worker' \in {"panicked", "unwound", "exited"}
      BY <2>1
    <2> QED  BY <1>1, <2>3, <2>4, <2>5 DEF LossInv
  <1> QED  BY <1>3, <1>4, <1>5, <1>6, <1>7, <1>8, <1>9 DEF Next, Worker

LEMMA InitLoss ==
    ASSUME Init
    PROVE  LossInv
  <1>1. settled = <<>> /\ sent = <<>> /\ worker \in {"recv", "exited"} /\ stats.failed \in Nat
    <2>1. /\ [failed |-> 0, dropped |-> 0, last |-> "none"].failed = 0
          /\ [failed |-> 1, dropped |-> 0, last |-> "starting background writer"].failed = 1
      OBVIOUS
    <2>2. stats.failed \in {0, 1}
      BY <2>1 DEF Init
    <2>3. settled = <<>> /\ sent = <<>> /\ worker \in {"recv", "exited"}
      BY DEF Init
    <2> QED  BY <2>2, <2>3
  <1>2. WritesFailed = {} /\ ~Aborted /\ ~(Len(settled) < Len(sent))
    BY <1>1 DEF WritesFailed, Where, Aborted
  <1> QED  BY <1>1, <1>2, FS_EmptySet DEF LossInv, PanicRecorded, CutOff

(* Once the worker is gone, every failed write has its own diagnostic, and  *)
(* a panic that cut a message off or left some behind has one more          *)
(* (writer.rs, worker and spawn_with_mode).                                 *)
THEOREM LossesRecorded == Spec => []NothingLostSilently
  <1> DEFINE Inv == OrderInv /\ DrainInv /\ LossInv
  <1>1. Init => Inv
    BY InitOrder, InitDrain, InitLoss
  <1>2. Inv /\ [Next]_vars => Inv'
    BY OrderStep, DrainStep, LossStep, TypeStep DEF OrderInv
  <1>3. Inv => NothingLostSilently
    <2> SUFFICES ASSUME Inv, worker = "exited" PROVE NothingLostSilently
      BY DEF NothingLostSilently
    <2> DEFINE unwritten == {i \in 1..Len(sent) : /\ sent[i].kind \in EntryKinds
                                                  /\ i <= Len(settled) => settled[i].result # "done"}
               panicked  == \E i \in unwritten : i > Len(settled) \/ settled[i].result = "aborted"
               failed    == {i \in unwritten : i <= Len(settled) /\ settled[i].result = "failed"}
    <2>1. /\ Len(sent) \in Nat /\ Len(settled) \in Nat /\ Len(settled) <= Len(sent)
          /\ \A i \in 1..Len(settled) : settled[i].msg = sent[i] /\ settled[i] \in Handled
          /\ \A i \in 1..Len(sent) : sent[i] \in Msg
      BY LenProperties, ElementOfSeq DEF OrderInv, TypeOK, ChannelOrder
    <2>2. failed = WritesFailed
      BY <2>1 DEF WritesFailed, Where, FailedEntries, Entries
    <2>3. panicked => PanicRecorded
      BY <2>1 DEF PanicRecorded, CutOff, Aborted
    <2>4. Cardinality(WritesFailed) \in Nat /\ stats.failed \in Nat
      BY LossTypes DEF OrderInv
    <2> HIDE DEF unwritten, panicked, failed
    <2>5. stats.failed >= Cardinality(failed) + (IF panicked THEN 1 ELSE 0)
      BY <2>2, <2>3, <2>4 DEF LossInv
    <2> QED  BY <2>5 DEF NothingLostSilently, unwritten, panicked, failed
  <1> QED  BY <1>1, <1>2, <1>3, PTL DEF Spec
=============================================================================
