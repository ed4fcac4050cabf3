---------------------------- MODULE SinkContract ----------------------------
(***************************************************************************)
(* What a caller may rely on from a journal sink, whatever stands between  *)
(* the caller and the file: messages are settled in the order in which     *)
(* they were sent, at most once each; an entry that is not taken is        *)
(* counted; a flush answers only once everything sent before it is         *)
(* settled, and its answer is the first write failure since the flush      *)
(* before it.  There is no queue, no thread and no write mode here; the    *)
(* sink may die, and from then on settles nothing.                         *)
(***************************************************************************)
EXTENDS Naturals, Sequences

CONSTANTS
    Message,      \* a record with an id, which also names the error of its failure
    Flush,        \* the message a flush sends
    Ok, FlushFailed, Unavailable   \* the answers that name no entry

VARIABLES sent,     \* every message the sink took, in order
          settled,  \* [msg, result] for the messages dealt with, in order
          dropped,  \* entries refused and counted
          answer,   \* which flush was the last to return, and its result
          alive     \* the sink still settles messages

vars == <<sent, settled, dropped, answer, alive>>

(* The messages settled since the flush before position n.                  *)
Since(s, n) == {i \in 1..(n - 1) : \A j \in i..(n - 1) : s[j].msg # Flush}
Failures(s, n) == {i \in Since(s, n) : s[i].result = "failed"}

(* a is the answer of the flush settled at position n.                      *)
Answers(s, n, a) ==
    IF Failures(s, n) = {}
    THEN a = IF s[n].result = "done" THEN Ok ELSE FlushFailed
    ELSE \E i \in Failures(s, n) : /\ \A j \in Failures(s, n) : i <= j
                                   /\ a = s[i].msg.id

Init ==
    /\ sent = <<>> /\ settled = <<>> /\ answer = [nth |-> 0, is |-> Ok]
    /\ dropped = 0 /\ alive \in BOOLEAN

Send(m) ==
    /\ sent' = Append(sent, m)
    /\ UNCHANGED <<settled, dropped, answer, alive>>

Refuse ==
    /\ dropped' = dropped + 1
    /\ UNCHANGED <<sent, settled, answer, alive>>

Settle(result) ==
    /\ alive /\ Len(settled) < Len(sent)
    /\ settled' = Append(settled, [msg |-> sent[Len(settled) + 1], result |-> result])
    /\ UNCHANGED <<sent, dropped, answer, alive>>

Die ==
    /\ alive /\ alive' = FALSE
    /\ settled' \in {settled} \cup
          IF Len(settled) < Len(sent)
          THEN {Append(settled, [msg |-> sent[Len(settled) + 1], result |-> "aborted"])}
          ELSE {}
    /\ UNCHANGED <<sent, dropped, answer>>

FlushReturns(a) ==
    /\ \/ a = Unavailable /\ ~alive
       \/ /\ Len(settled) = Len(sent) /\ sent # <<>>
          /\ settled[Len(settled)].msg = Flush
          /\ Answers(settled, Len(settled), a)
    /\ answer' = [nth |-> answer.nth + 1, is |-> a]
    /\ UNCHANGED <<sent, settled, dropped, alive>>

Next ==
    \/ \E m \in Message : Send(m)
    \/ Refuse
    \/ \E result \in {"done", "failed"} : Settle(result)
    \/ Die
    \/ \E a \in {m.id : m \in Message} \cup {Ok, FlushFailed, Unavailable} : FlushReturns(a)

Spec == Init /\ [][Next]_vars
=============================================================================
