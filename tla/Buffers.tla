------------------------------ MODULE Buffers ------------------------------
(***************************************************************************)
(* Both stores of the buffer.  They share nothing, so a behaviour exercises*)
(* one of them.                                                            *)
(***************************************************************************)
EXTENDS ScopeBuffer, RecordBuffer

VARIABLE store

BufferInit == Init /\ RecordInit /\ store \in {"scopes", "records"}
BufferNext ==
    \/ store = "scopes" /\ Next /\ UNCHANGED <<recordVars, store>>
    \/ store = "records" /\ RecordNext /\ UNCHANGED <<vars, store>>
BufferSpec == BufferInit /\ [][BufferNext]_<<vars, recordVars, store>>

(* Whatever is pushed, closed, trimmed, cleared and asked for: both indexes *)
(* say what a scan of their deque would, the set of closed scopes and the   *)
(* counts with them, vacant slots stay bounded, and all is well typed.      *)
BuffersExact ==
    /\ TypeOK /\ IndexExact /\ VacantBounded
    /\ RecordTypeOK /\ RecordIndexExact
=============================================================================
