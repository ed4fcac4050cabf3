--------------------------- MODULE RotationProofs ---------------------------
(***************************************************************************)
(* Theorems about Rotation for every number of backups, every limit and    *)
(* any number of failing calls and crashes.                                *)
(***************************************************************************)
EXTENDS Rotation, TLAPS, SequenceTheorems

File  == [recs : Seq(1..MaxRecords), size : Nat, free : Nat]
Known == {"down", "metadata", "shift", "rename", "remove", "open", "opened",
          "header", "ready", "write"}

(* Where the operation in progress is and what it has in hand go together;  *)
(* the slot a shift is about to fill is free unless it is the last one.     *)
Phases ==
    /\ at = "rename" => keep >= 1 /\ slot = 0
    /\ at = "remove" => keep = 0
    /\ at = "open" /\ line # 0 => Active = None
    /\ at \in {"down", "metadata", "opened", "header", "ready"} => line = 0
    /\ at = "write" => line # 0
    /\ line # 0 => handle # None /\ records # 0
    /\ handle = None <=> line = 0 /\ at \in {"down", "metadata", "shift", "rename", "remove", "open"}
    /\ at \in {"shift", "rename"} /\ slot < keep - 1 => dir[slot + 1] = None

Placed == TypeOK /\ Phases

LEMMA ConstantTypes ==
    /\ Keeps \subseteq Nat /\ MaxBytes \in Nat /\ Lengths \subseteq Nat \ {0}
    /\ HeaderLength \in Nat \ {0} /\ MaxRecords \in Nat /\ MaxFaults \in Nat /\ None \notin Nat
    /\ \A k \in Keeps : k <= MaxRecords
  BY RotationAssumption DEF RotationAssumption

LEMMA SlotTypes ==
    ASSUME TypeOK
    PROVE  /\ keep \in Nat /\ 0 \in Slots /\ Slots \subseteq Nat /\ Len(files) \in Nat
           /\ None \notin FileIds /\ FileIds \subseteq Nat
           /\ files \in Seq(File) /\ \A f \in FileIds : files[f] \in File
           /\ \A s \in Slots : dir[s] # None => dir[s] \in FileIds
           /\ handle # None => handle \in FileIds
  <1>1. keep \in Nat /\ None \notin Nat
    BY ConstantTypes DEF TypeOK
  <1>2. files \in Seq(File)
    BY DEF TypeOK, File
  <1>3. Len(files) \in Nat /\ \A f \in FileIds : files[f] \in File
    BY <1>2, LenProperties, ElementOfSeq DEF FileIds
  <1> QED  BY <1>1, <1>2, <1>3 DEF TypeOK, Slots, FileIds

(* A rename moves a file to the next slot; a missing file is no error.      *)
LEMMA MoveFields ==
    ASSUME TypeOK, NEW from \in Slots, from + 1 \in Slots, Move(from, from + 1)
    PROVE  /\ dir' \in [Slots -> FileIds \cup {None}]
           /\ \A s \in Slots : dir'[s] = IF dir[from] = None THEN dir[s]
                                         ELSE IF s = from + 1 THEN dir[from]
                                         ELSE IF s = from THEN None ELSE dir[s]
           /\ dir'[from] = None
  <1>1. dir \in [Slots -> FileIds \cup {None}] /\ from # from + 1
    BY SlotTypes DEF TypeOK
  <1> QED  BY <1>1 DEF Move

LEMMA FileWith ==
    ASSUME NEW A, NEW r \in [recs : A, size : Nat, free : Nat], NEW a \in A, NEW n \in Nat
    PROVE  /\ [r EXCEPT !.recs = a] \in [recs : A, size : Nat, free : Nat]
           /\ [r EXCEPT !.recs = a].recs = a
           /\ [r EXCEPT !.recs = a].size = r.size /\ [r EXCEPT !.recs = a].free = r.free
           /\ [r EXCEPT !.size = n] \in [recs : A, size : Nat, free : Nat]
           /\ [r EXCEPT !.size = n].size = n
           /\ [r EXCEPT !.size = n].recs = r.recs /\ [r EXCEPT !.size = n].free = r.free
           /\ [r EXCEPT !.free = n] \in [recs : A, size : Nat, free : Nat]
           /\ [r EXCEPT !.free = n].free = n
           /\ [r EXCEPT !.free = n].recs = r.recs /\ [r EXCEPT !.free = n].size = r.size
  OBVIOUS

(* What an operation adds to the file it has open.                          *)
LEMMA TouchFields ==
    ASSUME TypeOK, NEW f \in FileIds, NEW added \in Nat, NEW torn \in Nat,
           files' = [files EXCEPT ![f].size = @ + added, ![f].free = @ + torn]
    PROVE  /\ files' \in Seq(File) /\ Len(files') = Len(files)
           /\ \A g \in FileIds : files'[g].recs = files[g].recs
           /\ \A g \in FileIds : g # f => files'[g] = files[g]
           /\ files'[f].size = files[f].size + added /\ files'[f].free = files[f].free + torn
  <1>1. files \in Seq(File) /\ files[f] \in File /\ f \in 1..Len(files)
    BY SlotTypes DEF FileIds
  <1> DEFINE sized == [files[f] EXCEPT !.size = files[f].size + added]
             mid   == [files EXCEPT ![f] = sized]
             e     == [sized EXCEPT !.free = sized.free + torn]
  <1>2. sized \in File /\ sized.free = files[f].free /\ sized.recs = files[f].recs
        /\ sized.size = files[f].size + added
    <2>1. files[f].size + added \in Nat /\ files[f].recs \in Seq(1..MaxRecords)
      BY <1>1 DEF File
    <2> QED  BY <1>1, <2>1, FileWith DEF File
  <1> HIDE DEF sized
  <1>3. e \in File /\ e.recs = files[f].recs /\ e.size = files[f].size + added
        /\ e.free = files[f].free + torn
    <2>1. sized.free + torn \in Nat /\ sized.recs \in Seq(1..MaxRecords)
      BY <1>2 DEF File
    <2> QED  BY <1>1, <1>2, <2>1, FileWith DEF File
  <1>4. mid \in Seq(File) /\ Len(mid) = Len(files)
        /\ \A j \in 1..Len(files) : mid[j] = IF j = f THEN sized ELSE files[j]
    BY <1>1, <1>2, ExceptSeq
  <1>5. files' = [mid EXCEPT ![f].free = @ + torn]
    BY DEF mid, sized
  <1> HIDE DEF mid
  <1>6. mid[f] = sized
    BY <1>1, <1>4
  <1>7. files' = [mid EXCEPT ![f] = e]
    BY <1>5, <1>6
  <1> HIDE DEF e
  <1>8. files' \in Seq(File) /\ Len(files') = Len(mid)
        /\ \A j \in 1..Len(mid) : files'[j] = IF j = f THEN e ELSE mid[j]
    <2>1. f \in 1..Len(mid)
      BY <1>1, <1>4
    <2>2. /\ [mid EXCEPT ![f] = e] \in Seq(File) /\ Len([mid EXCEPT ![f] = e]) = Len(mid)
          /\ \A j \in 1..Len(mid) : [mid EXCEPT ![f] = e][j] = IF j = f THEN e ELSE mid[j]
      BY <1>3, <1>4, <2>1, ExceptSeq
    <2> QED  BY <1>7, <2>2
  <1>9. \A g \in FileIds : files'[g] = IF g = f THEN e ELSE files[g]
    BY <1>4, <1>8 DEF FileIds
  <1> QED  BY <1>3, <1>4, <1>8, <1>9

LEMMA RecordFields ==
    ASSUME TypeOK, NEW f \in FileIds, NEW n \in 1..MaxRecords, NEW length \in Nat,
           files' = [files EXCEPT ![f].recs = Append(@, n), ![f].size = @ + length]
    PROVE  /\ files' \in Seq(File) /\ Len(files') = Len(files)
           /\ \A g \in FileIds : g # f => files'[g] = files[g]
           /\ files'[f].recs = Append(files[f].recs, n)
           /\ files'[f].size = files[f].size + length /\ files'[f].free = files[f].free
  <1>1. files \in Seq(File) /\ files[f] \in File /\ f \in 1..Len(files)
    BY SlotTypes DEF FileIds
  <1> DEFINE longer == Append(files[f].recs, n)
             more   == [files[f] EXCEPT !.recs = longer]
             mid    == [files EXCEPT ![f] = more]
             e      == [more EXCEPT !.size = more.size + length]
  <1>2. longer \in Seq(1..MaxRecords)
    BY <1>1, AppendProperties DEF File
  <1> HIDE DEF longer
  <1>3. more \in File /\ more.recs = longer /\ more.size = files[f].size /\ more.free = files[f].free
    BY <1>1, <1>2, ConstantTypes, FileWith DEF File
  <1> HIDE DEF more
  <1>4. e \in File /\ e.recs = longer /\ e.size = files[f].size + length /\ e.free = files[f].free
    <2>1. more.size + length \in Nat
      BY <1>3 DEF File
    <2> QED  BY <1>2, <1>3, <2>1, FileWith DEF File
  <1>5. mid \in Seq(File) /\ Len(mid) = Len(files)
        /\ \A j \in 1..Len(files) : mid[j] = IF j = f THEN more ELSE files[j]
    BY <1>1, <1>3, ExceptSeq
  <1>6. files' = [mid EXCEPT ![f].size = @ + length]
    BY DEF mid, more, longer
  <1> HIDE DEF mid
  <1>7. mid[f] = more
    BY <1>1, <1>5
  <1>8. files' = [mid EXCEPT ![f] = e]
    BY <1>6, <1>7
  <1> HIDE DEF e
  <1>9. files' \in Seq(File) /\ Len(files') = Len(mid)
        /\ \A j \in 1..Len(mid) : files'[j] = IF j = f THEN e ELSE mid[j]
    <2>1. f \in 1..Len(mid)
      BY <1>1, <1>5
    <2>2. /\ [mid EXCEPT ![f] = e] \in Seq(File) /\ Len([mid EXCEPT ![f] = e]) = Len(mid)
          /\ \A j \in 1..Len(mid) : [mid EXCEPT ![f] = e][j] = IF j = f THEN e ELSE mid[j]
      BY <1>4, <1>5, <2>1, ExceptSeq
    <2> QED  BY <1>8, <2>2
  <1>10. \A g \in FileIds : files'[g] = IF g = f THEN e ELSE files[g]
    BY <1>5, <1>9 DEF FileIds
  <1> QED  BY <1>4, <1>5, <1>9, <1>10 DEF longer

LEMMA OpenFields ==
    ASSUME TypeOK, Open
    PROVE  \/ /\ Active # None /\ handle' = Active /\ UNCHANGED <<files, dir>>
           \/ /\ Active = None /\ handle' = Len(files) + 1
              /\ files' \in Seq(File) /\ Len(files') = Len(files) + 1
              /\ \A g \in FileIds : files'[g] = files[g]
              /\ files'[Len(files) + 1].recs = <<>> /\ files'[Len(files) + 1].size = 0
              /\ files'[Len(files) + 1].free = 0
              /\ dir' \in [Slots -> 1..(Len(files) + 1) \cup {None}]
              /\ \A s \in Slots : dir'[s] = IF s = 0 THEN Len(files) + 1 ELSE dir[s]
  <1>1. CASE Active # None
    BY <1>1 DEF Open
  <1>2. CASE Active = None
    <2>1. files' = Append(files, NewFile) /\ dir' = [dir EXCEPT ![0] = Len(files) + 1]
          /\ handle' = Len(files) + 1
      BY <1>2 DEF Open
    <2>2. NewFile \in File /\ NewFile.recs = <<>> /\ NewFile.size = 0 /\ NewFile.free = 0
      BY EmptySeq DEF NewFile, File
    <2>3. /\ Append(files, NewFile) \in Seq(File) /\ Len(Append(files, NewFile)) = Len(files) + 1
          /\ \A i \in 1..Len(files) : Append(files, NewFile)[i] = files[i]
          /\ Append(files, NewFile)[Len(files) + 1] = NewFile
      BY <2>2, SlotTypes, AppendProperties
    <2>4. dir \in [Slots -> FileIds \cup {None}] /\ 0 \in Slots /\ Len(files) \in Nat
      BY SlotTypes DEF TypeOK
    <2>5. dir' \in [Slots -> 1..(Len(files) + 1) \cup {None}]
      BY <2>1, <2>4 DEF FileIds
    <2>6. \A s \in Slots : dir'[s] = IF s = 0 THEN Len(files) + 1 ELSE dir[s]
      BY <2>1, <2>4
    <2> QED  BY <1>2, <2>1, <2>2, <2>3, <2>5, <2>6 DEF FileIds
  <1> QED  BY <1>1, <1>2
-----------------------------------------------------------------------------
(* Type correctness, with the phases of an operation.                       *)

LEMMA InitFields ==
    ASSUME Init
    PROVE  \E k \in 0..keep, left \in {None} \cup Lengths :
             /\ keep \in Keeps /\ keep \in Nat /\ k \in Nat /\ records = k /\ acked = 1..k
             /\ files \in Seq(File) /\ Len(files) = IF left = None THEN k ELSE k + 1
             /\ \A f \in 1..k : files[f].recs = <<f>> /\ files[f].size = MaxBytes
                                /\ files[f].free = 0
             /\ left # None => /\ files[k + 1].recs = <<>>
                               /\ files[k + 1].size = left /\ files[k + 1].free = left
             /\ dir \in [Slots -> FileIds \cup {None}]
             /\ dir[0] = (IF left = None THEN None ELSE k + 1)
             /\ \A s \in 1..keep : dir[s] = IF s <= k THEN k + 1 - s ELSE None
  <1>1. PICK k \in 0..keep, left \in {None} \cup Lengths :
          /\ records = k /\ acked = 1..k
          /\ dir = [s \in Slots |-> IF s = 0 THEN IF left = None THEN None ELSE k + 1
                                    ELSE IF s <= k THEN k + 1 - s ELSE None]
          /\ files = [f \in 1..(IF left = None THEN k ELSE k + 1) |->
                         IF f <= k THEN [recs |-> <<f>>, size |-> MaxBytes, free |-> 0]
                                   ELSE [recs |-> <<>>, size |-> left, free |-> left]]
    BY DEF Init
  <1>2. keep \in Keeps /\ keep \in Nat /\ k \in Nat /\ k <= MaxRecords
    <2>1. keep \in Keeps /\ keep \in Nat
      BY ConstantTypes DEF Init
    <2>2. keep <= MaxRecords /\ MaxRecords \in Nat
      BY <2>1, ConstantTypes
    <2> QED  BY <1>1, <2>1, <2>2
  <1> DEFINE n == IF left = None THEN k ELSE k + 1
  <1>3. n \in Nat /\ (left # None => left \in Nat) /\ 0 \in Nat /\ MaxBytes \in Nat
    <2>1. Lengths \subseteq Nat /\ MaxBytes \in Nat
      BY ConstantTypes
    <2>2. left # None => left \in Nat
      BY <2>1
    <2>3. k \in Nat /\ k + 1 \in Nat
      BY <1>2
    <2> QED  BY <2>1, <2>2, <2>3
  <1>4. ASSUME NEW f \in 1..n PROVE files[f] \in File
    <2>1. CASE f <= k
      <3>1. <<f>> \in Seq(1..MaxRecords)
        <4>1. f \in 1..MaxRecords
          BY <1>2, <1>3, <2>1, ConstantTypes
        <4> QED  BY <4>1
      <3> QED  BY <1>1, <1>3, <1>4, <2>1, <3>1 DEF File
    <2>2. CASE ~ (f <= k)
      <3>1. left # None /\ <<>> \in Seq(1..MaxRecords)
        BY <1>2, <2>2, EmptySeq
      <3> QED  BY <1>1, <1>3, <1>4, <2>2, <3>1 DEF File
    <2> QED  BY <2>1, <2>2
  <1>5. files \in Seq(File) /\ Len(files) = n
    <2>1. files \in [1..n -> File]
      BY <1>1, <1>4
    <2> QED  BY <1>3, <2>1, SeqDef, LenProperties
  <1>6. \A f \in 1..k : files[f].recs = <<f>> /\ files[f].size = MaxBytes /\ files[f].free = 0
    BY <1>1, <1>2
  <1>7. left # None => /\ files[k + 1].recs = <<>>
                       /\ files[k + 1].size = left /\ files[k + 1].free = left
    BY <1>1, <1>2
  <1>8. /\ dir[0] = (IF left = None THEN None ELSE k + 1)
        /\ \A s \in 1..keep : dir[s] = IF s <= k THEN k + 1 - s ELSE None
    BY <1>1, <1>2 DEF Slots
  <1>9. dir \in [Slots -> FileIds \cup {None}]
    BY <1>1, <1>2, <1>5 DEF Slots, FileIds
  <1> QED  BY <1>1, <1>2, <1>5, <1>6, <1>7, <1>8, <1>9

LEMMA InitPlaced ==
    ASSUME Init
    PROVE  Placed
  <1>1. /\ keep \in Keeps /\ dir \in [Slots -> FileIds \cup {None}] /\ files \in Seq(File)
        /\ records \in 0..MaxRecords /\ acked = 1..records
    <2>1. PICK k \in 0..keep : /\ keep \in Keeps /\ keep \in Nat /\ records = k /\ acked = 1..k
                              /\ dir \in [Slots -> FileIds \cup {None}] /\ files \in Seq(File)
      BY InitFields
    <2>2. keep <= MaxRecords /\ MaxRecords \in Nat
      BY <2>1, ConstantTypes
    <2> QED  BY <2>1, <2>2
  <1>2. /\ handle = None /\ size = 0 /\ at = "down" /\ slot = 0 /\ line = 0
        /\ wrong = {} /\ faults = 0
    BY DEF Init
  <1>3. 0 \in Nat /\ 0 \in Int /\ 0 \in 0..MaxFaults /\ {} \subseteq acked
    BY ConstantTypes
  <1>4. TypeOK
    BY <1>1, <1>2, <1>3 DEF TypeOK, File
  <1>5. Phases
    BY <1>2 DEF Phases
  <1> QED  BY <1>4, <1>5 DEF Placed
LEMMA FailFields ==
    ASSUME TypeOK, Fail
    PROVE  /\ at' \in {"down", "ready"} /\ (at' = "down" <=> line = 0)
           /\ handle' = (IF line = 0 THEN None ELSE handle) /\ line' = 0
           /\ faults' \in 0..MaxFaults /\ faults' # 0
  <1>1. faults \in 0..MaxFaults /\ faults < MaxFaults /\ faults' = faults + 1 /\ MaxFaults \in Nat
    BY ConstantTypes DEF TypeOK, Fail
  <1>2. faults' \in 0..MaxFaults /\ faults' # 0
    BY <1>1
  <1> QED  BY <1>2 DEF Fail

(* The operation that StartRotation begins, at its first call.              *)
LEMMA StartFields ==
    ASSUME TypeOK, StartRotation
    PROVE  /\ at' \in {"shift", "rename", "remove"} /\ slot' = keep - 1 /\ slot' \in Int
           /\ at' = "shift" => slot' \in 1..(keep - 1)
           /\ at' = "rename" => keep >= 1 /\ slot' = 0
           /\ at' = "remove" => keep = 0
  <1>1. keep \in Nat
    BY SlotTypes
  <1>2. at' = FirstCall /\ slot' = keep - 1
    BY DEF StartRotation
  <1>3. CASE keep = 0
    BY <1>2, <1>3 DEF FirstCall
  <1>4. CASE keep = 1
    BY <1>2, <1>4 DEF FirstCall
  <1>5. CASE keep # 0 /\ keep # 1
    BY <1>1, <1>2, <1>5 DEF FirstCall
  <1> QED  BY <1>3, <1>4, <1>5

(* A step that leaves the directory alone.                                  *)
LEMMA PlacedQuiet ==
    ASSUME Placed, UNCHANGED <<keep, dir>>, files' \in Seq(File), Len(files') = Len(files),
           handle' \in {handle, None}, size' \in Nat, at' \in Known, slot' \in Int,
           line' \in Lengths \cup {0}, records' \in 0..MaxRecords,
           acked' \subseteq 1..records', wrong' \subseteq acked', faults' \in 0..MaxFaults,
           at' \in {"ready", "write", "opened", "header"} => handle' # None,
           at' = "shift" => slot' \in 1..(keep - 1),
           Phases'
    PROVE  Placed'
  <1>1. FileIds' = FileIds /\ Slots' = Slots
    BY DEF FileIds, Slots
  <1>2. handle' \in FileIds' \cup {None} /\ dir' \in [Slots' -> FileIds' \cup {None}]
    BY <1>1 DEF Placed, TypeOK
  <1>3. keep' \in Keeps
    BY DEF Placed, TypeOK
  <1> QED  BY <1>2, <1>3 DEF Placed, TypeOK, File, Known

LEMMA PlacedStep ==
    ASSUME Placed, [Next]_vars
    PROVE  Placed'
  <1> USE DEF Placed
  <1>1. /\ keep \in Nat /\ files \in Seq(File) /\ Len(files) \in Nat /\ None \notin FileIds
        /\ FileIds = 1..Len(files) /\ 0 \in Slots /\ Slots = 0..keep
    BY SlotTypes DEF FileIds, Slots
  <1>2. CASE Start \/ WriteHeader \/ NoHeader
    <2>1. UNCHANGED <<keep, dir, files, handle, size, slot, line, records, acked, wrong, faults>>
      BY <1>2 DEF Start, WriteHeader, NoHeader
    <2>2. \/ at = "down" /\ at' = "metadata"
          \/ at = "opened" /\ at' \in {"header", "ready"}
      BY <1>2 DEF Start, WriteHeader, NoHeader
    <2>3. Phases'
      BY <2>1, <2>2 DEF Phases
    <2>4. at' \in Known /\ (at' \in {"ready", "write", "opened", "header"} => handle' # None)
      BY <2>1, <2>2 DEF TypeOK, Known
    <2>5. /\ size' \in Nat /\ slot' \in Int /\ line' \in Lengths \cup {0} /\ records' \in 0..MaxRecords
          /\ acked' \subseteq 1..records' /\ wrong' \subseteq acked' /\ faults' \in 0..MaxFaults
      BY <2>1 DEF TypeOK
    <2>6. files' \in Seq(File) /\ Len(files') = Len(files) /\ handle' \in {handle, None}
          /\ UNCHANGED <<keep, dir>> /\ at' # "shift"
      BY <1>1, <2>1, <2>2
    <2> HIDE DEF Placed
    <2> QED  BY <2>3, <2>4, <2>5, <2>6, PlacedQuiet
  <1>3. CASE Metadata
    <2>1. /\ at = "metadata" /\ line = 0 /\ handle = None
          /\ UNCHANGED <<keep, dir, files, handle, line, records, acked, wrong, faults>>
      BY <1>3 DEF Metadata, Phases
    <2>2. \/ StartRotation /\ size' = 0
          \/ /\ at' = "open" /\ UNCHANGED slot
             /\ size' = IF Active = None THEN 0 ELSE files[Active].size
      BY <1>3 DEF Metadata
    <2>3. size' \in Nat
      <3>1. Active # None => Active \in FileIds
        BY <1>1, SlotTypes DEF Active
      <3>2. \A f \in FileIds : files[f].size \in Nat
        BY SlotTypes DEF File
      <3> QED  BY <2>2, <3>1, <3>2
    <2>4. slot' \in Int /\ at' \in Known /\ (at' = "shift" => slot' \in 1..(keep - 1))
      BY <2>2, StartFields DEF Known, TypeOK
    <2>5. Phases' /\ at' \notin {"ready", "write", "opened", "header"}
      <3>1. CASE StartRotation
        BY <2>1, <3>1, StartFields, <1>1 DEF Phases
      <3>2. CASE at' = "open"
        BY <2>1, <3>2 DEF Phases
      <3> QED  BY <2>2, <3>1, <3>2
    <2>6. /\ line' \in Lengths \cup {0} /\ records' \in 0..MaxRecords
          /\ acked' \subseteq 1..records' /\ wrong' \subseteq acked' /\ faults' \in 0..MaxFaults
      BY <2>1 DEF TypeOK
    <2>7. files' \in Seq(File) /\ Len(files') = Len(files) /\ handle' \in {handle, None}
          /\ UNCHANGED <<keep, dir>>
      BY <1>1, <2>1
    <2> HIDE DEF Placed
    <2> QED  BY <2>3, <2>4, <2>5, <2>6, <2>7, PlacedQuiet
  <1>4. CASE HeaderWritten
    <2>1. /\ at = "header" /\ handle \in FileIds /\ line = 0 /\ at' = "ready"
          /\ files' = [files EXCEPT ![handle].size = @ + Header, ![handle].free = @ + Header]
          /\ size' = size + Header
          /\ UNCHANGED <<keep, dir, handle, slot, line, records, acked, wrong, faults>>
      BY <1>4, SlotTypes DEF HeaderWritten, Phases, TypeOK
    <2>2. Header \in Nat /\ size \in Nat
      BY ConstantTypes DEF Header, TypeOK
    <2>3. files' \in Seq(File) /\ Len(files') = Len(files)
      BY <2>1, <2>2, TouchFields
    <2>4. size' \in Nat /\ at' \in Known
      BY <2>1, <2>2 DEF Known
    <2>5. Phases'
      BY <2>1 DEF Phases
    <2>6. /\ line' \in Lengths \cup {0} /\ records' \in 0..MaxRecords /\ slot' \in Int
          /\ acked' \subseteq 1..records' /\ wrong' \subseteq acked' /\ faults' \in 0..MaxFaults
      BY <2>1 DEF TypeOK
    <2>7. handle' \in {handle, None} /\ UNCHANGED <<keep, dir>> /\ at' # "shift" /\ handle' # None
      BY <2>1, <1>1
    <2> HIDE DEF Placed
    <2> QED  BY <2>3, <2>4, <2>5, <2>6, <2>7, PlacedQuiet
  <1>5. ASSUME NEW length \in Lengths, WriteLine(length) PROVE Placed'
    <2>1. /\ at = "ready" /\ handle # None /\ line' = length /\ records' = records + 1
          /\ records < MaxRecords
          /\ UNCHANGED <<keep, dir, files, handle, size, acked, wrong, faults>>
      BY <1>5 DEF WriteLine, TypeOK
    <2>2. StartRotation \/ (at' = "write" /\ UNCHANGED slot)
      BY <1>5 DEF WriteLine
    <2>3. slot' \in Int /\ at' \in Known /\ (at' = "shift" => slot' \in 1..(keep - 1))
          /\ at' \in {"shift", "rename", "remove", "write"}
      BY <2>2, StartFields DEF Known, TypeOK
    <2>4. length # 0 /\ records' \in 0..MaxRecords /\ records' # 0 /\ 1..records \subseteq 1..records'
      BY <2>1, ConstantTypes DEF TypeOK
    <2>5. Phases'
      <3>1. CASE StartRotation
        BY <2>1, <2>4, <3>1, StartFields, <1>1 DEF Phases
      <3>2. CASE at' = "write"
        BY <2>1, <2>4, <3>2 DEF Phases
      <3> QED  BY <2>2, <3>1, <3>2
    <2>6. /\ line' \in Lengths \cup {0} /\ size' \in Nat
          /\ acked' \subseteq 1..records' /\ wrong' \subseteq acked' /\ faults' \in 0..MaxFaults
      BY <2>1, <2>4 DEF TypeOK
    <2>7. files' \in Seq(File) /\ Len(files') = Len(files) /\ handle' \in {handle, None}
          /\ UNCHANGED <<keep, dir>> /\ handle' # None
      BY <1>1, <2>1
    <2> HIDE DEF Placed
    <2> QED  BY <2>3, <2>4, <2>5, <2>6, <2>7, PlacedQuiet
  <1>6. CASE WriteDone
    <2>1. /\ at = "write" /\ handle \in FileIds /\ line \in Nat /\ records # 0
          /\ files' = [files EXCEPT ![handle].recs = Append(@, records), ![handle].size = @ + line]
          /\ size' = size + line /\ acked' = acked \cup {records} /\ wrong' \in {wrong, wrong \cup {records}}
          /\ at' = "ready" /\ line' = 0
          /\ UNCHANGED <<keep, dir, handle, slot, records, faults>>
      BY <1>6, SlotTypes, ConstantTypes DEF WriteDone, Phases, TypeOK
    <2>2. records \in 1..MaxRecords /\ records \in 1..records
      BY <2>1, ConstantTypes DEF TypeOK
    <2>3. files' \in Seq(File) /\ Len(files') = Len(files)
      BY <2>1, <2>2, RecordFields
    <2>4. size' \in Nat /\ at' \in Known /\ line' \in Lengths \cup {0}
      BY <2>1 DEF Known, TypeOK
    <2>5. Phases'
      BY <2>1, <1>1 DEF Phases
    <2>6. /\ records' \in 0..MaxRecords /\ slot' \in Int
          /\ acked' \subseteq 1..records' /\ wrong' \subseteq acked' /\ faults' \in 0..MaxFaults
      BY <2>1, <2>2 DEF TypeOK
    <2>7. handle' \in {handle, None} /\ UNCHANGED <<keep, dir>> /\ at' # "shift" /\ handle' # None
      BY <2>1, <1>1
    <2> HIDE DEF Placed
    <2> QED  BY <2>3, <2>4, <2>5, <2>6, <2>7, PlacedQuiet
  <1>7. CASE WriteFails \/ CallFails
    <2>1. Fail /\ UNCHANGED <<keep, dir, size, slot, records, acked, wrong>> /\ at # "down"
      BY <1>7 DEF WriteFails, CallFails
    <2>2. files' \in Seq(File) /\ Len(files') = Len(files)
      <3>1. CASE CallFails
        BY <1>1, <3>1 DEF CallFails
      <3>2. CASE WriteFails
        <4>1. PICK part \in 0..((IF at = "write" THEN line ELSE Header) - 1) :
                files' = [files EXCEPT ![handle].size = @ + part, ![handle].free = @ + part]
          BY <3>2 DEF WriteFails
        <4>2. part \in Nat /\ handle \in FileIds
          BY <3>2, <4>1, SlotTypes DEF WriteFails, TypeOK
        <4> QED  BY <4>1, <4>2, TouchFields
      <3> QED  BY <1>7, <3>1, <3>2
    <2>3. Phases' /\ (at' \in {"ready", "write", "opened", "header"} => handle' # None)
      BY <2>1, FailFields DEF Phases
    <2>4. /\ line' \in Lengths \cup {0} /\ records' \in 0..MaxRecords /\ slot' \in Int /\ size' \in Nat
          /\ acked' \subseteq 1..records' /\ wrong' \subseteq acked' /\ faults' \in 0..MaxFaults
      BY <2>1, FailFields DEF TypeOK
    <2>5. handle' \in {handle, None} /\ UNCHANGED <<keep, dir>> /\ at' # "shift" /\ at' \in Known
      BY <2>1, FailFields DEF Known
    <2> HIDE DEF Placed
    <2> QED  BY <2>2, <2>3, <2>4, <2>5, PlacedQuiet
  <1>8. CASE Crash
    <2>1. /\ at' = "down" /\ handle' = None /\ line' = 0
          /\ UNCHANGED <<keep, dir, files, size, slot, records, acked, wrong>>
          /\ faults' \in 0..MaxFaults
      BY <1>8, ConstantTypes DEF Crash, TypeOK
    <2>2. Phases'
      BY <2>1 DEF Phases
    <2>3. /\ line' \in Lengths \cup {0} /\ records' \in 0..MaxRecords /\ slot' \in Int /\ size' \in Nat
          /\ acked' \subseteq 1..records' /\ wrong' \subseteq acked'
      BY <2>1 DEF TypeOK
    <2>4. /\ at' # "shift" /\ at' \in Known /\ at' \notin {"ready", "write", "opened", "header"}
          /\ UNCHANGED <<keep, dir>> /\ files' \in Seq(File) /\ Len(files') = Len(files)
          /\ handle' \in {handle, None}
      BY <1>1, <2>1 DEF Known
    <2> HIDE DEF Placed
    <2> QED  BY <2>1, <2>2, <2>3, <2>4, PlacedQuiet
  <1>9. CASE Shift
    <2>1. /\ at = "shift" /\ slot \in 1..(keep - 1) /\ slot' = slot - 1
          /\ at' = (IF slot = 1 THEN "rename" ELSE "shift") /\ Move(slot, slot + 1)
          /\ UNCHANGED <<keep, files, handle, size, line, records, acked, wrong, faults>>
      BY <1>9 DEF Shift, TypeOK
    <2>2. slot \in Slots /\ slot + 1 \in Slots
      BY <1>1, <2>1
    <2>3. dir' \in [Slots -> FileIds \cup {None}] /\ dir'[slot] = None
      BY <2>1, <2>2, MoveFields
    <2>4. slot' \in Int /\ (at' = "shift" => slot' \in 1..(keep - 1)) /\ slot' + 1 = slot
          /\ (at' = "rename" => slot' = 0 /\ keep >= 1) /\ at' \in {"shift", "rename"}
      BY <1>1, <2>1
    <2>5. TypeOK'
      BY <2>1, <2>3, <2>4 DEF TypeOK, Slots, FileIds
    <2>6. Phases'
      BY <2>1, <2>3, <2>4 DEF Phases
    <2> QED  BY <2>5, <2>6
  <1>10. CASE RenameActive
    <2>1. /\ at = "rename" /\ keep >= 1 /\ at' = "open" /\ Move(0, 1)
          /\ UNCHANGED <<keep, files, handle, size, slot, line, records, acked, wrong, faults>>
      BY <1>10 DEF RenameActive, Phases
    <2>2. 0 + 1 = 1 /\ 1 \in Slots
      BY <1>1, <2>1
    <2>3. dir' \in [Slots -> FileIds \cup {None}] /\ dir'[0] = None
      BY <1>1, <2>1, <2>2, MoveFields
    <2>4. TypeOK'
      BY <2>1, <2>3 DEF TypeOK, Slots, FileIds
    <2>5. Phases'
      BY <2>1, <2>3 DEF Phases, Active
    <2> QED  BY <2>4, <2>5
  <1>11. CASE RemoveActive
    <2>1. /\ at = "remove" /\ at' = "open" /\ dir' = [dir EXCEPT ![0] = None]
          /\ UNCHANGED <<keep, files, handle, size, slot, line, records, acked, wrong, faults>>
      BY <1>11 DEF RemoveActive
    <2>2. dir' \in [Slots -> FileIds \cup {None}] /\ dir'[0] = None
      BY <1>1, <2>1 DEF TypeOK
    <2>3. TypeOK'
      BY <2>1, <2>2 DEF TypeOK, Slots, FileIds
    <2>4. Phases'
      BY <2>1, <2>2 DEF Phases, Active
    <2> QED  BY <2>3, <2>4
  <1>12. CASE Open
    <2>1. /\ at = "open" /\ size' \in Nat /\ at' = (IF line = 0 THEN "opened" ELSE "write")
          /\ UNCHANGED <<keep, slot, line, records, acked, wrong, faults>>
      BY <1>12 DEF Open, TypeOK
    <2>2. files' \in Seq(File) /\ Len(files') \in Nat /\ dir' \in [Slots -> FileIds' \cup {None}]
          /\ handle' \in FileIds' /\ handle' # None
      <3>1. CASE UNCHANGED <<files, dir>> /\ handle' = Active /\ Active # None
        BY <1>1, <3>1, SlotTypes DEF TypeOK, FileIds, Active
      <3>2. CASE /\ handle' = Len(files) + 1 /\ files' \in Seq(File) /\ Len(files') = Len(files) + 1
                 /\ dir' \in [Slots -> 1..(Len(files) + 1) \cup {None}]
        <4>1. None \notin Nat
          BY ConstantTypes
        <4> QED  BY <1>1, <3>2, <4>1 DEF FileIds
      <3> QED  BY <1>12, <3>1, <3>2, OpenFields
    <2>3. TypeOK'
      BY <2>1, <2>2 DEF TypeOK, Slots, File
    <2>4. Phases'
      BY <2>1, <2>2 DEF Phases
    <2> QED  BY <2>3, <2>4
  <1>13. CASE UNCHANGED vars
    <2>1. TypeOK'
      BY <1>13 DEF vars, TypeOK, Slots, FileIds
    <2>2. Phases'
      BY <1>13 DEF vars, Phases, Active
    <2> QED  BY <2>1, <2>2
  <1> QED  BY <1>2, <1>3, <1>4, <1>5, <1>6, <1>7, <1>8, <1>9, <1>10, <1>11, <1>12, <1>13 DEF Next
-----------------------------------------------------------------------------
(* The records in the directory.  A file is in one slot only, and nothing   *)
(* lies below the slot of the file the writer has open, which may be a      *)
(* backup, or gone, after a rotation that failed: so the record it appends, *)
(* the newest one, goes to the newest file there is.                        *)

RecsOf(f) == Range(files[f].recs)

Distinct == \A s, u \in Slots : dir[s] # None /\ dir[s] = dir[u] => s = u

HandleNewest ==
    handle # None => \A s \in Slots : dir[s] # None => \E u \in 0..s : dir[u] = handle

OrdinalsGiven ==
    \A f \in FileIds : \A r \in RecsOf(f) : r <= records /\ (line # 0 => r < records)

SlotsOrdered == \A s, u \in Slots : s < u => \A r \in In(s), q \in In(u) : q < r

FilesSorted ==
    \A f \in FileIds : \A i, j \in 1..Len(files[f].recs) :
          i < j => files[f].recs[i] < files[f].recs[j]

Layout ==
    /\ Placed /\ Distinct /\ HandleNewest /\ OrdinalsGiven
    /\ SlotsOrdered /\ FilesSorted /\ NewestSurvive

LEMMA RecsAreOrdinals ==
    ASSUME TypeOK, NEW f \in FileIds
    PROVE  /\ files[f].recs \in Seq(Nat) /\ RecsOf(f) \subseteq Nat
           /\ Len(files[f].recs) \in Nat
           /\ RecsOf(f) = {files[f].recs[i] : i \in 1..Len(files[f].recs)}
  <1>1. files[f].recs \in Seq(1..MaxRecords)
    BY SlotTypes DEF File
  <1>2. Len(files[f].recs) \in Nat /\ \A i \in 1..Len(files[f].recs) : files[f].recs[i] \in 1..MaxRecords
    BY <1>1, LenProperties, ElementOfSeq
  <1>3. 1..MaxRecords \subseteq Nat
    BY ConstantTypes
  <1>4. files[f].recs \in Seq(Nat)
    BY <1>1, <1>3, SeqMonotonic
  <1>5. RecsOf(f) = {files[f].recs[i] : i \in 1..Len(files[f].recs)}
    BY <1>4, RangeEquality DEF RecsOf
  <1> QED  BY <1>2, <1>3, <1>4, <1>5

LEMMA InIsRecs ==
    ASSUME TypeOK, NEW s \in Slots
    PROVE  In(s) = (IF dir[s] = None THEN {} ELSE RecsOf(dir[s])) /\ In(s) \subseteq Nat
  <1>1. dir[s] # None => dir[s] \in FileIds
    BY SlotTypes
  <1> QED  BY <1>1, RecsAreOrdinals DEF In

LEMMA NamedIn ==
    \A r : r \in Named <=> \E s \in Slots : r \in In(s)
  BY DEF Named

(* A slot has the records of the file it is given.                          *)
LEMMA InMoved ==
    ASSUME TypeOK, NEW s \in Slots, NEW u \in Slots, dir'[u] = dir[s],
           \A f \in FileIds : files'[f].recs = files[f].recs
    PROVE  In(u)' = In(s)
  <1>1. CASE dir[s] = None
    BY <1>1 DEF In
  <1>2. CASE dir[s] # None
    <2>1. files'[dir[s]].recs = files[dir[s]].recs
      BY <1>2, SlotTypes
    <2> QED  BY <1>2, <2>1 DEF In
  <1> QED  BY <1>1, <1>2

(* The directory and the records stay; the handle may be closed.            *)
LEMMA QuietKeepsLayout ==
    ASSUME Layout, Placed', UNCHANGED <<keep, dir, acked>>, Len(files') = Len(files),
           \A f \in FileIds : files'[f].recs = files[f].recs,
           handle' \in {handle, None} \/ handle' = Active,
           \/ records' = records + 1
           \/ records' = records /\ (line' # 0 => line # 0)
    PROVE  Layout'
  <1>1. Slots' = Slots /\ FileIds' = FileIds /\ records \in Nat /\ TypeOK /\ keep \in Nat
    <2>1. TypeOK /\ Slots' = Slots /\ FileIds' = FileIds
      BY DEF Slots, FileIds, Layout, Placed
    <2>2. keep \in Nat
      BY <2>1, SlotTypes
    <2>3. records \in Nat
      BY <2>1, ConstantTypes DEF TypeOK
    <2> QED  BY <2>1, <2>2, <2>3
  <1>2. \A s \in Slots : In(s)' = In(s)
    BY <1>1, InMoved
  <1>3. \A f \in FileIds : RecsOf(f)' = RecsOf(f)
    BY DEF RecsOf
  <1>4. Distinct'
    BY <1>1 DEF Layout, Distinct
  <1>5. HandleNewest'
    BY <1>1 DEF Layout, HandleNewest, Slots, Active
  <1>6. OrdinalsGiven'
    <2> SUFFICES ASSUME NEW f \in FileIds, NEW r \in RecsOf(f)
                 PROVE  r <= records' /\ (line' # 0 => r < records')
      BY <1>1, <1>3 DEF OrdinalsGiven
    <2>1. r \in Nat /\ r <= records /\ (line # 0 => r < records)
      BY <1>1, RecsAreOrdinals DEF Layout, OrdinalsGiven
    <2> QED  BY <1>1, <2>1
  <1>7. SlotsOrdered'
    BY <1>1, <1>2 DEF Layout, SlotsOrdered
  <1>8. FilesSorted'
    BY <1>1 DEF Layout, FilesSorted
  <1>9. Named' = Named
    BY <1>1, <1>2 DEF Named
  <1>10. NewestSurvive'
    BY <1>9 DEF Layout, NewestSurvive
  <1> QED  BY <1>4, <1>5, <1>6, <1>7, <1>8, <1>10 DEF Layout

(* A file moves up to a slot that is free, or is the last: then the oldest  *)
(* records are given up.                                                    *)
LEMMA MoveKeepsLayout ==
    ASSUME Layout, Placed', NEW from \in Slots, from + 1 \in Slots, Move(from, from + 1),
           from = keep - 1 \/ dir[from + 1] = None,
           UNCHANGED <<keep, files, handle, line, records, acked>>
    PROVE  Layout'
  <1>1. /\ Slots' = Slots /\ FileIds' = FileIds /\ TypeOK /\ Slots = 0..keep /\ keep \in Nat
        /\ \A f \in FileIds : files'[f].recs = files[f].recs
    BY SlotTypes DEF Slots, FileIds, Layout, Placed
  <1>2. OrdinalsGiven' /\ FilesSorted'
    BY <1>1 DEF Layout, OrdinalsGiven, FilesSorted, RecsOf
  <1>3. CASE dir[from] = None
    <2>1. UNCHANGED dir
      BY <1>3 DEF Move
    <2> QED  BY <1>1, <2>1, QuietKeepsLayout
  <1>4. CASE dir[from] # None
    <2>1. \A s \in Slots : dir'[s] = IF s = from + 1 THEN dir[from]
                                     ELSE IF s = from THEN None ELSE dir[s]
      BY <1>1, <1>4, MoveFields
    <2>2. /\ In(from + 1)' = In(from) /\ In(from)' = {}
          /\ \A s \in Slots \ {from, from + 1} : In(s)' = In(s)
      <3>1. In(from + 1)' = In(from)
        BY <1>1, <2>1, InMoved
      <3>2. In(from)' = {}
        BY <1>1, <2>1 DEF In
      <3>3. \A s \in Slots \ {from, from + 1} : In(s)' = In(s)
        BY <1>1, <2>1, InMoved
      <3> QED  BY <3>1, <3>2, <3>3
    <2>3. Distinct'
      BY <1>1, <2>1 DEF Layout, Distinct
    <2>4. HandleNewest'
      <3> SUFFICES ASSUME handle # None, NEW s \in Slots, dir'[s] # None
                   PROVE  \E u \in 0..s : dir'[u] = handle
        BY <1>1 DEF HandleNewest
      <3>1. PICK v \in 0..from : dir[v] = handle
        BY <1>4 DEF Layout, HandleNewest
      <3>2. v \in Slots /\ v # from + 1
        BY <1>1, <3>1
      <3>3. CASE s = from + 1
        <4>1. CASE v = from
          BY <1>1, <2>1, <3>1, <3>3, <4>1
        <4>2. CASE v # from
          BY <1>1, <2>1, <3>1, <3>2, <3>3, <4>2
        <4> QED  BY <4>1, <4>2
      <3>4. CASE s # from + 1
        <4>1. s # from /\ dir[s] # None
          BY <2>1, <3>4
        <4>2. PICK u \in 0..s : dir[u] = handle
          BY <4>1 DEF Layout, HandleNewest
        <4>3. u \in Slots /\ u = v
          BY <1>1, <3>1, <3>2, <4>2 DEF Layout, Distinct
        <4>4. CASE u = from
          <5>1. from + 1 \in 0..s /\ dir'[from + 1] = handle
            BY <1>1, <2>1, <3>4, <4>1, <4>2, <4>4
          <5> QED  BY <5>1
        <4>5. CASE u # from
          BY <2>1, <3>2, <4>2, <4>3, <4>5
        <4> QED  BY <4>4, <4>5
      <3> QED  BY <3>3, <3>4
    <2>5. SlotsOrdered'
      <3> SUFFICES ASSUME NEW s \in Slots, NEW u \in Slots, s < u, NEW r \in In(s)', NEW q \in In(u)'
                   PROVE  q < r
        BY <1>1 DEF SlotsOrdered
      <3>1. s # from /\ u # from
        BY <2>2
      <3>2. CASE s = from + 1
        <4>1. u \in Slots \ {from, from + 1} /\ from < u
          BY <1>1, <3>1, <3>2
        <4> QED  BY <2>2, <3>2, <4>1 DEF Layout, SlotsOrdered
      <3>3. CASE u = from + 1
        <4>1. s \in Slots \ {from, from + 1} /\ s < from
          BY <1>1, <3>1, <3>3
        <4> QED  BY <2>2, <3>3, <4>1 DEF Layout, SlotsOrdered
      <3>4. CASE s # from + 1 /\ u # from + 1
        BY <2>2, <3>1, <3>4 DEF Layout, SlotsOrdered
      <3> QED  BY <3>2, <3>3, <3>4
    <2>6. NewestSurvive'
      <3> SUFFICES ASSUME NEW r \in Named', NEW q \in acked, r < q PROVE q \in Named'
        BY DEF NewestSurvive
      <3>1. PICK s \in Slots : r \in In(s)'
        BY <1>1, NamedIn DEF Named
      <3>2. PICK v \in Slots : r \in In(v) /\ v # from + 1
        <4>1. CASE s = from + 1
          BY <1>1, <2>2, <3>1, <4>1
        <4>2. CASE s # from + 1
          BY <2>2, <3>1, <4>2
        <4> QED  BY <4>1, <4>2
      <3>3. r \in Named /\ q \in Named
        BY <3>2, NamedIn DEF Layout, NewestSurvive
      <3>4. PICK u \in Slots : q \in In(u)
        BY <3>3, NamedIn
      <3>5. CASE u = from + 1
        <4>1. dir[from + 1] # None
          BY <3>4, <3>5 DEF In
        <4>2. v < u
          BY <1>1, <3>2, <3>5, <4>1
        <4>3. q < r /\ q \in Nat /\ r \in Nat
          BY <1>1, <3>2, <3>4, <4>2, InIsRecs DEF Layout, SlotsOrdered
        <4> QED  BY <4>3
      <3>6. CASE u # from + 1
        <4>1. \E w \in Slots : q \in In(w)'
          BY <2>2, <3>4, <3>6
        <4> QED  BY <1>1, <4>1 DEF Named
      <3> QED  BY <3>5, <3>6
    <2> QED  BY <1>2, <2>3, <2>4, <2>5, <2>6 DEF Layout
  <1> QED  BY <1>3, <1>4
LEMMA RemoveKeepsLayout ==
    ASSUME Layout, Placed', RemoveActive
    PROVE  Layout'
  <1>1. /\ keep = 0 /\ dir' = [dir EXCEPT ![0] = None]
        /\ UNCHANGED <<keep, files, handle, line, records, acked>>
    BY DEF RemoveActive, Layout, Placed, Phases
  <1>2. Slots' = Slots /\ FileIds' = FileIds /\ TypeOK /\ Slots = {0}
    BY <1>1 DEF Slots, FileIds, Layout, Placed
  <1>3. dir'[0] = None
    BY <1>1, <1>2 DEF TypeOK
  <1>4. In(0)' = {}
    BY <1>3 DEF In
  <1>5. OrdinalsGiven' /\ FilesSorted'
    BY <1>1, <1>2 DEF Layout, OrdinalsGiven, FilesSorted, RecsOf
  <1>6. Distinct' /\ HandleNewest'
    BY <1>2, <1>3 DEF Distinct, HandleNewest
  <1>7. SlotsOrdered'
    BY <1>2, <1>4 DEF SlotsOrdered
  <1>8. Named' = {}
    BY <1>2, <1>4 DEF Named
  <1>9. NewestSurvive'
    BY <1>8 DEF NewestSurvive
  <1> QED  BY <1>5, <1>6, <1>7, <1>9 DEF Layout

LEMMA OpenKeepsLayout ==
    ASSUME Layout, Placed', Open
    PROVE  Layout'
  <1>1. UNCHANGED <<keep, line, records, acked>> /\ TypeOK
    BY DEF Open, Layout, Placed
  <1>2. CASE Active # None /\ handle' = Active /\ UNCHANGED <<files, dir>>
    BY <1>1, <1>2, QuietKeepsLayout
  <1>3. CASE /\ Active = None /\ handle' = Len(files) + 1
             /\ Len(files') = Len(files) + 1
             /\ \A g \in FileIds : files'[g] = files[g]
             /\ files'[Len(files) + 1].recs = <<>>
             /\ \A s \in Slots : dir'[s] = IF s = 0 THEN Len(files) + 1 ELSE dir[s]
    <2> DEFINE new == Len(files) + 1
    <2>1. /\ Slots' = Slots /\ Slots = 0..keep /\ keep \in Nat /\ Len(files) \in Nat
          /\ FileIds' = FileIds \cup {new} /\ new \notin FileIds /\ new # None
      <3>1. keep \in Nat /\ Len(files) \in Nat /\ None \notin Nat
        BY <1>1, SlotTypes, ConstantTypes
      <3> QED  BY <1>1, <1>3, <3>1 DEF Slots, FileIds
    <2>2. dir'[0] = new /\ \A s \in Slots : s # 0 => dir'[s] = dir[s]
      BY <1>3, <2>1
    <2>3. \A f \in FileIds : files'[f].recs = files[f].recs
      BY <1>3
    <2>4. \A f \in FileIds : Range(files'[f].recs) = RecsOf(f)
      BY <2>3 DEF RecsOf
    <2>5. files'[new].recs = <<>> /\ Range(files'[new].recs) = {}
      BY <1>3 DEF Range
    <2>6. \A s \in Slots : dir[s] \notin {new} /\ (dir[s] # None => dir[s] \in FileIds)
      BY <1>1, <2>1, SlotTypes
    <2>7. \A s \in Slots : In(s)' = In(s)
      <3> TAKE s \in Slots
      <3>1. CASE s = 0
        <4>1. In(0) = {}
          BY <1>3 DEF In, Active
        <4>2. In(0)' = {}
          BY <2>2, <2>5 DEF In
        <4> QED  BY <3>1, <4>1, <4>2
      <3>2. CASE s # 0
        BY <1>1, <2>2, <2>3, <3>2, InMoved
      <3> QED  BY <3>1, <3>2
    <2> HIDE DEF new
    <2>8. Distinct'
      BY <2>1, <2>2, <2>6 DEF Layout, Distinct
    <2>9. HandleNewest'
      <3>1. handle' = new
        BY <1>3 DEF new
      <3>2. \A s \in Slots : 0 \in 0..s
        BY <2>1
      <3> QED  BY <2>1, <2>2, <3>1, <3>2 DEF HandleNewest
    <2>10. OrdinalsGiven'
      <3> SUFFICES ASSUME NEW f \in FileIds', NEW r \in Range(files'[f].recs)
                   PROVE  r <= records /\ (line # 0 => r < records)
        BY <1>1 DEF OrdinalsGiven, RecsOf
      <3> QED  BY <2>1, <2>4, <2>5 DEF Layout, OrdinalsGiven
    <2>11. SlotsOrdered'
      BY <2>1, <2>7 DEF Layout, SlotsOrdered
    <2>12. FilesSorted'
      BY <2>1, <2>3, <2>5 DEF Layout, FilesSorted
    <2>13. Named' = Named
      BY <2>1, <2>7 DEF Named
    <2>14. NewestSurvive'
      BY <1>1, <2>13 DEF Layout, NewestSurvive
    <2> QED  BY <2>8, <2>9, <2>10, <2>11, <2>12, <2>14 DEF Layout
  <1> QED  BY <1>1, <1>2, <1>3, OpenFields

(* The record in hand, the newest, goes to the file below all others.       *)
LEMMA WriteKeepsLayout ==
    ASSUME Layout, Placed', WriteDone
    PROVE  Layout'
  <1>1. /\ TypeOK /\ line # 0 /\ handle \in FileIds /\ handle # None /\ line \in Nat
        /\ UNCHANGED <<keep, dir, handle, records>> /\ line' = 0 /\ acked' = acked \cup {records}
        /\ records \in 1..MaxRecords
        /\ files' = [files EXCEPT ![handle].recs = Append(@, records), ![handle].size = @ + line]
    <2>1. TypeOK /\ line # 0 /\ handle # None /\ records # 0
      BY DEF Layout, Placed, Phases, WriteDone
    <2>2. handle \in FileIds /\ line \in Nat /\ records \in 1..MaxRecords
      BY <2>1, SlotTypes, ConstantTypes DEF TypeOK
    <2> QED  BY <2>1, <2>2 DEF WriteDone
  <1>2. /\ Slots' = Slots /\ Slots = 0..keep /\ keep \in Nat
    BY <1>1, SlotTypes DEF Slots
  <1>3. /\ Len(files') = Len(files) /\ files'[handle].recs = Append(files[handle].recs, records)
        /\ \A g \in FileIds : g # handle => files'[g] = files[g]
    BY <1>1, RecordFields
  <1>4. FileIds' = FileIds
    BY <1>3 DEF FileIds
  <1> DEFINE old == files[handle].recs
  <1>5. /\ old \in Seq(Nat) /\ Len(old) \in Nat /\ records \in Nat
        /\ Len(Append(old, records)) = Len(old) + 1
        /\ \A i \in 1..Len(old) : Append(old, records)[i] = old[i]
        /\ Append(old, records)[Len(old) + 1] = records
    <2>1. old \in Seq(Nat) /\ Len(old) \in Nat
      BY <1>1, RecsAreOrdinals
    <2>2. records \in Nat
      BY <1>1, ConstantTypes
    <2> QED  BY <2>1, <2>2, AppendProperties
  <1>6. Range(files'[handle].recs) = RecsOf(handle) \cup {records}
    <2>1. 1..(Len(old) + 1) = 1..Len(old) \cup {Len(old) + 1}
      BY <1>5
    <2>2. Range(Append(old, records)) = {Append(old, records)[i] : i \in 1..(Len(old) + 1)}
      <3> HIDE DEF old
      <3> DEFINE longer == Append(old, records)
      <3>1. longer \in Seq(Nat) /\ Len(longer) = Len(old) + 1
        BY <1>5, AppendProperties
      <3> HIDE DEF longer
      <3>2. Range(longer) = {longer[i] : i \in 1..Len(longer)}
        BY <3>1, RangeEquality
      <3>3. Range(longer) = {longer[i] : i \in 1..(Len(old) + 1)}
        BY <3>1, <3>2
      <3> QED  BY <3>3 DEF longer
    <2>3. RecsOf(handle) = {old[i] : i \in 1..Len(old)}
      BY <1>1, RecsAreOrdinals
    <2>4. files'[handle].recs = Append(old, records)
      BY <1>3
    <2> HIDE DEF old
    <2> QED  BY <1>5, <2>1, <2>2, <2>3, <2>4
  <1>7. \A f \in FileIds : f # handle => Range(files'[f].recs) = RecsOf(f)
    BY <1>3 DEF RecsOf
  <1>8. \A f \in FileIds : \A r \in RecsOf(f) : r \in Nat /\ r < records
    BY <1>1, RecsAreOrdinals DEF Layout, OrdinalsGiven
  <1>9. OrdinalsGiven'
    <2> SUFFICES ASSUME NEW f \in FileIds, NEW r \in Range(files'[f].recs) PROVE r <= records
      BY <1>1, <1>4 DEF OrdinalsGiven, RecsOf
    <2>1. CASE r = records
      BY <1>5, <2>1
    <2>2. CASE r \in RecsOf(f)
      BY <1>5, <1>8, <2>2
    <2> QED  BY <1>6, <1>7, <2>1, <2>2
  <1>10. Distinct' /\ HandleNewest'
    BY <1>1, <1>2 DEF Layout, Distinct, HandleNewest
  <1>11. FilesSorted'
    <2> SUFFICES ASSUME NEW f \in FileIds, NEW i \in 1..Len(files'[f].recs),
                        NEW j \in 1..Len(files'[f].recs), i < j
                 PROVE  files'[f].recs[i] < files'[f].recs[j]
      BY <1>4 DEF FilesSorted
    <2>1. CASE f # handle
      BY <1>3, <2>1 DEF Layout, FilesSorted
    <2>2. CASE f = handle
      <3>0. files'[f].recs = Append(old, records)
        BY <1>3, <2>2
      <3>1. i \in 1..Len(old) /\ files'[f].recs[i] = old[i]
        <4> HIDE DEF old
        <4>1. i \in 1..(Len(old) + 1) /\ j \in 1..(Len(old) + 1)
          BY <1>5, <3>0
        <4>2. i \in 1..Len(old)
          BY <1>5, <4>1
        <4> QED  BY <1>5, <3>0, <4>2
      <3>2. CASE j \in 1..Len(old)
        BY <1>3, <1>5, <2>2, <3>1, <3>2 DEF Layout, FilesSorted
      <3>3. CASE j = Len(old) + 1
        <4>1. old[i] \in RecsOf(handle)
          BY <1>1, <3>1, RecsAreOrdinals
        <4> QED  BY <1>1, <1>3, <1>5, <1>8, <2>2, <3>1, <3>3, <4>1
      <3> QED  BY <1>3, <1>5, <2>2, <3>2, <3>3
    <2> QED  BY <2>1, <2>2
  <1> HIDE DEF old
  <1>12. \A s \in Slots : In(s)' = IF dir[s] = handle THEN In(s) \cup {records} ELSE In(s)
    <2> TAKE s \in Slots
    <2>1. In(s) = (IF dir[s] = None THEN {} ELSE RecsOf(dir[s])) /\ (dir[s] # None => dir[s] \in FileIds)
      BY <1>1, InIsRecs, SlotTypes
    <2>2. In(s)' = IF dir[s] = None THEN {} ELSE Range(files'[dir[s]].recs)
      <3>1. dir[s] # None => files'[dir[s]].recs \in Seq(Nat)
        <4>1. TypeOK' /\ (dir[s] # None => dir[s] \in FileIds')
          BY <1>4, <2>1 DEF Placed
        <4>2. \A f \in FileIds' : files'[f].recs \in Seq(1..MaxRecords)
          <5>1. files' \in Seq(File) /\ FileIds' = 1..Len(files')
            BY <4>1 DEF TypeOK, File, FileIds
          <5>2. \A f \in FileIds' : files'[f] \in File
            BY <5>1, ElementOfSeq
          <5> QED  BY <5>2 DEF File
        <4>3. 1..MaxRecords \subseteq Nat
          BY ConstantTypes
        <4> QED  BY <4>1, <4>2, <4>3, SeqMonotonic
      <3>2. dir[s] # None => Range(files'[dir[s]].recs) =
              {files'[dir[s]].recs[i] : i \in 1..Len(files'[dir[s]].recs)}
        BY <3>1, RangeEquality
      <3> QED  BY <1>1, <3>2 DEF In
    <2>3. CASE dir[s] = handle
      BY <1>1, <1>6, <2>1, <2>2, <2>3
    <2>4. CASE dir[s] # handle
      <3>1. dir[s] # None => Range(files'[dir[s]].recs) = RecsOf(dir[s])
        BY <1>7, <2>1, <2>4
      <3> QED  BY <2>1, <2>2, <2>4, <3>1
    <2> QED  BY <2>3, <2>4
  <1>13. \A s \in Slots : \A r \in In(s) : r \in Nat /\ r < records
    BY <1>1, <1>8, InIsRecs, SlotTypes
  <1>14. SlotsOrdered'
    <2> SUFFICES ASSUME NEW s \in Slots, NEW u \in Slots, s < u, NEW r \in In(s)', NEW q \in In(u)'
                 PROVE  q < r
      BY <1>2 DEF SlotsOrdered
    <2>1. q \in In(u)
      <3>1. CASE dir[u] = handle
        <4>1. CASE dir[s] = None
          BY <1>1, <1>12, <4>1 DEF In
        <4>2. CASE dir[s] # None
          <5>1. PICK v \in 0..s : dir[v] = handle
            BY <1>1, <4>2 DEF Layout, HandleNewest
          <5>2. v \in Slots /\ v # u
            BY <1>2, <5>1
          <5> QED  BY <1>1, <3>1, <5>1, <5>2 DEF Layout, Distinct
        <4> QED  BY <4>1, <4>2
      <3>2. CASE dir[u] # handle
        BY <1>12, <3>2
      <3> QED  BY <3>1, <3>2
    <2>2. CASE r \in In(s)
      BY <2>1, <2>2 DEF Layout, SlotsOrdered
    <2>3. CASE r = records
      BY <1>13, <2>1, <2>3
    <2> QED  BY <1>12, <2>2, <2>3
  <1>15. NewestSurvive'
    <2> SUFFICES ASSUME NEW r \in Named', NEW q \in acked', r < q PROVE q \in Named'
      BY DEF NewestSurvive
    <2>1. PICK s \in Slots : r \in In(s)'
      BY <1>2, NamedIn DEF Named
    <2>2. \A x : x \in Named => x \in Named'
      BY <1>2, <1>12 DEF Named
    <2>3. CASE q = records
      <3>1. dir[s] # None
        BY <1>1, <2>1 DEF In
      <3>2. PICK v \in 0..s : dir[v] = handle
        BY <1>1, <3>1 DEF Layout, HandleNewest
      <3>3. v \in Slots /\ records \in In(v)'
        BY <1>2, <1>12, <3>2
      <3> QED  BY <1>2, <2>3, <3>3 DEF Named
    <2>4. CASE q \in acked /\ q # records
      <3>1. q < records /\ q \in Nat
        BY <1>1, <1>5, <2>4 DEF TypeOK
      <3>2. r \in In(s)
        BY <1>5, <1>12, <2>1, <3>1
      <3> QED  BY <2>2, <2>4, <3>2, NamedIn DEF Layout, NewestSurvive
    <2> QED  BY <1>1, <2>3, <2>4
  <1> QED  BY <1>9, <1>10, <1>11, <1>14, <1>15 DEF Layout

LEMMA InitLayout ==
    ASSUME Init
    PROVE  Layout
  <1>1. Placed /\ TypeOK /\ handle = None /\ line = 0
    BY InitPlaced DEF Placed, Init
  <1>2. PICK k \in 0..keep, left \in {None} \cup Lengths :
          /\ keep \in Nat /\ k \in Nat /\ records = k /\ acked = 1..k
          /\ Len(files) = IF left = None THEN k ELSE k + 1
          /\ \A f \in 1..k : files[f].recs = <<f>>
          /\ left # None => files[k + 1].recs = <<>>
          /\ dir[0] = (IF left = None THEN None ELSE k + 1)
          /\ \A s \in 1..keep : dir[s] = IF s <= k THEN k + 1 - s ELSE None
    BY InitFields
  <1>3. /\ Slots = 0..keep /\ FileIds = (1..k) \cup (IF left = None THEN {} ELSE {k + 1})
        /\ None \notin Nat
    <2>1. FileIds = 1..Len(files)
      BY DEF FileIds
    <2>2. 1..(k + 1) = (1..k) \cup {k + 1}
      BY <1>2
    <2> QED  BY <1>2, <2>1, <2>2, ConstantTypes DEF Slots
  <1>4. \A f \in FileIds : RecsOf(f) = {g \in {f} : f \in 1..k}
    <2> SUFFICES ASSUME NEW f \in FileIds PROVE RecsOf(f) = {g \in {f} : f \in 1..k}
      OBVIOUS
    <2>1. CASE f \in 1..k
      BY <1>2, <2>1 DEF RecsOf, Range
    <2>2. CASE f \notin 1..k
      BY <1>2, <1>3, <2>2 DEF RecsOf, Range
    <2> QED  BY <2>1, <2>2
  <1>5. /\ \A s \in 1..keep : s <= k => In(s) = {k + 1 - s}
        /\ \A s \in 1..keep : s > k => In(s) = {}
        /\ In(0) = {}
    <2>1. ASSUME NEW s \in 1..keep, s <= k PROVE In(s) = {k + 1 - s}
      <3>1. dir[s] = k + 1 - s /\ k + 1 - s \in 1..k /\ s \in Slots
        BY <1>2, <1>3, <2>1
      <3>2. dir[s] \in FileIds /\ dir[s] # None
        BY <1>3, <3>1
      <3> QED  BY <1>1, <1>4, <3>1, <3>2, InIsRecs
    <2>2. ASSUME NEW s \in 1..keep, s > k PROVE In(s) = {}
      BY <1>2, <2>2 DEF In
    <2>3. In(0) = {}
      <3>1. CASE left = None
        BY <1>2, <3>1 DEF In
      <3>2. CASE left # None
        <4>1. dir[0] = k + 1 /\ k + 1 \in FileIds /\ k + 1 \notin 1..k /\ 0 \in Slots /\ dir[0] # None
          BY <1>2, <1>3, <3>2
        <4> QED  BY <1>1, <1>4, <4>1, InIsRecs
      <3> QED  BY <3>1, <3>2
    <2> QED  BY <2>1, <2>2, <2>3
  <1>6. Distinct
    <2> SUFFICES ASSUME NEW s \in Slots, NEW u \in Slots, dir[s] # None, dir[s] = dir[u] PROVE s = u
      BY DEF Distinct
    <2> QED  BY <1>2, <1>3
  <1>7. HandleNewest
    BY <1>1 DEF HandleNewest
  <1>8. OrdinalsGiven
    <2> SUFFICES ASSUME NEW f \in FileIds, NEW r \in RecsOf(f) PROVE r <= records
      BY <1>1 DEF OrdinalsGiven
    <2> QED  BY <1>2, <1>4
  <1>9. SlotsOrdered
    <2> SUFFICES ASSUME NEW s \in Slots, NEW u \in Slots, s < u, NEW r \in In(s), NEW q \in In(u)
                 PROVE  q < r
      BY DEF SlotsOrdered
    <2>1. s \in 1..keep /\ u \in 1..keep /\ s <= k /\ u <= k
      BY <1>2, <1>3, <1>5
    <2> QED  BY <1>2, <1>5, <2>1
  <1>10. FilesSorted
    <2> SUFFICES ASSUME NEW f \in FileIds, NEW i \in 1..Len(files[f].recs),
                        NEW j \in 1..Len(files[f].recs), i < j
                 PROVE  FALSE
      BY DEF FilesSorted
    <2>1. CASE f \in 1..k
      <3>1. files[f].recs = <<f>>
        BY <1>2, <2>1
      <3>2. Len(<<f>>) = 1
        OBVIOUS
      <3>3. i \in 1..1 /\ j \in 1..1
        BY <3>1, <3>2
      <3> QED  BY <3>3
    <2>2. CASE f \notin 1..k
      BY <1>2, <1>3, <2>2
    <2> QED  BY <2>1, <2>2
  <1>11. NewestSurvive
    <2> SUFFICES ASSUME NEW q \in acked PROVE q \in Named
      BY DEF NewestSurvive
    <2>1. k + 1 - q \in 1..keep /\ k + 1 - q <= k /\ k + 1 - (k + 1 - q) = q
      BY <1>2
    <2>2. k + 1 - q \in Slots /\ q \in In(k + 1 - q)
      BY <1>2, <1>3, <1>5, <2>1
    <2> QED  BY <2>2, NamedIn
  <1> QED  BY <1>1, <1>6, <1>7, <1>8, <1>9, <1>10, <1>11 DEF Layout

LEMMA LayoutStep ==
    ASSUME Layout, [Next]_vars
    PROVE  Layout'
  <1>1. Placed' /\ TypeOK /\ Phases
    BY PlacedStep DEF Layout, Placed
  <1>2. /\ keep \in Nat /\ Slots = 0..keep /\ Len(files) \in Nat
        /\ handle # None => handle \in FileIds
    BY <1>1, SlotTypes DEF Slots
  <1>3. CASE Start \/ Metadata \/ WriteHeader \/ NoHeader \/ CallFails \/ Crash \/ UNCHANGED vars
    <2>1. /\ UNCHANGED <<keep, dir, acked, files, records>>
          /\ handle' \in {handle, None} /\ (line' # 0 => line # 0)
      BY <1>3 DEF Start, Metadata, WriteHeader, NoHeader, CallFails, Fail, Crash, vars
    <2> QED  BY <1>1, <2>1, QuietKeepsLayout
  <1>4. CASE HeaderWritten
    <2>1. /\ UNCHANGED <<keep, dir, acked, records, handle, line>> /\ handle \in FileIds
          /\ files' = [files EXCEPT ![handle].size = @ + Header, ![handle].free = @ + Header]
      BY <1>1, <1>2, <1>4 DEF HeaderWritten, TypeOK
    <2>2. Header \in Nat
      BY ConstantTypes DEF Header
    <2>3. Len(files') = Len(files) /\ \A f \in FileIds : files'[f].recs = files[f].recs
      BY <1>1, <2>1, <2>2, TouchFields
    <2> QED  BY <1>1, <2>1, <2>3, QuietKeepsLayout
  <1>5. CASE WriteFails
    <2>1. PICK part \in 0..((IF at = "write" THEN line ELSE Header) - 1) :
            files' = [files EXCEPT ![handle].size = @ + part, ![handle].free = @ + part]
      BY <1>5 DEF WriteFails
    <2>2. /\ part \in Nat /\ handle \in FileIds /\ UNCHANGED <<keep, dir, acked, records>>
          /\ handle' \in {handle, None} /\ line' = 0
      BY <1>1, <1>2, <1>5, <2>1 DEF WriteFails, Fail, TypeOK
    <2>3. Len(files') = Len(files) /\ \A f \in FileIds : files'[f].recs = files[f].recs
      BY <1>1, <2>1, <2>2, TouchFields
    <2> QED  BY <1>1, <2>2, <2>3, QuietKeepsLayout
  <1>6. ASSUME NEW length \in Lengths, WriteLine(length) PROVE Layout'
    <2>1. UNCHANGED <<keep, dir, acked, files, handle>> /\ records' = records + 1
      BY <1>6 DEF WriteLine
    <2> QED  BY <1>1, <2>1, QuietKeepsLayout
  <1>7. CASE Shift
    <2>1. slot \in Slots /\ slot + 1 \in Slots /\ Move(slot, slot + 1)
          /\ UNCHANGED <<keep, files, handle, line, records, acked>>
      BY <1>1, <1>2, <1>7 DEF Shift, TypeOK
    <2>2. slot = keep - 1 \/ dir[slot + 1] = None
      BY <1>1, <1>2, <1>7 DEF Shift, Phases, TypeOK
    <2> QED  BY <1>1, <2>1, <2>2, MoveKeepsLayout
  <1>8. CASE RenameActive
    <2>1. 0 \in Slots /\ 0 + 1 \in Slots /\ Move(0, 0 + 1)
          /\ UNCHANGED <<keep, files, handle, line, records, acked>>
      BY <1>1, <1>2, <1>8 DEF RenameActive, Phases
    <2>2. 0 = keep - 1 \/ dir[0 + 1] = None
      BY <1>1, <1>2, <1>8 DEF RenameActive, Phases
    <2> QED  BY <1>1, <2>1, <2>2, MoveKeepsLayout
  <1> QED  BY <1>1, <1>3, <1>4, <1>5, <1>6, <1>7, <1>8,
              RemoveKeepsLayout, OpenKeepsLayout, WriteKeepsLayout DEF Next

(* Whatever calls fail and wherever the process stops, the backups read     *)
(* oldest first and then the active file give the records in the order in   *)
(* which they were written, each once, and what is missing of the           *)
(* acknowledged ones is older than all that is there.                       *)
THEOREM OldestGoFirst == Spec => []OldestFirst
  <1>1. Init => Layout
    BY InitLayout
  <1>2. Layout /\ [Next]_vars => Layout'
    BY LayoutStep
  <1>3. Layout => OldestFirst
    BY DEF Layout, Placed, SlotsOrdered, FilesSorted, OldestFirst
  <1> QED  BY <1>1, <1>2, <1>3, PTL DEF Spec
-----------------------------------------------------------------------------
(* The limit.  current_size is never less than what the open file holds of  *)
(* limited bytes, though it misses the bytes of torn lines, and it is zero  *)
(* only for a file without records: so the check before a write errs on the *)
(* safe side.                                                               *)

Sound(file) ==
    /\ file.recs # <<>> => file.size > 0
    /\ file.size - file.free <= MaxBytes \/ Len(file.recs) <= 1

HandleMeasured ==
    handle # None => /\ files[handle].size - files[handle].free <= size
                     /\ size = 0 => files[handle].recs = <<>>

SizePhases ==
    /\ at = "open" /\ line = 0 => size = IF Active = None THEN 0 ELSE files[Active].size
    /\ at \in {"shift", "rename", "remove"} /\ line = 0 => size = 0
    /\ at = "write" => size = 0 \/ size + line <= MaxBytes

Measured ==
    Placed /\ (MaxBytes > 0 => (\A f \in FileIds : Sound(files[f])) /\ HandleMeasured /\ SizePhases)

LEMMA FileTypes ==
    ASSUME TypeOK, NEW f \in FileIds
    PROVE  /\ files[f].size \in Nat /\ files[f].free \in Nat /\ files[f].recs \in Seq(Nat)
           /\ Len(files[f].recs) \in Nat
  BY SlotTypes, RecsAreOrdinals DEF File

LEMMA InitMeasured ==
    ASSUME Init
    PROVE  Measured
  <1>1. Placed /\ handle = None /\ at = "down"
    BY InitPlaced DEF Init
  <1>2. PICK k \in 0..keep, left \in {None} \cup Lengths :
          /\ keep \in Nat /\ k \in Nat
          /\ Len(files) = IF left = None THEN k ELSE k + 1
          /\ \A f \in 1..k : files[f].recs = <<f>> /\ files[f].size = MaxBytes /\ files[f].free = 0
          /\ left # None => /\ files[k + 1].recs = <<>>
                            /\ files[k + 1].size = left /\ files[k + 1].free = left
    BY InitFields
  <1>3. ASSUME MaxBytes > 0, NEW f \in FileIds PROVE Sound(files[f])
    <2>1. f \in 1..k \/ (left # None /\ f = k + 1)
      BY <1>2 DEF FileIds
    <2>2. CASE f \in 1..k
      BY <1>2, <1>3, <2>2, ConstantTypes DEF Sound
    <2>3. CASE left # None /\ f = k + 1
      BY <1>2, <2>3 DEF Sound
    <2> QED  BY <2>1, <2>2, <2>3
  <1> QED  BY <1>1, <1>3 DEF Measured, HandleMeasured, SizePhases

LEMMA MeasuredStep ==
    ASSUME Measured, [Next]_vars
    PROVE  Measured'
  <1>1. /\ Placed' /\ TypeOK /\ Phases /\ Len(files) \in Nat /\ None \notin FileIds
        /\ handle # None => handle \in FileIds
        /\ Active # None => Active \in FileIds
    BY PlacedStep, SlotTypes DEF Measured, Placed, Active
  <1> SUFFICES ASSUME MaxBytes > 0
               PROVE  (\A f \in FileIds' : Sound(files'[f])) /\ HandleMeasured' /\ SizePhases'
    BY <1>1 DEF Measured
  <1>2. /\ \A f \in FileIds : Sound(files[f])
        /\ HandleMeasured /\ SizePhases /\ MaxBytes \in Nat /\ size \in Nat
    BY <1>1, ConstantTypes DEF Measured, TypeOK
  <1>3. ASSUME UNCHANGED files PROVE \A f \in FileIds' : Sound(files'[f])
    BY <1>2, <1>3 DEF FileIds, Sound
  <1>4. ASSUME NEW added \in Nat, handle \in FileIds,
               files' = [files EXCEPT ![handle].size = @ + added, ![handle].free = @ + added]
        PROVE  /\ \A f \in FileIds' : Sound(files'[f])
               /\ files'[handle].size - files'[handle].free = files[handle].size - files[handle].free
               /\ files'[handle].recs = files[handle].recs
    <2>1. /\ Len(files') = Len(files)
          /\ \A g \in FileIds : files'[g].recs = files[g].recs
          /\ \A g \in FileIds : g # handle => files'[g] = files[g]
          /\ files'[handle].size = files[handle].size + added
          /\ files'[handle].free = files[handle].free + added
      BY <1>1, <1>4, TouchFields
    <2>2. FileIds' = FileIds
      BY <2>1 DEF FileIds
    <2>3. files[handle].size \in Nat /\ files[handle].free \in Nat
      BY <1>1, <1>4, FileTypes
    <2>4. files'[handle].size - files'[handle].free = files[handle].size - files[handle].free
          /\ (files[handle].size > 0 => files'[handle].size > 0)
      BY <2>1, <2>3
    <2>5. ASSUME NEW f \in FileIds PROVE Sound(files'[f])
      <3>1. CASE f = handle
        BY <1>2, <1>4, <2>1, <2>4, <3>1 DEF Sound
      <3>2. CASE f # handle
        BY <1>2, <2>1, <3>2 DEF Sound
      <3> QED  BY <3>1, <3>2
    <2> QED  BY <1>4, <2>1, <2>2, <2>4, <2>5
  <1>5. CASE Start \/ WriteHeader \/ NoHeader
    <2>1. UNCHANGED <<files, dir, handle, size, line>> /\ at' \in {"metadata", "header", "ready"}
      BY <1>5 DEF Start, WriteHeader, NoHeader
    <2> QED  BY <1>2, <1>3, <2>1 DEF HandleMeasured, SizePhases
  <1>6. CASE CallFails \/ Crash
    <2>1. /\ UNCHANGED <<files, dir, size>> /\ handle' \in {handle, None}
          /\ at' \in {"down", "ready"} /\ line' = 0
      BY <1>6 DEF CallFails, Crash, Fail
    <2> QED  BY <1>2, <1>3, <2>1 DEF HandleMeasured, SizePhases
  <1>7. CASE Metadata
    <2>1. /\ UNCHANGED <<files, dir, handle, line>> /\ at = "metadata"
          /\ \/ StartRotation /\ size' = 0
             \/ at' = "open" /\ size' = IF Active = None THEN 0 ELSE files[Active].size
      BY <1>7 DEF Metadata
    <2>2. handle' = None
      BY <1>1, <2>1 DEF Phases
    <2>3. CASE StartRotation /\ size' = 0
      <3>1. at' \in {"shift", "rename", "remove"}
        BY <1>1, <2>3, StartFields
      <3> QED  BY <1>3, <2>1, <2>2, <2>3, <3>1 DEF HandleMeasured, SizePhases
    <2>4. CASE at' = "open" /\ size' = IF Active = None THEN 0 ELSE files[Active].size
      BY <1>3, <2>1, <2>2, <2>4 DEF HandleMeasured, SizePhases, Active
    <2> QED  BY <2>1, <2>3, <2>4
  <1>8. CASE HeaderWritten
    <2>1. /\ files' = [files EXCEPT ![handle].size = @ + Header, ![handle].free = @ + Header]
          /\ size' = size + Header /\ at' = "ready" /\ UNCHANGED handle
          /\ handle \in FileIds /\ handle # None
      BY <1>1, <1>8 DEF HeaderWritten, TypeOK
    <2>2. Header \in Nat /\ Header > 0
      BY ConstantTypes DEF Header
    <2>3. files[handle].size \in Nat /\ files[handle].free \in Nat
      BY <1>1, <2>1, FileTypes
    <2>4. files'[handle].size - files'[handle].free <= size' /\ size' # 0
      <3>1. files[handle].size - files[handle].free <= size /\ size \in Nat
        BY <1>2, <2>1 DEF HandleMeasured
      <3>2. files'[handle].size - files'[handle].free = files[handle].size - files[handle].free
        BY <1>4, <2>1, <2>2
      <3>3. size' = size + Header
        BY <2>1
      <3> QED  BY <2>2, <2>3, <3>1, <3>2, <3>3
    <2> QED  BY <1>4, <2>1, <2>2, <2>4 DEF HandleMeasured, SizePhases
  <1>9. CASE WriteFails
    <2>1. PICK part \in 0..((IF at = "write" THEN line ELSE Header) - 1) :
            files' = [files EXCEPT ![handle].size = @ + part, ![handle].free = @ + part]
      BY <1>9 DEF WriteFails
    <2>2. /\ part \in Nat /\ handle \in FileIds /\ UNCHANGED size /\ handle # None
          /\ handle' \in {handle, None} /\ line' = 0 /\ at' \in {"down", "ready"}
      BY <1>1, <1>9, <2>1 DEF WriteFails, Fail, TypeOK
    <2> QED  BY <1>2, <1>4, <2>1, <2>2 DEF HandleMeasured, SizePhases
  <1>10. ASSUME NEW length \in Lengths, WriteLine(length)
         PROVE  (\A f \in FileIds' : Sound(files'[f])) /\ HandleMeasured' /\ SizePhases'
    <2>1. /\ UNCHANGED <<files, dir, handle, size>> /\ line' = length
          /\ \/ StartRotation
             \/ at' = "write" /\ ~ TooLong(length)
      BY <1>10 DEF WriteLine
    <2>2. length \in Nat /\ length # 0
      BY ConstantTypes
    <2>3. CASE StartRotation
      <3>1. at' \in {"shift", "rename", "remove"}
        BY <1>1, <2>3, StartFields
      <3> QED  BY <1>2, <1>3, <2>1, <2>2, <3>1 DEF HandleMeasured, SizePhases
    <2>4. CASE at' = "write" /\ ~ TooLong(length)
      BY <1>2, <1>3, <2>1, <2>2, <2>4 DEF HandleMeasured, SizePhases, TooLong
    <2> QED  BY <2>1, <2>3, <2>4
  <1>11. CASE Shift
    <2>1. /\ UNCHANGED <<files, handle, size, line>> /\ at = "shift" /\ at' \in {"shift", "rename"}
      BY <1>11 DEF Shift
    <2> QED  BY <1>2, <1>3, <2>1 DEF HandleMeasured, SizePhases
  <1>12. CASE RenameActive \/ RemoveActive
    <2>1. /\ UNCHANGED <<files, handle, size, line>> /\ at \in {"rename", "remove"} /\ at' = "open"
      BY <1>12 DEF RenameActive, RemoveActive
    <2>2. Active' = None
      <3>1. CASE RenameActive
        <4>1. 0 \in Slots /\ 0 + 1 \in Slots /\ Move(0, 0 + 1)
          BY <1>1, <3>1, SlotTypes DEF RenameActive, Phases, Slots
        <4> QED  BY <1>1, <4>1, MoveFields DEF Active
      <3>2. CASE RemoveActive
        BY <1>1, <3>2, SlotTypes DEF RemoveActive, Active, TypeOK
      <3> QED  BY <1>12, <3>1, <3>2
    <2> QED  BY <1>2, <1>3, <2>1, <2>2 DEF HandleMeasured, SizePhases
  <1>13. CASE Open
    <2>1. /\ at = "open" /\ UNCHANGED line /\ at' = (IF line = 0 THEN "opened" ELSE "write")
          /\ size' = IF line = 0 THEN size ELSE 0
      BY <1>13 DEF Open
    <2>2. SizePhases'
      BY <2>1 DEF SizePhases
    <2>3. CASE Active # None /\ handle' = Active /\ UNCHANGED <<files, dir>>
      <3>1. line = 0 /\ size' = files[Active].size
        BY <1>1, <1>2, <2>1, <2>3 DEF Phases, SizePhases
      <3>2. /\ files[Active].size \in Nat /\ files[Active].free \in Nat
            /\ files[Active].recs # <<>> => files[Active].size > 0
        BY <1>1, <1>2, <2>3, FileTypes DEF Sound
      <3>3. HandleMeasured'
        BY <2>3, <3>1, <3>2 DEF HandleMeasured
      <3> QED  BY <1>3, <2>2, <2>3, <3>3
    <2>4. CASE /\ Active = None /\ handle' = Len(files) + 1
               /\ Len(files') = Len(files) + 1
               /\ \A g \in FileIds : files'[g] = files[g]
               /\ files'[Len(files) + 1].recs = <<>> /\ files'[Len(files) + 1].size = 0
               /\ files'[Len(files) + 1].free = 0
      <3>1. size' = 0
        BY <1>2, <2>1, <2>4 DEF SizePhases
      <3>2. HandleMeasured'
        BY <2>4, <3>1 DEF HandleMeasured
      <3>3. FileIds' = FileIds \cup {Len(files) + 1}
        BY <1>1, <2>4 DEF FileIds
      <3>4. Sound(files'[Len(files) + 1])
        BY <1>2, <2>4 DEF Sound
      <3>5. \A f \in FileIds : Sound(files'[f])
        BY <1>2, <2>4 DEF Sound
      <3> QED  BY <2>2, <3>2, <3>3, <3>4, <3>5
    <2> QED  BY <1>1, <1>13, <2>3, <2>4, OpenFields
  <1>14. CASE WriteDone
    <2>1. /\ at = "write" /\ handle \in FileIds /\ handle # None /\ line \in Nat /\ line > 0
          /\ files' = [files EXCEPT ![handle].recs = Append(@, records), ![handle].size = @ + line]
          /\ size' = size + line /\ at' = "ready" /\ UNCHANGED handle /\ records \in 1..MaxRecords
      BY <1>1, <1>14, ConstantTypes DEF WriteDone, Phases, TypeOK
    <2>2. /\ Len(files') = Len(files)
          /\ \A g \in FileIds : g # handle => files'[g] = files[g]
          /\ files'[handle].recs = Append(files[handle].recs, records)
          /\ files'[handle].size = files[handle].size + line /\ files'[handle].free = files[handle].free
      BY <1>1, <2>1, RecordFields
    <2>3. files[handle].size \in Nat /\ files[handle].free \in Nat /\ files[handle].recs \in Seq(Nat)
      BY <1>1, <2>1, FileTypes
    <2>4. FileIds' = FileIds
      BY <2>2 DEF FileIds
    <2>5. /\ files'[handle].size - files'[handle].free <= size' /\ size' # 0
          /\ files'[handle].size > 0 /\ files[handle].size - files[handle].free <= size
      <3>1. files[handle].size - files[handle].free <= size /\ size \in Nat
        BY <1>2, <2>1 DEF HandleMeasured
      <3>2. size' = size + line /\ line \in Nat /\ line > 0
        BY <2>1
      <3> QED  BY <2>2, <2>3, <3>1, <3>2
    <2>6. Sound(files'[handle])
      <3>1. CASE size = 0
        <4>1. files[handle].recs = <<>> /\ Len(Append(<<>>, records)) = 1
          BY <1>2, <2>1, <3>1 DEF HandleMeasured
        <4>2. Len(files'[handle].recs) <= 1
          BY <2>2, <4>1
        <4> QED  BY <2>1, <2>5, <4>2 DEF Sound
      <3>2. CASE size # 0
        <4>1. files'[handle].size - files'[handle].free <= MaxBytes
          <5>1. size + line <= MaxBytes /\ size' = size + line
            BY <1>2, <2>1, <3>2 DEF SizePhases
          <5>2. MaxBytes \in Nat /\ size \in Nat /\ line \in Nat
            BY <1>2, <2>1
          <5> QED  BY <2>2, <2>3, <2>5, <5>1, <5>2
        <4> QED  BY <2>1, <2>5, <4>1 DEF Sound
      <3> QED  BY <3>1, <3>2
    <2>7. ASSUME NEW f \in FileIds, f # handle PROVE Sound(files'[f])
      BY <1>2, <2>2, <2>7 DEF Sound
    <2> QED  BY <2>1, <2>4, <2>5, <2>6, <2>7 DEF HandleMeasured, SizePhases
  <1>15. CASE UNCHANGED vars
    BY <1>2, <1>3, <1>15 DEF vars, HandleMeasured, SizePhases, Active
  <1> QED  BY <1>5, <1>6, <1>7, <1>8, <1>9, <1>10, <1>11, <1>12, <1>13, <1>14, <1>15 DEF Next

(* A file is within max_bytes, headers and torn lines aside, unless one line*)
(* alone exceeds it: also when the file was left by an earlier run, when    *)
(* part of a line was written, and when a failed rotation left the writer   *)
(* with the file it had.                                                    *)
THEOREM FilesWithinLimit == Spec => []SizeLimited
  <1>1. Init => Measured
    BY InitMeasured
  <1>2. Measured /\ [Next]_vars => Measured'
    BY MeasuredStep
  <1>3. Measured => SizeLimited
    BY DEF Measured, Sound, SizeLimited
  <1> QED  BY <1>1, <1>2, <1>3, PTL DEF Spec
-----------------------------------------------------------------------------
(* Until a call fails, the backups stand without a gap from slot 1, but for *)
(* the slot a rotation in progress is about to fill, and the active path is *)
(* there whenever a rotation shifts.                                        *)

Shifting == at \in {"shift", "rename"}

NoGap ==
    \A s, u \in 1..keep :
        s < u /\ dir[u] # None /\ ~ (Shifting /\ s = slot + 1) => dir[s] # None

Contiguous ==
    /\ at \in {"shift", "rename", "opened", "header", "ready", "write"} => Active # None
    /\ NoGap

Filled == Placed /\ (faults = 0 => Contiguous)

LEMMA InitFilled ==
    ASSUME Init
    PROVE  Filled
  <1>1. Placed /\ at = "down"
    BY InitPlaced DEF Init
  <1>2. PICK k \in 0..keep :
          keep \in Nat /\ \A s \in 1..keep : dir[s] = IF s <= k THEN k + 1 - s ELSE None
    BY InitFields
  <1>3. \A s \in 1..keep : dir[s] # None <=> s <= k
    <2>1. \A s \in 1..keep : s <= k => k + 1 - s \in Nat
      BY <1>2
    <2> QED  BY <1>2, <2>1, ConstantTypes
  <1> QED  BY <1>1, <1>2, <1>3 DEF Filled, Contiguous, NoGap

(* What a rename overwrites: nothing, or the last slot when all are taken.  *)
LEMMA MoveOverwrites ==
    ASSUME Filled, faults = 0, NEW from \in Slots, from + 1 \in Slots, Move(from, from + 1),
           Shifting, slot = from
    PROVE  /\ DropsBackup => Full
           /\ dir[from] # None /\ dir[from + 1] # None => Full
  <1>1. /\ TypeOK /\ keep \in Nat /\ Slots = 0..keep /\ dir[0] # None /\ NoGap
        /\ slot < keep - 1 => dir[slot + 1] = None
    BY SlotTypes DEF Filled, Placed, Phases, Contiguous, Shifting, Slots, Active
  <1>2. dir[from] # None /\ dir[from + 1] # None => Full
    <2> SUFFICES ASSUME dir[from + 1] # None, NEW s \in 0..keep PROVE dir[s] # None
      BY <1>1 DEF Full
    <2>1. from + 1 = keep
      BY <1>1
    <2>2. CASE s = 0 \/ s = keep
      BY <1>1, <2>1, <2>2
    <2>3. CASE s # 0 /\ s # keep
      BY <1>1, <2>1, <2>3 DEF NoGap
    <2> QED  BY <2>2, <2>3
  <1>3. ASSUME NEW s \in 1..keep, dir[s] # None, \A u \in Slots : dir'[u] # dir[s] PROVE Full
    <2>1. s \in Slots
      BY <1>1, <1>3
    <2>2. CASE dir[from] = None
      BY <1>1, <1>3, <2>1, <2>2, MoveFields
    <2>3. CASE dir[from] # None
      <3>1. \A u \in Slots : dir'[u] = IF u = from + 1 THEN dir[from]
                                       ELSE IF u = from THEN None ELSE dir[u]
        BY <1>1, <2>3, MoveFields
      <3>2. s = from + 1
        BY <1>1, <1>3, <2>1, <3>1
      <3> QED  BY <1>2, <1>3, <2>3, <3>2
    <2> QED  BY <2>2, <2>3
  <1> QED  BY <1>2, <1>3 DEF DropsBackup

LEMMA FilledStep ==
    ASSUME Filled, [Next]_vars
    PROVE  Filled'
  <1>1. Placed' /\ TypeOK /\ Phases /\ keep \in Nat /\ Slots = 0..keep
    BY PlacedStep, SlotTypes DEF Filled, Placed, Slots
  <1> SUFFICES ASSUME faults' = 0 PROVE Contiguous'
    BY <1>1 DEF Filled
  <1>2. ~ Crash /\ ~ CallFails /\ ~ WriteFails /\ faults = 0
    <2>1. faults \in Nat /\ (Fail \/ Crash => faults' = faults + 1)
      BY <1>1, ConstantTypes DEF TypeOK, Fail, Crash
    <2>2. ~ Fail /\ ~ Crash
      BY <2>1
    <2>3. UNCHANGED faults
      BY <2>2 DEF Next, vars, Start, Metadata, WriteHeader, HeaderWritten, NoHeader, Open,
                  WriteLine, WriteDone, WriteFails, Shift, RenameActive, RemoveActive, CallFails
    <2> QED  BY <2>2, <2>3 DEF CallFails, WriteFails
  <1>3. Contiguous
    BY <1>2 DEF Filled
  <1>4. CASE Start \/ WriteHeader \/ NoHeader \/ HeaderWritten \/ WriteDone \/ UNCHANGED vars
    <2>1. UNCHANGED <<keep, dir, slot>>
      BY <1>4 DEF Start, WriteHeader, NoHeader, HeaderWritten, WriteDone, vars
    <2>2. \/ at' = at
          \/ at = "down" /\ at' = "metadata"
          \/ at \in {"opened", "header", "write"} /\ at' \in {"header", "ready"}
      BY <1>4 DEF Start, WriteHeader, NoHeader, HeaderWritten, WriteDone, vars
    <2> QED  BY <1>3, <2>1, <2>2 DEF Contiguous, NoGap, Shifting, Active
  <1>5. ASSUME UNCHANGED <<keep, dir>>, ~ Shifting, Active # None \/ at' = "open"
        PROVE  Contiguous'
    BY <1>3, <1>5 DEF Contiguous, NoGap, Active
  <1>6. CASE Metadata
    <2>1. /\ UNCHANGED <<keep, dir>> /\ at = "metadata"
          /\ Active # None \/ at' = "open"
      BY <1>6 DEF Metadata
    <2> QED  BY <1>5, <2>1 DEF Shifting
  <1>7. ASSUME NEW length \in Lengths, WriteLine(length) PROVE Contiguous'
    <2>1. UNCHANGED <<keep, dir>> /\ at = "ready"
      BY <1>7 DEF WriteLine
    <2> QED  BY <1>3, <1>5, <2>1 DEF Contiguous, Shifting
  <1>8. CASE Shift
    <2>1. /\ slot \in 1..(keep - 1) /\ slot' = slot - 1 /\ UNCHANGED keep
          /\ Shifting' /\ Shifting /\ Move(slot, slot + 1)
          /\ slot \in Slots /\ slot + 1 \in Slots
      BY <1>1, <1>8 DEF Shift, TypeOK, Shifting
    <2>2. /\ \A s \in Slots : dir'[s] = IF dir[slot] = None THEN dir[s]
                                        ELSE IF s = slot + 1 THEN dir[slot]
                                        ELSE IF s = slot THEN None ELSE dir[s]
      BY <1>1, <2>1, MoveFields
    <2>3. Active' = Active /\ Active # None
      BY <1>1, <1>3, <2>1, <2>2 DEF Active, Contiguous, Shifting
    <2>4. NoGap'
      <3> SUFFICES ASSUME NEW s \in 1..keep, NEW u \in 1..keep, s < u, dir'[u] # None, s # slot
                   PROVE  dir'[s] # None
        BY <2>1 DEF NoGap
      <3>1. s \in Slots /\ u \in Slots /\ \A v \in 1..(keep - 1) : v \in Slots /\ v \in 1..keep
        BY <1>1
      <3>2. NoGap /\ (slot + 1 < keep => dir[slot + 1] = None) /\ slot # 0
        BY <1>1, <1>3, <2>1 DEF Contiguous, Phases, Shifting
      <3>3. CASE dir[slot] = None
        <4>1. dir'[s] = dir[s] /\ dir'[u] = dir[u]
          BY <2>2, <3>1, <3>3
        <4>2. s # slot + 1
          <5> SUFFICES ASSUME s = slot + 1 PROVE FALSE
            OBVIOUS
          <5>1. slot < u /\ slot \in 1..keep /\ slot # slot + 1
            BY <1>1, <2>1
          <5> QED  BY <3>2, <3>3, <4>1, <5>1 DEF NoGap
        <4> QED  BY <2>1, <3>2, <4>1, <4>2 DEF NoGap
      <3>4. CASE dir[slot] # None
        <4>1. CASE s = slot + 1
          BY <2>2, <3>1, <3>4, <4>1
        <4>2. CASE s # slot + 1 /\ u = slot + 1
          <5>1. s < slot /\ slot \in 1..keep /\ dir'[s] = dir[s]
            BY <1>1, <2>1, <2>2, <3>1, <4>2
          <5> QED  BY <2>1, <3>2, <3>4, <4>2, <5>1 DEF NoGap
        <4>3. CASE s # slot + 1 /\ u # slot + 1
          <5>1. dir'[s] = dir[s] /\ (u = slot \/ dir'[u] = dir[u])
            BY <2>2, <3>1, <4>3
          <5>2. dir[u] # None
            BY <3>4, <5>1
          <5> QED  BY <2>1, <3>2, <4>3, <5>1, <5>2 DEF NoGap
        <4> QED  BY <4>1, <4>2, <4>3
      <3> QED  BY <3>3, <3>4
    <2> QED  BY <2>3, <2>4 DEF Contiguous
  <1>9. CASE RenameActive
    <2>1. /\ slot = 0 /\ keep >= 1 /\ UNCHANGED keep /\ at' = "open" /\ Shifting
          /\ Move(0, 0 + 1) /\ 0 \in Slots /\ 0 + 1 \in Slots /\ dir[0] # None
      BY <1>1, <1>3, <1>9 DEF RenameActive, Phases, Shifting, Contiguous, Active
    <2>2. \A s \in Slots : dir'[s] = IF s = 0 + 1 THEN dir[0] ELSE IF s = 0 THEN None ELSE dir[s]
      BY <1>1, <2>1, MoveFields
    <2>3. NoGap'
      <3> SUFFICES ASSUME NEW s \in 1..keep, NEW u \in 1..keep, s < u, dir'[u] # None
                   PROVE  dir'[s] # None
        BY <2>1 DEF NoGap
      <3>1. s \in Slots /\ u \in Slots /\ u # 0 + 1
        BY <1>1
      <3>2. dir[u] # None
        BY <1>1, <2>2, <3>1
      <3>3. CASE s = 1
        BY <2>1, <2>2, <3>1, <3>3
      <3>4. CASE s # 1
        BY <1>1, <1>3, <2>1, <2>2, <3>1, <3>2, <3>4 DEF Contiguous, NoGap
      <3> QED  BY <3>3, <3>4
    <2> QED  BY <2>1, <2>3 DEF Contiguous
  <1>10. CASE RemoveActive
    <2>1. keep = 0 /\ keep' = 0 /\ at' = "open"
      BY <1>1, <1>10 DEF RemoveActive, Phases
    <2> QED  BY <2>1 DEF Contiguous, NoGap
  <1>11. CASE Open
    <2>1. at = "open" /\ UNCHANGED <<keep, slot>> /\ at' \in {"opened", "write"} /\ ~ Shifting
      BY <1>11 DEF Open, Shifting
    <2>2. Active' # None /\ \A s \in 1..keep : dir'[s] = dir[s]
      <3>1. CASE Active # None /\ UNCHANGED dir
        BY <3>1 DEF Active
      <3>2. CASE \A s \in Slots : dir'[s] = IF s = 0 THEN Len(files) + 1 ELSE dir[s]
        <4>1. Len(files) + 1 # None
          BY <1>1, SlotTypes, ConstantTypes
        <4> QED  BY <1>1, <3>2, <4>1 DEF Active
      <3> QED  BY <1>1, <1>11, <3>1, <3>2, OpenFields
    <2> QED  BY <1>3, <2>1, <2>2 DEF Contiguous, NoGap
  <1> QED  BY <1>2, <1>4, <1>6, <1>7, <1>8, <1>9, <1>10, <1>11 DEF Next

(* As long as no call has failed and no process has died, a backup is given *)
(* up only when the active file and all keep_backups slots are taken.       *)
THEOREM OnlyTheOldestIsDropped == Spec => FaultlessDropsBeyondLimit
  <1>1. ASSUME Filled, [Next]_vars, faults = 0, DropsBackup PROVE Full
    <2>1. PICK s \in 1..keep : dir[s] # None /\ \A u \in Slots : dir'[u] # dir[s]
      BY <1>1 DEF DropsBackup
    <2>2. TypeOK /\ keep \in Nat /\ Slots = 0..keep /\ s \in Slots /\ s # 0 /\ Phases
      BY <1>1, <2>1, SlotTypes DEF Filled, Placed, Slots
    <2>3. dir' # dir
      BY <2>1, <2>2
    <2>4. CASE Shift
      <3>1. slot \in Slots /\ slot + 1 \in Slots /\ Move(slot, slot + 1) /\ Shifting
        BY <2>2, <2>4 DEF Shift, TypeOK, Shifting
      <3> QED  BY <1>1, <3>1, MoveOverwrites
    <2>5. CASE RenameActive
      <3>1. 0 \in Slots /\ 0 + 1 \in Slots /\ Move(0, 0 + 1) /\ Shifting /\ slot = 0
        BY <2>2, <2>5 DEF RenameActive, Phases, Shifting
      <3> QED  BY <1>1, <3>1, MoveOverwrites
    <2>6. CASE RemoveActive
      BY <2>1, <2>2, <2>6 DEF RemoveActive, Phases
    <2>7. CASE Open
      <3>1. dir'[s] = dir[s]
        BY <2>2, <2>3, <2>7, OpenFields
      <3> QED  BY <2>1, <2>2, <3>1
    <2> QED  BY <1>1, <2>3, <2>4, <2>5, <2>6, <2>7
             DEF Next, vars, Start, Metadata, WriteHeader, HeaderWritten, NoHeader,
                 WriteLine, WriteDone, WriteFails, CallFails, Crash
  <1>2. Filled /\ [Next]_vars => [faults = 0 /\ DropsBackup => Full]_vars
    BY <1>1
  <1>3. Init => Filled
    BY InitFilled
  <1>4. Filled /\ [Next]_vars => Filled'
    BY FilledStep
  <1> QED  BY <1>2, <1>3, <1>4, PTL DEF Spec, FaultlessDropsBeyondLimit
=============================================================================
