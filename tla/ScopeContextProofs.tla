-------------------------- MODULE ScopeContextProofs --------------------------
(***************************************************************************)
(* Theorems about ScopeContext for every set of threads and futures and    *)
(* every number of scopes and panics.                                      *)
(***************************************************************************)
EXTENDS ScopeContext, ProofLemmas, FunctionTheorems

-----------------------------------------------------------------------------
(* Types, and where frames are                                              *)

Modes     == {"run", "finish", "unwind", "drop"}
FrameType == [context : Contexts, mode : Modes]
GuardType == [holder : Contexts \cup {Free}, what : {"sync", "async"},
              outcome : {"open", "success", "failure", "aborted"}]

Typed ==
    /\ stack \in [Threads -> Stacks]
    /\ parked \in [Futures -> Stacks] /\ base \in [Futures -> Stacks] /\ saved \in Stacks
    /\ frames \in [Threads -> Seq(FrameType)]
    /\ status \in [Futures -> {"none", "unpolled", "pending", "installed", "done", "poisoned", "dropped"}]
    /\ owner \in [Futures -> Contexts \cup {Free}]
    /\ kind \in [Futures -> {"scope", "wrap"}]
    /\ NextScope \in 0..MaxScopes /\ guards \in [0..(NextScope - 1) -> GuardType]
    /\ ended \in [Futures -> {"none", "ready", "panic", "cancel"}]
    /\ panics \in 0..MaxPanics

Depth(t)        == Len(frames[t])
ContextAt(t, i) == frames[t][i].context
ModeAt(t, i)    == frames[t][i].mode

(* A thread is at the bottom of its frames, above it are futures installed  *)
(* there, each in one frame; what a context drops, and nothing else, runs   *)
(* above it when it is over; and a future that belongs to another context   *)
(* runs right above that one.                                               *)
Placed ==
    /\ \A t \in Threads :
          /\ frames[t] # <<>> /\ ContextAt(t, 1) = t
          /\ \A i \in 2..Depth(t) :
                /\ ContextAt(t, i) \in Futures /\ status[ContextAt(t, i)] = "installed"
                /\ owner[ContextAt(t, i)] \in {Free, ContextAt(t, i - 1)}
                /\ ModeAt(t, i - 1) # "run" => ModeAt(t, i) = "drop"
                /\ ModeAt(t, i) \in {"run", "finish"} => ended[ContextAt(t, i)] = "none"
    /\ \A f \in Futures : status[f] = "installed" => \E t \in Threads : Active(t, f)
    /\ \A t, u \in Threads : \A i \in 1..Depth(t), k \in 1..Depth(u) :
          ContextAt(t, i) = ContextAt(u, k) => t = u /\ i = k

Async(id) == guards[id].what = "async"
OwnOf(c)  == {id \in DOMAIN guards : guards[id].holder = c /\ guards[id].outcome = "open"}

(* A future that may still go on has not ended and one that is over has;    *)
(* one that has ended holds no open scope; one that was never polled never  *)
(* held any; and a future has at most one async scope, if scope_async made  *)
(* it.                                                                      *)
Lives ==
    /\ \A f \in Futures :
          /\ status[f] \in {"none", "unpolled", "pending"} => ended[f] = "none"
          /\ status[f] \in {"done", "poisoned", "dropped"} => ended[f] # "none"
          /\ status[f] \in {"none", "unpolled"} => \A id \in DOMAIN guards : guards[id].holder # f
          /\ status[f] = "unpolled" => kind[f] = "scope"
          /\ ended[f] # "none" => OwnOf(f) = {}
    /\ \A id \in DOMAIN guards :
          Async(id) => guards[id].holder \in Futures /\ kind[guards[id].holder] = "scope"
    /\ \A id, other \in DOMAIN guards :
          Async(id) /\ Async(other) /\ guards[id].holder = guards[other].holder => id = other

LEMMA ConstantFacts ==
    /\ Threads \cap Futures = {} /\ Free \notin Threads /\ Free \notin Futures
    /\ MaxScopes \in Nat /\ MaxPanics \in Nat /\ Chosen \subseteq {"success", "failure", "aborted"}
  BY ContextAssumption DEF ContextAssumption

LEMMA FrameFields ==
    ASSUME NEW c \in Contexts, NEW m \in Modes
    PROVE  Frame(c, m) \in FrameType /\ Frame(c, m).context = c /\ Frame(c, m).mode = m
  BY DEF Frame, FrameType

LEMMA TopFrame ==
    ASSUME Typed, Placed, NEW t \in Threads
    PROVE  /\ frames[t] \in Seq(FrameType) /\ Depth(t) \in Nat /\ Depth(t) # 0 /\ Depth(t) \in 1..Depth(t)
           /\ \A i \in 1..Depth(t) : /\ frames[t][i] \in FrameType /\ ContextAt(t, i) \in Contexts
                                     /\ ModeAt(t, i) \in Modes
           /\ Running(t) = ContextAt(t, Depth(t)) /\ Mode(t) = ModeAt(t, Depth(t))
           /\ Running(t) \in Contexts /\ Mode(t) \in Modes
           /\ Running(t) \in Futures => Depth(t) \in 2..Depth(t)
  <1>1. frames[t] \in Seq(FrameType) /\ frames[t] # <<>>
    BY DEF Typed, Placed
  <1>2. Depth(t) \in Nat /\ Depth(t) # 0
    BY <1>1, LenProperties, EmptySeq DEF Depth
  <1>3. \A i \in 1..Depth(t) : frames[t][i] \in FrameType
    BY <1>1, ElementOfSeq DEF Depth
  <1>4. \A e \in FrameType : e.context \in Contexts /\ e.mode \in Modes
    BY DEF FrameType
  <1>5. Running(t) = ContextAt(t, Depth(t)) /\ Mode(t) = ModeAt(t, Depth(t))
    BY DEF Running, Mode, ContextAt, ModeAt, Depth
  <1>6. \A i \in 1..Depth(t) : ContextAt(t, i) \in Contexts /\ ModeAt(t, i) \in Modes
    BY <1>3, <1>4 DEF ContextAt, ModeAt
  <1>7. Depth(t) \in 1..Depth(t)
    BY <1>2
  <1>8. Running(t) \in Futures => Depth(t) \in 2..Depth(t)
    <2>1. Depth(t) = 1 => Running(t) = t
      BY <1>5 DEF Placed
    <2> QED  BY <1>2, <2>1, ConstantFacts
  <1> QED  BY <1>1, <1>2, <1>3, <1>5, <1>6, <1>7, <1>8

-----------------------------------------------------------------------------
(* The steps, point by point                                                *)

(* Of the frames, only those of t change: one more, ...                     *)
Pushed(t, f, m) ==
    /\ frames'[t] \in Seq(FrameType) /\ Len(frames'[t]) = Depth(t) + 1
    /\ frames'[t][Depth(t) + 1].context = f /\ frames'[t][Depth(t) + 1].mode = m
    /\ \A i \in 1..Depth(t) : frames'[t][i] = frames[t][i]
    /\ \A u \in Threads : u # t => frames'[u] = frames[u]

(* ... another mode of the running one, ...                                 *)
Turned(t, m) ==
    /\ frames'[t] \in Seq(FrameType) /\ Len(frames'[t]) = Depth(t)
    /\ \A i \in 1..Depth(t) : frames'[t][i].context = ContextAt(t, i)
    /\ \A i \in 1..Depth(t) : frames'[t][i].mode = IF i = Depth(t) THEN m ELSE ModeAt(t, i)
    /\ \A u \in Threads : u # t => frames'[u] = frames[u]

(* ... or one less, and the mode of the one below.                          *)
Popped(t, m) ==
    /\ frames'[t] \in Seq(FrameType) /\ Len(frames'[t]) = Depth(t) - 1
    /\ \A i \in 1..(Depth(t) - 1) : frames'[t][i].context = ContextAt(t, i)
    /\ \A i \in 1..(Depth(t) - 1) : frames'[t][i].mode = IF i = Depth(t) - 1 THEN m ELSE ModeAt(t, i)
    /\ \A u \in Threads : u # t => frames'[u] = frames[u]

LEMMA PushFields ==
    ASSUME Typed, Placed, NEW t \in Threads, NEW f \in Futures, NEW m \in Modes,
           frames' = [frames EXCEPT ![t] = Append(@, Frame(f, m))]
    PROVE  Pushed(t, f, m) /\ frames' \in [Threads -> Seq(FrameType)]
  <1>1. frames \in [Threads -> Seq(FrameType)] /\ frames[t] \in Seq(FrameType)
    BY DEF Typed
  <1>2. Frame(f, m) \in FrameType /\ Frame(f, m).context = f /\ Frame(f, m).mode = m
    BY FrameFields DEF Contexts
  <1>3. /\ Append(frames[t], Frame(f, m)) \in Seq(FrameType)
        /\ Len(Append(frames[t], Frame(f, m))) = Len(frames[t]) + 1
        /\ \A i \in 1..Len(frames[t]) : Append(frames[t], Frame(f, m))[i] = frames[t][i]
        /\ Append(frames[t], Frame(f, m))[Len(frames[t]) + 1] = Frame(f, m)
    BY <1>1, <1>2, AppendProperties
  <1>4. frames'[t] = Append(frames[t], Frame(f, m)) /\ \A u \in Threads : u # t => frames'[u] = frames[u]
    BY <1>1
  <1>5. frames' \in [Threads -> Seq(FrameType)]
    BY <1>1, <1>3
  <1> QED  BY <1>2, <1>3, <1>4, <1>5 DEF Pushed, Depth

LEMMA ModeSet ==
    ASSUME NEW s \in Seq(FrameType), NEW n \in 1..Len(s), NEW m \in Modes
    PROVE  /\ [s EXCEPT ![n].mode = m] \in Seq(FrameType) /\ Len([s EXCEPT ![n].mode = m]) = Len(s)
           /\ \A i \in 1..Len(s) : [s EXCEPT ![n].mode = m][i].context = s[i].context
           /\ \A i \in 1..Len(s) : [s EXCEPT ![n].mode = m][i].mode = IF i = n THEN m ELSE s[i].mode
  <1> DEFINE e == [s[n] EXCEPT !.mode = m]
             r == [s EXCEPT ![n] = e]
  <1>1. s[n] \in FrameType /\ \A i \in 1..Len(s) : s[i] \in FrameType
    BY ElementOfSeq
  <1>2. e \in FrameType /\ e.context = s[n].context /\ e.mode = m
    BY <1>1 DEF FrameType
  <1> HIDE DEF e
  <1>3. r \in Seq(FrameType) /\ Len(r) = Len(s) /\ \A i \in 1..Len(s) : r[i] = IF i = n THEN e ELSE s[i]
    BY <1>2, ExceptSeq
  <1>4. [s EXCEPT ![n].mode = m] = r
    BY DEF e
  <1> HIDE DEF r
  <1> QED  BY <1>2, <1>3, <1>4

LEMMA TurnFields ==
    ASSUME Typed, Placed, NEW t \in Threads, NEW m \in Modes, frames' = SetMode(t, m)
    PROVE  Turned(t, m) /\ frames' \in [Threads -> Seq(FrameType)]
  <1> DEFINE s == frames[t]
             r == [s EXCEPT ![Len(s)].mode = m]
  <1>1. frames \in [Threads -> Seq(FrameType)] /\ s \in Seq(FrameType) /\ Len(s) \in 1..Len(s)
    BY TopFrame DEF Typed, Depth
  <1>2. frames' = [frames EXCEPT ![t] = r]
    BY DEF SetMode
  <1> HIDE DEF s
  <1>3. /\ r \in Seq(FrameType) /\ Len(r) = Len(s)
        /\ \A i \in 1..Len(s) : r[i].context = s[i].context
        /\ \A i \in 1..Len(s) : r[i].mode = IF i = Len(s) THEN m ELSE s[i].mode
    BY <1>1, ModeSet
  <1> HIDE DEF r
  <1>4. frames'[t] = r /\ (\A u \in Threads : u # t => frames'[u] = frames[u])
        /\ frames' \in [Threads -> Seq(FrameType)]
    BY <1>1, <1>2, <1>3
  <1> QED  BY <1>3, <1>4 DEF Turned, Depth, ContextAt, ModeAt, s

LEMMA PopFields ==
    ASSUME Typed, Placed, NEW t \in Threads, Running(t) \in Futures, NEW unwinding \in BOOLEAN,
           LET below == SubSeq(frames[t], 1, Len(frames[t]) - 1)
           IN  frames' = [frames EXCEPT ![t] =
                             IF unwinding THEN [below EXCEPT ![Len(below)].mode = "unwind"] ELSE below]
    PROVE  /\ Popped(t, IF unwinding THEN "unwind" ELSE ModeAt(t, Depth(t) - 1))
           /\ frames' \in [Threads -> Seq(FrameType)]
  <1> DEFINE s == frames[t]
             n == Len(s) - 1
             below == SubSeq(s, 1, n)
             r == IF unwinding THEN [below EXCEPT ![Len(below)].mode = "unwind"] ELSE below
  <1>1. /\ frames \in [Threads -> Seq(FrameType)] /\ s \in Seq(FrameType) /\ Len(s) \in Nat /\ n \in 1..n
        /\ \A i \in 1..n : s[i] \in FrameType
    <2>1. /\ frames \in [Threads -> Seq(FrameType)] /\ s \in Seq(FrameType) /\ Len(s) \in Nat
          /\ Len(s) \in 2..Len(s) /\ \A i \in 1..Len(s) : s[i] \in FrameType
      BY TopFrame DEF Typed, Depth
    <2> QED  BY <2>1
  <1>2. frames' = [frames EXCEPT ![t] = r]
    OBVIOUS
  <1> HIDE DEF s
  <1>3. below \in Seq(FrameType) /\ Len(below) = n /\ \A i \in 1..n : below[i] = s[i]
    <2>1. /\ SubSeq(s, 1, n) \in Seq(FrameType)
          /\ Len(SubSeq(s, 1, n)) = IF 1 <= n THEN n - 1 + 1 ELSE 0
          /\ \A i \in 1..(n - 1 + 1) : SubSeq(s, 1, n)[i] = s[1 + i - 1]
      <3>1. 1 \in Int /\ n \in Int /\ \A i \in 1..n : s[i] \in FrameType
        BY <1>1
      <3> QED  BY <3>1, SubSeqProperties
    <2> QED  BY <1>1, <2>1
  <1> HIDE DEF below
  <1>4. /\ r \in Seq(FrameType) /\ Len(r) = n
        /\ \A i \in 1..n : r[i].context = s[i].context
        /\ \A i \in 1..n : r[i].mode = IF unwinding /\ i = n THEN "unwind" ELSE s[i].mode
    <2>1. CASE unwinding
      <3>1. "unwind" \in Modes
        BY DEF Modes
      <3>2. PICK k \in 1..Len(below) : k = n
        BY <1>1, <1>3
      <3>3. /\ [below EXCEPT ![k].mode = "unwind"] \in Seq(FrameType)
            /\ Len([below EXCEPT ![k].mode = "unwind"]) = Len(below)
            /\ \A i \in 1..Len(below) : [below EXCEPT ![k].mode = "unwind"][i].context = below[i].context
            /\ \A i \in 1..Len(below) : [below EXCEPT ![k].mode = "unwind"][i].mode =
                                             IF i = k THEN "unwind" ELSE below[i].mode
        BY <1>3, <3>1, ModeSet
      <3>4. r = [below EXCEPT ![k].mode = "unwind"]
        BY <1>3, <2>1, <3>2
      <3> HIDE DEF r
      <3> QED  BY <1>3, <2>1, <3>2, <3>3, <3>4
    <2>2. CASE ~unwinding
      BY <1>3, <2>2
    <2> QED  BY <2>1, <2>2
  <1> HIDE DEF r
  <1>5. frames'[t] = r /\ (\A u \in Threads : u # t => frames'[u] = frames[u])
        /\ frames' \in [Threads -> Seq(FrameType)]
    BY <1>1, <1>2, <1>4
  <1> QED  BY <1>4, <1>5 DEF Popped, Depth, ContextAt, ModeAt, s

-----------------------------------------------------------------------------
(* Guards: one more, or one is exited                                       *)

Begun(c, what) ==
    /\ DOMAIN guards' = DOMAIN guards \cup {NextScope}
    /\ NextScope \in Nat /\ \A id \in DOMAIN guards : id \in Nat /\ id < NextScope
    /\ guards'[NextScope].holder = c /\ guards'[NextScope].what = what
    /\ guards'[NextScope].outcome = "open"
    /\ \A id \in DOMAIN guards : guards'[id] = guards[id]

Over(id, outcome) ==
    /\ DOMAIN guards' = DOMAIN guards /\ outcome \in {"success", "failure", "aborted"}
    /\ guards'[id].holder = (IF Async(id) THEN guards[id].holder ELSE Free)
    /\ guards'[id].what = guards[id].what /\ guards'[id].outcome = outcome
    /\ \A other \in DOMAIN guards : other # id => guards'[other] = guards[other]

LEMMA GuardTypes ==
    ASSUME Typed
    PROVE  /\ NextScope \in Nat /\ DOMAIN guards = 0..(NextScope - 1)
           /\ \A id \in DOMAIN guards :
                 /\ id \in Nat /\ id < NextScope /\ id \in ScopeIds /\ guards[id] \in GuardType
                 /\ guards[id].what \in {"sync", "async"} /\ guards[id].holder \in Contexts \cup {Free}
  <1>1. NextScope \in 0..MaxScopes /\ guards \in [0..(NextScope - 1) -> GuardType] /\ MaxScopes \in Nat
    BY ConstantFacts DEF Typed
  <1>2. NextScope \in Nat /\ DOMAIN guards = 0..(NextScope - 1)
    BY <1>1
  <1>3. \A id \in DOMAIN guards : id \in Nat /\ id < NextScope /\ id \in 0..(MaxScopes - 1)
    BY <1>1, <1>2
  <1>4. \A id \in DOMAIN guards : guards[id] \in GuardType
    BY <1>1
  <1>5. \A g \in GuardType : g.what \in {"sync", "async"} /\ g.holder \in Contexts \cup {Free}
    BY DEF GuardType
  <1> QED  BY <1>2, <1>3, <1>4, <1>5 DEF ScopeIds

LEMMA EnterFields ==
    ASSUME Typed, NEW c \in Contexts, NEW what \in {"sync", "async"}, NextScope < MaxScopes,
           guards' = Entered(c, what)
    PROVE  /\ Begun(c, what) /\ NextScope \in ScopeIds
           /\ NextScope' \in 0..MaxScopes /\ guards' \in [0..(NextScope' - 1) -> GuardType]
  <1> DEFINE e == [holder |-> c, what |-> what, outcome |-> "open"]
  <1>1. PICK n \in Nat : n = NextScope
    BY GuardTypes
  <1>2. /\ MaxScopes \in Nat /\ n < MaxScopes /\ guards \in [0..(n - 1) -> GuardType]
        /\ guards' = [id \in 0..n |-> IF id = n THEN e ELSE guards[id]]
    BY <1>1, ConstantFacts DEF Typed, Entered
  <1>3. e \in GuardType /\ e.holder = c /\ e.what = what /\ e.outcome = "open"
    BY DEF GuardType
  <1> HIDE DEF e
  <1>4. /\ DOMAIN guards = 0..(n - 1) /\ DOMAIN guards' = 0..n /\ guards'[n] = e
        /\ \A id \in 0..(n - 1) : id \in 0..n /\ id # n
        /\ \A id \in 0..n : id # n => id \in 0..(n - 1)
    BY <1>2
  <1>5. guards' \in [0..n -> GuardType] /\ \A id \in 0..(n - 1) : guards'[id] = guards[id]
    BY <1>2, <1>3, <1>4
  <1>6. NextScope' = n + 1
    BY <1>4, FS_Interval DEF NextScope
  <1>7. 0..n = 0..(n - 1) \cup {n}
    BY <1>1
  <1>8. /\ NextScope' \in 0..MaxScopes /\ NextScope' - 1 = n /\ n \in 0..(MaxScopes - 1)
        /\ \A id \in 0..(n - 1) : id \in Nat /\ id < n
    BY <1>2, <1>6
  <1> QED  BY <1>1, <1>3, <1>4, <1>5, <1>7, <1>8 DEF Begun, ScopeIds

LEMMA ExitFields ==
    ASSUME Typed, NEW id \in DOMAIN guards, NEW outcome \in {"success", "failure", "aborted"},
           guards' = [guards EXCEPT ![id].outcome = outcome,
                                    ![id].holder = IF guards[id].what = "sync" THEN Free ELSE @]
    PROVE  /\ Over(id, outcome)
           /\ NextScope' \in 0..MaxScopes /\ guards' \in [0..(NextScope' - 1) -> GuardType]
  <1>1. /\ guards[id] \in GuardType /\ guards[id].what \in {"sync", "async"}
        /\ guards[id].holder \in Contexts \cup {Free}
        /\ DOMAIN guards = 0..(NextScope - 1) /\ NextScope \in 0..MaxScopes
        /\ guards \in [0..(NextScope - 1) -> GuardType]
    BY GuardTypes DEF Typed
  <1>2. PICK g \in GuardType : g = guards[id]
    BY <1>1
  <1>3. PICK c \in Contexts \cup {Free} : c = IF guards[id].what = "sync" THEN Free ELSE guards[id].holder
    BY <1>1
  <1> DEFINE h == [g EXCEPT !.outcome = outcome, !.holder = c]
  <1>4. h \in GuardType /\ h.holder = c /\ h.what = g.what /\ h.outcome = outcome
    BY DEF GuardType
  <1>5. guards' = [guards EXCEPT ![id] = h]
    BY <1>1, <1>2, <1>3
  <1>6. c = IF Async(id) THEN guards[id].holder ELSE Free
    BY <1>1, <1>3 DEF Async
  <1> HIDE DEF h
  <1>7. /\ DOMAIN guards' = DOMAIN guards /\ guards'[id] = h
        /\ \A other \in DOMAIN guards : other # id => guards'[other] = guards[other]
        /\ guards' \in [0..(NextScope - 1) -> GuardType]
    BY <1>1, <1>4, <1>5
  <1>8. NextScope' = NextScope
    BY <1>7 DEF NextScope
  <1> QED  BY <1>1, <1>2, <1>4, <1>7, <1>8, <1>6 DEF Over

(* r is s without its last id, which was at p.                              *)
TakenOut(s, id, r, p) ==
    /\ s[p] = id /\ \A i \in 1..Len(s) : s[i] = id => i <= p
    /\ r \in Seq(ScopeIds) /\ Len(r) = Len(s) - 1
    /\ \A i \in 1..(Len(s) - 1) : r[i] = IF i < p THEN s[i] ELSE s[i + 1]

LEMMA WithoutElement ==
    ASSUME NEW s \in Seq(ScopeIds), NEW id
    PROVE  \/ Without(s, id) = s /\ \A i \in 1..Len(s) : s[i] # id
           \/ \E p \in 1..Len(s) : TakenOut(s, id, Without(s, id), p)
  <1> DEFINE at == {i \in 1..Len(s) : s[i] = id}
  <1>1. CASE at = {}
    BY <1>1 DEF Without
  <1>2. CASE at # {}
    <2>1. Len(s) \in Nat /\ at \in SUBSET (0..Len(s))
      BY LenProperties
    <2>2. \E i \in at : \A k \in at : k <= i
      BY <1>2, <2>1, GreatestElement
    <2> DEFINE p == CHOOSE i \in at : \A k \in at : k <= i
    <2>3. p \in at /\ \A k \in at : k <= p
      BY <2>2
    <2>4. Without(s, id) = SubSeq(s, 1, p - 1) \o SubSeq(s, p + 1, Len(s))
      BY <1>2 DEF Without
    <2> HIDE DEF p
    <2>5. p \in 1..Len(s) /\ s[p] = id /\ \A i \in 1..Len(s) : s[i] = id => i <= p
      BY <2>3
    <2>6. /\ SubSeq(s, 1, p - 1) \o SubSeq(s, p + 1, Len(s)) \in Seq(ScopeIds)
          /\ Len(SubSeq(s, 1, p - 1) \o SubSeq(s, p + 1, Len(s))) = Len(s) - 1
          /\ \A i \in 1..(Len(s) - 1) :
                (SubSeq(s, 1, p - 1) \o SubSeq(s, p + 1, Len(s)))[i] = IF i < p THEN s[i] ELSE s[i + 1]
      BY <2>5, RemovedAt
    <2> QED  BY <2>4, <2>5, <2>6 DEF TakenOut
  <1> QED  BY <1>1, <1>2

-----------------------------------------------------------------------------
(* The steps                                                                *)

(* A step changes the records of at most one future, and one thread's stack.*)
Others(f) ==
    \A g \in Futures : g # f => /\ status'[g] = status[g] /\ owner'[g] = owner[g] /\ kind'[g] = kind[g]
                                /\ ended'[g] = ended[g] /\ base'[g] = base[g] /\ parked'[g] = parked[g]
OtherStacks(t) == \A u \in Threads : u # t => stack'[u] = stack[u]

Created(t, f) ==
    /\ Mode(t) = "run" /\ owner'[f] \in {Free, Running(t)}
    /\ status[f] = "none" /\ status'[f] = IF kind'[f] = "scope" THEN "unpolled" ELSE "pending"
    /\ parked'[f] = base'[f] /\ Others(f)
    /\ UNCHANGED <<stack, frames, guards, ended>>

Mounted(t, f, m) ==
    /\ status[f] \in {"unpolled", "pending", "done", "poisoned"} /\ status'[f] = "installed"
    /\ owner[f] \in {Free, Running(t)} /\ m \in {"run", "unwind", "drop"}
    /\ Mode(t) # "run" => m = "drop"
    /\ m = "run" => status[f] \in {"unpolled", "pending"}
    /\ Pushed(t, f, m)
    /\ parked'[f] = stack[t] /\ Others(f) /\ OtherStacks(t) /\ UNCHANGED <<owner, kind, base, ended>>
FirstTime(t, f) ==
    /\ status[f] = "unpolled" /\ Mounted(t, f, "run")
    /\ Begun(f, "async") /\ stack'[t] = Append(parked[f], NextScope)
NextTime(t, f, m) ==
    /\ Mounted(t, f, m) /\ (m = "run" => status[f] = "pending")
    /\ m = "unwind" => status[f] \in {"done", "poisoned"}
    /\ stack'[t] = parked[f] /\ UNCHANGED guards

Changed(t, m) ==
    /\ Turned(t, m)
    /\ \/ Mode(t) = "run" /\ m \in {"finish", "unwind"}
       \/ /\ Mode(t) = "unwind" /\ m = "run"
          /\ Running(t) \in Futures =>
                /\ ended[Running(t)] = "none"
                /\ kind[Running(t)] = "scope" => \E id \in OwnOf(Running(t)) : Async(id)
    /\ UNCHANGED <<stack, parked, status, owner, kind, base, ended, guards>>

Unmounted(t, f, m) ==
    /\ Popped(t, m) /\ stack'[t] = parked[f] /\ parked'[f] = stack[t]
    /\ Others(f) /\ OtherStacks(t) /\ UNCHANGED <<kind, base, guards>>
Suspended(t, f) ==
    /\ Mode(t) = "run" \/ (Mode(t) = "unwind" /\ kind[f] = "wrap" /\ ended[f] = "none")
    /\ Unmounted(t, f, IF Mode(t) = "unwind" THEN "unwind" ELSE ModeAt(t, Depth(t) - 1))
    /\ status'[f] = "pending" /\ UNCHANGED <<owner, ended>>
Returned(t, f) ==
    /\ Mode(t) # "run" /\ OwnOf(f) = {}
    /\ Unmounted(t, f, IF Mode(t) = "unwind" THEN "unwind" ELSE ModeAt(t, Depth(t) - 1))
    /\ status'[f] \in {"done", "poisoned", "dropped"} /\ owner'[f] \in {owner[f], Free}
    /\ ended'[f] = IF ended[f] # "none" THEN ended[f]
                   ELSE IF Mode(t) = "finish" THEN "ready"
                   ELSE IF Panicking(t) THEN "panic" ELSE "cancel"

Still == UNCHANGED <<frames, parked, status, owner, kind, base, ended>>
Began(t) ==
    /\ Mode(t) = "run" /\ Begun(Running(t), "sync")
    /\ stack'[t] = Append(stack[t], NextScope) /\ OtherStacks(t) /\ Still
Finished(t, id, outcome) ==
    /\ id \in OwnOf(Running(t)) /\ Over(id, outcome)
    /\ Async(id) => /\ GuardIsLast(Running(t))
                    /\ \/ Mode(t) = "finish" /\ outcome \in {"success", "failure"}
                       \/ Mode(t) \in {"unwind", "drop"} /\ outcome = AsyncDropOutcome(t)
    /\ stack'[t] = Without(stack[t], id) /\ OtherStacks(t) /\ Still

Idle == UNCHANGED <<stack, frames, parked, status, owner, kind, guards, base, ended>>

ScopeStep(t) ==
    \/ \E f \in Futures : Created(t, f)
    \/ \E f \in Futures : FirstTime(t, f)
    \/ \E f \in Futures : \E m \in Modes : NextTime(t, f, m)
    \/ \E m \in Modes : Changed(t, m)
    \/ Running(t) \in Futures /\ Suspended(t, Running(t))
    \/ Running(t) \in Futures /\ Returned(t, Running(t))
    \/ Began(t)
    \/ \E id \in DOMAIN guards : \E outcome \in {"success", "failure", "aborted"} : Finished(t, id, outcome)

LEMMA WrapKind ==
    ASSUME Typed, Placed, NEW t \in Threads, NEW f \in Futures, NEW k \in {"scope", "wrap"},
           NEW o \in Contexts \cup {Free}, NEW c \in {stack[t], saved, <<>>}, Wrap(t, f, k, o, c)
    PROVE  Typed' /\ ScopeStep(t)
  <1>1. c \in Stacks
    <2>1. stack[t] \in Stacks /\ saved \in Stacks /\ <<>> \in Stacks
      BY DEF Typed, Stacks
    <2> QED  BY <2>1
  <1>2. Typed'
    <2>1. /\ status' \in [Futures -> {"none", "unpolled", "pending", "installed", "done", "poisoned", "dropped"}]
          /\ owner' \in [Futures -> Contexts \cup {Free}] /\ kind' \in [Futures -> {"scope", "wrap"}]
          /\ parked' \in [Futures -> Stacks] /\ base' \in [Futures -> Stacks]
      BY <1>1 DEF Typed, Wrap
    <2>2. UNCHANGED <<stack, frames, guards, saved, ended, panics>>
      BY DEF Wrap
    <2> QED  BY <2>1, <2>2 DEF Typed, NextScope
  <1>3. Others(f)
    BY DEF Typed, Wrap, Others
  <1>4. Created(t, f)
    <2>1. /\ Mode(t) = "run" /\ status[f] = "none" /\ owner'[f] = o /\ o \in {Running(t), Free}
          /\ kind'[f] = k /\ status'[f] = (IF k = "scope" THEN "unpolled" ELSE "pending")
          /\ parked'[f] = c /\ base'[f] = c
          /\ UNCHANGED <<stack, frames, guards, ended>>
      BY DEF Typed, Wrap
    <2> QED  BY <1>3, <2>1 DEF Created
  <1> QED  BY <1>2, <1>4 DEF ScopeStep

LEMMA InstallKind ==
    ASSUME Typed, Placed, NEW t \in Threads, NEW f \in Futures, NEW m \in {"run", "unwind", "drop"},
           NEW s \in Stacks, Install(t, f, m), stack' = [stack EXCEPT ![t] = s],
           UNCHANGED <<owner, kind, base, ended>>,
           status[f] \in {"unpolled", "pending", "done", "poisoned"}, MayTouch(t, f),
           Mode(t) # "run" => m = "drop",
           m = "run" => status[f] \in {"unpolled", "pending"}
    PROVE  /\ Mounted(t, f, m) /\ stack'[t] = s /\ frames' \in [Threads -> Seq(FrameType)]
           /\ stack' \in [Threads -> Stacks] /\ parked' \in [Futures -> Stacks]
           /\ status' \in [Futures -> {"none", "unpolled", "pending", "installed",
                                       "done", "poisoned", "dropped"}]
  <1>1. frames' = [frames EXCEPT ![t] = Append(@, Frame(f, m))] /\ m \in Modes
    BY DEF Install, Modes
  <1>2. Pushed(t, f, m) /\ frames' \in [Threads -> Seq(FrameType)]
    BY <1>1, PushFields
  <1>3. /\ stack' \in [Threads -> Stacks] /\ stack'[t] = s /\ OtherStacks(t)
    BY DEF Typed, OtherStacks
  <1>4. parked' = [parked EXCEPT ![f] = stack[t]] /\ status' = [status EXCEPT ![f] = "installed"]
    BY DEF Install
  <1>5. /\ parked' \in [Futures -> Stacks] /\ parked'[f] = stack[t] /\ status'[f] = "installed"
        /\ status' \in [Futures -> {"none", "unpolled", "pending", "installed",
                                    "done", "poisoned", "dropped"}]
        /\ \A g \in Futures : g # f => parked'[g] = parked[g] /\ status'[g] = status[g]
    BY <1>4 DEF Typed
  <1>6. Others(f)
    BY <1>5 DEF Others
  <1>7. owner[f] \in {Free, Running(t)}
    BY DEF MayTouch
  <1> QED  BY <1>2, <1>3, <1>5, <1>6, <1>7 DEF Mounted

LEMMA FirstPollKind ==
    ASSUME Typed, Placed, NEW t \in Threads, NEW f \in Futures, FirstPoll(t, f)
    PROVE  Typed' /\ ScopeStep(t)
  <1>1. /\ Mode(t) = "run" /\ status[f] = "unpolled" /\ MayTouch(t, f) /\ NextScope < MaxScopes
        /\ Install(t, f, "run") /\ guards' = Entered(f, "async")
        /\ stack' = [stack EXCEPT ![t] = Append(parked[f], NextScope)]
        /\ UNCHANGED <<owner, kind, saved, base, ended, panics>>
    BY DEF FirstPoll, futureVars
  <1>2. /\ Begun(f, "async") /\ NextScope \in ScopeIds
        /\ NextScope' \in 0..MaxScopes /\ guards' \in [0..(NextScope' - 1) -> GuardType]
    BY <1>1, EnterFields DEF Contexts
  <1>3. PICK s \in Stacks : s = Append(parked[f], NextScope)
    <2>1. parked[f] \in Seq(ScopeIds)
      BY DEF Typed, Stacks
    <2> QED  BY <1>2, <2>1, AppendProperties DEF Stacks
  <1>4. stack' = [stack EXCEPT ![t] = s]
    BY <1>1, <1>3
  <1>5. /\ Mounted(t, f, "run") /\ stack'[t] = s /\ frames' \in [Threads -> Seq(FrameType)]
        /\ stack' \in [Threads -> Stacks] /\ parked' \in [Futures -> Stacks]
        /\ status' \in [Futures -> {"none", "unpolled", "pending", "installed",
                                    "done", "poisoned", "dropped"}]
    BY <1>1, <1>4, InstallKind
  <1>6. Typed'
    BY <1>1, <1>2, <1>5 DEF Typed
  <1>7. FirstTime(t, f)
    BY <1>1, <1>2, <1>3, <1>5 DEF FirstTime
  <1> QED  BY <1>6, <1>7 DEF ScopeStep

LEMMA OtherPollKind ==
    ASSUME Typed, Placed, NEW t \in Threads, NEW f \in Futures,
           Poll(t, f) \/ PollOver(t, f) \/ Drop(t, f)
    PROVE  Typed' /\ ScopeStep(t)
  <1> DEFINE Installs(m) ==
            /\ Install(t, f, m) /\ stack' = [stack EXCEPT ![t] = parked[f]]
            /\ UNCHANGED <<owner, kind, saved, base, ended, guards>>
            /\ status[f] \in {"unpolled", "pending", "done", "poisoned"} /\ MayTouch(t, f)
            /\ Mode(t) # "run" => m = "drop"
            /\ m = "run" => status[f] = "pending"
            /\ m = "unwind" => status[f] \in {"done", "poisoned"}
            /\ panics' \in 0..MaxPanics
  <1>1. \E m \in {"run", "unwind", "drop"} : Installs(m)
    <2>1. panics \in 0..MaxPanics /\ MaxPanics \in Nat
      BY ConstantFacts DEF Typed
    <2>2. ASSUME Poll(t, f) PROVE Installs("run")
      BY <2>1, <2>2 DEF Poll, futureVars
    <2>3. ASSUME PollOver(t, f) PROVE Installs("unwind")
      BY <2>1, <2>3 DEF PollOver, futureVars
    <2>4. ASSUME Drop(t, f) PROVE Installs("drop")
      BY <2>1, <2>4 DEF Drop, futureVars, Exists
    <2> QED  BY <2>2, <2>3, <2>4
  <1> PICK m \in {"run", "unwind", "drop"} : Installs(m)
    BY <1>1
  <1>2. PICK s \in Stacks : s = parked[f]
    BY DEF Typed
  <1>3. stack' = [stack EXCEPT ![t] = s] /\ (m = "run" => status[f] \in {"unpolled", "pending"})
    BY <1>2
  <1>4. /\ Mounted(t, f, m) /\ stack'[t] = s /\ frames' \in [Threads -> Seq(FrameType)]
        /\ stack' \in [Threads -> Stacks] /\ parked' \in [Futures -> Stacks]
        /\ status' \in [Futures -> {"none", "unpolled", "pending", "installed",
                                    "done", "poisoned", "dropped"}]
    BY <1>3, InstallKind
  <1>5. Typed'
    BY <1>4 DEF Typed, NextScope
  <1>6. NextTime(t, f, m) /\ m \in Modes
    BY <1>2, <1>4 DEF NextTime, Modes
  <1> QED  BY <1>5, <1>6 DEF ScopeStep

LEMMA RestoreFields ==
    ASSUME Typed, NEW t \in Threads, NEW f \in Futures, Running(t) = f, Restore(t)
    PROVE  /\ stack'[t] = parked[f] /\ parked'[f] = stack[t] /\ OtherStacks(t)
           /\ \A g \in Futures : g # f => parked'[g] = parked[g]
           /\ stack' \in [Threads -> Stacks] /\ parked' \in [Futures -> Stacks]
  <1>1. stack' = [stack EXCEPT ![t] = parked[f]] /\ parked' = [parked EXCEPT ![f] = stack[t]]
    BY DEF Restore
  <1> QED  BY <1>1 DEF Typed, OtherStacks

LEMMA YieldKind ==
    ASSUME Typed, Placed, NEW t \in Threads, Yield(t)
    PROVE  Typed' /\ ScopeStep(t)
  <1>1. PICK f \in Futures : f = Running(t)
    BY DEF Yield
  <1>2. /\ stack'[t] = parked[f] /\ parked'[f] = stack[t] /\ OtherStacks(t)
        /\ \A g \in Futures : g # f => parked'[g] = parked[g]
        /\ stack' \in [Threads -> Stacks] /\ parked' \in [Futures -> Stacks]
    BY <1>1, RestoreFields DEF Yield
  <1>3. /\ Popped(t, ModeAt(t, Depth(t) - 1)) /\ frames' \in [Threads -> Seq(FrameType)]
    <2>1. frames' = [frames EXCEPT ![t] = SubSeq(frames[t], 1, Len(frames[t]) - 1)]
      BY DEF Yield
    <2>2. LET below == SubSeq(frames[t], 1, Len(frames[t]) - 1)
          IN  frames' = [frames EXCEPT ![t] =
                            IF FALSE THEN [below EXCEPT ![Len(below)].mode = "unwind"] ELSE below]
      BY <2>1
    <2>3. /\ Popped(t, IF FALSE THEN "unwind" ELSE ModeAt(t, Depth(t) - 1))
          /\ frames' \in [Threads -> Seq(FrameType)]
      BY <1>1, <2>2, PopFields
    <2> QED  BY <2>3
  <1>4. /\ Mode(t) = "run" /\ status' = [status EXCEPT ![f] = "pending"]
        /\ UNCHANGED <<owner, kind, saved, base, guards, ended, panics>>
    BY <1>1 DEF Yield, futureVars
  <1>5. /\ status' \in [Futures -> {"none", "unpolled", "pending", "installed",
                                    "done", "poisoned", "dropped"}]
        /\ status'[f] = "pending" /\ \A g \in Futures : g # f => status'[g] = status[g]
    BY <1>4 DEF Typed
  <1>6. Typed'
    BY <1>2, <1>3, <1>4, <1>5 DEF Typed, NextScope
  <1>7. Suspended(t, f)
    BY <1>2, <1>3, <1>4, <1>5 DEF Suspended, Unmounted, Others
  <1> QED  BY <1>1, <1>6, <1>7 DEF ScopeStep

LEMMA EscapeKind ==
    ASSUME Typed, Placed, NEW t \in Threads, Escape(t)
    PROVE  Typed' /\ ScopeStep(t)
  <1>1. PICK f \in Futures : f = Running(t)
    BY DEF Escape
  <1>2. /\ stack'[t] = parked[f] /\ parked'[f] = stack[t] /\ OtherStacks(t)
        /\ \A g \in Futures : g # f => parked'[g] = parked[g]
        /\ stack' \in [Threads -> Stacks] /\ parked' \in [Futures -> Stacks]
    BY <1>1, RestoreFields DEF Escape
  <1>3. Popped(t, "unwind") /\ frames' \in [Threads -> Seq(FrameType)]
    <2>1. LET below == SubSeq(frames[t], 1, Len(frames[t]) - 1)
          IN  frames' = [frames EXCEPT ![t] =
                            IF TRUE THEN [below EXCEPT ![Len(below)].mode = "unwind"] ELSE below]
      BY DEF Escape
    <2>2. /\ Popped(t, IF TRUE THEN "unwind" ELSE ModeAt(t, Depth(t) - 1))
          /\ frames' \in [Threads -> Seq(FrameType)]
      BY <1>1, <2>1, PopFields
    <2> QED  BY <2>2
  <1>4. /\ Mode(t) = "unwind" /\ kind[f] = "wrap" /\ ended[f] = "none"
        /\ status' = [status EXCEPT ![f] = "pending"]
        /\ UNCHANGED <<owner, kind, saved, base, guards, ended, panics>>
    BY <1>1 DEF Escape, futureVars
  <1>5. /\ status' \in [Futures -> {"none", "unpolled", "pending", "installed",
                                    "done", "poisoned", "dropped"}]
        /\ status'[f] = "pending" /\ \A g \in Futures : g # f => status'[g] = status[g]
    BY <1>4 DEF Typed
  <1>6. Typed'
    BY <1>2, <1>3, <1>4, <1>5 DEF Typed, NextScope
  <1>7. Suspended(t, f)
    BY <1>2, <1>3, <1>4, <1>5 DEF Suspended, Unmounted, Others
  <1> QED  BY <1>1, <1>6, <1>7 DEF ScopeStep

LEMMA ReturnKind ==
    ASSUME Typed, Placed, NEW t \in Threads, Return(t)
    PROVE  Typed' /\ ScopeStep(t)
  <1>1. PICK f \in Futures : f = Running(t)
    BY DEF Return
  <1>2. /\ stack'[t] = parked[f] /\ parked'[f] = stack[t] /\ OtherStacks(t)
        /\ \A g \in Futures : g # f => parked'[g] = parked[g]
        /\ stack' \in [Threads -> Stacks] /\ parked' \in [Futures -> Stacks]
    BY <1>1, RestoreFields DEF Return
  <1>3. PICK unwinding \in BOOLEAN : unwinding = (Mode(t) = "unwind")
    OBVIOUS
  <1>4. /\ Popped(t, IF unwinding THEN "unwind" ELSE ModeAt(t, Depth(t) - 1))
        /\ frames' \in [Threads -> Seq(FrameType)]
    <2>1. LET below == SubSeq(frames[t], 1, Len(frames[t]) - 1)
          IN  frames' = [frames EXCEPT ![t] =
                            IF unwinding THEN [below EXCEPT ![Len(below)].mode = "unwind"] ELSE below]
      BY <1>3 DEF Return
    <2> QED  BY <1>1, <2>1, PopFields
  <1>5. /\ Mode(t) # "run" /\ Holds(f, "sync") = {} /\ Holds(f, "async") = {}
        /\ status' = [status EXCEPT ![f] = IF Mode(t) = "finish" THEN "done"
                                           ELSE IF Mode(t) = "unwind" THEN "poisoned" ELSE "dropped"]
        /\ owner' = [owner EXCEPT ![f] = IF Mode(t) = "drop" THEN Free ELSE @]
        /\ ended' = [ended EXCEPT ![f] = IF @ # "none" THEN @ ELSE IF Mode(t) = "finish" THEN "ready"
                                         ELSE IF Panicking(t) THEN "panic" ELSE "cancel"]
        /\ UNCHANGED <<kind, saved, base, guards, panics>>
    BY <1>1 DEF Return
  <1>6. /\ status' \in [Futures -> {"none", "unpolled", "pending", "installed",
                                    "done", "poisoned", "dropped"}]
        /\ status'[f] \in {"done", "poisoned", "dropped"}
        /\ \A g \in Futures : g # f => status'[g] = status[g]
    BY <1>5 DEF Typed
  <1>7. /\ owner' \in [Futures -> Contexts \cup {Free}] /\ owner'[f] \in {owner[f], Free}
        /\ \A g \in Futures : g # f => owner'[g] = owner[g]
    BY <1>5 DEF Typed
  <1>8. /\ ended' \in [Futures -> {"none", "ready", "panic", "cancel"}]
        /\ ended'[f] = IF ended[f] # "none" THEN ended[f] ELSE IF Mode(t) = "finish" THEN "ready"
                       ELSE IF Panicking(t) THEN "panic" ELSE "cancel"
        /\ \A g \in Futures : g # f => ended'[g] = ended[g]
    BY <1>5 DEF Typed
  <1>9. Typed'
    BY <1>2, <1>4, <1>5, <1>6, <1>7, <1>8 DEF Typed, NextScope
  <1>10. OwnOf(f) = {}
    BY <1>5, GuardTypes DEF OwnOf, Holds
  <1>11. Unmounted(t, f, IF Mode(t) = "unwind" THEN "unwind" ELSE ModeAt(t, Depth(t) - 1))
    <2>1. Others(f)
      BY <1>2, <1>5, <1>6, <1>7, <1>8 DEF Others
    <2>2. Popped(t, IF Mode(t) = "unwind" THEN "unwind" ELSE ModeAt(t, Depth(t) - 1))
      BY <1>3, <1>4
    <2> QED  BY <1>2, <1>5, <2>1, <2>2 DEF Unmounted
  <1>12. Returned(t, f)
    BY <1>5, <1>6, <1>7, <1>8, <1>10, <1>11 DEF Returned
  <1> QED  BY <1>1, <1>9, <1>12 DEF ScopeStep

LEMMA ModeKind ==
    ASSUME Typed, Placed, NEW t \in Threads, Ready(t) \/ Panic(t) \/ Catch(t)
    PROVE  Typed' /\ ScopeStep(t)
  <1>1. panics \in 0..MaxPanics /\ MaxPanics \in Nat
    BY ConstantFacts DEF Typed
  <1>2. /\ UNCHANGED <<stack, parked, status, owner, kind, saved, base, guards, ended>>
        /\ panics' \in 0..MaxPanics
    BY <1>1 DEF Ready, Panic, Catch, futureVars
  <1>3. PICK m \in Modes :
            /\ frames' = SetMode(t, m)
            /\ \/ Mode(t) = "run" /\ m \in {"finish", "unwind"}
               \/ /\ Mode(t) = "unwind" /\ m = "run"
                  /\ Running(t) \in Futures =>
                        /\ ended[Running(t)] = "none"
                        /\ kind[Running(t)] = "scope" => Holds(Running(t), "async") # {}
    <2>1. CASE Ready(t)  BY <2>1 DEF Ready, Modes
    <2>2. CASE Panic(t)  BY <2>2 DEF Panic, Modes
    <2>3. CASE Catch(t)  BY <2>3 DEF Catch, Modes
    <2> QED  BY <2>1, <2>2, <2>3
  <1>4. Turned(t, m) /\ frames' \in [Threads -> Seq(FrameType)]
    BY <1>3, TurnFields
  <1>5. Holds(Running(t), "async") # {} => \E id \in OwnOf(Running(t)) : Async(id)
    BY DEF Holds, OwnOf, Async
  <1>6. Typed'
    BY <1>2, <1>4 DEF Typed, NextScope
  <1>7. Changed(t, m)
    BY <1>2, <1>3, <1>4, <1>5 DEF Changed
  <1> QED  BY <1>6, <1>7 DEF ScopeStep

LEMMA EnterKind ==
    ASSUME Typed, Placed, NEW t \in Threads, Enter(t)
    PROVE  Typed' /\ ScopeStep(t)
  <1>1. /\ Mode(t) = "run" /\ NextScope < MaxScopes /\ guards' = Entered(Running(t), "sync")
        /\ stack' = [stack EXCEPT ![t] = Append(stack[t], NextScope)]
        /\ UNCHANGED <<frames, parked, status, owner, kind, saved, base, ended, panics>>
    BY DEF Enter, futureVars
  <1>2. Running(t) \in Contexts
    BY TopFrame
  <1>3. /\ Begun(Running(t), "sync") /\ NextScope \in ScopeIds
        /\ NextScope' \in 0..MaxScopes /\ guards' \in [0..(NextScope' - 1) -> GuardType]
    BY <1>1, <1>2, EnterFields
  <1>4. Append(stack[t], NextScope) \in Stacks
    <2>1. stack[t] \in Seq(ScopeIds)
      BY DEF Typed, Stacks
    <2> QED  BY <1>3, <2>1, AppendProperties DEF Stacks
  <1>5. stack' \in [Threads -> Stacks] /\ stack'[t] = Append(stack[t], NextScope) /\ OtherStacks(t)
    BY <1>1, <1>4 DEF Typed, OtherStacks
  <1>6. Typed'
    BY <1>1, <1>3, <1>5 DEF Typed
  <1>7. Began(t)
    BY <1>1, <1>3, <1>5 DEF Began, Still
  <1> QED  BY <1>6, <1>7 DEF ScopeStep

LEMMA ExitKind ==
    ASSUME Typed, Placed, NEW t \in Threads, NEW id \in DOMAIN guards,
           (\E outcome \in Chosen : Leave(t, id, outcome)) \/ DropGuard(t, id) \/ ExitAsync(t, id)
    PROVE  Typed' /\ ScopeStep(t)
  <1> DEFINE Exits(outcome) ==
            /\ Exit(t, id, outcome) /\ id \in OwnOf(Running(t))
            /\ UNCHANGED <<frames, parked, status, owner, kind, saved, base, ended, panics>>
            /\ Async(id) =>
                  /\ GuardIsLast(Running(t))
                  /\ \/ Mode(t) = "finish" /\ outcome \in {"success", "failure"}
                     \/ Mode(t) \in {"unwind", "drop"} /\ outcome = AsyncDropOutcome(t)
  <1>1. \E outcome \in {"success", "failure", "aborted"} : Exits(outcome)
    <2>1. ASSUME NEW outcome \in Chosen, Leave(t, id, outcome)  PROVE Exits(outcome)
      BY <2>1 DEF Leave, Holds, OwnOf, Async, futureVars
    <2>2. ASSUME DropGuard(t, id)  PROVE Exits(IF Panicking(t) THEN "failure" ELSE "success")
      BY <2>2 DEF DropGuard, Holds, OwnOf, Async, futureVars
    <2>3. ASSUME ExitAsync(t, id)  PROVE \E outcome \in {"success", "failure", "aborted"} : Exits(outcome)
      <3>1. /\ Mode(t) # "run" /\ id \in OwnOf(Running(t)) /\ GuardIsLast(Running(t))
            /\ UNCHANGED <<frames, parked, status, owner, kind, saved, base, ended, panics>>
        BY <2>3 DEF ExitAsync, Holds, OwnOf, futureVars
      <3>2. CASE Mode(t) = "finish"
        <4>1. PICK outcome \in {"success", "failure"} : Exit(t, id, outcome)
          BY <2>3, <3>2 DEF ExitAsync
        <4> QED  BY <3>1, <3>2, <4>1
      <3>3. CASE Mode(t) \in {"unwind", "drop"}
        <4>1. Exit(t, id, AsyncDropOutcome(t)) /\ AsyncDropOutcome(t) \in {"failure", "aborted"}
          BY <2>3, <3>3 DEF ExitAsync, AsyncDropOutcome
        <4> QED  BY <3>1, <3>3, <4>1
      <3> QED  BY <2>3, <3>2, <3>3 DEF ExitAsync
    <2>4. Chosen \subseteq {"success", "failure", "aborted"}
      BY ConstantFacts
    <2> QED  BY <2>1, <2>2, <2>3, <2>4
  <1>2. PICK outcome \in {"success", "failure", "aborted"} : Exits(outcome)
    BY <1>1
  <1>3. /\ guards' = [guards EXCEPT ![id].outcome = outcome,
                                    ![id].holder = IF guards[id].what = "sync" THEN Free ELSE @]
        /\ stack' = [stack EXCEPT ![t] = Without(stack[t], id)]
    BY <1>2 DEF Exit
  <1>4. /\ Over(id, outcome)
        /\ NextScope' \in 0..MaxScopes /\ guards' \in [0..(NextScope' - 1) -> GuardType]
    BY <1>3, ExitFields
  <1>5. Without(stack[t], id) \in Stacks
    <2>1. stack[t] \in Seq(ScopeIds)
      BY DEF Typed, Stacks
    <2>2. Without(stack[t], id) \in Seq(ScopeIds)
      BY <2>1, WithoutElement DEF TakenOut
    <2> QED  BY <2>2 DEF Stacks
  <1>6. stack' \in [Threads -> Stacks] /\ stack'[t] = Without(stack[t], id) /\ OtherStacks(t)
    BY <1>3, <1>5 DEF Typed, OtherStacks
  <1>7. Typed'
    BY <1>2, <1>4, <1>6 DEF Typed
  <1>8. Finished(t, id, outcome)
    BY <1>2, <1>4, <1>6 DEF Finished, Still
  <1> QED  BY <1>7, <1>8 DEF ScopeStep

LEMMA StepKinds ==
    ASSUME Typed, Placed, NEW t \in Threads, Step(t)
    PROVE  Typed' /\ (ScopeStep(t) \/ Idle)
  <1>1. ASSUME NEW f \in Futures, NEW k \in {"scope", "wrap"}, NEW o \in Contexts \cup {Free},
               NEW c \in {stack[t], saved, <<>>}, Wrap(t, f, k, o, c)
        PROVE  Typed' /\ ScopeStep(t)
    BY <1>1, WrapKind
  <1>2. ASSUME NEW f \in Futures, FirstPoll(t, f) \/ Poll(t, f) \/ PollOver(t, f) \/ Drop(t, f)
        PROVE  Typed' /\ ScopeStep(t)
    BY <1>2, FirstPollKind, OtherPollKind
  <1>3. ASSUME NEW id \in DOMAIN guards,
               (\E outcome \in Chosen : Leave(t, id, outcome)) \/ DropGuard(t, id) \/ ExitAsync(t, id)
        PROVE  Typed' /\ ScopeStep(t)
    BY <1>3, ExitKind
  <1>4. ASSUME Capture(t)  PROVE Typed' /\ Idle
    <2>1. UNCHANGED <<stack, frames, parked, status, owner, kind, guards, base, ended, panics>>
      BY <1>4 DEF Capture
    <2>2. saved' \in Stacks
      BY <1>4 DEF Capture, Typed
    <2> QED  BY <2>1, <2>2 DEF Typed, NextScope, Idle
  <1> QED  BY <1>1, <1>2, <1>3, <1>4, YieldKind, EscapeKind, ModeKind, ReturnKind, EnterKind DEF Step

-----------------------------------------------------------------------------
(* Frames                                                                   *)

LEMMA PlacedMounted ==
    ASSUME Typed, Placed, Lives, NEW t \in Threads, NEW f \in Futures, NEW m \in Modes, Mounted(t, f, m)
    PROVE  Placed'
  <1>0. PICK n \in Nat : n = Depth(t)
    BY TopFrame
  <1>1. /\ n # 0 /\ n \in 1..n /\ Running(t) = frames[t][n].context /\ Mode(t) = frames[t][n].mode
        /\ frames'[t] \in Seq(FrameType)
        /\ Len(frames[t]) = n /\ Len(frames'[t]) = n + 1
        /\ frames'[t][n + 1].context = f /\ frames'[t][n + 1].mode = m
        /\ \A i \in 1..n : frames'[t][i] = frames[t][i]
        /\ \A u \in Threads : u # t => frames'[u] = frames[u]
    BY <1>0, TopFrame DEF Mounted, Pushed, Depth, ContextAt, ModeAt
  <1>2. /\ status[f] # "installed" /\ status'[f] = "installed"
        /\ \A g \in Futures : /\ g # f => status'[g] = status[g]
                              /\ owner'[g] = owner[g] /\ ended'[g] = ended[g]
        /\ owner[f] \in {Free, Running(t)} /\ (Mode(t) # "run" => m = "drop")
        /\ m \in {"run", "unwind", "drop"} /\ (m = "run" => ended[f] = "none")
    BY DEF Mounted, Others, Lives
  <1>3. \A u \in Threads : \A i \in 1..Depth(u) : ContextAt(u, i) # f
    <2> SUFFICES ASSUME NEW u \in Threads, NEW i \in 1..Depth(u), ContextAt(u, i) = f PROVE FALSE
      OBVIOUS
    <2>1. Depth(u) \in Nat /\ ContextAt(u, 1) = u
      BY TopFrame DEF Placed
    <2>2. i # 1
      BY <2>1, ConstantFacts
    <2>3. i \in 2..Depth(u)
      BY <2>1, <2>2
    <2> QED  BY <1>2, <2>3 DEF Placed
  <1>4. \A u \in Threads : /\ frames'[u] # <<>> /\ frames'[u][1].context = u
    <2> SUFFICES ASSUME NEW u \in Threads PROVE frames'[u] # <<>> /\ frames'[u][1].context = u
      OBVIOUS
    <2>1. frames[u] # <<>> /\ ContextAt(u, 1) = u
      BY DEF Placed
    <2>2. CASE u = t
      <3>1. Len(frames'[t]) # 0 /\ 1 \in 1..n
        BY <1>1 DEF Depth
      <3>2. frames'[t][1] = frames[t][1]
        BY <1>1, <3>1
      <3> QED  BY <1>1, <2>1, <2>2, <3>1, <3>2 DEF ContextAt
    <2> QED  BY <1>1, <2>1, <2>2 DEF ContextAt
  <1> DEFINE Standing(u, i) ==
            /\ ContextAt(u, i) \in Futures /\ status[ContextAt(u, i)] = "installed"
            /\ owner[ContextAt(u, i)] \in {Free, ContextAt(u, i - 1)}
            /\ ModeAt(u, i - 1) # "run" => ModeAt(u, i) = "drop"
            /\ ModeAt(u, i) \in {"run", "finish"} => ended[ContextAt(u, i)] = "none"
  <1>5. ASSUME NEW u \in Threads, NEW i \in 2..Depth(u)', ~(u = t /\ i = n + 1)  PROVE Standing(u, i)'
    <2>1. /\ i \in 2..Depth(u) /\ i \in 1..Depth(u) /\ i - 1 \in 1..Depth(u)
      BY <1>1, <1>5, TopFrame DEF Depth
    <2>2. frames'[u][i] = frames[u][i] /\ frames'[u][i - 1] = frames[u][i - 1]
      BY <1>1, <2>1 DEF Depth
    <2>3. Standing(u, i) /\ ContextAt(u, i) # f
      BY <1>3, <2>1 DEF Placed
    <2>4. /\ ContextAt(u, i)' = ContextAt(u, i) /\ ContextAt(u, i - 1)' = ContextAt(u, i - 1)
          /\ ModeAt(u, i)' = ModeAt(u, i) /\ ModeAt(u, i - 1)' = ModeAt(u, i - 1)
      BY <2>2 DEF ContextAt, ModeAt
    <2> QED  BY <1>2, <2>3, <2>4
  <1>6. Standing(t, n + 1)'
    <2>1. n + 1 - 1 = n
      OBVIOUS
    <2>2. /\ frames'[t][n + 1].context = f /\ frames'[t][n + 1].mode = m
          /\ frames'[t][n + 1 - 1].context = Running(t) /\ frames'[t][n + 1 - 1].mode = Mode(t)
      BY <1>1, <2>1
    <2> QED  BY <1>2, <2>2 DEF ContextAt, ModeAt
  <1>7. \A u \in Threads : \A i \in 2..Depth(u)' : Standing(u, i)'
    BY <1>5, <1>6
  <1> HIDE DEF Standing
  <1>8. ASSUME NEW g \in Futures, status'[g] = "installed"
        PROVE  \E u \in Threads : \E i \in 1..Depth(u)' : ContextAt(u, i)' = g
    <2>1. CASE g = f
      <3>1. n + 1 \in 1..Depth(t)'
        BY <1>1 DEF Depth
      <3> QED  BY <1>1, <2>1, <3>1 DEF ContextAt
    <2>2. CASE g # f
      <3>1. PICK u \in Threads : \E i \in 1..Depth(u) : ContextAt(u, i) = g
        BY <1>2, <1>8, <2>2 DEF Placed, Active, Depth, ContextAt
      <3>2. PICK i \in 1..Depth(u) : ContextAt(u, i) = g
        BY <3>1
      <3>3. i \in 1..Depth(u)' /\ frames'[u][i] = frames[u][i]
        BY <1>1, TopFrame DEF Depth
      <3> QED  BY <3>2, <3>3 DEF ContextAt
    <2> QED  BY <2>1, <2>2
  <1>9. ASSUME NEW u \in Threads, NEW v \in Threads, NEW i \in 1..Depth(u)', NEW k \in 1..Depth(v)',
               ContextAt(u, i)' = ContextAt(v, k)'
        PROVE  u = v /\ i = k
    <2>1. ASSUME NEW w \in Threads, NEW j \in 1..Depth(w)', ~(w = t /\ j = n + 1)
          PROVE  j \in 1..Depth(w) /\ frames'[w][j] = frames[w][j]
      BY <1>1, <2>1, TopFrame DEF Depth
    <2>2. ASSUME NEW w \in Threads, NEW j \in 1..Depth(w)', ~(w = t /\ j = n + 1)
          PROVE  j \in 1..Depth(w) /\ ContextAt(w, j)' = ContextAt(w, j) /\ ContextAt(w, j)' # f
      BY <1>3, <2>1, <2>2 DEF ContextAt
    <2>3. CASE u = t /\ i = n + 1
      BY <1>1, <1>9, <2>2, <2>3 DEF ContextAt
    <2>4. CASE v = t /\ k = n + 1
      BY <1>1, <1>9, <2>2, <2>4 DEF ContextAt
    <2>5. CASE ~(u = t /\ i = n + 1) /\ ~(v = t /\ k = n + 1)
      <3>1. i \in 1..Depth(u) /\ k \in 1..Depth(v) /\ ContextAt(u, i) = ContextAt(v, k)
        BY <1>9, <2>2, <2>5
      <3> QED  BY <3>1 DEF Placed
    <2> QED  BY <2>3, <2>4, <2>5
  <1> QED  BY <1>4, <1>7, <1>8, <1>9 DEF Placed, Standing, Active, ContextAt, Depth

LEMMA PlacedSame ==
    ASSUME Typed, Placed, frames' = frames, ended' = ended,
           \A f \in Futures : \/ status'[f] = status[f] /\ owner'[f] = owner[f]
                              \/ status[f] # "installed" /\ status'[f] # "installed"
    PROVE  Placed'
  <1>1. \A u \in Threads : \A i \in 2..Depth(u) :
            /\ ContextAt(u, i) \in Futures /\ status[ContextAt(u, i)] = "installed"
            /\ owner[ContextAt(u, i)] \in {Free, ContextAt(u, i - 1)}
            /\ ModeAt(u, i - 1) # "run" => ModeAt(u, i) = "drop"
            /\ ModeAt(u, i) \in {"run", "finish"} => ended[ContextAt(u, i)] = "none"
    BY DEF Placed
  <1>2. \A u \in Threads : \A i \in 2..Depth(u) :
            /\ ContextAt(u, i) \in Futures /\ status'[ContextAt(u, i)] = "installed"
            /\ owner'[ContextAt(u, i)] \in {Free, ContextAt(u, i - 1)}
            /\ ModeAt(u, i - 1) # "run" => ModeAt(u, i) = "drop"
            /\ ModeAt(u, i) \in {"run", "finish"} => ended'[ContextAt(u, i)] = "none"
    BY <1>1
  <1>3. \A f \in Futures : status'[f] = "installed" => \E u \in Threads : Active(u, f)
    BY DEF Placed
  <1> QED  BY <1>2, <1>3 DEF Placed, Active, ContextAt, ModeAt, Depth

LEMMA PlacedTurned ==
    ASSUME Typed, Placed, NEW t \in Threads, NEW m \in Modes, Changed(t, m)
    PROVE  Placed'
  <1>0. PICK n \in Nat : n = Depth(t)
    BY TopFrame
  <1>1. /\ n # 0 /\ n \in 1..n /\ Running(t) = frames[t][n].context /\ Mode(t) = frames[t][n].mode
        /\ frames'[t] \in Seq(FrameType) /\ Len(frames[t]) = n /\ Len(frames'[t]) = n
        /\ \A i \in 1..n : frames'[t][i].context = frames[t][i].context
        /\ \A i \in 1..n : frames'[t][i].mode = IF i = n THEN m ELSE frames[t][i].mode
        /\ \A u \in Threads : u # t => frames'[u] = frames[u]
        /\ UNCHANGED <<status, owner, ended>>
    BY <1>0, TopFrame DEF Changed, Turned, Depth, ContextAt, ModeAt
  <1>2. /\ Mode(t) \in {"run", "unwind"} /\ (Mode(t) = "run" => m \in {"finish", "unwind"})
        /\ Mode(t) = "unwind" => /\ m = "run"
                                 /\ Running(t) \in Futures => ended[Running(t)] = "none"
    BY DEF Changed
  <1>3. /\ \A u \in Threads : Len(frames'[u]) = Len(frames[u])
        /\ \A u \in Threads : \A i \in 1..Len(frames[u]) : frames'[u][i].context = frames[u][i].context
        /\ \A u \in Threads : \A i \in 1..Len(frames[u]) :
              ~(u = t /\ i = n) => frames'[u][i].mode = frames[u][i].mode
    BY <1>1
  <1>4. \A u \in Threads : frames'[u] # <<>> /\ frames'[u][1].context = u
    <2> SUFFICES ASSUME NEW u \in Threads PROVE frames'[u] # <<>> /\ frames'[u][1].context = u
      OBVIOUS
    <2>1. Len(frames[u]) # 0 /\ 1 \in 1..Len(frames[u]) /\ frames[u][1].context = u
      BY TopFrame DEF Placed, Depth, ContextAt
    <2> QED  BY <1>3, <2>1
  <1> DEFINE Standing(u, i) ==
            /\ ContextAt(u, i) \in Futures /\ status[ContextAt(u, i)] = "installed"
            /\ owner[ContextAt(u, i)] \in {Free, ContextAt(u, i - 1)}
            /\ ModeAt(u, i - 1) # "run" => ModeAt(u, i) = "drop"
            /\ ModeAt(u, i) \in {"run", "finish"} => ended[ContextAt(u, i)] = "none"
  <1>5. ASSUME NEW u \in Threads, NEW i \in 2..Depth(u)'  PROVE Standing(u, i)'
    <2>1. /\ i \in 2..Depth(u) /\ i \in 1..Len(frames[u]) /\ i - 1 \in 1..Len(frames[u]) /\ i # i - 1
      BY <1>3, TopFrame DEF Depth
    <2>2. Standing(u, i)
      BY <2>1 DEF Placed
    <2>3. /\ ContextAt(u, i)' = ContextAt(u, i) /\ ContextAt(u, i - 1)' = ContextAt(u, i - 1)
          /\ ~(u = t /\ i = n) => ModeAt(u, i)' = ModeAt(u, i)
          /\ ~(u = t /\ i - 1 = n) => ModeAt(u, i - 1)' = ModeAt(u, i - 1)
      BY <1>3, <2>1 DEF ContextAt, ModeAt
    <2>4. ~(u = t /\ i - 1 = n)
      BY <1>1, <2>1 DEF Depth
    <2>5. CASE ~(u = t /\ i = n)
      BY <1>1, <2>2, <2>3, <2>4, <2>5
    <2>6. CASE u = t /\ i = n
      <3>1. /\ ModeAt(u, i)' = m /\ ModeAt(u, i) = Mode(t) /\ ContextAt(u, i) = Running(t)
        BY <1>1, <2>1, <2>6 DEF ModeAt, ContextAt
      <3>2. ModeAt(u, i - 1) = "run"
        BY <1>2, <2>2, <3>1
      <3> QED  BY <1>1, <1>2, <2>2, <2>3, <2>4, <3>1, <3>2
    <2> QED  BY <2>5, <2>6
  <1>6. \A u \in Threads : \A i \in 2..Depth(u)' : Standing(u, i)'
    BY <1>5
  <1>7. ASSUME NEW g \in Futures, status'[g] = "installed"
        PROVE  \E u \in Threads : \E i \in 1..Depth(u)' : ContextAt(u, i)' = g
    <2>1. PICK u \in Threads : \E i \in 1..Len(frames[u]) : frames[u][i].context = g
      BY <1>1, <1>7 DEF Placed, Active
    <2> QED  BY <1>3, <2>1 DEF ContextAt, Depth
  <1>8. ASSUME NEW u \in Threads, NEW v \in Threads, NEW i \in 1..Depth(u)', NEW k \in 1..Depth(v)',
               ContextAt(u, i)' = ContextAt(v, k)'
        PROVE  u = v /\ i = k
    <2>1. /\ i \in 1..Depth(u) /\ k \in 1..Depth(v) /\ ContextAt(u, i) = ContextAt(v, k)
      BY <1>3, <1>8 DEF Depth, ContextAt
    <2> QED  BY <2>1 DEF Placed
  <1> HIDE DEF Standing
  <1> QED  BY <1>4, <1>6, <1>7, <1>8 DEF Placed, Standing, Active, ContextAt, Depth

LEMMA PlacedPopped ==
    ASSUME Typed, Placed, NEW t \in Threads, NEW f \in Futures, f = Running(t),
           Suspended(t, f) \/ Returned(t, f)
    PROVE  Placed'
  <1>0. PICK n \in Nat : n = Depth(t)
    BY TopFrame
  <1>1. PICK m \in Modes : /\ Unmounted(t, f, m)
                           /\ m = IF Mode(t) = "unwind" THEN "unwind" ELSE ModeAt(t, n - 1)
    <2>1. n - 1 \in 1..n
      BY <1>0, TopFrame
    <2>2. ModeAt(t, n - 1) \in Modes /\ "unwind" \in Modes
      BY <1>0, <2>1, TopFrame DEF Modes
    <2> QED  BY <1>0, <2>2 DEF Suspended, Returned
  <1>2. /\ n \in 2..n /\ f = frames[t][n].context /\ Mode(t) = frames[t][n].mode
        /\ Len(frames[t]) = n /\ Len(frames'[t]) = n - 1
        /\ \A i \in 1..(n - 1) : frames'[t][i].context = frames[t][i].context
        /\ \A i \in 1..(n - 1) : frames'[t][i].mode = IF i = n - 1 THEN m ELSE frames[t][i].mode
        /\ \A u \in Threads : u # t => frames'[u] = frames[u]
    BY <1>0, <1>1, TopFrame DEF Unmounted, Popped, Depth, ContextAt, ModeAt
  <1>3. /\ \A g \in Futures : g # f => /\ status'[g] = status[g] /\ owner'[g] = owner[g]
                                       /\ ended'[g] = ended[g]
        /\ status'[f] # "installed"
    BY <1>1 DEF Suspended, Returned, Unmounted, Others
  <1>4. ASSUME NEW u \in Threads, NEW i \in 1..Len(frames'[u])
        PROVE  /\ i \in 1..Len(frames[u]) /\ frames'[u][i].context = frames[u][i].context
               /\ frames[u][i].context # f /\ ~(u = t /\ i = n)
               /\ ~(u = t /\ i = n - 1) => frames'[u][i].mode = frames[u][i].mode
    <2>1. /\ i \in 1..Len(frames[u]) /\ ~(u = t /\ i = n)
          /\ frames'[u][i].context = frames[u][i].context
          /\ ~(u = t /\ i = n - 1) => frames'[u][i].mode = frames[u][i].mode
      BY <1>2
    <2>2. frames[u][i].context = f => u = t /\ i = n
      BY <1>0, <1>2, <2>1 DEF Placed, ContextAt, Depth
    <2> QED  BY <2>1, <2>2
  <1>5. ASSUME NEW u \in Threads  PROVE frames'[u] # <<>> /\ frames'[u][1].context = u
    <2>1. Len(frames[u]) # 0 /\ 1 \in 1..Len(frames[u]) /\ frames[u][1].context = u
      BY TopFrame DEF Placed, Depth, ContextAt
    <2>2. Len(frames'[u]) # 0 /\ 1 \in 1..Len(frames'[u])
      BY <1>2, <2>1
    <2> QED  BY <1>4, <2>1, <2>2
  <1> DEFINE Standing(u, i) ==
            /\ ContextAt(u, i) \in Futures /\ status[ContextAt(u, i)] = "installed"
            /\ owner[ContextAt(u, i)] \in {Free, ContextAt(u, i - 1)}
            /\ ModeAt(u, i - 1) # "run" => ModeAt(u, i) = "drop"
            /\ ModeAt(u, i) \in {"run", "finish"} => ended[ContextAt(u, i)] = "none"
  <1>6. ASSUME NEW u \in Threads, NEW i \in 2..Depth(u)'  PROVE Standing(u, i)'
    <2>1. i \in 1..Len(frames'[u]) /\ i - 1 \in 1..Len(frames'[u]) /\ i \in 2..Depth(u)
      <3>1. /\ Len(frames[u]) \in Nat /\ Len(frames'[u]) \in Nat /\ Len(frames'[u]) <= Len(frames[u])
        BY <1>2, TopFrame DEF Depth
      <3> QED  BY <3>1 DEF Depth
    <2>2. Standing(u, i)
      BY <2>1 DEF Placed
    <2>3. /\ ContextAt(u, i)' = ContextAt(u, i) /\ ContextAt(u, i - 1)' = ContextAt(u, i - 1)
          /\ ContextAt(u, i) # f /\ ~(u = t /\ i - 1 = n - 1)
          /\ ~(u = t /\ i = n - 1) => ModeAt(u, i)' = ModeAt(u, i)
          /\ ModeAt(u, i - 1)' = ModeAt(u, i - 1)
      BY <1>2, <1>4, <2>1 DEF ContextAt, ModeAt
    <2>4. CASE ~(u = t /\ i = n - 1)
      BY <1>3, <2>2, <2>3, <2>4
    <2>5. CASE u = t /\ i = n - 1
      <3>1. ModeAt(u, i)' = m
        BY <1>2, <2>1, <2>5 DEF ModeAt
      <3>2. CASE Mode(t) = "unwind"
        <4>1. /\ n \in 2..Depth(t) /\ ModeAt(t, n) = "unwind"
          BY <1>0, <1>2, <3>2 DEF ModeAt
        <4>2. ModeAt(t, n - 1) = "run"
          BY <4>1 DEF Placed
        <4>3. ModeAt(u, i) = "run" /\ m = "unwind"
          BY <1>1, <2>5, <3>2, <4>2
        <4> QED  BY <1>3, <2>2, <2>3, <3>1, <4>3
      <3>3. CASE Mode(t) # "unwind"
        <4>1. m = ModeAt(u, i)
          BY <1>1, <2>5, <3>3
        <4> QED  BY <1>3, <2>2, <2>3, <3>1, <4>1
      <3> QED  BY <3>2, <3>3
    <2> QED  BY <2>4, <2>5
  <1>7. \A u \in Threads : \A i \in 2..Depth(u)' : Standing(u, i)'
    BY <1>6
  <1>8. ASSUME NEW g \in Futures, status'[g] = "installed"
        PROVE  \E u \in Threads : \E i \in 1..Depth(u)' : ContextAt(u, i)' = g
    <2>1. g # f /\ status[g] = "installed"
      BY <1>3, <1>8
    <2>2. PICK u \in Threads : \E i \in 1..Len(frames[u]) : frames[u][i].context = g
      BY <2>1 DEF Placed, Active
    <2>3. PICK i \in 1..Len(frames[u]) : frames[u][i].context = g
      BY <2>2
    <2>4. i \in 1..Len(frames'[u])
      BY <1>2, <2>1, <2>3
    <2> QED  BY <1>4, <2>3, <2>4 DEF ContextAt, Depth
  <1>9. ASSUME NEW u \in Threads, NEW v \in Threads, NEW i \in 1..Depth(u)', NEW k \in 1..Depth(v)',
               ContextAt(u, i)' = ContextAt(v, k)'
        PROVE  u = v /\ i = k
    <2>1. /\ i \in 1..Depth(u) /\ k \in 1..Depth(v) /\ ContextAt(u, i) = ContextAt(v, k)
      BY <1>4, <1>9 DEF Depth, ContextAt
    <2> QED  BY <2>1 DEF Placed
  <1> HIDE DEF Standing
  <1> QED  BY <1>5, <1>7, <1>8, <1>9 DEF Placed, Standing, Active, ContextAt, Depth

LEMMA PlacedStep ==
    ASSUME Typed, Placed, Lives, NEW t \in Threads, ScopeStep(t)
    PROVE  Placed'
  <1>1. ASSUME NEW f \in Futures, Created(t, f)  PROVE Placed'
    <2>1. \A g \in Futures : \/ status'[g] = status[g] /\ owner'[g] = owner[g]
                             \/ status[g] # "installed" /\ status'[g] # "installed"
      BY <1>1 DEF Created, Others
    <2>2. frames' = frames /\ ended' = ended
      BY <1>1 DEF Created
    <2> QED  BY <2>1, <2>2, PlacedSame
  <1>2. ASSUME NEW f \in Futures, FirstTime(t, f)  PROVE Placed'
    BY <1>2, PlacedMounted DEF FirstTime, Modes
  <1>3. ASSUME NEW f \in Futures, NEW m \in Modes, NextTime(t, f, m)  PROVE Placed'
    BY <1>3, PlacedMounted DEF NextTime
  <1>4. ASSUME Still  PROVE Placed'
    BY <1>4, PlacedSame DEF Still
  <1> QED  BY <1>1, <1>2, <1>3, <1>4, PlacedTurned, PlacedPopped DEF ScopeStep, Began, Finished

-----------------------------------------------------------------------------
(* Lives                                                                    *)

LEMMA RunningFuture ==
    ASSUME Typed, Placed, NEW t \in Threads, Running(t) \in Futures
    PROVE  /\ status[Running(t)] = "installed"
           /\ Mode(t) \in {"run", "finish"} => ended[Running(t)] = "none"
  <1>1. /\ Depth(t) \in 2..Depth(t) /\ Running(t) = ContextAt(t, Depth(t))
        /\ Mode(t) = ModeAt(t, Depth(t))
    BY TopFrame
  <1> QED  BY <1>1 DEF Placed

LEMMA OwnBegun ==
    ASSUME Typed, NEW c \in Contexts, NEW what \in {"sync", "async"}, Begun(c, what)
    PROVE  /\ NextScope \notin DOMAIN guards /\ NextScope \notin OwnOf(c)
           /\ OwnOf(c)' = OwnOf(c) \cup {NextScope}
           /\ \A d \in Contexts : d # c => OwnOf(d)' = OwnOf(d)
  <1>1. NextScope \notin DOMAIN guards
    BY DEF Begun
  <1>2. ASSUME NEW d \in Contexts, NEW id
        PROVE  id \in OwnOf(d)' <=> id \in OwnOf(d) \/ (id = NextScope /\ d = c)
    BY <1>1 DEF Begun, OwnOf
  <1> QED  BY <1>1, <1>2 DEF OwnOf

LEMMA OwnOver ==
    ASSUME Typed, NEW c \in Contexts, NEW id \in OwnOf(c),
           NEW outcome \in {"success", "failure", "aborted"}, Over(id, outcome)
    PROVE  /\ OwnOf(c)' = OwnOf(c) \ {id}
           /\ \A d \in Contexts : d # c => OwnOf(d)' = OwnOf(d)
  <1>1. ASSUME NEW d \in Contexts, NEW x
        PROVE  x \in OwnOf(d)' <=> x \in OwnOf(d) /\ x # id
    BY DEF Over, OwnOf
  <1>2. \A d \in Contexts : d # c => id \notin OwnOf(d)
    BY DEF OwnOf
  <1> QED  BY <1>1, <1>2

LEMMA LivesFrames ==
    ASSUME Typed, Placed, Lives, guards' = guards, NEW f \in Futures, Others(f),
           status'[f] \in {"none", "unpolled", "pending"} => ended'[f] = "none",
           status'[f] \in {"done", "poisoned", "dropped"} => ended'[f] # "none",
           status'[f] \in {"none", "unpolled"} => status[f] = "none",
           status'[f] = "unpolled" => kind'[f] = "scope",
           ended'[f] # "none" => OwnOf(f) = {},
           status[f] # "none" => kind'[f] = kind[f]
    PROVE  Lives'
  <1>1. /\ \A c : OwnOf(c)' = OwnOf(c)
        /\ \A id \in DOMAIN guards : Async(id)' = Async(id) /\ guards'[id] = guards[id]
    BY DEF OwnOf, Async
  <1>2. ASSUME NEW g \in Futures
        PROVE  /\ status'[g] \in {"none", "unpolled", "pending"} => ended'[g] = "none"
               /\ status'[g] \in {"done", "poisoned", "dropped"} => ended'[g] # "none"
               /\ status'[g] \in {"none", "unpolled"} => \A id \in DOMAIN guards : guards[id].holder # g
               /\ status'[g] = "unpolled" => kind'[g] = "scope"
               /\ ended'[g] # "none" => OwnOf(g) = {}
    <2>1. CASE g = f
      BY <2>1 DEF Lives
    <2>2. CASE g # f
      BY <2>2 DEF Lives, Others
    <2> QED  BY <2>1, <2>2
  <1>3. ASSUME NEW id \in DOMAIN guards, Async(id)
        PROVE  guards[id].holder \in Futures /\ kind'[guards[id].holder] = "scope"
    <2>1. guards[id].holder \in Futures /\ kind[guards[id].holder] = "scope"
      BY <1>3 DEF Lives
    <2>2. CASE guards[id].holder = f
      BY <2>1, <2>2 DEF Lives
    <2>3. CASE guards[id].holder # f
      BY <2>1, <2>3 DEF Others
    <2> QED  BY <2>2, <2>3
  <1>4. \A id, other \in DOMAIN guards :
          Async(id) /\ Async(other) /\ guards[id].holder = guards[other].holder => id = other
    BY DEF Lives
  <1> QED  BY <1>1, <1>2, <1>3, <1>4 DEF Lives

LEMMA LivesBegun ==
    ASSUME Typed, Placed, Lives, NEW c \in Contexts, NEW what \in {"sync", "async"}, Begun(c, what),
           UNCHANGED <<kind, ended>>,
           \A f \in Futures : f # c => status'[f] = status[f],
           c \in Futures => status'[c] = "installed" /\ ended[c] = "none",
           what = "async" => /\ c \in Futures /\ kind[c] = "scope"
                             /\ \A id \in DOMAIN guards : guards[id].holder # c
    PROVE  Lives'
  <1>1. /\ NextScope \notin DOMAIN guards /\ DOMAIN guards' = DOMAIN guards \cup {NextScope}
        /\ guards'[NextScope].holder = c /\ guards'[NextScope].what = what
        /\ \A id \in DOMAIN guards : guards'[id] = guards[id]
        /\ \A d \in Contexts : d # c => OwnOf(d)' = OwnOf(d)
    BY OwnBegun DEF Begun
  <1>2. ASSUME NEW f \in Futures
        PROVE  /\ status'[f] \in {"none", "unpolled", "pending"} => ended'[f] = "none"
               /\ status'[f] \in {"done", "poisoned", "dropped"} => ended'[f] # "none"
               /\ status'[f] \in {"none", "unpolled"} => \A id \in DOMAIN guards' : guards'[id].holder # f
               /\ status'[f] = "unpolled" => kind'[f] = "scope"
               /\ ended'[f] # "none" => OwnOf(f)' = {}
    <2>1. CASE f = c
      BY <2>1
    <2>2. CASE f # c
      <3>1. OwnOf(f)' = OwnOf(f) /\ status'[f] = status[f]
        BY <1>1, <2>2 DEF Contexts
      <3> QED  BY <1>1, <2>2, <3>1 DEF Lives
    <2> QED  BY <2>1, <2>2
  <1>3. ASSUME NEW id \in DOMAIN guards', guards'[id].what = "async"
        PROVE  guards'[id].holder \in Futures /\ kind'[guards'[id].holder] = "scope"
    BY <1>1, <1>3 DEF Lives, Async
  <1>4. ASSUME NEW id \in DOMAIN guards', NEW other \in DOMAIN guards', guards'[id].what = "async",
               guards'[other].what = "async", guards'[id].holder = guards'[other].holder
        PROVE  id = other
    BY <1>1, <1>4 DEF Lives, Async
  <1> QED  BY <1>2, <1>3, <1>4 DEF Lives, Async

LEMMA LivesOver ==
    ASSUME Typed, Placed, Lives, NEW c \in Contexts, NEW id \in OwnOf(c),
           NEW outcome \in {"success", "failure", "aborted"}, Over(id, outcome), Still
    PROVE  Lives'
  <1>1. /\ DOMAIN guards' = DOMAIN guards /\ id \in DOMAIN guards
        /\ \A x \in DOMAIN guards : guards'[x].what = guards[x].what
        /\ \A x \in DOMAIN guards : guards'[x].holder = guards[x].holder
                                    \/ (guards'[x].holder = Free /\ guards[x].what # "async")
    BY DEF Over, Async, OwnOf
  <1>2. \A d \in Contexts : OwnOf(d)' \subseteq OwnOf(d)
    <2>1. \A d \in Contexts : d # c => OwnOf(d)' = OwnOf(d)
      BY OwnOver
    <2>2. OwnOf(c)' = OwnOf(c) \ {id}
      BY OwnOver
    <2> QED  BY <2>1, <2>2
  <1>3. UNCHANGED <<status, kind, ended>> /\ Free \notin Futures
    BY ConstantFacts DEF Still
  <1>4. ASSUME NEW f \in Futures
        PROVE  /\ status'[f] \in {"none", "unpolled", "pending"} => ended'[f] = "none"
               /\ status'[f] \in {"done", "poisoned", "dropped"} => ended'[f] # "none"
               /\ status'[f] \in {"none", "unpolled"} => \A x \in DOMAIN guards' : guards'[x].holder # f
               /\ status'[f] = "unpolled" => kind'[f] = "scope"
               /\ ended'[f] # "none" => OwnOf(f)' = {}
    <2>1. OwnOf(f)' \subseteq OwnOf(f)
      BY <1>2 DEF Contexts
    <2> QED  BY <1>1, <1>3, <2>1 DEF Lives
  <1>5. ASSUME NEW x \in DOMAIN guards', guards'[x].what = "async"
        PROVE  guards'[x].holder \in Futures /\ kind'[guards'[x].holder] = "scope"
    BY <1>1, <1>3, <1>5 DEF Lives, Async
  <1>6. ASSUME NEW x \in DOMAIN guards', NEW other \in DOMAIN guards', guards'[x].what = "async",
               guards'[other].what = "async", guards'[x].holder = guards'[other].holder
        PROVE  x = other
    BY <1>1, <1>6 DEF Lives, Async
  <1> QED  BY <1>4, <1>5, <1>6 DEF Lives, Async

LEMMA LivesStep ==
    ASSUME Typed, Placed, Lives, NEW t \in Threads, ScopeStep(t)
    PROVE  Lives'
  <1>1. ASSUME NEW f \in Futures, Created(t, f)  PROVE Lives'
    <2>1. status[f] = "none" => ended[f] = "none" /\ OwnOf(f) = {}
      BY DEF Lives, OwnOf
    <2> QED  BY <1>1, <2>1, LivesFrames DEF Created
  <1>2. ASSUME NEW f \in Futures, FirstTime(t, f)  PROVE Lives'
    <2>1. /\ ended[f] = "none" /\ kind[f] = "scope" /\ \A id \in DOMAIN guards : guards[id].holder # f
      BY <1>2 DEF Lives, FirstTime
    <2>2. /\ Begun(f, "async") /\ UNCHANGED <<kind, ended>> /\ status'[f] = "installed"
          /\ \A g \in Futures : g # f => status'[g] = status[g]
      BY <1>2 DEF FirstTime, Mounted, Others
    <2> QED  BY <2>1, <2>2, LivesBegun DEF Contexts
  <1>3. ASSUME NEW f \in Futures, NEW m \in Modes, NextTime(t, f, m)  PROVE Lives'
    <2>1. /\ guards' = guards /\ Others(f) /\ status'[f] = "installed"
          /\ ended' = ended /\ kind' = kind
      BY <1>3 DEF NextTime, Mounted
    <2>2. ended[f] # "none" => OwnOf(f) = {}
      BY DEF Lives
    <2> QED  BY <2>1, <2>2, LivesFrames
  <1>4. ASSUME NEW m \in Modes, Changed(t, m)  PROVE Lives'
    <2>1. UNCHANGED <<status, kind, ended, guards>>
      BY <1>4 DEF Changed
    <2> QED  BY <2>1 DEF Lives, OwnOf, Async
  <1>5. ASSUME NEW f \in Futures, f = Running(t), Suspended(t, f)  PROVE Lives'
    <2>1. status[f] = "installed" /\ ended[f] = "none"
      BY <1>5, RunningFuture DEF Suspended
    <2>2. /\ guards' = guards /\ Others(f) /\ status'[f] = "pending" /\ ended' = ended /\ kind' = kind
      BY <1>5 DEF Suspended, Unmounted
    <2> QED  BY <2>1, <2>2, LivesFrames
  <1>6. ASSUME NEW f \in Futures, f = Running(t), Returned(t, f)  PROVE Lives'
    <2>1. /\ guards' = guards /\ Others(f) /\ kind' = kind /\ OwnOf(f) = {}
          /\ status'[f] \in {"done", "poisoned", "dropped"} /\ ended'[f] # "none"
      BY <1>6 DEF Returned, Unmounted
    <2> QED  BY <2>1, LivesFrames
  <1>7. ASSUME Began(t)  PROVE Lives'
    <2>1. /\ Begun(Running(t), "sync") /\ UNCHANGED <<kind, ended, status>> /\ Mode(t) = "run"
      BY <1>7 DEF Began, Still
    <2>2. PICK c \in Contexts : c = Running(t)
      BY TopFrame
    <2>3. c \in Futures => status[c] = "installed" /\ ended[c] = "none"
      BY <2>1, <2>2, RunningFuture
    <2>4. Begun(c, "sync")
      BY <2>1, <2>2
    <2> QED  BY <2>1, <2>3, <2>4, LivesBegun
  <1>8. ASSUME NEW id \in DOMAIN guards, NEW outcome \in {"success", "failure", "aborted"},
               Finished(t, id, outcome)
        PROVE  Lives'
    <2>1. PICK c \in Contexts : c = Running(t)
      BY TopFrame
    <2>2. id \in OwnOf(c) /\ Over(id, outcome) /\ Still
      BY <1>8, <2>1 DEF Finished
    <2> QED  BY <2>2, LivesOver
  <1> QED  BY <1>1, <1>2, <1>3, <1>4, <1>5, <1>6, <1>7, <1>8 DEF ScopeStep

-----------------------------------------------------------------------------
(* How async scopes exit                                                    *)

(* What the async scope of a future may have exited with, by the way its    *)
(* frame is being left: nothing while the future goes on.                   *)
Due(t, i, outcome) ==
    /\ ModeAt(t, i) = "run" => outcome = "open"
    /\ ModeAt(t, i) = "finish" => outcome \in {"open", "success", "failure"}
    /\ ModeAt(t, i) = "unwind" => outcome \in {"open", "failure"}
    /\ ModeAt(t, i) = "drop" =>
          \/ outcome = "open"
          \/ outcome = "failure" /\ \E j \in 1..(i - 1) : ModeAt(t, j) = "unwind"
          \/ outcome = "aborted" /\ \A j \in 1..(i - 1) : ModeAt(t, j) # "unwind"
ExitedAt(t, i) ==
    \A id \in DOMAIN guards :
        /\ Async(id) /\ guards[id].holder = ContextAt(t, i) /\ ended[ContextAt(t, i)] = "none"
        => Due(t, i, guards[id].outcome)
Exited == \A t \in Threads : \A i \in 2..Depth(t) : ExitedAt(t, i)

LEMMA OpenDue ==
    ASSUME NEW t, NEW i  PROVE Due(t, i, "open") /\ Due(t, i, "open")'
  BY DEF Due

LEMMA ExitedKept ==
    ASSUME Exited, NEW u \in Threads, NEW i \in 2..Depth(u), Depth(u) \in Nat,
           \A j \in 1..i : /\ frames'[u][j].context = frames[u][j].context
                           /\ frames'[u][j].mode = frames[u][j].mode,
           \A id \in DOMAIN guards' :
               guards'[id].what = "async" /\ guards'[id].holder = ContextAt(u, i)
               => id \in DOMAIN guards /\ guards'[id] = guards[id],
           ended'[ContextAt(u, i)] = ended[ContextAt(u, i)]
    PROVE  ExitedAt(u, i)'
  <1>1. i \in Nat /\ i \in 1..i /\ \A j \in 1..(i - 1) : j \in 1..i
    OBVIOUS
  <1>2. ContextAt(u, i)' = ContextAt(u, i)
    BY <1>1 DEF ContextAt
  <1>3. \A outcome : Due(u, i, outcome) => Due(u, i, outcome)'
    BY <1>1 DEF Due, ModeAt
  <1>4. ExitedAt(u, i)
    BY DEF Exited
  <1> QED  BY <1>2, <1>3, <1>4 DEF ExitedAt, Async

LEMMA ExitedMounted ==
    ASSUME Typed, Placed, Lives, Exited, NEW t \in Threads, NEW f \in Futures, NEW m \in Modes,
           Mounted(t, f, m),
           \A id \in DOMAIN guards' :
               \/ id \in DOMAIN guards /\ guards'[id] = guards[id]
               \/ guards'[id].holder = f,
           \A id \in DOMAIN guards' :
               guards'[id].what = "async" /\ guards'[id].holder = f /\ ended[f] = "none"
               => guards'[id].outcome = "open"
    PROVE  Exited'
  <1>0. PICK n \in Nat : n = Depth(t)
    BY TopFrame
  <1>1. /\ n # 0 /\ Len(frames[t]) = n /\ Len(frames'[t]) = n + 1
        /\ frames'[t][n + 1].context = f
        /\ \A i \in 1..n : frames'[t][i] = frames[t][i]
        /\ \A u \in Threads : u # t => frames'[u] = frames[u]
        /\ status[f] # "installed" /\ ended' = ended
    BY <1>0, TopFrame DEF Mounted, Pushed, Depth
  <1>2. ASSUME NEW u \in Threads, NEW i \in 2..Depth(u)', ~(u = t /\ i = n + 1)  PROVE ExitedAt(u, i)'
    <2>1. i \in 2..Depth(u) /\ Depth(u) \in Nat
      BY <1>1, <1>2, TopFrame DEF Depth
    <2>2. \A j \in 1..i : frames'[u][j] = frames[u][j]
      BY <1>1, <2>1 DEF Depth
    <2>3. ContextAt(u, i) # f
      BY <1>1, <2>1 DEF Placed
    <2> QED  BY <1>1, <2>1, <2>2, <2>3, ExitedKept
  <1>3. ExitedAt(t, n + 1)'
    <2>1. ContextAt(t, n + 1)' = f
      BY <1>1 DEF ContextAt
    <2>2. Due(t, n + 1, "open")'
      BY OpenDue
    <2> QED  BY <1>1, <2>1, <2>2 DEF ExitedAt, Async
  <1> QED  BY <1>2, <1>3 DEF Exited

LEMMA ExitedTurned ==
    ASSUME Typed, Placed, Lives, Exited, NEW t \in Threads, NEW m \in Modes, Changed(t, m)
    PROVE  Exited'
  <1>0. PICK n \in Nat : n = Depth(t)
    BY TopFrame
  <1>1. /\ Len(frames[t]) = n /\ Len(frames'[t]) = n /\ frames[t][n].context = Running(t)
        /\ \A i \in 1..n : frames'[t][i].context = frames[t][i].context
        /\ \A i \in 1..n : frames'[t][i].mode = IF i = n THEN m ELSE frames[t][i].mode
        /\ \A u \in Threads : u # t => frames'[u] = frames[u]
        /\ ended' = ended /\ guards' = guards
    BY <1>0, TopFrame DEF Changed, Turned, Depth, ContextAt, ModeAt
  <1>2. ASSUME NEW u \in Threads, NEW i \in 2..Depth(u)', ~(u = t /\ i = n)  PROVE ExitedAt(u, i)'
    <2>1. i \in 2..Depth(u) /\ Depth(u) \in Nat
      BY <1>1, <1>2, TopFrame DEF Depth
    <2>2. \A j \in 1..i : /\ frames'[u][j].context = frames[u][j].context
                          /\ frames'[u][j].mode = frames[u][j].mode
      BY <1>0, <1>1, <1>2, <2>1 DEF Depth
    <2> QED  BY <1>1, <2>1, <2>2, ExitedKept
  <1>3. ASSUME n \in 2..n, NEW id \in DOMAIN guards, Async(id), guards[id].holder = Running(t),
               ended[Running(t)] = "none"
        PROVE  Due(t, n, guards[id].outcome)'
    <2>1. ContextAt(t, n) = Running(t) /\ ModeAt(t, n) = Mode(t) /\ ModeAt(t, n)' = m
      BY <1>0, <1>1, <1>3, TopFrame DEF ContextAt, ModeAt
    <2>2. Due(t, n, guards[id].outcome)
      BY <1>0, <1>3, <2>1 DEF Exited, ExitedAt
    <2>3. CASE Mode(t) = "run" /\ m \in {"finish", "unwind"}
      BY <2>1, <2>2, <2>3, <1>1 DEF Due
    <2>4. CASE /\ Mode(t) = "unwind" /\ m = "run"
               /\ Running(t) \in Futures =>
                     /\ ended[Running(t)] = "none"
                     /\ kind[Running(t)] = "scope" => \E x \in OwnOf(Running(t)) : Async(x)
      <3>1. Running(t) \in Futures /\ kind[Running(t)] = "scope"
        BY <1>3 DEF Lives
      <3>2. PICK x \in OwnOf(Running(t)) : Async(x)
        BY <2>4, <3>1
      <3>3. x = id
        BY <1>3, <3>2 DEF Lives, OwnOf
      <3>4. guards'[id].outcome = "open"
        BY <1>1, <3>2, <3>3 DEF OwnOf
      <3> QED  BY <3>4, OpenDue
    <2> QED  BY <2>3, <2>4 DEF Changed
  <1>4. n \in 2..n => ExitedAt(t, n)'
    <2>1. n \in 2..n => ContextAt(t, n)' = Running(t)
      BY <1>1 DEF ContextAt
    <2> QED  BY <1>1, <1>3, <2>1 DEF ExitedAt, Async
  <1> QED  BY <1>1, <1>2, <1>4 DEF Exited, Depth

LEMMA ExitedPopped ==
    ASSUME Typed, Placed, Lives, Exited, NEW t \in Threads, NEW f \in Futures, f = Running(t),
           Suspended(t, f) \/ Returned(t, f)
    PROVE  Exited'
  <1>0. PICK n \in Nat : n = Depth(t)
    BY TopFrame
  <1>1. n \in 2..n /\ n - 1 \in 1..n /\ ModeAt(t, n) = Mode(t) /\ ContextAt(t, n) = f
    BY <1>0, TopFrame
  <1>2. PICK m \in Modes : /\ Unmounted(t, f, m)
                           /\ m = IF Mode(t) = "unwind" THEN "unwind" ELSE ModeAt(t, n - 1)
    <2>1. ModeAt(t, n - 1) \in Modes /\ "unwind" \in Modes
      BY <1>0, <1>1, TopFrame DEF Modes
    <2> QED  BY <1>0, <2>1 DEF Suspended, Returned
  <1>3. /\ Len(frames[t]) = n /\ Len(frames'[t]) = n - 1
        /\ \A i \in 1..(n - 1) : frames'[t][i].context = frames[t][i].context
        /\ \A i \in 1..(n - 1) : frames'[t][i].mode = IF i = n - 1 THEN m ELSE frames[t][i].mode
        /\ \A u \in Threads : u # t => frames'[u] = frames[u]
        /\ guards' = guards
    BY <1>0, <1>2 DEF Unmounted, Popped, Depth, ContextAt, ModeAt
  <1>4. \A g \in Futures : g # f => ended'[g] = ended[g]
    BY <1>2 DEF Unmounted, Others
  <1>5. ASSUME NEW u \in Threads, NEW i \in 2..Depth(u)'
        PROVE  /\ i \in 2..Depth(u) /\ Depth(u) \in Nat /\ ~(u = t /\ i = n)
               /\ ContextAt(u, i) \in Futures /\ ended'[ContextAt(u, i)] = ended[ContextAt(u, i)]
    <2>1. i \in 2..Depth(u) /\ i \in 1..Depth(u) /\ Depth(u) \in Nat /\ ~(u = t /\ i = n)
      BY <1>1, <1>3, TopFrame DEF Depth
    <2>2. ContextAt(u, i) \in Futures
      BY <2>1 DEF Placed
    <2>3. ContextAt(u, i) # f
      BY <1>0, <1>1, <2>1, TopFrame DEF Placed
    <2> QED  BY <1>4, <2>1, <2>2, <2>3
  <1>6. ASSUME NEW u \in Threads, NEW i \in 2..Depth(u)', ~(u = t /\ i = n - 1 /\ Mode(t) = "unwind")
        PROVE  ExitedAt(u, i)'
    <2>1. \A j \in 1..i : /\ frames'[u][j].context = frames[u][j].context
                          /\ frames'[u][j].mode = frames[u][j].mode
      <3> SUFFICES ASSUME NEW j \in 1..i
                   PROVE  /\ frames'[u][j].context = frames[u][j].context
                          /\ frames'[u][j].mode = frames[u][j].mode
        OBVIOUS
      <3>1. CASE u # t
        BY <1>3, <3>1
      <3>2. CASE u = t
        <4>1. j \in 1..(n - 1) /\ (j = n - 1 => i = n - 1)
          BY <1>3, <1>6, <3>2 DEF Depth
        <4>2. j = n - 1 => m = frames[t][j].mode
          BY <1>2, <1>6, <3>2, <4>1 DEF ModeAt
        <4> QED  BY <1>3, <3>2, <4>1, <4>2
      <3> QED  BY <3>1, <3>2
    <2> QED  BY <1>3, <1>5, <1>6, <2>1, ExitedKept
  <1>7. ASSUME Mode(t) = "unwind", n - 1 \in 2..(n - 1)  PROVE ExitedAt(t, n - 1)'
    <2>1. n - 1 \in 2..Depth(t) /\ ModeAt(t, n - 1) = "run"
      BY <1>0, <1>1, <1>7 DEF Placed
    <2>2. PICK i \in 2..Depth(t)' : i = n - 1
      BY <1>3, <1>7 DEF Depth
    <2>3. ContextAt(t, i)' = ContextAt(t, i) /\ ended'[ContextAt(t, i)] = ended[ContextAt(t, i)]
      BY <1>1, <1>3, <1>5, <2>2 DEF ContextAt
    <2>4. ASSUME NEW id \in DOMAIN guards, Async(id), guards[id].holder = ContextAt(t, i),
                 ended[ContextAt(t, i)] = "none"
          PROVE  guards[id].outcome = "open"
      BY <2>1, <2>2, <2>4 DEF Exited, ExitedAt, Due
    <2>5. ExitedAt(t, i)'
      <3>1. Due(t, i, "open")'
        BY OpenDue
      <3> QED  BY <1>3, <2>3, <2>4, <3>1 DEF ExitedAt, Async
    <2> QED  BY <2>2, <2>5
  <1> QED  BY <1>3, <1>6, <1>7 DEF Exited, Depth

LEMMA ExitedBegan ==
    ASSUME Typed, Placed, Lives, Exited, NEW t \in Threads, Began(t)
    PROVE  Exited'
  <1>1. frames' = frames /\ ended' = ended /\ Begun(Running(t), "sync")
    BY DEF Began, Still
  <1>2. \A id \in DOMAIN guards' : guards'[id].what = "async" => id \in DOMAIN guards /\ guards'[id] = guards[id]
    BY <1>1 DEF Begun
  <1>3. ASSUME NEW u \in Threads, NEW i \in 2..Depth(u)  PROVE ExitedAt(u, i)'
    BY <1>1, <1>2, TopFrame, ExitedKept
  <1> QED  BY <1>1, <1>3 DEF Exited, Depth

LEMMA ExitedFinished ==
    ASSUME Typed, Placed, Lives, Exited, NEW t \in Threads, NEW id \in DOMAIN guards,
           NEW outcome \in {"success", "failure", "aborted"}, Finished(t, id, outcome)
    PROVE  Exited'
  <1>1. /\ frames' = frames /\ ended' = ended /\ Over(id, outcome) /\ id \in OwnOf(Running(t))
    BY DEF Finished, Still
  <1>2. \A x \in DOMAIN guards' :
            /\ x \in DOMAIN guards /\ guards'[x].what = guards[x].what
            /\ x # id => guards'[x] = guards[x]
    BY <1>1 DEF Over
  <1>3. ASSUME NEW u \in Threads, NEW i \in 2..Depth(u), ~(Async(id) /\ ContextAt(u, i) = Running(t))
        PROVE  ExitedAt(u, i)'
    <2>1. \A x \in DOMAIN guards' :
              guards'[x].what = "async" /\ guards'[x].holder = ContextAt(u, i)
              => x \in DOMAIN guards /\ guards'[x] = guards[x]
      <3>1. Async(id) => guards'[id].holder = Running(t)
        BY <1>1 DEF Over, OwnOf
      <3> QED  BY <1>2, <1>3, <3>1 DEF Async
    <2> QED  BY <1>1, <2>1, TopFrame, ExitedKept
  <1>4. ASSUME NEW u \in Threads, NEW i \in 2..Depth(u), Async(id), ContextAt(u, i) = Running(t)
        PROVE  ExitedAt(u, i)'
    <2>1. /\ Running(t) = ContextAt(t, Depth(t)) /\ Mode(t) = ModeAt(t, Depth(t))
          /\ Depth(t) \in 1..Depth(t) /\ i \in 1..Depth(u)
      BY TopFrame
    <2>2. u = t /\ i = Depth(t) /\ ModeAt(u, i) = Mode(t)
      BY <1>4, <2>1 DEF Placed
    <2>3. ASSUME NEW x \in DOMAIN guards', guards'[x].what = "async", guards'[x].holder = ContextAt(u, i)
          PROVE  x = id
      <3>1. Async(x) /\ (x # id => guards[x].holder = guards[id].holder)
        BY <1>1, <1>2, <1>4, <2>3 DEF Async, OwnOf
      <3> QED  BY <1>2, <1>4, <3>1 DEF Lives
    <2>4. Due(u, i, outcome)
      <3>1. CASE Mode(t) = "finish" /\ outcome \in {"success", "failure"}
        BY <2>2, <3>1 DEF Due
      <3>2. CASE Mode(t) = "unwind" /\ outcome = AsyncDropOutcome(t)
        <4>1. Panicking(t)
          BY <2>1, <2>2, <3>2 DEF Panicking, ModeAt, Depth
        <4> QED  BY <2>2, <3>2, <4>1 DEF Due, AsyncDropOutcome
      <3>3. CASE Mode(t) = "drop" /\ outcome = AsyncDropOutcome(t)
        <4>1. Panicking(t) <=> \E j \in 1..(i - 1) : ModeAt(u, j) = "unwind"
          <5>1. Depth(t) \in Nat /\ ModeAt(t, Depth(t)) # "unwind"
            BY <2>1, <3>3, TopFrame
          <5>2. \A j \in 1..Depth(t) : j # Depth(t) => j \in 1..(Depth(t) - 1)
            BY <5>1
          <5>3. \A j \in 1..(Depth(t) - 1) : j \in 1..Depth(t)
            BY <5>1
          <5>4. Panicking(t) <=> \E j \in 1..Depth(t) : ModeAt(t, j) = "unwind"
            BY DEF Panicking, ModeAt, Depth
          <5> QED  BY <2>2, <5>1, <5>2, <5>3, <5>4
        <4>2. outcome = IF Panicking(t) THEN "failure" ELSE "aborted"
          BY <3>3 DEF AsyncDropOutcome
        <4>3. ModeAt(u, i) = "drop"
          BY <2>2, <3>3
        <4> QED  BY <4>1, <4>2, <4>3 DEF Due
      <3> QED  BY <1>4, <3>1, <3>2, <3>3 DEF Finished
    <2>5. Due(u, i, outcome)' /\ ContextAt(u, i)' = ContextAt(u, i) /\ guards'[id].outcome = outcome
      BY <1>1, <2>4 DEF Due, ModeAt, ContextAt, Over
    <2> QED  BY <2>3, <2>5 DEF ExitedAt, Async
  <1> QED  BY <1>1, <1>3, <1>4 DEF Exited, Depth

LEMMA ExitedStep ==
    ASSUME Typed, Placed, Lives, Exited, AsyncOutcome, NEW t \in Threads, ScopeStep(t)
    PROVE  Exited'
  <1>1. ASSUME NEW f \in Futures, Created(t, f)  PROVE Exited'
    <2>1. UNCHANGED <<frames, guards, ended>>
      BY <1>1 DEF Created
    <2> QED  BY <2>1 DEF Exited, ExitedAt, Due, Async, ModeAt, ContextAt, Depth
  <1>2. ASSUME NEW f \in Futures, FirstTime(t, f)  PROVE Exited'
    <2>1. /\ Mounted(t, f, "run") /\ Begun(f, "async") /\ "run" \in Modes
          /\ \A id \in DOMAIN guards : guards[id].holder # f
      BY <1>2 DEF FirstTime, Lives, Modes
    <2>2. \A id \in DOMAIN guards' : \/ id \in DOMAIN guards /\ guards'[id] = guards[id]
                                     \/ guards'[id].holder = f /\ guards'[id].outcome = "open"
      BY <2>1 DEF Begun
    <2> QED  BY <2>1, <2>2, ExitedMounted
  <1>3. ASSUME NEW f \in Futures, NEW m \in Modes, NextTime(t, f, m)  PROVE Exited'
    <2>1. Mounted(t, f, m) /\ guards' = guards
      BY <1>3 DEF NextTime
    <2>2. ASSUME NEW id \in DOMAIN guards, guards[id].what = "async", guards[id].holder = f,
                 ended[f] = "none"
          PROVE  guards[id].outcome = "open"
      <3>1. status[f] \in {"unpolled", "pending", "done", "poisoned"}
        BY <1>3 DEF NextTime, Mounted
      <3>2. status[f] = "pending"
        BY <2>2, <3>1 DEF Lives
      <3> QED  BY <2>2, <3>2 DEF AsyncOutcome
    <2> QED  BY <2>1, <2>2, ExitedMounted
  <1> QED  BY <1>1, <1>2, <1>3, ExitedTurned, ExitedPopped, ExitedBegan, ExitedFinished DEF ScopeStep

(* What AsyncOutcome says of one async scope of f.                          *)
Told(f, outcome) ==
    /\ ended[f] = "ready"  => outcome \in {"success", "failure"}
    /\ ended[f] = "panic"  => outcome = "failure"
    /\ ended[f] = "cancel" => outcome = "aborted"
    /\ status[f] = "pending" => outcome = "open"

(* Of the running future, by the way it is left.                            *)
LEMMA RunningDue ==
    ASSUME Typed, Placed, Lives, Exited, NEW t \in Threads, NEW f \in Futures, f = Running(t),
           NEW id \in DOMAIN guards, Async(id), guards[id].holder = f, ended[f] = "none"
    PROVE  /\ Mode(t) = "run" => guards[id].outcome = "open"
           /\ Mode(t) = "finish" => guards[id].outcome \in {"open", "success", "failure"}
           /\ Mode(t) = "unwind" => Panicking(t) /\ guards[id].outcome \in {"open", "failure"}
           /\ Mode(t) = "drop" => \/ guards[id].outcome = "open"
                                  \/ guards[id].outcome = "failure" /\ Panicking(t)
                                  \/ guards[id].outcome = "aborted" /\ ~Panicking(t)
  <1>0. PICK n \in Nat : n = Depth(t)
    BY TopFrame
  <1>1. n \in 2..n /\ ModeAt(t, n) = Mode(t) /\ ContextAt(t, n) = f
    BY <1>0, TopFrame
  <1>2. Due(t, n, guards[id].outcome)
    BY <1>0, <1>1 DEF Exited, ExitedAt
  <1>3. Panicking(t) <=> \E j \in 1..n : ModeAt(t, j) = "unwind"
    BY <1>0 DEF Panicking, ModeAt, Depth
  <1>4. \A j \in 1..(n - 1) : j \in 1..n
    OBVIOUS
  <1>5. \A j \in 1..n : j # n => j \in 1..(n - 1)
    OBVIOUS
  <1> QED  BY <1>1, <1>2, <1>3, <1>4, <1>5 DEF Due

LEMMA OutcomeStep ==
    ASSUME Typed, Placed, Lives, Exited, AsyncOutcome, NEW t \in Threads, ScopeStep(t)
    PROVE  AsyncOutcome'
  <1>1. \A id \in DOMAIN guards : Async(id) => /\ guards[id].holder \in Futures
                                               /\ Told(guards[id].holder, guards[id].outcome)
    BY DEF AsyncOutcome, Told, Async, Lives
  <1> SUFFICES ASSUME NEW id \in DOMAIN guards', guards'[id].what = "async"
               PROVE  Told(guards[id].holder, guards[id].outcome)'
    BY DEF AsyncOutcome, Told
  <1> DEFINE Kept(f) == /\ id \in DOMAIN guards /\ guards'[id] = guards[id]
                        /\ guards[id].holder \in Futures /\ guards[id].holder = f
                        /\ Told(f, guards[id].outcome)
  <1>2. ASSUME guards' = guards  PROVE \E f \in Futures : Kept(f)
    BY <1>1, <1>2 DEF Async
  <1>3. ASSUME NEW f \in Futures, Kept(f), ended'[f] = ended[f],
               status'[f] = "pending" => status[f] = "pending"
        PROVE  Told(guards[id].holder, guards[id].outcome)'
    BY <1>3 DEF Told
  <1>4. ASSUME NEW f \in Futures, Created(t, f)  PROVE Told(guards[id].holder, guards[id].outcome)'
    <2>1. PICK g \in Futures : Kept(g)
      BY <1>2, <1>4 DEF Created
    <2>2. g # f
      BY <1>4, <2>1 DEF Lives, Created
    <2>3. ended'[g] = ended[g] /\ status'[g] = status[g]
      BY <1>4, <2>2 DEF Created, Others
    <2> QED  BY <1>3, <2>1, <2>3
  <1>5. ASSUME NEW f \in Futures, FirstTime(t, f)  PROVE Told(guards[id].holder, guards[id].outcome)'
    <2>1. /\ \A g \in Futures : g # f => status'[g] = status[g]
          /\ status'[f] = "installed" /\ ended' = ended /\ Begun(f, "async") /\ ended[f] = "none"
      BY <1>5 DEF FirstTime, Mounted, Others, Lives
    <2>2. CASE id = NextScope
      BY <2>1, <2>2 DEF Begun, Told
    <2>3. CASE id # NextScope
      <3>1. PICK g \in Futures : Kept(g)
        BY <1>1, <2>1, <2>3 DEF Begun, Async
      <3>2. ended'[g] = ended[g] /\ (status'[g] = "pending" => status[g] = "pending")
        BY <2>1
      <3> QED  BY <1>3, <3>1, <3>2
    <2> QED  BY <2>2, <2>3
  <1>6. ASSUME NEW f \in Futures, NEW m \in Modes, NextTime(t, f, m)
        PROVE  Told(guards[id].holder, guards[id].outcome)'
    <2>1. PICK g \in Futures : Kept(g)
      BY <1>2, <1>6 DEF NextTime
    <2>2. ended'[g] = ended[g] /\ (status'[g] = "pending" => status[g] = "pending")
      BY <1>6 DEF NextTime, Mounted, Others
    <2> QED  BY <1>3, <2>1, <2>2
  <1>7. ASSUME NEW m \in Modes, Changed(t, m)  PROVE Told(guards[id].holder, guards[id].outcome)'
    <2>1. PICK g \in Futures : Kept(g)
      BY <1>2, <1>7 DEF Changed
    <2>2. ended'[g] = ended[g] /\ status'[g] = status[g]
      BY <1>7 DEF Changed
    <2> QED  BY <1>3, <2>1, <2>2
  <1>8. ASSUME NEW f \in Futures, f = Running(t), Suspended(t, f) \/ Returned(t, f)
        PROVE  Told(guards[id].holder, guards[id].outcome)'
    <2>1. PICK g \in Futures : Kept(g)
      BY <1>2, <1>8 DEF Suspended, Returned, Unmounted
    <2>2. CASE g # f
      <3>1. ended'[g] = ended[g] /\ status'[g] = status[g]
        BY <1>8, <2>2 DEF Suspended, Returned, Unmounted, Others
      <3> QED  BY <1>3, <2>1, <3>1
    <2>3. CASE g = f /\ Suspended(t, f)
      <3>1. /\ status[f] = "installed" /\ ended[f] = "none"
            /\ Mode(t) = "run" \/ kind[f] = "wrap"
        BY <1>8, <2>3, RunningFuture DEF Suspended
      <3>2. Async(id) /\ kind[f] = "scope"
        BY <2>1, <2>3 DEF Async, Lives
      <3>4. guards[id].outcome = "open"
        BY <1>8, <2>1, <2>3, <3>1, <3>2, RunningDue
      <3>3. ended'[f] = "none"
        BY <2>3, <3>1 DEF Suspended
      <3> QED  BY <2>1, <2>3, <3>3, <3>4 DEF Told
    <2>4. CASE g = f /\ Returned(t, f)
      <3>1. /\ status'[f] # "pending" /\ OwnOf(f) = {}
            /\ ended'[f] = IF ended[f] # "none" THEN ended[f]
                           ELSE IF Mode(t) = "finish" THEN "ready"
                           ELSE IF Panicking(t) THEN "panic" ELSE "cancel"
            /\ Mode(t) # "run" /\ Mode(t) \in Modes
        BY <2>4, TopFrame DEF Returned
      <3>2. CASE ended[f] # "none"
        BY <1>3, <2>1, <2>4, <3>1, <3>2
      <3>3. CASE ended[f] = "none"
        <4>1. Async(id) /\ guards[id].outcome # "open"
          BY <2>1, <2>4, <3>1 DEF Async, OwnOf
        <4>2. /\ Mode(t) = "finish" => guards[id].outcome \in {"success", "failure"}
              /\ Mode(t) # "finish" /\ Panicking(t) => guards[id].outcome = "failure"
              /\ Mode(t) # "finish" /\ ~Panicking(t) => guards[id].outcome = "aborted"
          BY <1>8, <2>1, <2>4, <3>1, <3>3, <4>1, RunningDue DEF Modes
        <4> QED  BY <2>1, <2>4, <3>1, <3>3, <4>2 DEF Told
      <3> QED  BY <3>2, <3>3
    <2> QED  BY <1>8, <2>2, <2>3, <2>4
  <1>9. ASSUME Began(t)  PROVE Told(guards[id].holder, guards[id].outcome)'
    <2>1. id # NextScope /\ status' = status /\ ended' = ended
      BY <1>9 DEF Began, Begun, Still
    <2>2. PICK g \in Futures : Kept(g)
      BY <1>1, <1>9, <2>1 DEF Began, Begun, Async
    <2> QED  BY <1>3, <2>1, <2>2
  <1>10. ASSUME NEW x \in DOMAIN guards, NEW outcome \in {"success", "failure", "aborted"},
                Finished(t, x, outcome)
         PROVE  Told(guards[id].holder, guards[id].outcome)'
    <2>1. Over(x, outcome) /\ status' = status /\ ended' = ended /\ x \in OwnOf(Running(t))
      BY <1>10 DEF Finished, Still
    <2>2. CASE id # x
      <3>1. PICK g \in Futures : Kept(g)
        BY <1>1, <2>1, <2>2 DEF Over, Async
      <3> QED  BY <1>3, <2>1, <3>1
    <2>3. CASE id = x
      <3>1. Async(x) /\ Running(t) \in Futures /\ guards'[id].holder = Running(t)
        BY <1>1, <2>1, <2>3 DEF Over, OwnOf, Async
      <3>2. status[Running(t)] = "installed" /\ ended[Running(t)] = "none"
        BY <2>1, <3>1, RunningFuture DEF Lives
      <3> QED  BY <2>1, <3>1, <3>2 DEF Told
    <2> QED  BY <2>2, <2>3
  <1> QED  BY <1>4, <1>5, <1>6, <1>7, <1>8, <1>9, <1>10 DEF ScopeStep

-----------------------------------------------------------------------------
(* What a scope_async encloses                                              *)

(* Once its scope has exited, a future holds no open scope and owns no      *)
(* future that may enter one.                                               *)
Closed ==
    \A id \in DOMAIN guards : Async(id) /\ guards[id].outcome # "open" =>
        /\ OwnOf(guards[id].holder) = {}
        /\ \A c \in Futures : owner[c] = guards[id].holder => status[c] \in {"none", "dropped"}

LEMMA ClosedEncloses ==
    ASSUME Typed, Lives, Closed  PROVE Encloses
  <1> SUFFICES ASSUME NEW id \in DOMAIN guards, NEW inner \in DOMAIN guards,
                      guards[id].what = "async", guards[id].outcome # "open",
                      \/ guards[inner].holder = guards[id].holder
                      \/ guards[inner].holder \in Futures /\ owner[guards[inner].holder] = guards[id].holder
               PROVE  guards[inner].outcome # "open"
    BY DEF Encloses
  <1>1. CASE guards[inner].holder = guards[id].holder
    BY <1>1 DEF Closed, OwnOf, Async
  <1>2. CASE guards[inner].holder \in Futures /\ owner[guards[inner].holder] = guards[id].holder
    <2>1. status[guards[inner].holder] \in {"none", "dropped"}
      BY <1>2 DEF Closed, Async
    <2>2. OwnOf(guards[inner].holder) = {}
      BY <1>2, <2>1 DEF Lives
    <2> QED  BY <2>2 DEF OwnOf
  <1> QED  BY <1>1, <1>2

LEMMA ClosedStep ==
    ASSUME Typed, Placed, Lives, Exited, Closed, NEW t \in Threads, ScopeStep(t)
    PROVE  Closed'
  <1>1. \A id \in DOMAIN guards : Async(id) => guards[id].holder \in Futures
    BY DEF Lives
  <1>2. ASSUME NEW id \in DOMAIN guards, Async(id), guards[id].outcome # "open", Mode(t) = "run"
        PROVE  guards[id].holder # Running(t)
    BY <1>1, <1>2, RunningFuture, RunningDue
  <1>3. Free \notin Futures
    BY ConstantFacts
  (* The scope had exited before.                                           *)
  <1>4. ASSUME NEW id \in DOMAIN guards, Async(id), guards[id].outcome # "open", NEW f \in Futures,
               guards[id].holder = f, OwnOf(f)' \subseteq OwnOf(f),
               \A c \in Futures :
                   \/ owner'[c] = owner[c] /\ (status'[c] = status[c] \/ status'[c] = "dropped")
                   \/ owner'[c] # f
        PROVE  OwnOf(f)' = {} /\ \A c \in Futures : owner'[c] = f => status'[c] \in {"none", "dropped"}
    BY <1>4 DEF Closed
  <1> SUFFICES ASSUME NEW id \in DOMAIN guards', guards'[id].what = "async",
                      guards'[id].outcome # "open", NEW f, guards'[id].holder = f
               PROVE  OwnOf(f)' = {} /\ \A c \in Futures : owner'[c] = f => status'[c] \in {"none", "dropped"}
    BY DEF Closed, Async
  <1>5. ASSUME guards' = guards
        PROVE  id \in DOMAIN guards /\ Async(id) /\ guards[id].outcome # "open" /\ guards[id].holder = f
               /\ f \in Futures /\ OwnOf(f)' \subseteq OwnOf(f)
    BY <1>1, <1>5 DEF Async, OwnOf
  <1>6. ASSUME id \in DOMAIN guards, Async(id), guards[id].outcome # "open", guards[id].holder = f
        PROVE  \A c \in Futures : status[c] \in {"unpolled", "pending", "done", "poisoned", "installed"}
                                  => owner[c] # f
    BY <1>6 DEF Closed
  <1>7. CASE \E c \in Futures : Created(t, c)
    <2>1. PICK c \in Futures : Created(t, c)
      BY <1>7
    <2>2. guards' = guards /\ Mode(t) = "run" /\ owner'[c] \in {Free, Running(t)} /\ Others(c)
      BY <2>1 DEF Created
    <2>3. owner'[c] # f
      BY <1>2, <1>3, <1>5, <2>2
    <2> QED  BY <1>4, <1>5, <2>2, <2>3 DEF Others
  <1>8. ASSUME NEW c \in Futures, NEW m \in Modes, Mounted(t, c, m),
               id \in DOMAIN guards, Async(id), guards[id].outcome # "open", guards[id].holder = f
        PROVE  \A d \in Futures :
                   \/ owner'[d] = owner[d] /\ (status'[d] = status[d] \/ status'[d] = "dropped")
                   \/ owner'[d] # f
    BY <1>6, <1>8 DEF Mounted, Others
  <1>9. CASE \E c \in Futures : FirstTime(t, c)
    <2>1. PICK c \in Futures : FirstTime(t, c)
      BY <1>9
    <2>2. /\ Mounted(t, c, "run") /\ "run" \in Modes /\ Begun(c, "async") /\ c \in Contexts
          /\ \A x \in DOMAIN guards : guards[x].holder # c
      BY <2>1 DEF FirstTime, Lives, Modes, Contexts
    <2>3. id \in DOMAIN guards /\ Async(id) /\ guards[id].outcome # "open" /\ guards[id].holder = f
      BY <2>2 DEF Begun, Async
    <2>4. f \in Futures /\ f # c
      BY <1>1, <2>2, <2>3
    <2>5. OwnOf(f)' \subseteq OwnOf(f)
      BY <2>2, <2>4, OwnBegun DEF Contexts
    <2> QED  BY <1>4, <1>8, <2>2, <2>3, <2>4, <2>5
  <1>10. CASE \E c \in Futures : \E m \in Modes : NextTime(t, c, m)
    <2>1. PICK c \in Futures, m \in Modes : NextTime(t, c, m)
      BY <1>10
    <2>2. Mounted(t, c, m) /\ guards' = guards
      BY <2>1 DEF NextTime
    <2> QED  BY <1>4, <1>5, <1>8, <2>2
  <1>11. CASE \E m \in Modes : Changed(t, m)
    <2>1. UNCHANGED <<guards, owner, status>>
      BY <1>11 DEF Changed
    <2> QED  BY <1>4, <1>5, <2>1
  <1>12. CASE Running(t) \in Futures /\ (Suspended(t, Running(t)) \/ Returned(t, Running(t)))
    <2>1. PICK c \in Futures : c = Running(t) /\ (Suspended(t, c) \/ Returned(t, c))
      BY <1>12
    <2>2. guards' = guards /\ Others(c) /\ owner'[c] \in {owner[c], Free}
      BY <2>1 DEF Suspended, Returned, Unmounted
    <2>3. status[c] = "installed"
      BY <2>1, RunningFuture
    <2>4. owner'[c] # f
      BY <1>3, <1>5, <1>6, <2>2, <2>3
    <2> QED  BY <1>4, <1>5, <2>2, <2>4 DEF Others
  <1>13. CASE Began(t)
    <2>1. PICK c \in Contexts : c = Running(t)
      BY TopFrame
    <2>2. Mode(t) = "run" /\ Begun(c, "sync") /\ owner' = owner /\ status' = status
      BY <1>13, <2>1 DEF Began, Still
    <2>3. id \in DOMAIN guards /\ Async(id) /\ guards[id].outcome # "open" /\ guards[id].holder = f
      BY <2>2 DEF Begun, Async
    <2>4. f # c /\ f \in Futures
      BY <1>1, <1>2, <2>1, <2>2, <2>3
    <2>5. OwnOf(f)' \subseteq OwnOf(f)
      BY <2>2, <2>4, OwnBegun DEF Contexts
    <2> QED  BY <1>4, <2>2, <2>3, <2>4, <2>5
  <1>14. ASSUME NEW x \in DOMAIN guards, NEW outcome \in {"success", "failure", "aborted"},
                Finished(t, x, outcome)
         PROVE  OwnOf(f)' = {} /\ \A c \in Futures : owner'[c] = f => status'[c] \in {"none", "dropped"}
    <2>1. PICK c \in Contexts : c = Running(t)
      BY TopFrame
    <2>2. Over(x, outcome) /\ x \in OwnOf(c) /\ owner' = owner /\ status' = status
      BY <1>14, <2>1 DEF Finished, Still
    <2>3. /\ OwnOf(c)' = OwnOf(c) \ {x} /\ \A d \in Contexts : d # c => OwnOf(d)' = OwnOf(d)
      BY <2>2, OwnOver
    <2>4. id \in DOMAIN guards /\ Async(id) /\ guards[id].holder = f /\ f \in Futures
          /\ (id # x => guards[id].outcome # "open")
      BY <1>1, <2>2 DEF Over, Async
    <2>5. OwnOf(f)' \subseteq OwnOf(f)
      BY <2>3, <2>4 DEF Contexts
    <2>6. CASE id # x
      BY <1>4, <2>2, <2>4, <2>5, <2>6
    <2>7. CASE id = x
      <3>1. f = c /\ GuardIsLast(c) /\ Async(x)
        BY <1>14, <2>1, <2>2, <2>4, <2>7 DEF Finished, OwnOf
      <3>2. \A y \in OwnOf(c) : y = x
        <4> SUFFICES ASSUME NEW y \in OwnOf(c) PROVE y = x
          OBVIOUS
        <4>1. /\ y \in DOMAIN guards /\ guards[y].holder = c /\ guards[y].outcome = "open"
              /\ guards[y].what \in {"sync", "async"}
          BY GuardTypes DEF OwnOf
        <4>2. guards[y].what # "sync"
          BY <3>1, <4>1 DEF GuardIsLast, Holds
        <4> QED  BY <2>4, <2>7, <3>1, <4>1, <4>2 DEF Lives, Async
      <3>3. ASSUME NEW d \in Futures, owner[d] = f  PROVE status[d] \in {"none", "dropped"}
        <4>1. ~Exists(d)
          BY <3>1, <3>3 DEF GuardIsLast, Owned
        <4>2. status[d] # "installed"
          <5> SUFFICES ASSUME status[d] = "installed" PROVE FALSE
            OBVIOUS
          <5>1. PICK u \in Threads : \E i \in 1..Depth(u) : ContextAt(u, i) = d
            BY DEF Placed, Active, ContextAt, Depth
          <5>2. PICK i \in 1..Depth(u) : ContextAt(u, i) = d
            BY <5>1
          <5>3. Depth(u) \in Nat /\ ContextAt(u, 1) = u /\ u # d
            BY TopFrame, ConstantFacts DEF Placed
          <5>4. i \in 2..Depth(u) /\ i - 1 \in 1..Depth(u)
            BY <5>2, <5>3
          <5>5. ContextAt(u, i - 1) = f
            BY <1>3, <2>4, <3>3, <5>2, <5>4 DEF Placed
          <5>6. Depth(t) \in 1..Depth(t) /\ ContextAt(t, Depth(t)) = f
            BY <2>1, <3>1, TopFrame
          <5>7. u = t /\ i - 1 = Depth(t)
            BY <5>4, <5>5, <5>6 DEF Placed
          <5> QED  BY <5>3, <5>4, <5>7
        <4> QED  BY <4>1, <4>2 DEF Exists, Typed
      <3> QED  BY <2>2, <2>3, <3>1, <3>2, <3>3
    <2> QED  BY <2>6, <2>7
  <1> QED  BY <1>7, <1>9, <1>10, <1>11, <1>12, <1>13, <1>14 DEF ScopeStep

-----------------------------------------------------------------------------
(* What a stack holds: what was captured, then own scopes in order          *)

Fits(s, captured, own) ==
    /\ Len(captured) <= Len(s)
    /\ \A i \in 1..Len(captured) : s[i] = captured[i]
    /\ \A i \in (Len(captured) + 1)..Len(s) : s[i] \in own
    /\ \A i, j \in (Len(captured) + 1)..Len(s) : i < j => s[i] < s[j]
    /\ \A id \in own : \E i \in (Len(captured) + 1)..Len(s) : s[i] = id

LEMMA FitsItself ==
    ASSUME NEW s \in Seq(ScopeIds)  PROVE Fits(s, s, {})
  <1>1. Len(s) \in Nat
    BY LenProperties
  <1> QED  BY <1>1 DEF Fits

LEMMA FitsAppend ==
    ASSUME NEW s \in Seq(ScopeIds), NEW b \in Seq(ScopeIds), NEW own, NEW n \in ScopeIds,
           Fits(s, b, own), \A id \in own : id < n
    PROVE  Fits(Append(s, n), b, own \cup {n})
  <1>1. /\ Len(s) \in Nat /\ Len(b) \in Nat /\ Len(b) <= Len(s)
        /\ Len(Append(s, n)) = Len(s) + 1 /\ Append(s, n)[Len(s) + 1] = n
        /\ \A i \in 1..Len(s) : Append(s, n)[i] = s[i]
    BY LenProperties, AppendProperties DEF Fits
  <1> DEFINE r == Append(s, n)
  <1> HIDE DEF r
  <1>2. /\ Len(r) = Len(s) + 1 /\ r[Len(s) + 1] = n /\ \A i \in 1..Len(s) : r[i] = s[i]
    BY <1>1 DEF r
  <1>3. \A i \in 1..Len(b) : i \in 1..Len(s) /\ s[i] = b[i]
    BY <1>1 DEF Fits
  <1>4. ASSUME NEW i \in (Len(b) + 1)..Len(r), i # Len(s) + 1
        PROVE  i \in (Len(b) + 1)..Len(s) /\ i \in 1..Len(s) /\ r[i] = s[i] /\ r[i] \in own
    <2>1. i \in (Len(b) + 1)..Len(s) /\ i \in 1..Len(s)
      BY <1>1, <1>2, <1>4
    <2>2. s[i] \in own
      BY <2>1 DEF Fits
    <2> QED  BY <1>2, <2>1, <2>2
  <1>5. \A i \in (Len(b) + 1)..Len(r) : r[i] \in own \cup {n}
    BY <1>2, <1>4
  <1>6. ASSUME NEW i \in (Len(b) + 1)..Len(r), NEW j \in (Len(b) + 1)..Len(r), i < j
        PROVE  r[i] < r[j]
    <2>1. i # Len(s) + 1
      BY <1>1, <1>2, <1>6
    <2>2. CASE j = Len(s) + 1
      BY <1>2, <1>4, <2>1, <2>2
    <2>3. CASE j # Len(s) + 1
      BY <1>4, <1>6, <2>1, <2>3 DEF Fits
    <2> QED  BY <2>2, <2>3
  <1>7. ASSUME NEW id \in own \cup {n}  PROVE \E i \in (Len(b) + 1)..Len(r) : r[i] = id
    <2>1. Len(s) + 1 \in (Len(b) + 1)..Len(r)
      BY <1>1, <1>2
    <2>2. CASE id = n
      BY <1>2, <2>1, <2>2
    <2>3. CASE id \in own
      <3>1. PICK i \in (Len(b) + 1)..Len(s) : s[i] = id
        BY <2>3 DEF Fits
      <3>2. i \in (Len(b) + 1)..Len(r) /\ i \in 1..Len(s)
        BY <1>1, <1>2
      <3> QED  BY <1>2, <3>1, <3>2
    <2> QED  BY <2>2, <2>3
  <1>8. Len(b) <= Len(r) /\ \A i \in 1..Len(b) : r[i] = b[i]
    BY <1>1, <1>2, <1>3
  <1>9. Fits(r, b, own \cup {n})
    BY <1>5, <1>6, <1>7, <1>8 DEF Fits
  <1> QED  BY <1>9 DEF r

LEMMA FitsWithout ==
    ASSUME NEW s \in Seq(ScopeIds), NEW b \in Seq(ScopeIds), NEW own, NEW id \in own, Fits(s, b, own)
    PROVE  Fits(Without(s, id), b, own \ {id})
  <1>1. Len(s) \in Nat /\ Len(b) \in Nat /\ Len(b) <= Len(s)
    BY LenProperties DEF Fits
  <1>2. PICK q \in (Len(b) + 1)..Len(s) : s[q] = id
    BY DEF Fits
  <1>3. q \in 1..Len(s)
    BY <1>1
  <1> DEFINE r == Without(s, id)
  <1>4. PICK p \in 1..Len(s) :
            /\ s[p] = id /\ \A i \in 1..Len(s) : s[i] = id => i <= p
            /\ r \in Seq(ScopeIds) /\ Len(r) = Len(s) - 1
            /\ \A i \in 1..(Len(s) - 1) : r[i] = IF i < p THEN s[i] ELSE s[i + 1]
    <2>1. PICK p \in 1..Len(s) : TakenOut(s, id, Without(s, id), p)
      BY <1>2, <1>3, WithoutElement
    <2> QED  BY <2>1 DEF TakenOut
  <1> HIDE DEF r
  <1>5. p \in (Len(b) + 1)..Len(s) /\ p \in Nat
    BY <1>1, <1>2, <1>3, <1>4
  <1>6. \A i \in 1..Len(b) : i \in 1..Len(s) /\ s[i] = b[i]
    BY <1>1 DEF Fits
  <1>7. Len(b) <= Len(r) /\ \A i \in 1..Len(b) : r[i] = b[i]
    <2>1. \A i \in 1..Len(b) : i \in 1..(Len(s) - 1) /\ i < p
      BY <1>1, <1>5
    <2> QED  BY <1>1, <1>4, <1>5, <1>6, <2>1
  (* Where an element of the shorter stack comes from.                      *)
  <1>8. ASSUME NEW i \in (Len(b) + 1)..Len(r)
        PROVE  \E k \in (Len(b) + 1)..Len(s) :
                   /\ r[i] = s[k] /\ k # p /\ k = (IF i < p THEN i ELSE i + 1)
    <2>1. i \in 1..(Len(s) - 1) /\ i \in Nat
      BY <1>1, <1>4
    <2>2. CASE i < p
      <3>1. i \in (Len(b) + 1)..Len(s) /\ r[i] = s[i] /\ i # p
        BY <1>1, <1>4, <2>1, <2>2
      <3> QED  BY <2>2, <3>1
    <2>3. CASE ~(i < p)
      <3>1. i + 1 \in (Len(b) + 1)..Len(s) /\ r[i] = s[i + 1] /\ i + 1 # p
        BY <1>1, <1>4, <1>5, <2>1, <2>3
      <3> QED  BY <2>3, <3>1
    <2> QED  BY <2>2, <2>3
  <1>9. ASSUME NEW i \in (Len(b) + 1)..Len(s), i # p  PROVE s[i] # id
    <2>1. i \in Nat /\ i \in 1..Len(s) /\ s[i] \in Nat /\ s[p] \in Nat
      <3>1. i \in Nat /\ i \in 1..Len(s)
        BY <1>1
      <3>2. s[i] \in ScopeIds /\ s[p] \in ScopeIds
        BY <3>1, ElementOfSeq
      <3> QED  BY <3>1, <3>2 DEF ScopeIds
    <2>2. i < p \/ p < i
      BY <1>5, <1>9, <2>1
    <2>3. s[i] < s[p] \/ s[p] < s[i]
      BY <1>5, <2>2 DEF Fits
    <2> QED  BY <1>4, <2>1, <2>3
  <1>10. \A i \in (Len(b) + 1)..Len(r) : r[i] \in own \ {id}
    <2>1. \A k \in (Len(b) + 1)..Len(s) : s[k] \in own
      BY DEF Fits
    <2> QED  BY <1>8, <1>9, <2>1
  <1>11. ASSUME NEW i \in (Len(b) + 1)..Len(r), NEW j \in (Len(b) + 1)..Len(r), i < j
         PROVE  r[i] < r[j]
    <2>1. PICK k \in (Len(b) + 1)..Len(s) : r[i] = s[k] /\ k = (IF i < p THEN i ELSE i + 1)
      BY <1>8
    <2>2. PICK l \in (Len(b) + 1)..Len(s) : r[j] = s[l] /\ l = (IF j < p THEN j ELSE j + 1)
      BY <1>8
    <2>3. k < l
      BY <1>1, <1>4, <1>5, <1>11, <2>1, <2>2
    <2> QED  BY <2>1, <2>2, <2>3 DEF Fits
  <1>12. ASSUME NEW x \in own \ {id}  PROVE \E i \in (Len(b) + 1)..Len(r) : r[i] = x
    <2>1. PICK k \in (Len(b) + 1)..Len(s) : s[k] = x
      BY DEF Fits
    <2>2. k # p /\ k \in Nat
      BY <1>1, <1>4, <1>12, <2>1
    <2>3. CASE k < p
      <3>1. k \in (Len(b) + 1)..Len(r) /\ k \in 1..(Len(s) - 1)
        BY <1>1, <1>4, <1>5, <2>2, <2>3
      <3> QED  BY <1>4, <2>1, <2>3, <3>1
    <2>4. CASE p < k
      <3>1. k - 1 \in (Len(b) + 1)..Len(r) /\ k - 1 \in 1..(Len(s) - 1) /\ ~(k - 1 < p) /\ (k - 1) + 1 = k
        BY <1>1, <1>4, <1>5, <2>2, <2>4
      <3>2. r[k - 1] = s[(k - 1) + 1]
        BY <1>4, <3>1
      <3> QED  BY <2>1, <3>1, <3>2
    <2> QED  BY <1>5, <2>2, <2>3, <2>4
  <1>13. Fits(r, b, own \ {id})
    BY <1>7, <1>10, <1>11, <1>12 DEF Fits
  <1> QED  BY <1>13 DEF r

LEMMA FitsCount ==
    ASSUME NEW s \in Seq(ScopeIds), NEW b \in Seq(ScopeIds), NEW own, Fits(s, b, own)
    PROVE  Len(s) = Len(b) + Cardinality(own)
  <1>1. Len(s) \in Nat /\ Len(b) \in Nat /\ Len(b) <= Len(s)
    BY LenProperties DEF Fits
  <1>2. PICK n \in Nat : n = Len(s) - Len(b)
    BY <1>1
  <1> DEFINE F == [k \in 1..n |-> s[Len(b) + k]]
  <1>3. \A k \in 1..n : Len(b) + k \in (Len(b) + 1)..Len(s)
    BY <1>1, <1>2
  <1>4. F \in [1..n -> own]
    BY <1>3 DEF Fits
  <1>5. ASSUME NEW k \in 1..n, NEW l \in 1..n, F[k] = F[l]  PROVE k = l
    <2>1. s[Len(b) + k] = s[Len(b) + l]
      BY <1>5
    <2>2. s[Len(b) + k] \in Nat /\ s[Len(b) + l] \in Nat
      <3>1. Len(b) + k \in 1..Len(s) /\ Len(b) + l \in 1..Len(s)
        BY <1>1, <1>3
      <3>2. s[Len(b) + k] \in ScopeIds /\ s[Len(b) + l] \in ScopeIds
        BY <3>1, ElementOfSeq
      <3> QED  BY <3>2 DEF ScopeIds
    <2>3. ~(Len(b) + k < Len(b) + l) /\ ~(Len(b) + l < Len(b) + k)
      <3>1. \A i, j \in (Len(b) + 1)..Len(s) : i < j => s[i] < s[j]
        BY DEF Fits
      <3>2. /\ Len(b) + k < Len(b) + l => s[Len(b) + k] < s[Len(b) + l]
            /\ Len(b) + l < Len(b) + k => s[Len(b) + l] < s[Len(b) + k]
        BY <1>3, <3>1
      <3> QED  BY <2>1, <2>2, <3>2
    <2> QED  BY <1>1, <2>3
  <1>6. ASSUME NEW id \in own  PROVE \E k \in 1..n : F[k] = id
    <2>1. PICK i \in (Len(b) + 1)..Len(s) : s[i] = id
      BY DEF Fits
    <2>2. i - Len(b) \in 1..n /\ Len(b) + (i - Len(b)) = i
      BY <1>1, <1>2
    <2> QED  BY <2>1, <2>2
  <1> HIDE DEF F
  <1>7. ExistsBijection(1..n, own)
    <2>1. F \in Bijection(1..n, own)
      BY <1>4, <1>5, <1>6, Fun_IsBij
    <2> QED  BY <2>1 DEF ExistsBijection
  <1>8. Cardinality(own) = n
    BY <1>7, FS_CountingElements
  <1> QED  BY <1>1, <1>2, <1>8

-----------------------------------------------------------------------------
(* The stacks of all contexts                                               *)

TopFits(t, c) == Running(t) = c => Fits(stack[t], Captured(c), OwnOf(c))
LowerFits(t, i, f, c) ==
    ContextAt(t, i) = f /\ ContextAt(t, i - 1) = c => Fits(parked[f], Captured(c), OwnOf(c))
AwayFits(f) == status[f] # "installed" => Fits(parked[f], base[f], OwnOf(f))

(* On a thread, the stack of the running context; in the wrapper of each    *)
(* future installed there, that of the context below it; in every other     *)
(* wrapper, its future's own.                                               *)
Isolated ==
    /\ \A t \in Threads, c \in Contexts : TopFits(t, c)
    /\ \A t \in Threads : \A i \in 2..Depth(t) : \A f \in Futures, c \in Contexts : LowerFits(t, i, f, c)
    /\ \A f \in Futures : AwayFits(f)

(* Where frames are, in the form these proofs use.                          *)
LEMMA Places ==
    ASSUME Typed, Placed, NEW t \in Threads
    PROVE  /\ Running(t) \in Contexts /\ (Running(t) \in Futures => status[Running(t)] = "installed")
           /\ \A i \in 2..Depth(t) :
                 /\ i - 1 \in 1..Depth(t) /\ i - 1 # Depth(t)
                 /\ ContextAt(t, i) \in Futures /\ status[ContextAt(t, i)] = "installed"
                 /\ ContextAt(t, i - 1) \in Contexts
                 /\ ContextAt(t, i - 1) \in Futures => status[ContextAt(t, i - 1)] = "installed"
           /\ \A u \in Threads : u # t => Running(u) # Running(t)
           /\ \A u \in Threads : \A i \in 2..Depth(u) : ContextAt(u, i - 1) # Running(t)
           /\ \A u \in Threads : \A i \in 2..Depth(u) : ContextAt(u, i) = Running(t) => u = t /\ i = Depth(t)
  <1>1. \A u \in Threads : /\ Depth(u) \in 1..Depth(u) /\ Depth(u) \in Nat /\ Running(u) = ContextAt(u, Depth(u))
                           /\ \A i \in 1..Depth(u) : ContextAt(u, i) \in Contexts
    BY TopFrame
  <1>2. ASSUME NEW u \in Threads, NEW i \in 1..Depth(u), ContextAt(u, i) \in Futures
        PROVE  status[ContextAt(u, i)] = "installed"
    <2>1. ContextAt(u, 1) = u /\ u \notin Futures
      BY ConstantFacts DEF Placed
    <2>2. i \in 2..Depth(u)
      BY <1>1, <1>2, <2>1
    <2> QED  BY <2>2 DEF Placed
  <1>3. \A u \in Threads : \A i \in 2..Depth(u) : i \in 1..Depth(u) /\ i - 1 \in 1..Depth(u) /\ i - 1 # Depth(u)
    BY <1>1
  <1>4. \A i \in 2..Depth(t) : ContextAt(t, i) \in Futures
    BY DEF Placed
  <1>5. \A u \in Threads : \A i \in 1..Depth(u) : ContextAt(u, i) = Running(t) => u = t /\ i = Depth(t)
    BY <1>1 DEF Placed
  <1>6. Running(t) \in Contexts /\ (Running(t) \in Futures => status[Running(t)] = "installed")
    BY <1>1, <1>2
  <1>7. \A u \in Threads : u # t => Running(u) # Running(t)
    BY <1>1, <1>5
  <1>8. \A u \in Threads : \A i \in 2..Depth(u) : ContextAt(u, i - 1) # Running(t)
    BY <1>3, <1>5
  <1>9. \A u \in Threads : \A i \in 2..Depth(u) : ContextAt(u, i) = Running(t) => u = t /\ i = Depth(t)
    BY <1>3, <1>5
  <1>10. \A i \in 2..Depth(t) :
                 /\ i - 1 \in 1..Depth(t) /\ i - 1 # Depth(t)
                 /\ ContextAt(t, i) \in Futures /\ status[ContextAt(t, i)] = "installed"
                 /\ ContextAt(t, i - 1) \in Contexts
                 /\ ContextAt(t, i - 1) \in Futures => status[ContextAt(t, i - 1)] = "installed"
    BY <1>1, <1>2, <1>3, <1>4
  <1> QED  BY <1>6, <1>7, <1>8, <1>9, <1>10

(* A guard of the running context comes or goes.                            *)
LEMMA IsolatedTouched ==
    ASSUME Typed, Placed, Isolated, NEW t \in Threads, NEW c \in Contexts, c = Running(t),
           Still, OtherStacks(t),
           \A d \in Contexts : d # c => OwnOf(d)' = OwnOf(d),
           Fits(stack'[t], Captured(c), OwnOf(c)')
    PROVE  Isolated'
  <1>1. UNCHANGED <<frames, parked, status, base>>
    BY DEF Still
  <1>2. \A d \in Contexts : Captured(d)' = Captured(d)
    BY <1>1 DEF Captured
  <1>3. ASSUME NEW u \in Threads, NEW d \in Contexts  PROVE TopFits(u, d)'
    <2>1. Running(u)' = Running(u)
      BY <1>1 DEF Running
    <2>2. CASE u = t
      BY <1>2, <2>1, <2>2 DEF TopFits
    <2>3. CASE u # t
      <3>1. stack'[u] = stack[u] /\ (Running(u) = d => d # c) /\ TopFits(u, d)
        BY <2>3, Places DEF OtherStacks, Isolated
      <3> QED  BY <1>2, <2>1, <3>1 DEF TopFits
    <2> QED  BY <2>2, <2>3
  <1>4. ASSUME NEW u \in Threads, NEW i \in 2..Depth(u), NEW f \in Futures, NEW d \in Contexts
        PROVE  LowerFits(u, i, f, d)'
    <2>1. LowerFits(u, i, f, d) /\ (ContextAt(u, i - 1) = d => d # c)
      BY Places DEF Isolated
    <2> QED  BY <1>1, <1>2, <2>1 DEF LowerFits, ContextAt
  <1>5. ASSUME NEW f \in Futures  PROVE AwayFits(f)'
    <2>1. AwayFits(f) /\ (status[f] # "installed" => f # c) /\ f \in Contexts
      BY Places DEF Isolated, Contexts
    <2> QED  BY <1>1, <2>1 DEF AwayFits
  <1> QED  BY <1>1, <1>3, <1>4, <1>5 DEF Isolated, Depth

LEMMA IsolatedMounted ==
    ASSUME Typed, Placed, Isolated, NEW t \in Threads, NEW f \in Futures, NEW m \in Modes,
           Mounted(t, f, m), \A d \in Contexts : d # f => OwnOf(d)' = OwnOf(d),
           Fits(stack'[t], base[f], OwnOf(f)')
    PROVE  Isolated'
  <1>0. PICK n \in Nat : n = Depth(t)
    BY TopFrame
  <1>1. /\ n # 0 /\ n \in 1..n /\ Running(t) = frames[t][n].context
        /\ Len(frames[t]) = n /\ Len(frames'[t]) = n + 1 /\ frames'[t][n + 1].context = f
        /\ \A i \in 1..n : frames'[t][i] = frames[t][i]
        /\ \A u \in Threads : u # t => frames'[u] = frames[u]
    BY <1>0, TopFrame DEF Mounted, Pushed, Depth, ContextAt
  <1>2. /\ parked'[f] = stack[t] /\ Others(f) /\ OtherStacks(t) /\ base' = base
        /\ status[f] # "installed" /\ status'[f] = "installed"
    BY DEF Mounted
  <1>3. \A d \in Contexts : Captured(d)' = Captured(d)
    BY <1>2 DEF Captured
  <1>4. ASSUME NEW u \in Threads, NEW d \in Contexts  PROVE TopFits(u, d)'
    <2>1. CASE u = t
      <3>1. Running(u)' = f
        BY <1>1, <2>1 DEF Running
      <3>2. Captured(f)' = base[f]
        BY <1>2 DEF Captured
      <3> QED  BY <2>1, <3>1, <3>2 DEF TopFits
    <2>2. CASE u # t
      <3>1. Running(u)' = Running(u) /\ stack'[u] = stack[u]
        BY <1>1, <1>2, <2>2 DEF Running, OtherStacks
      <3>2. TopFits(u, d) /\ (Running(u) = d => d # f)
        BY <1>2, Places DEF Isolated
      <3> QED  BY <1>3, <3>1, <3>2 DEF TopFits
    <2> QED  BY <2>1, <2>2
  <1>5. ASSUME NEW u \in Threads, NEW i \in 2..Depth(u)', NEW g \in Futures, NEW d \in Contexts
        PROVE  LowerFits(u, i, g, d)'
    <2>1. CASE u = t /\ i = n + 1
      <3>1. ContextAt(u, i)' = f /\ ContextAt(u, i - 1)' = Running(t)
        BY <1>1, <2>1 DEF ContextAt
      <3>2. Running(t) # f /\ TopFits(t, d)
        BY <1>2, Places DEF Isolated
      <3> QED  BY <1>2, <1>3, <3>1, <3>2 DEF LowerFits, TopFits
    <2>2. CASE ~(u = t /\ i = n + 1)
      <3>1. i \in 2..Depth(u) /\ i \in 1..Depth(u) /\ i - 1 \in 1..Depth(u)
        BY <1>1, <2>2, TopFrame DEF Depth
      <3>2. ContextAt(u, i)' = ContextAt(u, i) /\ ContextAt(u, i - 1)' = ContextAt(u, i - 1)
        BY <1>1, <3>1 DEF ContextAt, Depth
      <3>3. LowerFits(u, i, g, d) /\ ContextAt(u, i) # f /\ ContextAt(u, i - 1) # f
        BY <1>2, <3>1, Places DEF Isolated
      <3>4. g # f => parked'[g] = parked[g]
        BY <1>2 DEF Others
      <3> QED  BY <1>3, <3>2, <3>3, <3>4 DEF LowerFits
    <2> QED  BY <2>1, <2>2
  <1>6. ASSUME NEW g \in Futures  PROVE AwayFits(g)'
    <2>1. CASE g = f
      BY <1>2, <2>1 DEF AwayFits
    <2>2. CASE g # f
      <3>1. AwayFits(g) /\ parked'[g] = parked[g] /\ status'[g] = status[g] /\ OwnOf(g)' = OwnOf(g)
        BY <1>2, <2>2 DEF Isolated, Others, Contexts
      <3> QED  BY <1>2, <3>1 DEF AwayFits
    <2> QED  BY <2>1, <2>2
  <1> QED  BY <1>4, <1>5, <1>6 DEF Isolated

LEMMA IsolatedPopped ==
    ASSUME Typed, Placed, Isolated, NEW t \in Threads, NEW f \in Futures, f = Running(t),
           NEW m, Unmounted(t, f, m), status'[f] # "installed"
    PROVE  Isolated'
  <1>0. PICK n \in Nat : n = Depth(t)
    BY TopFrame
  <1>1. /\ n \in 2..n /\ n - 1 \in 1..(n - 1) /\ ContextAt(t, n) = f
        /\ Len(frames[t]) = n /\ Len(frames'[t]) = n - 1
        /\ \A i \in 1..(n - 1) : frames'[t][i].context = frames[t][i].context
        /\ \A u \in Threads : u # t => frames'[u] = frames[u]
    BY <1>0, TopFrame DEF Unmounted, Popped, Depth, ContextAt
  <1>2. /\ stack'[t] = parked[f] /\ parked'[f] = stack[t] /\ Others(f) /\ OtherStacks(t)
        /\ base' = base /\ guards' = guards
    BY DEF Unmounted
  <1>3. \A d \in Contexts : Captured(d)' = Captured(d) /\ OwnOf(d)' = OwnOf(d)
    BY <1>2 DEF Captured, OwnOf
  <1>4. ASSUME NEW u \in Threads, NEW d \in Contexts  PROVE TopFits(u, d)'
    <2>1. CASE u = t
      <3>1. Running(u)' = ContextAt(t, n - 1)
        BY <1>1, <2>1 DEF Running, ContextAt
      <3>2. LowerFits(t, n, f, d)
        BY <1>0, <1>1 DEF Isolated
      <3> QED  BY <1>1, <1>2, <1>3, <2>1, <3>1, <3>2 DEF TopFits, LowerFits
    <2>2. CASE u # t
      <3>1. Running(u)' = Running(u) /\ stack'[u] = stack[u] /\ TopFits(u, d)
        BY <1>1, <1>2, <2>2 DEF Running, OtherStacks, Isolated
      <3> QED  BY <1>3, <3>1 DEF TopFits
    <2> QED  BY <2>1, <2>2
  <1>5. ASSUME NEW u \in Threads, NEW i \in 2..Depth(u)', NEW g \in Futures, NEW d \in Contexts
        PROVE  LowerFits(u, i, g, d)'
    <2>1. /\ i \in 2..Depth(u) /\ i \in 1..Depth(u) /\ i - 1 \in 1..Depth(u) /\ ~(u = t /\ i = n)
          /\ u = t => i \in 1..(n - 1) /\ i - 1 \in 1..(n - 1)
      BY <1>1, TopFrame DEF Depth
    <2>2. ContextAt(u, i)' = ContextAt(u, i) /\ ContextAt(u, i - 1)' = ContextAt(u, i - 1)
      BY <1>1, <2>1 DEF ContextAt, Depth
    <2>3. LowerFits(u, i, g, d) /\ ContextAt(u, i) # f
      BY <1>0, <2>1, Places DEF Isolated
    <2>4. g # f => parked'[g] = parked[g]
      BY <1>2 DEF Others
    <2> QED  BY <1>3, <2>2, <2>3, <2>4 DEF LowerFits
  <1>6. ASSUME NEW g \in Futures  PROVE AwayFits(g)'
    <2>1. CASE g = f
      <3>1. TopFits(t, f) /\ Captured(f) = base[f] /\ f \in Contexts
        BY DEF Isolated, Captured, Contexts
      <3> QED  BY <1>2, <1>3, <2>1, <3>1 DEF AwayFits, TopFits
    <2>2. CASE g # f
      <3>1. AwayFits(g) /\ parked'[g] = parked[g] /\ status'[g] = status[g] /\ OwnOf(g)' = OwnOf(g)
        BY <1>2, <1>3, <2>2 DEF Isolated, Others, Contexts
      <3> QED  BY <1>2, <3>1 DEF AwayFits
    <2> QED  BY <2>1, <2>2
  <1> QED  BY <1>4, <1>5, <1>6 DEF Isolated

LEMMA IsolatedCreated ==
    ASSUME Typed, Typed', Placed, Lives, Isolated, NEW t \in Threads, NEW f \in Futures, Created(t, f)
    PROVE  Isolated'
  <1>1. /\ UNCHANGED <<stack, frames, guards>> /\ Others(f) /\ parked'[f] = base'[f]
        /\ status[f] # "installed" /\ base'[f] \in Seq(ScopeIds) /\ OwnOf(f) = {}
    <2>1. OwnOf(f) = {}
      BY DEF Created, Lives, OwnOf
    <2> QED  BY <2>1 DEF Created, Typed, Stacks
  <1>2. \A d \in Contexts : /\ OwnOf(d)' = OwnOf(d)
                            /\ d # f => Captured(d)' = Captured(d)
    BY <1>1 DEF OwnOf, Captured, Others
  <1>3. ASSUME NEW u \in Threads, NEW d \in Contexts  PROVE TopFits(u, d)'
    <2>1. TopFits(u, d) /\ (Running(u) = d => d # f)
      BY <1>1, Places DEF Isolated
    <2> QED  BY <1>1, <1>2, <2>1 DEF TopFits, Running
  <1>4. ASSUME NEW u \in Threads, NEW i \in 2..Depth(u), NEW g \in Futures, NEW d \in Contexts
        PROVE  LowerFits(u, i, g, d)'
    <2>1. LowerFits(u, i, g, d) /\ ContextAt(u, i) # f /\ ContextAt(u, i - 1) # f
      BY <1>1, Places DEF Isolated
    <2>2. g # f => parked'[g] = parked[g]
      BY <1>1 DEF Others
    <2> QED  BY <1>1, <1>2, <2>1, <2>2 DEF LowerFits, ContextAt
  <1>5. ASSUME NEW g \in Futures  PROVE AwayFits(g)'
    <2>1. CASE g = f
      <3>1. Fits(base'[f], base'[f], {})
        BY <1>1, FitsItself
      <3> QED  BY <1>1, <1>2, <2>1, <3>1 DEF AwayFits, Contexts
    <2>2. CASE g # f
      <3>1. /\ AwayFits(g) /\ parked'[g] = parked[g] /\ status'[g] = status[g] /\ base'[g] = base[g]
            /\ OwnOf(g)' = OwnOf(g)
        BY <1>1, <1>2, <2>2 DEF Isolated, Others, Contexts
      <3> QED  BY <3>1 DEF AwayFits
    <2> QED  BY <2>1, <2>2
  <1> QED  BY <1>1, <1>3, <1>4, <1>5 DEF Isolated, Depth

LEMMA IsolatedTurned ==
    ASSUME Typed, Placed, Isolated, NEW t \in Threads, NEW m \in Modes, Changed(t, m)
    PROVE  Isolated'
  <1>1. /\ \A u \in Threads : Len(frames'[u]) = Len(frames[u])
        /\ \A u \in Threads : \A i \in 1..Len(frames[u]) : frames'[u][i].context = frames[u][i].context
        /\ UNCHANGED <<stack, parked, status, base, guards>>
    BY DEF Changed, Turned, Depth, ContextAt
  <1>2. \A d \in Contexts : OwnOf(d)' = OwnOf(d) /\ Captured(d)' = Captured(d)
    BY <1>1 DEF OwnOf, Captured
  <1>3. ASSUME NEW u \in Threads, NEW d \in Contexts  PROVE TopFits(u, d)'
    <2>1. TopFits(u, d) /\ Running(u)' = Running(u)
      <3>1. Len(frames[u]) \in 1..Len(frames[u])
        BY TopFrame DEF Depth
      <3> QED  BY <1>1, <3>1 DEF Isolated, Running
    <2> QED  BY <1>1, <1>2, <2>1 DEF TopFits
  <1>4. ASSUME NEW u \in Threads, NEW i \in 2..Depth(u), NEW g \in Futures, NEW d \in Contexts
        PROVE  LowerFits(u, i, g, d)'
    <2>1. i \in 1..Depth(u) /\ i - 1 \in 1..Depth(u)
      BY TopFrame
    <2>2. ContextAt(u, i)' = ContextAt(u, i) /\ ContextAt(u, i - 1)' = ContextAt(u, i - 1)
      BY <1>1, <2>1 DEF ContextAt, Depth
    <2>3. LowerFits(u, i, g, d)
      BY DEF Isolated
    <2> QED  BY <1>1, <1>2, <2>2, <2>3 DEF LowerFits
  <1>5. ASSUME NEW g \in Futures  PROVE AwayFits(g)'
    <2>1. AwayFits(g) /\ OwnOf(g)' = OwnOf(g)
      BY <1>2 DEF Isolated, Contexts
    <2> QED  BY <1>1, <2>1 DEF AwayFits
  <1>6. \A u \in Threads : Depth(u)' = Depth(u)
    BY <1>1 DEF Depth
  <1> QED  BY <1>3, <1>4, <1>5, <1>6 DEF Isolated

LEMMA RoomForScope ==
    ASSUME Typed, Typed', NEW c, NEW what, Begun(c, what)
    PROVE  NextScope \in ScopeIds
  <1>1. NextScope' \in 0..MaxScopes /\ guards' \in [0..(NextScope' - 1) -> GuardType] /\ MaxScopes \in Nat
    BY ConstantFacts DEF Typed
  <1>2. PICK n \in 0..MaxScopes : n = NextScope'
    BY <1>1
  <1>3. NextScope \in DOMAIN guards'
    BY DEF Begun
  <1>4. NextScope \in 0..(n - 1)
    BY <1>1, <1>2, <1>3
  <1> QED  BY <1>1, <1>4 DEF ScopeIds

LEMMA IsolatedStep ==
    ASSUME Typed, Typed', Placed, Lives, Isolated, NEW t \in Threads, ScopeStep(t)
    PROVE  Isolated'
  <1>1. ASSUME NEW f \in Futures, FirstTime(t, f)  PROVE Isolated'
    <2>1. /\ Mounted(t, f, "run") /\ "run" \in Modes /\ Begun(f, "async") /\ f \in Contexts
          /\ stack'[t] = Append(parked[f], NextScope) /\ status[f] # "installed"
      BY <1>1 DEF FirstTime, Modes, Contexts
    <2>2. OwnOf(f)' = OwnOf(f) \cup {NextScope} /\ \A d \in Contexts : d # f => OwnOf(d)' = OwnOf(d)
      BY <2>1, OwnBegun
    <2>3. /\ Fits(parked[f], base[f], OwnOf(f))
          /\ parked[f] \in Seq(ScopeIds) /\ base[f] \in Seq(ScopeIds)
      BY <2>1 DEF Isolated, AwayFits, Typed, Stacks
    <2>4. NextScope \in ScopeIds /\ \A id \in OwnOf(f) : id < NextScope
      BY <2>1, RoomForScope DEF Begun, OwnOf
    <2>5. Fits(Append(parked[f], NextScope), base[f], OwnOf(f) \cup {NextScope})
      BY <2>3, <2>4, FitsAppend
    <2> QED  BY <2>1, <2>2, <2>5, IsolatedMounted
  <1>2. ASSUME NEW f \in Futures, NEW m \in Modes, NextTime(t, f, m)  PROVE Isolated'
    <2>1. /\ Mounted(t, f, m) /\ guards' = guards /\ stack'[t] = parked[f] /\ status[f] # "installed"
      BY <1>2 DEF NextTime, Mounted
    <2>2. \A d : OwnOf(d)' = OwnOf(d)
      BY <2>1 DEF OwnOf
    <2>3. Fits(parked[f], base[f], OwnOf(f))
      BY <2>1 DEF Isolated, AwayFits
    <2> QED  BY <2>1, <2>2, <2>3, IsolatedMounted
  <1>3. ASSUME NEW f \in Futures, f = Running(t), Suspended(t, f) \/ Returned(t, f)  PROVE Isolated'
    <2>1. PICK m : Unmounted(t, f, m)
      BY <1>3 DEF Suspended, Returned
    <2>2. status'[f] # "installed"
      BY <1>3 DEF Suspended, Returned
    <2> QED  BY <1>3, <2>1, <2>2, IsolatedPopped
  <1>4. ASSUME Began(t)  PROVE Isolated'
    <2>1. PICK c \in Contexts : c = Running(t)
      BY TopFrame
    <2>2. /\ Begun(c, "sync") /\ stack'[t] = Append(stack[t], NextScope) /\ OtherStacks(t) /\ Still
      BY <1>4, <2>1 DEF Began
    <2>3. OwnOf(c)' = OwnOf(c) \cup {NextScope} /\ \A d \in Contexts : d # c => OwnOf(d)' = OwnOf(d)
      BY <2>2, OwnBegun
    <2>4. /\ Fits(stack[t], Captured(c), OwnOf(c))
          /\ stack[t] \in Seq(ScopeIds) /\ Captured(c) \in Seq(ScopeIds)
      BY <2>1 DEF Isolated, TopFits, Typed, Stacks, Captured
    <2>5. NextScope \in ScopeIds /\ \A id \in OwnOf(c) : id < NextScope
      BY <2>2, RoomForScope DEF Begun, OwnOf
    <2>6. Fits(Append(stack[t], NextScope), Captured(c), OwnOf(c) \cup {NextScope})
      BY <2>4, <2>5, FitsAppend
    <2> QED  BY <2>1, <2>2, <2>3, <2>6, IsolatedTouched
  <1>5. ASSUME NEW id \in DOMAIN guards, NEW outcome \in {"success", "failure", "aborted"},
               Finished(t, id, outcome)
        PROVE  Isolated'
    <2>1. PICK c \in Contexts : c = Running(t)
      BY TopFrame
    <2>2. /\ Over(id, outcome) /\ id \in OwnOf(c) /\ stack'[t] = Without(stack[t], id)
          /\ OtherStacks(t) /\ Still
      BY <1>5, <2>1 DEF Finished
    <2>3. OwnOf(c)' = OwnOf(c) \ {id} /\ \A d \in Contexts : d # c => OwnOf(d)' = OwnOf(d)
      BY <2>2, OwnOver
    <2>4. /\ Fits(stack[t], Captured(c), OwnOf(c))
          /\ stack[t] \in Seq(ScopeIds) /\ Captured(c) \in Seq(ScopeIds)
      BY <2>1 DEF Isolated, TopFits, Typed, Stacks, Captured
    <2>5. Fits(Without(stack[t], id), Captured(c), OwnOf(c) \ {id})
      BY <2>2, <2>4, FitsWithout
    <2> QED  BY <2>1, <2>2, <2>3, <2>5, IsolatedTouched
  <1> QED  BY <1>1, <1>2, <1>3, <1>4, <1>5, IsolatedCreated, IsolatedTurned DEF ScopeStep

-----------------------------------------------------------------------------
(* From the invariant to the properties                                     *)

LEMMA StackFits ==
    ASSUME Typed, Placed, Isolated, NEW c \in Contexts
    PROVE  StackOf(c) \in Seq(ScopeIds) /\ Fits(StackOf(c), Captured(c), OwnOf(c))
  <1>1. CASE \A t \in Threads : ~Active(t, c)
    <2>1. StackOf(c) = parked[c]
      BY <1>1 DEF StackOf
    <2>2. c \in Futures /\ status[c] # "installed"
      <3>1. \A t \in Threads : Active(t, t)
        BY TopFrame DEF Placed, Active, ContextAt, Depth
      <3> QED  BY <1>1, <3>1 DEF Contexts, Placed
    <2> QED  BY <2>1, <2>2 DEF Isolated, AwayFits, Captured, Typed, Stacks
  <1>2. CASE ~ \A t \in Threads : ~Active(t, c)
    <2> DEFINE t == CHOOSE t \in Threads : Active(t, c)
               i == CHOOSE i \in 1..Len(frames[t]) : frames[t][i].context = c
    <2>1. StackOf(c) = IF i = Len(frames[t]) THEN stack[t] ELSE parked[frames[t][i + 1].context]
      BY <1>2 DEF StackOf
    <2>2. t \in Threads /\ Active(t, c)
      BY <1>2
    <2> HIDE DEF t
    <2>3. i \in 1..Len(frames[t]) /\ frames[t][i].context = c
      BY <2>2 DEF Active
    <2> HIDE DEF i
    <2>4. Depth(t) \in Nat /\ Running(t) = ContextAt(t, Depth(t)) /\ Len(frames[t]) = Depth(t)
      BY <2>2, TopFrame DEF Depth
    <2>5. CASE i = Depth(t)
      <3>1. Running(t) = c /\ StackOf(c) = stack[t]
        BY <2>1, <2>3, <2>4, <2>5 DEF ContextAt
      <3> QED  BY <2>2, <3>1 DEF Isolated, TopFits, Typed, Stacks
    <2>6. CASE i # Depth(t)
      <3>1. PICK k \in 2..Depth(t) : k = i + 1 /\ k - 1 = i
        BY <2>3, <2>4, <2>6
      <3>2. PICK f \in Futures : f = ContextAt(t, k)
        BY <2>2 DEF Placed
      <3>3. ContextAt(t, k - 1) = c /\ StackOf(c) = parked[f]
        BY <2>1, <2>3, <2>4, <2>6, <3>1, <3>2 DEF ContextAt
      <3> QED  BY <2>2, <3>2, <3>3 DEF Isolated, LowerFits, Typed, Stacks
    <2> QED  BY <2>5, <2>6
  <1> QED  BY <1>1, <1>2

LEMMA IsolatedMeans ==
    ASSUME Typed, Placed, Isolated  PROVE ContextsIsolated
  <1>1. TypeOK
    <2>1. /\ DOMAIN guards = 0..(NextScope - 1) /\ NextScope <= MaxScopes
          /\ \A id \in DOMAIN guards :
                guards[id] \in [holder : Contexts \cup {Free}, what : {"sync", "async"},
                                outcome : {"open", "success", "failure", "aborted"}]
      BY ConstantFacts, GuardTypes DEF Typed, GuardType
    <2> QED  BY <2>1 DEF TypeOK, Typed, Placed, ContextAt, Depth, FrameType, Modes
  <1>2. ASSUME NEW c \in Contexts
        PROVE  LET own == Holds(c, "sync") \cup Holds(c, "async")
                   n   == Len(Captured(c))
               IN  /\ Len(StackOf(c)) = n + Cardinality(own)
                   /\ \A i \in 1..n : StackOf(c)[i] = Captured(c)[i]
                   /\ \A i \in (n + 1)..Len(StackOf(c)) :
                         /\ StackOf(c)[i] \in own
                         /\ i > n + 1 => StackOf(c)[i - 1] < StackOf(c)[i]
    <2>1. PICK s \in Seq(ScopeIds) : s = StackOf(c) /\ Fits(s, Captured(c), OwnOf(c))
      BY StackFits
    <2>2. PICK b \in Seq(ScopeIds) : b = Captured(c)
      <3>1. <<>> \in Seq(ScopeIds)
        OBVIOUS
      <3>2. c \in Futures => base[c] \in Seq(ScopeIds)
        BY DEF Typed, Stacks
      <3> QED  BY <3>1, <3>2 DEF Captured
    <2>3. Holds(c, "sync") \cup Holds(c, "async") = OwnOf(c)
      BY GuardTypes DEF Holds, OwnOf
    <2>4. Len(s) = Len(b) + Cardinality(OwnOf(c))
      BY <2>1, <2>2, FitsCount
    <2>5. \A i \in (Len(b) + 1)..Len(s) : i > Len(b) + 1 => i - 1 \in (Len(b) + 1)..Len(s) /\ i - 1 < i
      BY LenProperties
    <2> QED  BY <2>1, <2>2, <2>3, <2>4, <2>5 DEF Fits
  <1> QED  BY <1>1, <1>2 DEF ContextsIsolated

-----------------------------------------------------------------------------
Inv == Typed /\ Placed /\ Lives /\ Exited /\ AsyncOutcome /\ Closed /\ Isolated

LEMMA InitInv == Init => Inv
  <1> SUFFICES ASSUME Init PROVE Inv
    OBVIOUS
  <1>1. /\ \A t \in Threads : frames[t] = <<Frame(t, "run")>> /\ stack[t] = <<>>
        /\ \A f \in Futures : /\ parked[f] = <<>> /\ base[f] = <<>> /\ status[f] = "none"
                              /\ ended[f] = "none" /\ owner[f] = Free /\ kind[f] = "wrap"
        /\ guards = <<>> /\ saved = <<>> /\ panics = 0
    BY DEF Init
  <1>2. DOMAIN guards = {} /\ NextScope = 0
    <2>1. DOMAIN guards = {}
      BY <1>1
    <2> QED  BY <2>1, FS_EmptySet DEF NextScope
  <1>3. \A t \in Threads : /\ frames[t] \in Seq(FrameType) /\ Len(frames[t]) = 1
                           /\ frames[t][1].context = t /\ frames[t] # <<>>
    <2> SUFFICES ASSUME NEW t \in Threads
                 PROVE  /\ frames[t] \in Seq(FrameType) /\ Len(frames[t]) = 1
                        /\ frames[t][1].context = t /\ frames[t] # <<>>
      OBVIOUS
    <2>1. Frame(t, "run") \in FrameType /\ Frame(t, "run").context = t
      BY FrameFields DEF Contexts, Modes
    <2>2. frames[t] = <<Frame(t, "run")>>
      BY <1>1
    <2> QED  BY <2>1, <2>2
  <1>4. Typed
    <2>1. /\ stack \in [Threads -> Stacks] /\ parked \in [Futures -> Stacks] /\ base \in [Futures -> Stacks]
          /\ saved \in Stacks
          /\ status \in [Futures -> {"none", "unpolled", "pending", "installed",
                                     "done", "poisoned", "dropped"}]
          /\ owner \in [Futures -> Contexts \cup {Free}] /\ kind \in [Futures -> {"scope", "wrap"}]
          /\ ended \in [Futures -> {"none", "ready", "panic", "cancel"}]
      BY DEF Init, Stacks
    <2>2. frames \in [Threads -> Seq(FrameType)]
      BY <1>3 DEF Init
    <2>3. 0..(NextScope - 1) = {}
      BY <1>2
    <2>4. guards \in [0..(NextScope - 1) -> GuardType]
      BY <1>1, <1>2, <2>3
    <2>5. NextScope \in 0..MaxScopes /\ panics \in 0..MaxPanics
      BY <1>1, <1>2, ConstantFacts
    <2> QED  BY <2>1, <2>2, <2>4, <2>5 DEF Typed
  <1>5. Placed
    BY <1>1, <1>3 DEF Placed, ContextAt, Depth
  <1>6. Lives /\ AsyncOutcome /\ Closed
    BY <1>1, <1>2 DEF Lives, AsyncOutcome, Closed, OwnOf
  <1>7. Exited
    <2>1. \A t \in Threads : 2..Depth(t) = {}
      BY <1>3 DEF Depth
    <2> QED  BY <2>1 DEF Exited
  <1>8. Isolated
    <2>1. \A c \in Contexts : Captured(c) = <<>> /\ OwnOf(c) = {}
      BY <1>1, <1>2 DEF Captured, OwnOf
    <2>2. Fits(<<>>, <<>>, {})
      <3>1. <<>> \in Seq(ScopeIds)
        OBVIOUS
      <3> QED  BY <3>1, FitsItself
    <2>3. \A t \in Threads : 2..Depth(t) = {}
      BY <1>3 DEF Depth
    <2> QED  BY <1>1, <2>1, <2>2, <2>3 DEF Isolated, TopFits, AwayFits, Contexts
  <1> QED  BY <1>4, <1>5, <1>6, <1>7, <1>8 DEF Inv

LEMMA IdleInv ==
    ASSUME Inv, Idle
    PROVE  Placed' /\ Lives' /\ Exited' /\ AsyncOutcome' /\ Closed' /\ Isolated'
  <1>1. UNCHANGED <<stack, frames, parked, status, owner, kind, guards, base, ended>>
    BY DEF Idle
  <1>2. Placed' /\ Lives'
    BY <1>1 DEF Inv, Placed, Lives, Active, ContextAt, ModeAt, Depth, OwnOf, Async
  <1>3. Exited' /\ AsyncOutcome' /\ Closed'
    BY <1>1 DEF Inv, Exited, ExitedAt, Due, AsyncOutcome, Closed, ContextAt, ModeAt, Depth, OwnOf, Async
  <1>4. Isolated'
    <2>1. \A c : OwnOf(c)' = OwnOf(c) /\ Captured(c)' = Captured(c)
      BY <1>1 DEF OwnOf, Captured
    <2>2. \A u \in Threads, c \in Contexts : TopFits(u, c)'
      BY <1>1, <2>1 DEF Inv, Isolated, TopFits, Running
    <2>3. \A u \in Threads : \A i \in 2..Depth(u) : \A f \in Futures, c \in Contexts : LowerFits(u, i, f, c)'
      BY <1>1, <2>1 DEF Inv, Isolated, LowerFits, ContextAt
    <2>4. \A f \in Futures : AwayFits(f)'
      BY <1>1, <2>1 DEF Inv, Isolated, AwayFits
    <2> QED  BY <1>1, <2>2, <2>3, <2>4 DEF Isolated, Depth
  <1> QED  BY <1>2, <1>3, <1>4

LEMMA StepInv == Inv /\ [Next]_vars => Inv'
  <1> SUFFICES ASSUME Inv, [Next]_vars PROVE Inv'
    OBVIOUS
  <1>1. CASE Next
    <2>1. PICK t \in Threads : Step(t)
      BY <1>1 DEF Next
    <2>2. Typed' /\ (ScopeStep(t) \/ Idle)
      BY <2>1, StepKinds DEF Inv
    <2>3. CASE ScopeStep(t)
      BY <2>2, <2>3, PlacedStep, LivesStep, ExitedStep, OutcomeStep, ClosedStep, IsolatedStep DEF Inv
    <2>4. CASE Idle
      BY <2>2, <2>4, IdleInv DEF Inv
    <2> QED  BY <2>2, <2>3, <2>4
  <1>2. CASE UNCHANGED vars
    <2>1. UNCHANGED <<stack, frames, parked, status, owner, kind, guards, saved, base, ended, panics>>
      BY <1>2 DEF vars
    <2>2. Typed' /\ Idle
      BY <2>1 DEF Inv, Typed, NextScope, Idle
    <2> QED  BY <2>2, IdleInv DEF Inv
  <1> QED  BY <1>1, <1>2

(* The inductive invariant holds in every reachable state.                  *)
THEOREM Invariant == Spec => []Inv
  BY InitInv, StepInv, PTL DEF Spec

(* No scope leaks between contexts (InstalledContext's swaps, enter_scope   *)
(* and exit_scope): however futures are nested, moved between threads,      *)
(* cancelled or unwound, the stack of every thread and future is what it    *)
(* captured and then its own open scopes in the order they were entered.    *)
THEOREM NoScopeLeaks == Spec => []ContextsIsolated
  <1>1. Inv => ContextsIsolated
    BY IsolatedMeans DEF Inv
  <1> QED  BY <1>1, Invariant, PTL

(* The scope of scope_async exits as its future ended (AsyncScopeGuard's    *)
(* drop): success or failure on completion, failure on a panic wherever in  *)
(* the nesting it started, aborted on a cancellation.                       *)
THEOREM AsyncScopesTellTheEnd == Spec => []AsyncOutcome
  <1>1. Inv => AsyncOutcome
    BY DEF Inv
  <1> QED  BY <1>1, Invariant, PTL

(* A scope_async's scope exits after all scopes of the guards its future    *)
(* held and of the futures it owned.                                        *)
THEOREM AsyncScopesEnclose == Spec => []Encloses
  <1>1. Inv => Encloses
    BY ClosedEncloses DEF Inv
  <1> QED  BY <1>1, Invariant, PTL
=============================================================================
