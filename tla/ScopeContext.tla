---------------------------- MODULE ScopeContext ----------------------------
(***************************************************************************)
(* Scopes across await points: ScopeContext, WithScopeContext and          *)
(* AsyncScopeGuard of src/src/runtime/scope_context.rs, RuntimeScopeGuard  *)
(* of src/src/core/scope.rs.  A context is a thread's own or that of a     *)
(* wrapped future.  A poll and the drop of a wrapper swap the future's     *)
(* stack with the one installed on the thread and swap it back at the end, *)
(* on every way out, so the stacks of the contexts below are parked in the *)
(* wrappers of those above them.                                           *)
(*                                                                         *)
(* Futures are created in any context, owned there or handed to an         *)
(* executor, polled by any thread that may, nested, dropped at any time,   *)
(* and may panic.  That &mut gives a future to one thread at a time and    *)
(* that leaving a frame drops its locals are the language's rules.         *)
(***************************************************************************)
EXTENDS ScopeStack, FiniteSets

CONSTANTS
    Threads, Futures,
    Free,        \* owner of a future that is handed to an executor
    Chosen,      \* outcomes a guard is told to exit with
    MaxScopes,   \* bound: scopes entered in one behaviour
    MaxPanics    \* bound: panics in one behaviour

ASSUME ContextAssumption ==
    /\ Threads \cap Futures = {} /\ Free \notin Threads \cup Futures
    /\ Chosen \subseteq {"success", "failure", "aborted"} /\ MaxScopes \in Nat /\ MaxPanics \in Nat

VARIABLES
    stack,    \* SCOPE_STACK of each thread
    frames,   \* contexts active on each thread, the running one last
    parked,   \* WithScopeContext::context of each future
    status,   \* of each future's wrapper
    owner,    \* the context a future belongs to, or Free
    kind,     \* "scope" for scope_async, "wrap" for ScopeContext::wrap
    guards,   \* scope -> the context that holds its guard, what guard, how it exited
    saved,    \* a ScopeContext captured earlier and kept for later use
    base,     \* history: the context each future was wrapped with
    ended,    \* history: how a future that is over has ended
    panics    \* panics so far

vars == <<stack, frames, parked, status, owner, kind, guards, saved, base, ended, panics>>
futureVars == <<owner, kind, saved, base>>

Contexts == Threads \cup Futures
Frame(c, mode) == [context |-> c, mode |-> mode]
Running(t)   == frames[t][Len(frames[t])].context
Mode(t)      == frames[t][Len(frames[t])].mode
Panicking(t) == \E i \in 1..Len(frames[t]) : frames[t][i].mode = "unwind"
NextScope    == Cardinality(DOMAIN guards)
SetMode(t, mode) == [frames EXCEPT ![t][Len(frames[t])].mode = mode]

Init ==
    /\ stack = [t \in Threads |-> <<>>]
    /\ frames = [t \in Threads |-> <<Frame(t, "run")>>]
    /\ parked = [f \in Futures |-> <<>>] /\ base = [f \in Futures |-> <<>>]
    /\ status = [f \in Futures |-> "none"] /\ ended = [f \in Futures |-> "none"]
    /\ owner = [f \in Futures |-> Free] /\ kind = [f \in Futures |-> "wrap"]
    /\ guards = <<>> /\ saved = <<>> /\ panics = 0

-----------------------------------------------------------------------------
(* capture, by itself: the context may be wrapped around a future later,    *)
(* anywhere, and more than once (Clone).                                    *)
Capture(t) ==
    /\ Mode(t) = "run"
    /\ saved' = stack[t]
    /\ UNCHANGED <<stack, frames, parked, status, owner, kind, guards, base, ended, panics>>

(* wrap of a new context, one captured here or one captured before;         *)
(* scope_async captures here and enters its scope at the first poll.        *)
Wrap(t, f, k, o, captured) ==
    /\ Mode(t) = "run" /\ status[f] = "none"
    /\ o \in {Running(t), Free} /\ captured \in {stack[t], saved, <<>>}
    /\ k = "scope" => captured = stack[t]
    /\ status' = [status EXCEPT ![f] = IF k = "scope" THEN "unpolled" ELSE "pending"]
    /\ parked' = [parked EXCEPT ![f] = captured]
    /\ base' = [base EXCEPT ![f] = captured]
    /\ owner' = [owner EXCEPT ![f] = o]
    /\ kind' = [kind EXCEPT ![f] = k]
    /\ UNCHANGED <<stack, frames, guards, saved, ended, panics>>

(* InstalledContext: enter swaps ...                                        *)
Install(t, f, mode) ==
    /\ frames' = [frames EXCEPT ![t] = Append(@, Frame(f, mode))]
    /\ parked' = [parked EXCEPT ![f] = stack[t]]
    /\ status' = [status EXCEPT ![f] = "installed"]

(* Mutant of Restore: unwinding leaves the future's stack on the thread.    *)
RestoreUnlessPanicking(t) ==
    LET f == Running(t)
    IN  IF Panicking(t) THEN UNCHANGED <<stack, parked>>
        ELSE /\ stack' = [stack EXCEPT ![t] = parked[f]]
             /\ parked' = [parked EXCEPT ![f] = stack[t]]

(* ... and drop swaps back, unwinding included.                             *)
Restore(t) ==
    LET f == Running(t)
    IN  /\ stack' = [stack EXCEPT ![t] = parked[f]]
        /\ parked' = [parked EXCEPT ![f] = stack[t]]

(* enter_scope: the journal gives out the next identifier.                  *)
Entered(c, what) == [id \in 0..NextScope |->
    IF id = NextScope THEN [holder |-> c, what |-> what, outcome |-> "open"] ELSE guards[id]]

MayTouch(t, f) == owner[f] = Running(t) \/ (owner[f] = Free /\ Mode(t) = "run")

(* poll, the first of a scope_async: install, then enter the scope.         *)
FirstPoll(t, f) ==
    /\ Mode(t) = "run" /\ status[f] = "unpolled" /\ MayTouch(t, f)
    /\ NextScope < MaxScopes
    /\ Install(t, f, "run")
    /\ guards' = Entered(f, "async")
    /\ stack' = [stack EXCEPT ![t] = Append(parked[f], NextScope)]
    /\ UNCHANGED <<futureVars, ended, panics>>

Poll(t, f) ==
    /\ Mode(t) = "run" /\ status[f] = "pending" /\ MayTouch(t, f)
    /\ Install(t, f, "run")
    /\ stack' = [stack EXCEPT ![t] = parked[f]]
    /\ UNCHANGED <<futureVars, guards, ended, panics>>

(* "polled after completion", or an async block resumed after a panic:      *)
(* panics with the context installed.                                       *)
PollOver(t, f) ==
    /\ Mode(t) = "run" /\ status[f] \in {"done", "poisoned"} /\ MayTouch(t, f)
    /\ panics < MaxPanics /\ panics' = panics + 1
    /\ Install(t, f, "unwind")
    /\ stack' = [stack EXCEPT ![t] = parked[f]]
    /\ UNCHANGED <<futureVars, guards, ended>>

(* The poll returns Pending.                                                *)
Yield(t) ==
    /\ Running(t) \in Futures /\ Mode(t) = "run"
    /\ Restore(t)
    /\ frames' = [frames EXCEPT ![t] = SubSeq(@, 1, Len(@) - 1)]
    /\ status' = [status EXCEPT ![Running(t)] = "pending"]
    /\ UNCHANGED <<futureVars, guards, ended, panics>>

-----------------------------------------------------------------------------
(* Guards.  exit_scope leaves the stack of the running context.             *)

Exit(t, id, outcome) ==
    /\ guards' = [guards EXCEPT ![id].outcome = outcome,
                                ![id].holder = IF guards[id].what = "sync" THEN Free ELSE @]
    /\ stack' = [stack EXCEPT ![t] = Without(@, id)]

Holds(c, what) == {id \in DOMAIN guards : /\ guards[id].holder = c /\ guards[id].what = what
                                          /\ guards[id].outcome = "open"}

(* RuntimeScopeGuard::enter, in a function's local or in a future.          *)
Enter(t) ==
    /\ Mode(t) = "run" /\ NextScope < MaxScopes
    /\ guards' = Entered(Running(t), "sync")
    /\ stack' = [stack EXCEPT ![t] = Append(@, NextScope)]
    /\ UNCHANGED <<frames, parked, status, futureVars, ended, panics>>

(* exit, exit_result, success, failure and aborted, in any order of scopes. *)
Leave(t, id, outcome) ==
    /\ Mode(t) = "run" /\ id \in Holds(Running(t), "sync")
    /\ Exit(t, id, outcome)
    /\ UNCHANGED <<frames, parked, status, futureVars, ended, panics>>

(* Drop of a RuntimeScopeGuard that has not exited.                         *)
DropGuard(t, id) ==
    /\ Mode(t) # "run" /\ id \in Holds(Running(t), "sync")
    /\ Exit(t, id, IF Panicking(t) THEN "failure" ELSE "success")
    /\ UNCHANGED <<frames, parked, status, futureVars, ended, panics>>

(* The wrapper is not dropped and nothing borrows it.                       *)
Exists(f) == status[f] \in {"unpolled", "pending", "done", "poisoned"}
Owned(c)  == {f \in Futures : owner[f] = c /\ Exists(f)}

(* Mutant of GuardIsLast: the guard would be dropped before the future.     *)
GuardAnytime(c) == TRUE
(* In scope_async's block the guard is declared first, so it goes last.     *)
GuardIsLast(c)  == Holds(c, "sync") = {} /\ Owned(c) = {}

(* Mutant of AsyncDropOutcome: the usual outcome of a guard.                *)
UsualDropOutcome(t) == IF Panicking(t) THEN "failure" ELSE "success"
AsyncDropOutcome(t) == IF Panicking(t) THEN "failure" ELSE "aborted"

(* guard.0.exit(Success) after the await, or AsyncScopeGuard's drop.        *)
ExitAsync(t, id) ==
    /\ Mode(t) # "run" /\ id \in Holds(Running(t), "async")
    /\ GuardIsLast(Running(t))
    /\ \/ Mode(t) = "finish" /\ \E outcome \in {"success", "failure"} : Exit(t, id, outcome)
       \/ Mode(t) \in {"unwind", "drop"} /\ Exit(t, id, AsyncDropOutcome(t))
    /\ UNCHANGED <<frames, parked, status, futureVars, ended, panics>>

-----------------------------------------------------------------------------
(* The ways out of a frame.                                                 *)

(* The wrapped future is ready, or returns out of its block.                *)
Ready(t) ==
    /\ Running(t) \in Futures /\ Mode(t) = "run"
    /\ frames' = SetMode(t, "finish")
    /\ UNCHANGED <<stack, parked, status, futureVars, guards, ended, panics>>

Panic(t) ==
    /\ Mode(t) = "run" /\ panics < MaxPanics
    /\ panics' = panics + 1
    /\ frames' = SetMode(t, "unwind")
    /\ UNCHANGED <<stack, parked, status, futureVars, guards, ended>>

(* catch_unwind in the code of the running context; a scope_async's own     *)
(* guard is outside that code.                                              *)
Catch(t) ==
    /\ Mode(t) = "unwind"
    /\ Running(t) \in Futures =>
          /\ ended[Running(t)] = "none"
          /\ kind[Running(t)] = "scope" => Holds(Running(t), "async") # {}
    /\ frames' = SetMode(t, "run")
    /\ UNCHANGED <<stack, parked, status, futureVars, guards, ended, panics>>

(* Mutant of Drop: the future is destroyed in the context of its dropper.   *)
DropUninstalled(t, f) ==
    /\ Exists(f) /\ MayTouch(t, f)
    /\ frames' = [frames EXCEPT ![t] = Append(@, Frame(f, "drop"))]
    /\ status' = [status EXCEPT ![f] = "installed"]
    /\ parked' = [parked EXCEPT ![f] = stack[t]]
    /\ UNCHANGED <<stack, futureVars, guards, ended, panics>>

(* The panic of a future that is no async block leaves its fields in place: *)
(* it goes on to the context below, and the future may be polled again.     *)
Escape(t) ==
    LET f     == Running(t)
        below == SubSeq(frames[t], 1, Len(frames[t]) - 1)
    IN  /\ f \in Futures /\ kind[f] = "wrap" /\ ended[f] = "none" /\ Mode(t) = "unwind"
        /\ Restore(t)
        /\ frames' = [frames EXCEPT ![t] = [below EXCEPT ![Len(below)].mode = "unwind"]]
        /\ status' = [status EXCEPT ![f] = "pending"]
        /\ UNCHANGED <<futureVars, guards, ended, panics>>

(* Drop of a WithScopeContext: a future cancelled, or one that is over; by  *)
(* its owner's code or as one of the locals its owner leaves behind.        *)
Drop(t, f) ==
    /\ Exists(f) /\ MayTouch(t, f)
    /\ Install(t, f, "drop")
    /\ stack' = [stack EXCEPT ![t] = parked[f]]
    /\ UNCHANGED <<futureVars, guards, ended, panics>>

(* The locals are gone: poll returns Ready, drop returns, or the panic goes *)
(* on to the context below.                                                 *)
Return(t) ==
    LET f     == Running(t)
        mode  == Mode(t)
        below == SubSeq(frames[t], 1, Len(frames[t]) - 1)
    IN  /\ f \in Futures /\ mode # "run"
        /\ Owned(f) = {} /\ Holds(f, "sync") = {} /\ Holds(f, "async") = {}
        /\ ended' = [ended EXCEPT ![f] =
               IF @ # "none" THEN @
               ELSE IF mode = "finish" THEN "ready"
               ELSE IF Panicking(t) THEN "panic" ELSE "cancel"]
        /\ Restore(t)
        /\ frames' = [frames EXCEPT ![t] =
               IF mode = "unwind" THEN [below EXCEPT ![Len(below)].mode = "unwind"] ELSE below]
        /\ status' = [status EXCEPT ![f] = IF mode = "finish" THEN "done"
                                           ELSE IF mode = "unwind" THEN "poisoned" ELSE "dropped"]
        /\ owner' = [owner EXCEPT ![f] = IF mode = "drop" THEN Free ELSE @]
        /\ UNCHANGED <<kind, saved, base, guards, panics>>

Step(t) ==
    \/ \E f \in Futures :
          \/ \E k \in {"scope", "wrap"}, o \in Contexts \cup {Free}, c \in {stack[t], saved, <<>>} :
                Wrap(t, f, k, o, c)
          \/ FirstPoll(t, f) \/ Poll(t, f) \/ PollOver(t, f) \/ Drop(t, f)
    \/ Yield(t) \/ Ready(t) \/ Panic(t) \/ Catch(t) \/ Escape(t) \/ Return(t)
    \/ Enter(t) \/ Capture(t)
    \/ \E id \in DOMAIN guards :
          \/ \E outcome \in Chosen : Leave(t, id, outcome)
          \/ DropGuard(t, id) \/ ExitAsync(t, id)

Next == \E t \in Threads : Step(t)

Spec == Init /\ [][Next]_vars

-----------------------------------------------------------------------------
(* Properties                                                               *)

ScopeIds == 0..(MaxScopes - 1)
Stacks   == Seq(ScopeIds)

TypeOK ==
    /\ stack \in [Threads -> Stacks]
    /\ parked \in [Futures -> Stacks] /\ base \in [Futures -> Stacks]
    /\ saved \in Stacks
    /\ frames \in [Threads -> Seq([context : Contexts, mode : {"run", "finish", "unwind", "drop"}])]
    /\ \A t, u \in Threads : \A i \in 1..Len(frames[t]), k \in 1..Len(frames[u]) :
          frames[t][i].context = frames[u][k].context => t = u /\ i = k
    /\ status \in [Futures -> {"none", "unpolled", "pending", "installed",
                               "done", "poisoned", "dropped"}]
    /\ owner \in [Futures -> Contexts \cup {Free}]
    /\ kind \in [Futures -> {"scope", "wrap"}]
    /\ DOMAIN guards = 0..(NextScope - 1) /\ NextScope <= MaxScopes
    /\ \A id \in DOMAIN guards :
          guards[id] \in [holder : Contexts \cup {Free}, what : {"sync", "async"},
                          outcome : {"open", "success", "failure", "aborted"}]
    /\ ended \in [Futures -> {"none", "ready", "panic", "cancel"}]
    /\ panics \in 0..MaxPanics

(* Where the stack of a context is: on the thread if the context runs there,*)
(* in the wrapper of the context above it if it is active, in its own       *)
(* wrapper otherwise.                                                       *)
Active(t, c) == \E i \in 1..Len(frames[t]) : frames[t][i].context = c
StackOf(c) ==
    IF \A t \in Threads : ~Active(t, c) THEN parked[c]
    ELSE LET t == CHOOSE t \in Threads : Active(t, c)
             i == CHOOSE i \in 1..Len(frames[t]) : frames[t][i].context = c
         IN  IF i = Len(frames[t]) THEN stack[t] ELSE parked[frames[t][i + 1].context]

Captured(c) == IF c \in Futures THEN base[c] ELSE <<>>

(* "Each wrapped future owns an independent stack.  Scopes entered by one   *)
(* future cannot leak into another": the stack of every context is what it  *)
(* captured, then the scopes of its own open guards in the order of entry,  *)
(* wherever its thread, its nesting, a panic or a cancellation has taken it;*)
(* and every variable is well typed.                                        *)
ContextsIsolated ==
    /\ TypeOK
    /\ \A c \in Contexts :
          LET own == Holds(c, "sync") \cup Holds(c, "async")
              n   == Len(Captured(c))
          IN  /\ Len(StackOf(c)) = n + Cardinality(own)
              /\ \A i \in 1..n : StackOf(c)[i] = Captured(c)[i]
              /\ \A i \in (n + 1)..Len(StackOf(c)) :
                    /\ StackOf(c)[i] \in own
                    /\ i > n + 1 => StackOf(c)[i - 1] < StackOf(c)[i]

(* "Completion records Success, cancellation records Aborted, and unwinding *)
(* records Failure": an async scope exits as its future ended, whichever    *)
(* thread dropped it and however deeply it was nested (a Result may turn    *)
(* completion into Failure), and is open as long as the future may go on.   *)
AsyncOutcome ==
    \A id \in {i \in DOMAIN guards : guards[i].what = "async"} :
        LET f == guards[id].holder
        IN  /\ ended[f] = "ready"  => guards[id].outcome \in {"success", "failure"}
            /\ ended[f] = "panic"  => guards[id].outcome = "failure"
            /\ ended[f] = "cancel" => guards[id].outcome = "aborted"
            /\ status[f] = "pending" => guards[id].outcome = "open"

(* A scope_async encloses what happens in it: when its scope has exited, so *)
(* has every scope of the futures it owned and of the guards it held.       *)
Encloses ==
    \A id, inner \in DOMAIN guards :
        LET f == guards[id].holder
            c == guards[inner].holder
        IN  /\ guards[id].what = "async" /\ guards[id].outcome # "open"
            /\ id # inner /\ (c = f \/ (c \in Futures /\ owner[c] = f))
            => guards[inner].outcome # "open"
=============================================================================
