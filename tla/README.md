# Eventline: TLA+ models, checks and proofs

Eventline (`src/`) is a Rust logging library: threads and futures enter and leave
named scopes and emit events; a process-wide runtime keeps them in a bounded
in-memory journal and hands them to a sink, usually a background writer in front
of a size-rotated text or JSONL file; a loader rebuilds runs from such files,
damaged ones included.  This directory holds TLA+ modules of the parts in which
order, concurrency, failure and recovery decide whether it is correct, the TLC
configurations that check them on small instances, and TLAPS proofs of theorems
for every value of the constants.

Paths below are relative to the repository root, as in `src/journal/writer.rs`;
the modules quote them from one level up.

    tlc -config MCAsyncWriter.cfg MCAsyncWriter       # one run
    tlapm AsyncWriterProofs.tla                       # one proof module

## 1. Inventory

| Component | State | Operations | Hard because |
|---|---|---|---|
| Background writer `journal/writer.rs` | sender, bounded channel, worker thread, pending error | write_record, write_scope, flush, set_run_id, drop; worker loop | two threads, blocking and best-effort sends, sink errors and panics, shutdown |
| Diagnostics `journal/diagnostics.rs` | two counters, last error | record_error, drop_record, snapshot, clear | updated from both threads |
| Rotation and file sinks `journal/rotation.rs`, `journal/writer.rs` | file handle, current_size; the directory | open, write_line, write_header, rotate_and_reopen | every file system call may fail, the process may die between two |
| Sink combinators `journal/writer.rs`, `runtime/mod.rs` | none of their own | MultiWriter, FilteredWriter, StdoutWriter, FileWriter, NoopWriter | one sink of several fails; a write fails part way |
| Buffers `journal/buffer.rs` | deques, identifier indexes, exit set, logical keys | push, lookup, exit, messages, trim, compact, clear | keys outlive positions; duplicates; lazy index under two locks |
| Journal `journal/mod.rs`, `core/scope.rs` | next identifiers, current scope, a buffer, a writer | enter, exit, record, trim, clear, set_writer, records_jsonl, ScopeGuard | identifiers must not restart; what is trimmed is still named |
| Runtime `runtime/mod.rs` | journal, writer, config, last_cfg each behind a lock; emit counter; a stack per thread | emit, enter_scope, exit_scope, clear, set_journal_retention, update_writers | three nested locks, state used after an unlock |
| Scope contexts and guards `runtime/scope_context.rs`, `core/scope.rs` | the stack parked in a wrapper, an exited flag | capture, wrap, poll, drop, scope_async, guards | futures move, nest, are cancelled, unwind |
| Log levels `runtime/log_level.rs`, `configure.rs` | two atomics, and a level per sink in the configuration | set and test thresholds | several thresholds decide together, one is derived from others |
| Replay loader `replay/load.rs` | runs, current unversioned run, headers, issues | read_line, add_scope, add_record, finish | fragments overlap, repeat, contradict, close cycles |
| Replay queries `replay.rs` | an index over borrowed lists | scope_tree, render_scope_tree, outcomes, failed and slowest scopes | malformed forests, repeated identifiers |
| Rendering, values, macros, integrations | none | formatting and forwarding | |

**How they interact.**  The macros call the runtime.  `emit` and `exit_scope`
take the journal's lock, make a record, release it, and then take the writer's
lock to hand the record over.  `enter_scope` does the same with scope metadata,
and takes the journal's lock a second time inside the writer's.  `update_writers`
nests last_cfg, then the writer, then the journal.  The writer's lock guards a
`Box<dyn Writer>`, usually an `AsyncWriter`, whose worker owns the file sink.
Scope contexts swap a future's stack with the thread's.  The loader reads what
the sinks wrote.

**What makes each correct.**

- *Background writer*: what was sent is written in that order; a flush answers for
  everything before it with the first failure; every entry that is refused is
  counted; a drop drains; no call waits forever, whatever the sink does.
- *Rotation*: backups and active file, read oldest first, give the records in
  order and once; what disappears is always the oldest; the size limit holds.
- *Buffers*: the index says what a scan would, so the buffer is a sequence.
- *Runtime*: the metadata of every open scope has been handed to a JSONL writer;
  replay finds no contradiction; each thread's lines are in its order; the current scope
  is the innermost one the thread is in; no configuration update is lost; no
  deadlock.
- *Scope contexts*: stacks never leak from one context to another; async scopes
  exit as their future ended, and enclose what happened in it.
- *Output*: what is recorded does not depend on the sinks; a line is in exactly the
  sinks of its configuration that did not fail; no failure is missing from the
  diagnostics, or from before a `clear()`; a flush tells of the first failure since
  the flush before; the derived level says what the sinks show; lines stand in the
  files in the order in which they were handed over, across rotations.
- *Journal on disk*: whatever is torn, trimmed, cleared or read twice, what is loaded
  is what a journal did; a torn line costs at most the one that continues it.
- *Queries*: the tree holds every way down from a root once, the index answers as a
  scan does, and no failure of a loaded run is hidden.
- *Loader*: no valid record is lost, no contradiction is silent, runs do not mix,
  the scopes form a forest that shows every one of them.

The hazards behind these properties are listed, each at its line, in
`PROJECT.json`.

## 2. Modules

    SinkContract <--implements-- AsyncWriter        OrderedStore <--implements-- ScopeBuffer
         ^                                               ^------------implements-- RecordBuffer
         | what the runtime assumes of its writer   both --EXTENDS--> KeyedIndex, SubSequences
         |                                          Buffers composes both
    Runtime --EXTENDS--> Journal                    Rotation
       \--EXTENDS--> ScopeStack <--EXTENDS-- ScopeContext
                                                    Output
    SavedJournal --EXTENDS--> Journal
         \--EXTENDS--> Replay --> JsonLines
    ReplayQueries --EXTENDS--> Replay               MCReplay composes both

- **SinkContract**: the abstract sink.  A sequence of messages sent, a prefix of it
  settled, a count of the refused ones, and a flush answer tied to the settled
  prefix (`answer` holds which flush returned and its result).  No queue, no thread.
- **AsyncWriter**: caller, channel, worker.  The caller holds the writer by `&mut`,
  so it is one sequential actor; a blocking `send` that finds the queue full is a
  state of its own (`Sending`), as are waiting for a flush and joining.  The
  worker's loop is one action per step (`Receive`, `WriteEntry`, `AnswerFlush`...);
  `Panic` may hit any use of the sink and is followed by `RecordPanic` and
  `DropReceiver` in that order, because the caller can act between them.  An entry
  is the ordinal of the call that submitted it.  `sent` and `settled` are history.
- **Rotation**: the directory maps slots to files, a handle names a file and stays
  with it when it is renamed.  Each file system call (`Shift`, `RenameActive`,
  `RemoveActive`, `Open`, `Metadata`, `WriteDone`...) is a step that can fail;
  `Crash` forgets the process and leaves the directory.
- **OrderedStore**: the abstract buffer, a sequence scanned from the front; `found`
  holds the last query together with its result.
- **KeyedIndex**: what the two stores share, positions of identifiers and changes of
  an index.
- **SubSequences**: the elements of a sequence that are kept, in order.
- **ScopeBuffer**, **RecordBuffer**: the deques with vacant slots, logical keys,
  index and exit set.  A buffer method takes `&mut self`, so it is one step, except
  a record query, which looks under the read lock and again under the write lock.
  **Buffers** runs the two side by side.
- **Journal**: the journal as operators on its value, at the level of
  OrderedStore, with identifiers that only grow.  Runtime and SavedJournal use it.
- **ScopeStack**: the thread's stack and how a scope is taken out of it.
- **Runtime**: threads over the locked parts.  The journal's lock is never held
  while another lock is taken, so its sections are single steps; the writer's lock
  and last_cfg are held across steps (`Drain`, `Build`, `Install`).  `handed` is
  all lines handed to the writers one after the other, as they append to one path.  It is
  not the file: a full queue drops lines, scope metadata too, and those still queued die
  with the process (AsyncWriter and Output say what is told of them).  `Reconfigure`
  stands for `apply_setup`, which may change the retention too (`Asked`), and for the
  setters, which do not.  A panic in `enter_scope` is a state (`PublishPanics`).
- **ScopeContext**: each thread has a stack of frames, one for each context active
  on it; poll and drop push a frame and swap stacks, and every way out (`Yield`,
  `Return` after completion, panic or cancellation) swaps back.  Locals disappear
  in the order Rust drops them: guards and futures an async block owns before the
  block's own guard.  `Capture` keeps a context for later, so that a future may be wrapped
  in stacks whose scopes have been left since; `Escape` is a future of the application's
  own that lets a panic through its poll and may be polled again.
- **JsonLines**: a JSON line as the object it holds: what the renderer puts into it
  (`ScopeLine`, `RecordLine`), and what makes the reader skip it (`Unsupported`
  before `Malformed`, as a later version is not looked into).
- **Replay**: the loader over any sequence of lines.  An entry is its run, the scope
  metadata and the record it carries; `Target` chooses the run, `AddScope` and
  `AddRecord` merge, `AfterFinish` inserts placeholders and cuts cycles.  The loader
  is a value (`Loader`) that a line changes (`AfterLine`), so that it runs both line
  by line over any input and over a whole file that SavedJournal wrote.
- **ReplayQueries**: the queries as functions of two lists.  `scope_tree` is its loop
  (`Turn`) over an explicit stack and the shared path, `render_scope_tree` its other
  loop; properties compare both with the ways down from a root.
- **SavedJournal**: a journal used directly, one action per public operation, with a
  FileWriter on a file that outlives the process.  `AppendLine` gives what one write
  leaves: nothing, part of the line, the line without its newline, or both; the next
  line goes on where the file ends.  `Restart` may come after any call, `Load` reads
  the file, an export, or one after the other.  The guard borrows the journal, so it
  excludes other calls until it is dropped.
- **Output**: from a log call to the sinks.  A call that takes the writer's lock gets
  a ticket, and console and files are sequences of tickets; the line itself is what
  decides where it goes, its type and level.  `ToWrite` and `WriteLine` are the two
  halves of `emit`, between which another thread may reconfigure or clear.
  `Settle` gives a line to each sink of the MultiWriter, any of which may fail;
  `FlushSinks` is the worker's answer to a flush, which `flush`, `clear` and
  `update_writers` treat differently.  `BuildOpen`, `BuildHeader`, `Install` and
  `BuildFails` are the steps of a configuration, which move the file under the sink
  that has it open (`Rotate`).  The content of `calls`, `failures` and of the
  counters `wanted` and `recorded` is history.
- **MC...**: instances for TLC.
- **AsyncWriterProofs**, **RuntimeProofs**, **RotationProofs**, **BufferProofs**,
  **OutputProofs**, **ScopeContextProofs**, **ReplayProofs**: theorems about the module
  each is named after, the last also about SavedJournal.  **ProofLemmas**: what their
  proofs need of numbers, finite sets and sequences.

Operators described as mutants are plausible bugs of the definition that follows
them: with one of them in its place, the property it is named for fails, so the
property depends on that piece of code.  Nothing else uses them.

## 3. Runs

| Run | Shows | Bounds |
|---|---|---|
| `async_writer` | flushes served, order, accounting, flush contract, traces of lost entries, drain, refinement of SinkContract; blocked calls return | capacity 0 (the code raises it to 1) and 2, both modes, with and without metadata; 3 entries, 2 flushes or run changes |
| `runtime` | metadata handed over, no replay conflict, thread order, current scope, configuration | 2 threads, 2 scopes, 3 record identifiers, 2 administrative calls, interval 2 |
| `runtime_live` | calls return; events exceed the cap by at most one interval per thread | 2 threads, 6 records, 2 administrative calls |
| `runtime_panic` | finding 1 | as `runtime` |
| `runtime_scopes_only` | finding 2 | 1 thread that only enters and exits, 12 scopes, cap 1, interval 2 |
| `rotation` | order, survival of the newest, size limit, what rotation drops | 0 or 2 backups, lines of 1, 3 and 5 bytes against a limit of 4, 5 records, 2 failures or crashes |
| `rotation_wrong` | finding 3 | no backups, 2 failures |
| `buffers` | exact indexes, bounded vacancies, refinement of OrderedStore by each store | 2 identifiers, 5 pushes, 3 live, 2 querying threads, keys up to 4, compaction above 2 |
| `scope_context` | isolation, outcomes, enclosure | 2 threads, 2 futures, 2 scopes, 2 panics |
| `output` | accounting, sinks, diagnostics, flush, derived level, order of files | 2 threads, 4 calls on the writer of which 2 hand over lines, 2 changes of configuration or record level out of 19, 1 failure, queue of 1, events of 2 levels |
| `replay` | nothing lost, nothing silent, runs apart, exits as observed, forest; tree, index and outcomes; truth, torn lines, history and export of a journal's file | inputs of up to 4 lines, drawn from 18 entries of two runs and an unversioned one, a header and two kinds of skipped line; files of 2 processes with 5 calls on their journals, 2 scopes in each, 1 failed write, empty or after 8 foreign lines |
| `replay_twice` | finding 4 | 3 lines |

**Why the bounds are enough for the cases that matter.**  *async_writer*: a queue
of two that holds an entry, a flush and a third message, so that a caller blocks,
is refused, or meets a dead worker with the queue in every state; two flushes show
that an error is reported once.  *runtime*: two threads are what every race here
takes; two scopes give parent and child or one scope for each thread; three records
let a thread's event, an exit and another thread's event interleave; the interval
of 2 stands for 128 so that a trim happens.  *rotation*: two backups are the least
that shift; the three lengths are one that fits with others, one that fits alone
and one that never fits; two faults allow a failed or interrupted rotation and a
second one on its retry.  *buffers*: keys up to 4 instead of `usize::MAX` and
compaction above 2 instead of 64 make wrap-around and compaction happen, and two
identifiers make duplicates happen.  *scope_context*: with two futures, one polls or
drops the other, on either thread; two panics allow one while another is caught or
unwinding below.  A third future would only nest once more.  *output*: two lines are one
before and one after whatever happens between them, or one in the queue while another
finds it full; two changes are a configuration that fails and one that follows, two that
race, or a threshold and a configuration; one failure at any sink or step shows whether
it is told, and to whom.  The setups cover each kind of file and each way to give a
level.  *replay*: four lines build a cycle of three scopes with a scope beside it, an
exit contradicted twice, and a run interrupted by each kind of other line.  Five calls
enter, record, exit, trim or clear and go on, in one process or split over two; one
failed write leaves each kind of torn line, and the second process may continue it.
The eight foreign lines are one for each reason to skip a line, and an unversioned one.

The type invariant of each module is a conjunct of one of its properties (stated on its
own for AsyncWriter), and the conjuncts of a property are named where they are questions
of their own (`NewestSurvive` in `OldestFirst`, `OutcomesComplete` in `QueriesAgree`,
`ExportRecovered` in `HistorySaved`, five in `BuffersExact`).

**Deadlock** is not checked in any run: every system here legitimately stops when
its caller stops calling, or at a bound.  That no call waits forever is stated as
liveness (`CallsReturn`) instead.

**Fairness.**  `AsyncWriter!FairSpec`: weak fairness of the worker, an operating
system thread, and of the return of a blocking call whose condition holds.  Nothing
obliges the caller to call.  `Runtime!FairSpec`: strong fairness of a thread inside
a call, since parking_lot's mutexes hand the lock to a waiter eventually; without
it one thread could take the lock again and again.  A sink that blocks forever in
the operating system is outside both.

**Symmetry** over threads, futures and identifiers is used only where a run has no
liveness property.  The view of `scope_context` leaves a captured context out of the
state once no future is left that could be wrapped in it: only `Wrap` reads it.

## 4. Findings

1. `NewScopeIsRetained` (`runtime/mod.rs:366`): `clear()` on one thread between the
   two halves of `enter_scope` on another makes the `expect("new scope is
   retained")` panic, with a JSONL sink.
2. `RecordsTrimmed` (`runtime/mod.rs:376`): only `emit` counts towards trimming; a
   thread that enters and exits scopes and emits nothing keeps every record and
   every scope, against "trims periodically" and "briefly exceed" of
   `docs/guide.md:242`.  The run has no other steps, and four intervals beyond what
   `EventsBounded` allows go by without a trim.
3. `WritesReachActive` (`journal/writer.rs:447`): after a successful `rotate` and a
   failed reopen the writer keeps the old handle and the old size; a later short
   record is written `Ok` to a file that is not at the configured path, against
   `journal/rotation.rs:41`.
4. `Deduplicated` (`replay/load.rs:301`): a record is compared only with the first
   one of its identifier, so a conflicting record that overlaps itself is retained
   twice, against `replay/load.rs:96`.

Two smaller disagreements show in Output without a run of their own.
`docs/guide.md:351` says that a flush returns the first background write error "since
the previous flush"; the hidden flushes of `clear()` and of every reconfiguration take
the pending error too, so that a caller's next `flush()` returns `Ok` and only the
diagnostics still have it (and after `clear()` not even those).  `FlushTells` states
what holds.  And `runtime/log_level.rs:89` says that raising the recording threshold
"prevents lower priority events from being formatted or recorded at all"; the log and
tracing adapters call `emit` without asking (`LogExternal`), so that their events are
recorded at any threshold.

Beside these, the Rotation model shows that a rotation repeated after a failure
shifts the backups again and overwrites the oldest although a slot is free; the
property `FaultlessDropsBeyondLimit` therefore speaks of the time before the first
failure.

## 5. Proofs

The theorems hold for every value of the constants that meets the assumptions their
modules name; TLC evaluates these assumptions on each run.  Every property of the
passing runs about AsyncWriter, Runtime, Rotation, the buffers, Output, ScopeContext and
the loader is proved, except liveness, and so is what a loaded journal may say and what
damage to its file may cost.  Each proof has one inductive invariant, one lemma for what
each group of steps changes, and one for each conjunct that those steps can disturb.

**AsyncWriter** (`CapacityAssumption`, `BoundsAssumption`: naturals;
`ResultsAssumption`: the three results that name no entry differ from each other and
from entries).

- `OrderKept`: `Spec => []ChannelOrder`.  ChannelOrder says what the receiver holds
  as long as it exists; to make it inductive, `OrderInv` adds type correctness and
  `ReceiverLives`, that the receiver exists exactly until the worker has exited.
  Without it a step of a worker whose receiver is gone could settle a message that
  no account holds any more.
- `DropsDrained`: `Spec => []DropDrains`.  DropDrains speaks of the moment after the
  join; `DrainInv` says where the messages are on the way there: a closing worker
  has an empty hand, an empty queue and no sender, so a worker that is no longer
  receiving has settled everything or aborted one message, nothing is sent
  afterwards, and an aborted message stays (`AbortedStays`).
- `FlushesAreServed`: `Spec => []FlushServed`, from the invariants of the other theorems
  together (`WriterInvariant`): a flush on its way is in the channel or in hand by
  `OrderInv`, and behind everything else because it was sent last.  Type correctness
  (`TypeCorrect`) is a part of it.
- `FlushKept`: `Spec => []FlushContract`.  Two invariants meet in the step that
  answers (`AnswerIsFirstFailure`): `FlushOnItsWay`, that the flush the caller waits
  for is the last message sent and the only flush not yet settled, and
  `PendingIsFirst`, that `pending_error` is the first failure settled since the
  flush before.
- `ContractRefined`: `Spec => RefinesContract`.  With the three invariants, each
  action is a step of SinkContract or leaves its variables alone; there is one lemma
  for each action.
- `CallsCounted`: `Spec => []EveryCallCounted`.  The sum is inductive only with the
  ordinals: entries are sent in the order of their calls and none is later than the
  last call, which a blocked send holds (`CountInv`).
- `LossesRecorded`: `Spec => []NothingLostSilently`.  The property speaks of a worker
  that is gone; `LossInv` compares failed writes and diagnostics at every step, with
  the panic counted from `RecordPanic` on.

**Runtime** (`ThreadsAssumption`: finitely many threads; `FormatsAssumption`;
`RuntimeAssumption`: naturals, a positive interval, finitely many retentions, without
which there would be no largest cap; `NoScopeAssumption` of ScopeStack).

- `ConfigurationAgrees`: `Spec => []ConfigAgrees`.  The invariant is the discipline of
  the locks: a thread is between `Drain` and `Install` exactly when it holds last_cfg,
  and the configuration it carries there has the retention then in force.
- `CurrentScopeIsInnermost`: `Spec => []CurrentScope`.  `Stacks`: each stack is
  strictly increasing, below the next identifier, and holds exactly the scopes the
  thread is in, so that taking out an inner element keeps the innermost one on top.
- `OutputWithoutConflict`: `Spec => []NoReplayConflict`, and `RecordsInThreadOrder`:
  `Spec => []ThreadOrder`.  Every step writes a pending line, makes one, or neither.
  `Recorded` treats pending lines as if they were handed over: their identifiers are
  fresh (`RecordsOrdered`), a scope that has an exit is closed and has one
  (`ExitsOnce`), copies of metadata name one parent, older than the scope, also those
  written by `Build` (`ParentsAgree`), and a thread is outside what it has left
  (`ExitsLeave`).
- `OpenScopesAreHanded`: `Spec => []OpenScopesHanded`.  `OpenPublished` asks the same of a
  thread about to install a JSONL writer: an open scope is among its seeds or a
  thread is about to publish it, and publishing waits for the lock it holds.  What has
  been handed over stays so (`HandedForGood`).
- `EventsStayBounded`: `Spec => []EventsBounded`.  `Counted` charges each event to the
  thread about to count it, to the counter, or to a trim that is due.

**Rotation** (`RotationAssumption`: naturals, lines of at least one byte, no more
backups than `MaxRecords`, since the files found at the start are numbered by it).

- `OldestGoFirst`: `Spec => []OldestFirst`.  `Layout`: slots hold distinct files, the
  handle is the newest file there is even when the directory has moved it, and the
  slot that a shift is about to fill is free unless it is the last one.
- `FilesWithinLimit`: `Spec => []SizeLimited`.  `Measured`: what the sink takes for the
  size is never less than what the file holds beside headers and torn lines, and zero only
  if it holds no record, at every step of a rotation that may be given up.
- `OnlyTheOldestIsDropped`: `Spec => FaultlessDropsBeyondLimit`, an action property.
  `Filled`: until something fails, there is no gap among the backups but the one a
  shift has just made.

**Buffers** (`KeyedIndexAssumption`, `ScopeBufferAssumption`, `ScopeEntryAssumption`,
`RecordNoneAssumption`: naturals, more keys than live entries, and a None apart from
the entries).

- `BuffersStayExact`: `Spec => []BuffersExact`, with `ScopesAreASequence`:
  `Spec => RefinesVector` and `RecordsAreASequence`: `Spec => RecordsRefineVector`, the
  refinements of OrderedStore.  `ScopesInv` says that the index names, for each
  identifier, exactly the slots that hold it, that vacant slots are bounded, and that
  entries are tagged below the count of pushes, so that a new tag is fresh; `RecordsInv`
  says it of the lazy index, as far as it has been built.  A trim is its evictions, then
  the vacant slots popped at the front, then the exits that go; each of these loops is
  characterised by induction on its turns (`SetInduction`), and `Gone` and `LastOnes` say
  what all of them leave: the newest entries, in order.

**Output** (`OutputAssumption`: finitely many threads, a positive capacity, levels in
their range; `NoneAssumption`: None is none of the values it stands beside).  The
invariants are about the last ticket: the thread with the writer's lock has it, and its
`Stage` says what has been drained.

- `LevelFollowsWriter`: `Spec => []LevelAgrees`, from the locks and `Levelled`.
- `SinksGetTheirLines`: `Spec => []SinksExact`.  `Fates`: the queue holds exactly the
  calls whose fate is open, due to the sinks of the writer installed now; so a writer
  is never replaced while lines wait for it.  `Past`: sinks hold tickets older than
  all that are queued.
- `DiagnosticsCount`: `Spec => []DiagnosticsExact`, and `FlushReports`:
  `Spec => []FlushTells`.  `Diagnosed` and `Reported` say which failures the counters
  and the pending error stand for at each step, `Told` keeps the answer given.  They
  need `Order`: the last clear, the last answer and the last draining come in this
  order, and all queued tickets are later.
- `RecordsAccounted`: `Spec => []Accounted`, from `Counted` (records in hand and handed
  over) and `Lost` (what the diagnostics say was dropped).
- `FilesKeepOrder`: `Spec => []FilesInOrder`.  `Moves`: a sink whose file has been moved
  away is being replaced, or a configuration has failed.

**ScopeContext** (`ContextAssumption`: threads and futures differ; `NoScopeAssumption`).

- `NoScopeLeaks`: `Spec => []ContextsIsolated`.  The stack of a context that is not
  running is in the wrapper of the future above it, or in its own; `Placed` says which
  futures are installed where and `Isolated` what each place holds: what was captured,
  then the context's own open scopes in order of entry.
- `AsyncScopesTellTheEnd`: `Spec => []AsyncOutcome`.  The guard goes before the future
  is over; `Exited` says with which outcome it may have, by the mode of the frame the
  future runs in.
- `AsyncScopesEnclose`: `Spec => []Encloses`.  `Closed` adds that the futures owned have
  been dropped, without which one of them could be polled and enter a scope.

**Replay** (`ReplayAssumption`: identifiers in lines are naturals, None is not one;
`SavedAssumption`: each process has an identity of its own, which no other line that is
understood has, and None is no text).  While lines are read, the invariant is that the
loader is `Sound`; afterwards the state is what finish makes of a sound loader.  `Sound`
speaks of the loader as a value, so it holds after any sequence of lines: `Spec` reads
lines one by one, `SavedSpec` also loads the files of SavedJournal.  It compares each run
with its view, the entries of the lines that went to it, and a line extends one view
(`EntrySound`).  The first five theorems hold of both specifications.

- `InputIsNeverLost`: `[]NothingLost`.  `RecordsKept` and `ScopesTold` say what a
  run has of its view, `HeadersCounted` where the headers are, `Completes` what finish
  leaves alone.
- `ConflictsAreReported`: `[]NoSilentConflict`.  A line is compared with the first
  record of its identifier, the first outcome of its scope and the merged metadata only;
  `FirstTold`, `OutcomesTold` and `ScopesTold` say that each earlier line either agrees
  with these or has been reported, so no pair of lines is missed; and what is reported
  disagrees with an earlier line (`ReportsDue`).
- `RunsStaySeparate`: `[]RunsSeparate`, from `RunsAlone`, `RunsOnce` and
  `LegacyOnce`.
- `ExitsAreObserved`: `[]ExitsAsObserved`.  `Said` relates a scope to all metadata
  of it: identity from the first, exit time from the first that closes it, message from
  the last that repeats this time.
- `ScopesFormAForest`: `[]ForestRecovered`.  `Walked` is the invariant of the walks
  that look for cycles: what they are done with is closed under parents and holds no
  endless set, every cycle in it has lost one link, and nothing else has.  A walk passes
  no scope twice, since there are no more identifiers than scopes (`ChainRepeats`), and
  ends outside what it has passed (`OpenWalk`) or on it (`RoundWalk`).

**SavedJournal**, in ReplayProofs.

- `OnlyTruthIsLoaded`: `SavedSpec => []OnlyTruth`.  `World` is the invariant while processes
  run: what each journal did is `Truthful` (a scope entered once and after its parent, a
  record made once, one exit for a scope), what the running one retains is part of it
  (`JournalTrue`), and every line of the file and of the export, whatever became of the
  writes, is true of the process it names or is not understood (`TrueLines`).  What a
  process did only grows, so that a line stays true (`LinesStayTrue`), and loading reads
  true lines into a sound loader (`LinesRead`).  True lines do not contradict each other
  (`TruthAgrees`), parents among them are older scopes, so the repair of cycles finds none
  (`NoCycleDown`), and the rest is what the five theorems above say of the loader.
- `LossStaysConfined`: `SavedSpec => []TornConfined`.  The part `Unharmed` of `World`
  follows the file line by line: the acknowledged lines that went on where a damaged one
  ended are at most as many as the failed writes, and as the garbled lines that the file
  holds and nothing will extend any more; every other acknowledged line is in the file as
  it was written.  A load tells of each garbled line and finds what each line of a
  process says (`Told`), so a line that is missing is one of those joined
  (`LossIsConfined`).

**What proving changed.**  Retentions had to be finite and the number of backups at most
`MaxRecords` for the type invariants to hold at all; both are about the bounds of the
models, not about the code.  `Output` and `ScopeContext` state some operators in a form
that names what they choose, and the buffers and the loader state their loops as functions
of the turn, with the same meaning.  `ExitsAsObserved` was false as it stood: a line whose
record conflicts counted as reported, and with it the metadata in the same line, which the
loader merges nevertheless.  It is now stated from the lines, and such a line is in the
instance.  `ForestRecovered` spoke of the tree that a query draws; it now speaks of the
parents, with a cycle as a smallest set that holds its own parents, and that the tree shows
every scope once is a part of `QueriesAgree`.

**What is only model-checked.**  Liveness (`CallsReturn`, for both systems), since the
prover handles neither ENABLED nor fairness.  The properties of the queries (`TreeExact`,
`QueriesAgree`), whose walks down a forest are recursive operators: no theorem can be
stated in a module that reaches one.  And that a journal's file, when no write fails,
and its export have all they should have (`HistorySaved`).  What a recursive definition computes for
every input needs induction with an operator as parameter, which the installed provers
cannot instantiate; induction over naturals for a given set (`SetInduction` and
`LeastElement` of ProofLemmas) is what the loops above are proved with.

## 6. What is not modelled, and why

- Wording, colours, timestamps, values, field conversion and the text format:
  stateless formatting.  What a JSON line carries is in JsonLines.
- The diagnostics snapshot, which promises no consistent cut; read-only queries of the
  runtime (`records`, `scopes`, `records_jsonl`), which copy under one lock.
- Wall-clock and elapsed times: only the order of steps matters to the properties.
- In Runtime: what becomes of a line after it has been handed to the writer: a full queue,
  a dead worker or the end of the process may lose it (AsyncWriter, and Output with its
  sinks).  So Runtime says nothing of what a file holds after a crash; the format
  document says itself that metadata may be dropped.  Exit messages (SavedJournal has
  them), levels and failing sinks (Output has them).  Its log file does not rotate; Rotation and Output model that.
- In Output: worker panics (AsyncWriter), the journal, retention and the seeding of a
  new file (Runtime), layout options, which are set like the ones modelled.  One
  backup is kept, and a rotation is one step.  The application is assumed not to call
  `set_log_level` itself, which overrides the derived level until the next
  configuration.  A file sink's flush does nothing in the code, so only the console's
  can fail.
- In SavedJournal: a FileWriter that cannot be opened (the journal goes on without),
  and writers that are replaced more than once.  A new process numbers its run anew,
  as `Journal::new` does; two runs with one identity are assumed not to happen.
- In ScopeContext: guards moved to another context and user code that panics in a
  destructor while another panic unwinds, which aborts the process.  Scopes exited
  by identifier from foreign threads are in Runtime.
- In Replay: JSON syntax and an I/O error of the input, which ends the load.  The code
  compares records through their rendered form; equal records are equal values here.
- `records_at_level`, a filter; `scope_result`, a guard with the outcome of a result.

## 7. Plan

Done: SinkContract, AsyncWriter, Journal, Runtime, Rotation, OrderedStore and both
buffers, ScopeContext, JsonLines, Replay, ReplayQueries, SavedJournal, Output; the
proofs of AsyncWriter, Runtime, Rotation, the buffers, Output, ScopeContext, Replay and,
of SavedJournal, `OnlyTruth` and `TornConfined`.  Left, in this order:

1. *Theorems*: `HistorySaved`.
2. *Models*: two runtimes over one file, as two processes that append to it at once.
