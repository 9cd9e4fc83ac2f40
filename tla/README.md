# NewBF in TLA+

NewBF is a compiler and runtime for a Beef-like language, written in Rust: lexer,
parser, semantic analysis, an IR, an LLVM back end with a JIT, compile-time
evaluation, a core library, a Win32 GUI layer (igui) and a guarded heap. This
directory holds TLA+ models of the parts of it whose correctness depends on state,
order and failure rather than on the translation of syntax, the TLC configurations
that check them on small instances, and theorems that TLAPS proves for all
instances. Paths below are relative to `src/NewBF/`.

Contents: [inventory](#1-inventory) · [modules](#2-modules-and-the-code) ·
[runs](#3-runs) · [bounds](#4-bounds) · [fairness](#5-fairness) ·
[proofs](#6-proofs) · [divergences](#7-where-code-and-comments-disagree) ·
[not modelled](#8-what-is-not-modelled) · [plan](#9-plan)

To check a configuration, `tlc -config MCGuard.cfg MCGuard`; to check the proofs,
`tlapm GuardProofs.tla`; the configuration of a run and its module are named in
`PROJECT.json`.

## 1. Inventory

| Component | State it keeps | Operations | Talks to | Hard because |
|---|---|---|---|---|
| **Guard front end** `newbf-runtime/src/guard/mod.rs` | mode, comptime depth, one mutex around allocator and ledger | alloc, free, realloc, check-free, reset, leak report, abort | compiled programs (C ABI), crash dump, site registry | the verdict on a bad free outlives the lock; several threads; results ignored |
| **Stomp allocator** `guard/stomp.rs`, `guard/vm.rs` | reserved ranges, cursors, page flags, generation | alloc, quarantine, release_all | the OS | every OS call can fail, halfway through an operation |
| **Tombstone ledger** `guard/ledger.rs` | pointer → entry table, counters, generation | record_alloc, note_free, clear, leaks | front end | two structures must agree for ever |
| **Site registry** `guard/sites.rs` | table pointer, count (atomics) | register, resolve | host, reports | two-store publication, lock-free readers |
| **Crash dump** `newbf-runtime/src/crash_dump.rs` | published counters (atomics) | publish, snapshot, dump | guard, SEH filter, panic hook | read by a thread that faults at any moment |
| **igui mailbox** `crates/igui/src/channels.rs` | bounded channel, stash, filter | push, next_event, next_event_for, stash, discard, set filter | window procedures, language threads | full queue drops, parked events, deadlines |
| **igui batches, replies** `batch.rs`, `replies.rs`, query exports of `cp_exports.rs` | per-thread batch, per-pane display slot, reply slots | begin, submit, query, deliver, wait, forget | language threads, render host | a synchronous call across threads through a lossy slot |
| **igui render host** `child.rs`, `window.rs`, `registry.rs` | pane registry, render target | paint, GDI fallback, size, close | Windows, batches, replies | device loss midway, close at any time |
| **igui editor** `fedit.rs` | text, cursor and anchor, undo and redo stacks, dirty flag, file | type, paste, delete, undo, redo, move, load, save | rope buffer, clipboard, files | merged and evicted undo entries, undo across a save |
| **igui rope buffer** `rope_buffer.rs` | a balanced tree of leaves with cached lengths and line counts | insert, delete, replace, lookups by line and column | editor | rotations and cached counts |
| **igui views** `repl_pane.rs`, `fconsole.rs`, `log_view.rs`, `text_view.rs` | log ring, REPL inputs | append, paint | mailbox | painting |
| **Delete-flow analysis** `src/newbf-sema/src/ownership.rs` | a state per local along the walk | walk statements, merge, report | driver (diagnostics) | joins, loops, defers, early exits |
| **Lowering** `newbf-sema/src/lower.rs` | per-block frames of scope allocations and defers, loop targets | lower every construct | IR | which frees and defers belong on each exit edge |
| **Emission** `newbf-comptime/src/emit.rs` | units spliced so far, emissions seen, rounds and bytes, two sinks | analyze and lower, run the generators, collect, splice | sema, JIT | a fixpoint under two caps, over ids that change every round |
| **Comptime evaluation** `newbf-comptime/src/{eval,fold}.rs` | none | evaluate, fold | JIT | — |
| **Lexer, parser, preprocessor** | token position, directive stack | lex, parse, `#if` | — | nesting of directives |
| **Model, resolution, constraints** `newbf-sema` | type tables | build, resolve, check | parser, lowering | size of the input |
| **IR, LLVM back end** | functions, blocks; JIT sections | build, print, emit, relocate | LLVM | section placement in `jit_mm.rs` |
| **Core library** `newbf-corlib`, its `bf/*.bf` | pool slots, lists | alloc, free, get, grow | programs | generations, growth at capacity |
| **Driver, IDE, loader, docs, diagrams** | — | process set-up, rendering | all | — |

What makes the modelled components correct:

* *guard*: a live allocation is always backed, by pages enough for it and its header; a
  freed one faults unless the OS refused to take its pages; no page ever has two owners
  until a reset; every bad free gets the right verdict; the counters, the page flags and
  the generations, each kept in two places, agree.
* *crash dump*: between operations the published counters are the ledger's; a dump
  that nothing overlaps is consistent.
* *site registry*: a report never reads past a table, and names the right one.
* *guard front*: a block goes back to the allocator it came from as long as the mode is not
  changed; the leak report names what nobody freed, nothing a thread allocated inside its
  own bracket, and everything allocated while no bracket was open; the depth counts the
  open brackets.
* *mailbox*: no event is lost, duplicated or reordered except as the caller asked;
  a blocked call never waits for what is already parked; a frame close gets through.
* *queries*: one reply per request, never a request nobody can answer; a query gives
  up only for a reason; drawings appear in order.
* *editor*: every entry of the undo and redo stacks fits the text it will be replayed on;
  positions stay inside the text; a buffer shown as clean is what was saved.
* *rope*: it holds the text a plain sequence would, finds characters, slices, lines and
  columns where the text has them, and does not grow deep.
* *emission*: a member is spliced once however it is laid out, into the type that emitted
  it; nothing emitted is lost when the loop says it converged; the caps end what does not
  converge.
* *delete-flow analysis*: what is reported as a double free or a leak is one, on every
  path; what is plainly a double free is reported.
* *cleanup*: whatever exit a method takes, every scope object is freed once and every
  deferred statement has run once, the last one first.

## 2. Modules and the code

**The memory guard.** `Guard` EXTENDS `StompAlloc` and `Ledger`, which share the
parameters of `GuardParams`; it adds threads and the mutex.

* `StompAlloc` (stomp.rs over vm.rs): `os` is what the operating system thinks of every
  page, `ranges` the reserved ranges with their cursors, `bits` all the `committed` flags,
  `stompGen` the allocator's generation. `AllocInRange` and `AllocInNewRange` are the two
  paths of `alloc`, `CommitRefusedInNewRange` the failure that leaves a range behind; the
  other failures change nothing. `Quarantine` clears flags whatever the OS answered, as the
  code does; a page it did not take is `stuck`, out of the allocator's hands and still
  there. `ReleaseAll(kept)` forgets every range; those in `kept` the OS failed to release.
* `Ledger` (ledger.rs): `ledger`, `ledgerGen`, `stats`; `RecordAlloc`, `Verdict` and
  `Bury` (the two halves of `note_free`), `Clear`.
* `Guard` (mod.rs, Stomp mode): what a thread does under the mutex is one action:
  `Alloc`, `AllocFails`, `Free`, `BadFree`, `Reset`. `BadFree` ends with the unlock;
  `Abort` is a later step, so the other threads go on between the two.
* `HeapPromise` is what a program may rely on, without pages or tables: an address
  is fresh, live or freed. `Guard!KeepsPromise` is `HeapPromise!Spec` under the
  mapping that reads the status of an address off its ledger entry.

Addresses are pages: the pointer the program holds is its region's base plus a
fixed header, so the two are one-to-one. The type and site ids, header magic and
page contents do not influence any of this and are left out.

**Around the guard.** `GuardFront` composes `ComptimePhase` and `GuardMetrics` (an
INSTANCE of each over its own variables) with the mode and the two allocators.

* `GuardMetrics`: the counters published after every operation by separate relaxed
  stores (`Store`, in any order) and read by a fault at any time by separate relaxed
  loads (`Load`, in any order). `Operate` is an operation under the mutex, which is
  held until its publication ends.
* `ComptimePhase`: `Enter` is one `fetch_add`; `BeginExit` and `EndExit` are the load
  and the `fetch_sub` of `exit_comptime`, by a thread that is in a bracket or not
  (`unpaired` counts the latter); `ReadPhase` and `Record` are the read of the
  phase before the guard's lock and the use of it under the lock.
* `GuardFront` (mod.rs): `AllocFromC` is `route_alloc` in Thunk mode, `BeginAlloc` and
  `AllocFromGuard` or `AllocRefused` the two halves of `stomp_alloc`; `Free` is
  `route_free`, which asks the mode and not the block, of any block ever allocated:
  `FreeToC` and `FreeToGuard` are what the two allocators do with it. `SetMode` and `Reset`
  may come at any time, also in the middle of an allocation; after a reset the address of
  an earlier block may be that of a later one. `blocks` is a history of all allocations,
  each with whether the mode changed since it began; of the ledger only its live `entries`
  are kept, `Guard` has the rest.
* `AllocSites`: `StoreBase` and `StoreCount` are the two Release stores of
  `register_alloc_sites`, `LoadBase`, `LoadCount` and `ReadEntry` the steps of
  `resolve_raw`; Release and Acquire keep each side in program order.

**The GUI.**

* `Mailbox` (channels.rs): an event is its position in the log of all pushes. `Push`
  drops at a full channel; a call either takes the first match of the stash
  (`CallFromStash`) or blocks (`CallBlocks`), and `Receive` returns or parks one event
  at a time. The filter is read once per call, as in the code. Four classes of event
  stand for the variants of `IGuiEvent`, by who may receive them.
* `SyncQuery` (batch.rs, replies.rs, the query exports, the render host): `pc` follows
  a language thread through `submit` (`Insert` takes the display slot, `Check` looks
  at the registry: two locks, two steps) and `wait`. The GUI thread handles one
  message at a time: a paint is `Paint` (snapshot of the slot) followed by `Execute`,
  perhaps by way of `FallBack`, which executes the whole batch again; a close is
  `BeginClose` (forget) and `EndClose` (unregister).
* `Editor` (fedit.rs): one action per command and per branch of it that treats the undo
  stack differently (`Insert`, `InsertMore`, `InsertOver`, `InsertNothing` are the four
  ways through `do_insert`). Every motion, click and drag ends in `set_cursor_offset`
  and is a `Move` to anywhere. An undo entry is one record for the code's three kinds.
  `past` and `future` are histories: the texts the entries were made for. A text that
  decodes to nothing, typed or pasted over a selection, leaves entries on the redo
  stack that fit no more: `stale` counts them, and a history in which one was applied
  is `corrupt` (section 7). `Decode` is what decoding does to a text: it drops a byte
  order mark at its beginning.
* `Rope` (rope_buffer.rs): the tree as nested records, every function of the file by its
  name; `text` is the plain sequence it stands for. What recurses over the tree is a
  function of a height and of the trees that are no deeper (`NodeOf`, `joinAt`, `splitAt`
  and so on): `JoinBy` is the body of `join_nodes`, its parameter `again` the recursive
  call. Written this way, without RECURSIVE, it can be proved about. `even` is a history:
  whether every tree that was built so far, first or to be inserted, was balanced.

**The compiler.**

A method body is data: `MethodBody` defines the statements that matter to ownership, as
sets by depth (`StmtOf`), and `MethodBodies` enumerates for the runs all bodies of a
*dialect* (the values, uses, compound statements and jumps it is made of) up to a size.
There are no conditions, since either outcome is possible, and the enumerated bodies
have no dead code. What recurses over statements is a function of their depth, as in
`Rope`: `WalkBy` and `LowerBy` are the bodies of `walk_stmt` and `stmt`, their parameter
`again` the recursive call.

* `Ownership` (ownership.rs): the states of a local and what a simple statement, an
  exit and a join do to them. `DeleteFlow` is the walk: it returns the body with its
  diagnostics (`alarm` on a delete, `leaks` on an exit), the environment, and whether
  control falls through.
* `ScopeLowering` (lower.rs): lowering as far as it concerns cleanup. A frame per open
  block holds its scope allocations (`direct` if they dominate the exits, else
  `slot`) and its deferred statements; jumps remember the frames open at their
  target. The result is a body in which every exit carries its frees and defers.
  `gaps` records the shapes the cleanup does not cover (section 7).
* `MethodRun` composes the two and runs the result: a behaviour picks a body of one of the
  `Dialects` (any sets of statements, in the module and its proofs; four dialects and three
  small ones in the runs), and then executes it instruction by instruction, each condition
  going either way, on a heap that aborts at a double free. What the diagnostics claim
  about an instruction is compared with the heap when it is executed.

`for` and `foreach` are walked and lowered as `while` with an update, so `while` and
`do` stand for all loops; expressions are reduced to the uses of a local the analysis
tells apart (`delete`, passing, storing, aliasing, returning, assigning).

**Emission.** `EmitText` has the texts: a text is a sequence of tokens, one of each kind that
`normalize` (emit.rs) or the lexer treats in a way of its own: letters, punctuation, blanks
and line ends, comments of both kinds, literals with and without two blanks or two slashes
in them. `Normal` is what `normalize` makes of a text, token by token. Two texts are the
`SameSource` if the lexer makes the same words, punctuators and literals of them, and have
the `SameLayout` if they differ only in line comments and in how blank a blank is;
`IsPlain` says that nothing in a text is taken by `normalize` for something else.
`EmitRounds` is the loop: `Lower` analyzes and lowers one round's sources and gives every
simple name a new struct id, which types that share the name share; `Emit` and `EmitError`
are the calls a running generator makes to the two shims, `Collect` what the loop does when
they are back, in the code's order: map ids to owners (`OwnerOf`), account, deduplicate, byte
cap, fixpoint, parse and splice. `Malformed`, `RunFails` and the branches of `Lower` and
`Collect` are all its ways out. What generators emit is up to them: any of the texts of a
table, which is a parameter.

`MC*` modules define the symmetry sets and the tables of the small instances.

## 3. Runs

| Run | Shows | Distinct states |
|---|---|---|
| `guard` | two threads allocate, free, misfree and reset while the OS refuses what it likes: backing, quarantine, disjoint extents, counters, flags, generations, and the refinement of `HeapPromise` | 233,721 |
| `front` | two threads in any modes, set at any time: `FreesGoHome`, `ReportRight`, `CountersMatchEntries`, `DepthCountsBrackets`, `QuietSnapshotConsistent` | 2,484,226 |
| `sites` | `FirstTableSafe` and `QuietResolves` with three registrations and two reporters | 334,807 |
| `mailbox` | conservation, order, no match parked, and `ShutdownReaches` under fairness, over all filters, targets, deadlines, put-backs and discards | 57,196 |
| `sync_query` | two threads, two panes that may be hidden, refused or closed: `OneReplyEach`, `UnansweredHasSlot`, `GivesUpWithReason`, `DisplayMovesForward` | 1,657,528 |
| `sync_query_clobber` | `MeasureKeepsDrawing` fails (section 7) | — |
| `method_run` | all bodies of four dialects: `AlarmsTrue`, `LeaksTrue`, `NoSilentDoubleFree` about the analysis; `DirectDominates`, `FreedOnce`, `FreedInTheEnd`, `DefersInOrder` about the cleanup | 159,491 |
| `method_run_loop` | `FreedOnEveryEdge` fails (section 7) | — |
| `method_run_switch` | `LeaksOnEveryPath` fails (section 7) | — |
| `editor` | `UndoFits`, `RedoFits`, `CursorInText`, `CleanIsSaved` over every series of commands | 1,056,000 |
| `rope` | `HoldsText`, `LookupsRight` for every position, line and column, `StaysShallow` | 2,471 |
| `emit` | `SplicedOnce`, `NothingDropped`, `CapsHold` over three rounds of two types' generators | 2,538,354 |

Beside the runs, eight configurations state what a comment says and the code does not do;
under each of them TLC stops at a counterexample, which section 7 describes:
`MCGuardRefused.cfg`, `MCComptimePhase.cfg` (module `ComptimePhase`), `MCMethodRunDelete.cfg`,
`MCMethodRunScope.cfg`, `MCEditorStale.cfg`, `MCEmitRoundsCosmetic.cfg`,
`MCEmitRoundsLiterals.cfg` and `MCEmitRoundsOwners.cfg`. They go with the modules `MCGuard`,
`MCMethodRun`, `MCEditor` and `MCEmitRounds` of their names.

Deadlock is checked where the component is meant to run on for ever (`mailbox`,
`editor`, `rope`). It is off elsewhere: the guard stops when the process aborts, a
method returns, an emission ends, and the other models stop at their bounds.

Each property of a passing run has a mutant: an operator `Mut...` beside the
definition it would replace, with a bug one could plausibly make there, which TLC
then finds by that property.

## 4. Bounds

* *guard*: five pages of address space, ranges of two pages, pages of four bytes and a
  header of two. The sizes 2, 0, 3 and 4 take one, two, two and three pages: one shares a
  range, two fill it (one by its slack page, one by its header), one needs a range larger
  than the default. Five pages hold every combination of up to three ranges, including the
  one reused after a reset. Generations wrap modulo 4, within reach of five allocations. No
  property asks for the phase of an entry, so one phase is enough.
* *front*: two allocations are one per allocator, or one whose address a reset passes on.
  Guard operations, dumps, brackets entered and unpaired exits are four in all (`MaxWork`):
  two brackets, nested or of two threads, around the steps of two allocations; an exit of a
  thread in none beside them; a dump that overlaps zero, one or two publications; or
  an allocation, a reset, an allocation and a free. The wrap of the depth (`usize`) is
  set at 4. `FrontAssumption` has fewer bracket calls than the counter can count
  (`MaxCalls < DepthMod`); `DepthIsRight` rests on it.
* *sites*: a table of two sites and one of one, the null table, three registrations.
* *mailbox*: two windows are what tells filters and targets apart; two events against a
  channel of one fill it. An event is put back at most once: a consumer that puts back
  whatever it is given sees the same event for ever, which is its own doing and would
  hide everything else.
* *sync_query*: three batches of which two may be queries, by two threads on two panes:
  two queries on one pane, a query and a drawing, a close between any two steps.
* *editor*: texts of up to three characters, a letter and the byte order mark, and a stack of
  two entries, so that merging, eviction, a selection of several characters and undo past a
  save all meet. Stale entries are never evicted and would add up, so the redo stack is kept
  to two and both stacks to three (`MaxRedo`, `MaxEdits`): two edits are undone and applied
  again, a third is recorded over either of them, and a stale entry lies below a fresh one.
  One command is followed on a history gone astray, the redo itself (`MaxAstray`).
* *rope*: with leaves of two characters a text of five has three leaves and an edit in
  it splits, joins and rotates; blank texts of up to nine lines are built from five
  chunks, the fewest whose tree is built out of balance, so that trees with and without
  balance are edited (section 7).
* *emit*: two types can swap ids, or share one under `MCEmitRoundsOwners.cfg`; eight texts
  are the pairs that layout, comments of both kinds and literals make alike or different, and
  one that ends in a comment; three rounds are one to emit, one to emit again and one to
  confirm. The byte cap of nine is passed in the first, the second or the third round, or
  never, depending on what is emitted.
* *method_run*: bodies of up to four statements besides the first declaration, nested ones
  counted, and two turns of loops in all: 30,023 of them, nested five deep at most. Manual
  memory needs two locals, a join and a second delete; lent objects only three statements;
  the scope dialect a frame within a loop or a switch, an allocation and a jump; the defer
  dialect two defers and an early return. Each of the mutants fails within these sizes.

The remaining `Max...` constants only bound the length of behaviours. The invariants
of the guard do not rest on these bounds (section 6).

## 5. Fairness

Only `mailbox` needs fairness. `LiveSpec` is weakly fair on `CallForever`: the language
thread's event loop calls again after every event or time-out (a call answered from the
stash or going to wait, without a deadline), and strongly fair on `Receive`: a call that
waits at a channel that holds an event receives it, except that a timed call looks at
the clock first and may come back empty-handed once, but not every time. Nothing is
assumed of the GUI thread. Frame closes that a full channel dropped are excluded by the
property; the hazard list keeps that case.

`GivesUpWithReason` takes the place of a timed liveness property. The five-second guard of
`wait` may expire at any time; the property says what must still be the case when it
does: the pane is gone, going, hidden or refused, the GUI thread has a paint of it ahead
or is at it, or another batch took the slot. So what can starve a query for good is in
that list.

## 6. Proofs

Eight modules of theorems, each for every value of its model's constants (address spaces,
threads, windows, panes, tables, alphabets, bounds) under the named assumptions of the
modules it extends, and no other.

| Module | Theorem | Statement |
|---|---|---|
| `GuardProofs` | `HeapSafety` | `TypeOK`, `Layout`, `ExtentsDisjoint` and `LiveIsBacked` always hold, refused decommits included |
| | `NoPageTwice`, `LaidOut` | `ExtentsDisjoint`, `Layout`, for themselves |
| | `UseAfterFreeFaults` | `FreedFaults` always holds: a freed page faults, or is one the OS refused to decommit, and no other allocation gets it |
| | `FlagsFollowPages` | `BitsAgree` always holds, whatever the OS refuses |
| | `CountersNeverDrift` | `CountersAgree` always holds, so the saturating subtraction of `live_allocs` never saturates |
| | `BytesNeverDrift` | `BytesAgree` always holds: the bytes are those of the live entries, whatever sizes are asked for |
| | `GenerationsInStep` | `GenerationsAgree` always holds |
| | `GuardKeepsPromise` | `Spec => KeepsPromise`: `Guard` implements `HeapPromise` |
| `FrontProofs` | `EveryFreeGoesHome` | `FreesGoHome` always holds |
| | `CountersSayEntries` | `CountersMatchEntries` always holds |
| | `QuietDumpsConsistent` | `QuietSnapshotConsistent` always holds |
| | `DepthIsRight` | `DepthCountsBrackets` always holds |
| | `LeakReportRight` | `ReportRight` always holds |
| | `FrontRefinesMetrics`, `FrontRefinesBracket` | `GuardFront` implements both modules it is composed of |
| | `FirstTableIsSafe`, `QuietResolutions` | `FirstTableSafe` and `QuietResolves` always hold |
| `MailboxProofs` | `NothingLost`, `KindsInOrder`, `NothingOverlooked` | `EventsConserved`, `OrderKept` and `NoMatchParked` always hold |
| `SyncQueryProofs` | `RepliesOnce`, `SlotsWait` | `OneReplyEach` and `UnansweredHasSlot` always hold |
| | `QueriesAreAnswered`, `DisplayIsInOrder` | the two action properties `GivesUpWithReason` and `DisplayMovesForward` |
| `EditorProofs` | `UndoIsRight`, `RedoIsRight`, `CursorInside`, `CleanMeansSaved` | the four properties of the run always hold |
| `EmitProofs` | `NormalizeRight` | two plain texts normalise to the same exactly when they have the same layout |
| | `SplicedAtMostOnce`, `NothingLost`, `CapsAlwaysHold` | `SplicedOnce`, `NothingDropped` and `CapsHold` always hold, for any types, texts and caps |
| `RopeProofs` | `HoldsTextAlways`, `LookupsAlwaysRight` | `HoldsText` and `LookupsRight` always hold, for any alphabet, leaf size and edits |
| | `ShallowAlways` | `StaysShallow` always holds |
| | `FourLeavesBuildEven` | what is built of a text that fits in four leaves is balanced |
| | `SmallEditsKeepEven` | if no edit inserts more than four leaves hold, a balanced tree stays balanced |
| `FlowProofs` | `AlarmsAreTrue`, `LeaksAreTrue` | `AlarmsTrue` and `LeaksTrue` always hold, for any bodies, nested to any depth |
| | `NoDoubleFreeIsSilent` | `NoSilentDoubleFree` always holds |

*The guard.* The inductive invariant is

    IInv == TypeOK /\ Layout /\ ExtentsDisjoint /\ LiveIsBacked
            /\ FreedFaults

None of its parts is inductive alone. That an allocation overlaps nothing that was ever
recorded does not follow from the ledger: it takes `Layout`, which puts whatever is
recorded behind the cursor of exactly one range while allocations start at a cursor
(`AllocatedIsFresh`); and `Layout` survives a new range only because the regions of all
ranges are mapped, so the OS places the new one elsewhere (`ReserveRange`). Quarantine
keeps a neighbour backed because extents are disjoint. One lemma per action (`AllocIInv`,
`AllocFailsIInv`, `FreeIInv`, `ResetIInv`; `HeapUnchangedIInv` for the two that leave the
heap alone) gives `NextIInv`. The counters take `RecordSets` and `BurySets`, how an
allocation and a free change the sets of live and freed addresses, and the cardinality
theorems; the bytes that they are counted as pairs of a live address and a number up to its
size, of which an allocation adds as many as it asked for (`BytesOfCount`, `BytesInv`); the
flags take that no flag is set outside a range (`BitsInRanges`). The refinement maps each
action to the action of the same name of `HeapPromise`, a failed allocation to a stutter;
the one step that needs the invariant is `Alloc`, whose address must be fresh.

*The front.* `RouteInv`: a block since whose beginning the mode was not changed came from
the allocator of the mode (`InMode`), an allocation that is under way likewise
(`MidAlloc`), and the entries are the guarded blocks nobody gave back to the guard since
the last reset (`Listed`). `CountInv`: live entries are counted, what was stored is
current, and what a quiet dump loaded is. `DepthInv`: the open brackets are pairs of a
thread and a level, so opening one adds an element and closing one takes one away, and a
thread between the two steps of an exit has its bracket open still, hence saw a depth that
was not zero; all of it (`Paired`) as long as no exit was mis-paired. `ReportInv` ties the
phase an entry carries to the brackets that were open when it was read.

*The sites.* Between the two stores the base is already the new one; a resolution that
loaded both halves while nothing was registered holds a pair that belongs together
(`QuietLoads`).

*The mailbox.* Order needs more than `OrderKept`: channel, stash and what was delivered
are each sorted, and lead one another (`Ordered`), for the order "may not be told apart
from the order they came in".

*The queries.* `IInv` has one part per hand-over: `Slots` ties a slot to its one reply,
`Handover` to the batch that carries it, `Excuses` is the reason a waiting query has,
and `Forward` with `Fresh` says that what a thread is about to display is newer than
what it displayed.

*The editor.* `IInv == Shape /\ Fits`: `Shape` is the types and that stacks and histories
are equally long, which holds of a corrupt history too; `Fits` is the properties: undo and
redo stacks are chains of edits from text to text (`LeadTo`, `LeadFrom`). The work is in
lemmas about sequences: undoing a splice (`Takes` read backwards), growing an edit to the
right when typing goes on and to the left when backspacing does, and dropping the oldest
entry.

*The emission.* `NormalizeRight` is about every text, so it needs induction over the
tokens. The library's induction theorems take a predicate, which the provers cannot
instantiate; a set of numbers takes its place (`LeastNat`, `NatSetInduction`), and a
recursive function is shown to follow its steps with `StepsExist`. `Known` is then what
`normalize` knows after every prefix of a plain text: it is in a comment when the lexer is,
and its words correspond to the ink so far (`Matches`). What is left when it is done is a
normal form, and there is one normal form only of texts with one layout (`OneNormalForm`:
the least word out of place would have to be in place). The loop's invariant `EmitInv` says
that keys seen and units spliced are one to one (`KeysOK`), that the sink names types by
this round's ids (`SinkOK`), that what a type with a name of its own got is its own
(`HomeOK`), and that what was spliced is bounded by what was counted (`BytesOK`: every new
unit comes from an emission of its own, `NewUnitsRight`). TLC checks it on the run's
instance.

*The rope.* The invariant of its text is only `IInv == text \in Seq(Char) /\ Holds(root,
text)`: the root is a tree over the alphabet whose leaves in order are the text. No balance
is needed for it. What carries it is what each function does to the text of any tree:
`JoinKeeps` (the text of a join is the texts one after the other, whichever way it
recurses, merges or rotates), `SplitDivides`, `BuildHolds` (pairing up loses nothing, and
as many rounds as there are chunks leave one node), and from these `InsertedHolds`,
`DeletedHolds` and `ReplacedHolds`. A function that recurses by height is first shown to
exist (`StepsExist`, and `LayersExist` with the set its values lie in), then what one step
keeps is kept at every height. `TreeInduction` carries from leaves and branches to all
trees, and `TextCounted` is its first use: the lengths and counts a node caches are those
of its text. Lookups then follow from what they do on a concatenation (`PartOfConcat` for
slices, `NewlinesOfConcat` and `EndsIn` for the counting ones); that the k-th newline
exists for every k below their number is `NthExists`, that a line starts after the last one
before it `LastEnd`.

Its shape takes `ShapeInv == IInv /\ even \in BOOLEAN /\ Shape(root, even)`: the root is
empty, or its leaves are filled and no branch holds an empty one, and it is balanced if
`even`. The lemmas carry `even` as a parameter, since what a function does to leaves does
not depend on balance. `Rebalanced` says what one call of `balance` achieves: two balanced
trees whose heights differ by at most two become one, as high as the higher or one more.
By induction over the height every join does the same however different the heights
(`JoinLinks`), since the recursive join raises the height by at most one and `balance`
makes up for it. A split only joins what it took apart (`SplitShapes`), and the edits
follow. That balance bounds the height (`EvenIsShallow`: 2^height is at most the square of
the length) is an induction over trees: of the two parts of a branch one is a level below
it and the other at most two. That edits keep balance rests on what is built being
balanced, hence `even`; `FourLeavesBuildEven` says when it surely is.

*The analysis.* An invariant of `MethodRun` must say of the instructions that are left
what the diagnostics in them claim, although they come from statements the walk saw in
another order, branches and loop bodies included. Code `c` is `Right` about an
environment `e` if the pair belongs to a set of such pairs in which everything holds that
is reported at a first instruction (`Fine`), and which contains the pairs each instruction
leads to (`Then`), both branches of an `if` and the next turn of a loop among them. The
invariant is then short:

    Followed == TypeOK /\ Apart /\ (Stopped \/ Ahead(n) \/ Leaves(n))
    Ahead(n) == ~crashed /\ claimed = {}
                /\ \E e \in Env : Right(work, e, Exact, n) /\ Agrees(e)

the instructions left are right about an environment that the heap agrees with (`Agrees`:
what is `Owned` is a live object nobody else holds, what is `Deleted` was freed), or the
run has stopped at a double free, or it cleans up to return. `Apart` is needed since one
local's object must not go away with another's: two locals never hold the same one. A step
keeps it by following the instruction in the pair (`StepFollowed`, a lemma per
instruction); a join costs nothing there, since `Right` allows what is known to be weakened
(`RightWeaker`). What remains is that the code a body starts with is `Right` about the
empty environment (`MethodRight`): that lowering keeps what the walk reported. `Translated`
states it of one statement: the code lowering makes of it, followed by any code that is
right about the environment the walk leaves, is right about the environment the walk began
with. It holds of the leaves (`LeafTranslated`) and, if it holds of the statements inside,
of every compound (`BlockTranslated`, `IfTranslated`, `LoopTranslated`,
`SwitchTranslated`), hence by induction over the depth of all (`StmtTranslated`). For a
loop the set of pairs is closed under taking the turn again, which is what walking its body
once amounts to. That the functions over depth exist and what they return is `StmtLayers`,
`WalkLayers` and `LowerLayers`. TLC agreed with the invariant on the run's states before it
was proved.

The theorems are about exactly what the run checks: `AlarmsTrue` and `LeaksTrue` except
bodies with `break`, `continue` or `defer`, which the analysis does not follow, and second
turns of loops, which it does not consider (section 7); `NoSilentDoubleFree` is about
bodies without branches.

Only model-checked: `ShutdownReaches`, a liveness property, and what the cleanup promises
of every body (`DirectDominates`, `FreedOnce`, `FreedInTheEnd`, `DefersInOrder`): their
proof takes an account of the frames and the deferred statements over all exits, which
`Good`, the states of lowering without deferred statements, is only the beginning of.

## 7. Where code and comments disagree

Each has a counterexample: of the run, or under the configuration, that is named.

* `method_run_loop`. A scope allocation that does not dominate its frame's exits goes to a
  slot that is null at function entry (newbf-ir/src/func.rs:161). Neither
  `free_scope_alloc` (lower.rs:6988) nor a new turn clears it, so with `while (c) { if (d)
  x = scope T(); ... }` a turn that skips the allocation frees the object of an earlier
  turn again. lower.rs:6898 says each is freed exactly once on every exit edge.
* `method_run_switch`. An arm that ends in `break` counts as diverging (ownership.rs:430)
  and is left out of the merge after the switch (ownership.rs:408), although that is
  where control goes. A local deleted in such an arm is reported as leaked; the
  comment on `merge` (ownership.rs:945) promises agreement of every incoming path.
* `sync_query_clobber`. The text queries call `begin`, which replaces the batch in
  progress; `restore_current`, documented for exactly this (batch.rs:367-369), is
  never called.
* `MCMethodRunDelete.cfg`, `NoneLeftBehind`. A `delete` of a scope local takes its binding
  off the frame for the rest of the lowering (lower.rs:11012-11048), also when it stands
  under a condition: with `scope p; if (c) delete p;` the path without the delete leaks.
  lower.rs:6898 says each is freed exactly once on every exit edge; the comment at
  lower.rs:11017 speaks of slots, and most bindings are direct.
* `MCMethodRunScope.cfg`, `ScopeFreesToo`. ownership.rs:11-12 and its report
  (ownership.rs:511-520) say that the scope frees a deleted `scope` local again. It does
  not: lowering has taken the binding off its frame, and the object is freed once.
  `AlarmsTrue` is about the other report, of a second delete.
* `MCGuardRefused.cfg`, `AlwaysFaults`. `check_free` (guard/mod.rs:163) drops the boolean
  `quarantine` returns, so pages the OS refused to decommit stay accessible, where
  stomp.rs:9-11 says any access faults deterministically. No later allocation gets them,
  though (`UseAfterFreeFaults`).
* `MCComptimePhase.cfg`, `NeverUnderflows`. `exit_comptime` (guard/mod.rs:94-99) is said
  never to underflow if mis-paired, but loads and subtracts in two steps: a mis-paired exit
  and the paired one of another thread both see the last bracket and both subtract.
  lib.rs:195-206 exports the two calls, and nothing pairs them for a caller.
* `MCEditorStale.cfg`, `PositionsInText`. Inserting a text that decodes to nothing (a byte
  order mark) over a selection deletes the selection and returns before the redo stack is
  cleared (fedit.rs:698-706), so a redo applies an edit made for another text, and sets the
  cursor unclamped (fedit.rs:962) past the end. fedit.rs:381-383 says positions are offsets
  into the rope.
* `MCEmitRoundsCosmetic.cfg`, `SourceSplicedOnce`. `normalize` (emit.rs:212-239) keeps
  block comments, and blanks around them and around punctuation, so two layouts of one
  member have two keys and are spliced twice, although emit.rs:204-207 says cosmetic
  differences do not matter. `SplicedOnce` is about what it does forget.
* `MCEmitRoundsLiterals.cfg`, `SourceKept`. `normalize` collapses blanks inside string
  literals and cuts at `//` inside literals and block comments, so two different emissions
  may have one key and the second is dropped without a word. The cut also takes what
  follows on the line and not what follows on the next, so that one source with such a
  literal may have two keys.
* `MCEmitRoundsOwners.cfg`, `RoutedHome`. `owner_id_to_qual` (emit.rs:494-512) matches by
  simple name and lets the last job win, and sema registers one struct per simple name
  (lower.rs:2600-2635): with `A.T` and `B.T` what both generators emit goes to one of them.

Smaller ones met on the way, which the models contain and no configuration singles out:
crash_dump.rs:118 calls `guard_snapshot` "a consistent read", which holds only of the quiet
snapshots `QuietSnapshotConsistent` is about; channels.rs:403 says a targeted call also
returns globals, but only a frame close passes `matches_target`; replies.rs:68 speaks of a
slot that is missing after a time-out, but `wait` never removes it; the comment at
cp_exports.rs:956 says a measure batch does not go through `submit`, and it does;
`register_alloc_sites` (guard/sites.rs:64) stores base and count separately, so a
resolution between the two stores of a replacement may read past the new table
(`FirstTableSafe` says when it may not).

* *Editor.* `RedoFits` holds above the entries a byte order mark made stale. `do_insert`
  clears the redo stack in every other case, and the comment on `delete_selection_to_undo`
  (fedit.rs:746-747) leaves it to the caller. Inserting over a selection pushes two undo
  entries, while the comment at fedit.rs:695-697 speaks of one combined entry. A text that
  begins with a byte order mark does not read back as itself, so `CleanIsSaved` compares
  with the file and with what it decodes to. The field comment at fedit.rs:427-428 says an
  edit clears the diagnostics; it marks them stale. `std::fs::write` empties the file
  before it writes, so a save that fails halfway leaves a buffer shown as clean over a file
  that is not what it holds: `torn`, which `CleanIsSaved` excepts.
* *Rope.* The header (rope_buffer.rs:6-9) promises the AVL invariant, the comment on
  `join_nodes` a height proportional to log(n) under any edits (rope_buffer.rs:551-554), a
  test the AVL bound of 1.44 log2(n) (rope_buffer.rs:984). Joins and splits do keep the AVL
  invariant (`ShallowAlways`), so the promise is good exactly as far as what is built is
  balanced. A text of up to four leaves is (`FourLeavesBuildEven`), so typing and small
  pastes never unbalance a balanced buffer (`SmallEditsKeepEven`); a text of five chunks is
  paired up as heights two and zero, nothing rebalances it, and edits carry the imbalance
  on: with leaves of one character they reach height four with five leaves and height five
  with twelve, where an AVL tree has at least eight and thirteen. `StaysShallow` states
  what holds: leaves within their limit, none empty in a branch, and balance as long as
  every tree that was built had it.
* *Emission.* `extension Q { text }` puts the closing brace on the text's last line, so an
  emission that ends in a line comment fails to parse, though `normalize` (emit.rs:209-211)
  calls trailing comments cosmetic. A generator that has converged still needs one
  confirming round under the round cap.

The cleanup is not right for four shapes, which `gaps` records and the properties of
`method_run` except; the first two are findings above.

1. A conditional scope allocation in a loop.
2. A conditional `delete` of a scope local.
3. `continue` inside a switch inside a loop: the switch is entered as a jump target of its
   own (lower.rs:7867), so the frames between it and the loop are not freed.
4. Defers: `break` and `continue` skip those of the blocks they leave, and a defer under
   an `if` without a block is queued whether or not the condition holds.

The analysis also assumes more than it follows where jumps or defers are involved,
hence `FollowsAll` and `turns = 0` in `AlarmsTrue` and `LeaksTrue`.

## 8. What is not modelled

* `realloc` between the two allocators and the printing of the leak report and of an
  abort. What happens to a pointer kept over a reset: the guard promises nothing about it,
  and `HeapPromise!Reset` makes every address fresh.
* Everything that only talks to the OS or draws: the SEH filter and stack walk, Win32
  and Direct2D calls, painting, dialogs, the clipboard, the log and REPL views, the
  documentation panes and the vendored diagrams. They keep next to no state of their own.
* The translation itself: lexing, parsing, the preprocessor, resolution, constraints, LLVM
  emission and all of lowering but the cleanup are functions over syntax trees, which
  small instances say little about and the test suite covers. They are by far the most
  lines of the repository.
* Of the analysis: `yield`, local functions, lambdas, and locals whose address is taken
  (all are let go of, like a stored one).
* Of the emission: what a generator computes, and `strip_emitter_and_shim`, a pure pass over
  the final module. A block comment has no line end in it, and directives (`#`) are not among
  the tokens.
* Of the editor: diagnostics, scrolling, auto-indent (which only chooses what is inserted)
  and `do_replace`, which has no caller; of the conversion between files and texts, line ends
  (both LF and CRLF are read as one and written as CRLF) and ill-formed text (lone surrogates
  of the clipboard and broken UTF-8 become U+FFFD). Of the rope: ill-formed UTF-8.
* The core library's containers in `newbf-corlib/bf/*.bf`, whose sources are programs of
  the language and not part of the compiler.

## 9. Plan

Every module named above is written, checked and, where the prover can reach it, proved
about. What would add most next, in this order:

1. The theorems about the cleanup (`DirectDominates` and `FreedOnce` first), from what
   frames say of the code lowered since they were opened.
2. The editor over the rope: `Editor` with `Rope` for its text, as a refinement.
3. `Pool` and `List` (core library), as refinements of a map from handles to values and
   of a sequence.
4. `Directives` (preprocess.rs) and `JitSections` (jit_mm.rs).
