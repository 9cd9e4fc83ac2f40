----------------------------- MODULE GuardFront -----------------------------
(***************************************************************************)
(* The guard's front (guard/mod.rs): allocations and frees are routed by   *)
(* the mode to the C heap or to the guard, whose allocations take their    *)
(* phase from the comptime bracket, enter the ledger under the lock and    *)
(* are published for the crash dump.  It composes ComptimePhase and        *)
(* GuardMetrics; of the ledger it keeps what the leak report reads.        *)
(*                                                                         *)
(* Nothing ties the host's calls to the program's: the mode may be set and *)
(* the guard reset at any time, also while a thread is allocating, and a   *)
(* free may be given any block, whatever became of it.                     *)
(***************************************************************************)
EXTENDS Integers, Sequences, FiniteSets

CONSTANTS Thread, DepthMod, MaxNest, MaxCalls, MaxUnpaired,  \* as in ComptimePhase
          MaxOps, MaxDumps,                     \* as in GuardMetrics
          MaxBlocks,                            \* bound: allocations
          MaxWork                               \* bound: guard operations, dumps, brackets and
                                                \* unpaired exits together

\* The depth is a usize: nobody enters so many brackets that it wraps.
ASSUME FrontAssumption ==
    /\ IsFiniteSet(Thread)
    /\ MaxNest \in Nat /\ MaxCalls \in Nat /\ MaxUnpaired \in Nat
    /\ DepthMod \in Nat /\ MaxCalls < DepthMod
    /\ MaxBlocks \in Nat /\ MaxWork \in Nat

VARIABLES depth, nest, leaving, calls, tag, outside, unpaired,
          stats, published, toStore, ops, installed, dump, toLoad, dumps, overlapped,
          mode,       \* MODE
          blocks,     \* every allocation, in order
          entries,    \* those with a live ledger entry
          crossed,    \* history: threads with an allocation under way that began
                      \* before the last change of mode
          stopped     \* the block whose free made the guard abort, or 0

bracketVars == <<depth, nest, leaving, calls, tag, outside, unpaired>>
metricVars  == <<stats, published, toStore, ops, installed, dump, toLoad, dumps, overlapped>>
frontVars   == <<mode, blocks, entries, crossed, stopped>>
vars        == <<bracketVars, metricVars, frontVars>>

Bracket == INSTANCE ComptimePhase
Metrics == INSTANCE GuardMetrics

\* by: who made it; phase: its tag in the ledger; state: history, the allocator it
\* was given back to, or "past" once the guard forgot it in a reset; switched:
\* history, whether the mode changed since its allocation began; inside, alone:
\* history, whether its thread was in a bracket and whether nobody was in one.
Block == [by : {"crt", "guard"}, phase : {"App", "Comptime"},
          state : {"live", "crt", "guard", "past"}, switched : BOOLEAN,
          inside : BOOLEAN, alone : BOOLEAN]

Init ==
    /\ Bracket!Init /\ Metrics!Init
    /\ mode = "Thunk" /\ blocks = <<>> /\ entries = {}
    /\ crossed = {} /\ stopped = 0

-----------------------------------------------------------------------------
(* The host.                                                               *)

\* set_guard_mode
SetMode(m) ==
    /\ mode' = m
    /\ IF m = "Stomp" THEN Metrics!Install ELSE UNCHANGED metricVars
    /\ IF m = mode
       THEN UNCHANGED <<blocks, crossed>>
       ELSE /\ blocks' = [b \in DOMAIN blocks |-> [blocks[b] EXCEPT !.switched = TRUE]]
            /\ crossed' = {t \in Thread : tag[t] # "none"}
    /\ UNCHANGED <<bracketVars, entries, stopped>>

Forgotten(b) == [blocks[b] EXCEPT !.state = IF blocks[b].by = "guard" THEN "past" ELSE @]

\* Mutant of Reset: the counters are cleared and the entries stay.
MutReset ==
    /\ Metrics!Reset
    /\ blocks' = [b \in DOMAIN blocks |-> Forgotten(b)]
    /\ UNCHANGED <<bracketVars, mode, entries, crossed, stopped>>

\* reset
Reset ==
    /\ Metrics!Reset
    /\ entries' = {}
    /\ blocks' = [b \in DOMAIN blocks |-> Forgotten(b)]
    /\ UNCHANGED <<bracketVars, mode, crossed, stopped>>

-----------------------------------------------------------------------------
(* The program's threads.                                                  *)

InBracket(t) ==
    /\ Bracket!Enter(t) \/ Bracket!BeginExit(t) \/ Bracket!EndExit(t)
    /\ UNCHANGED <<metricVars, frontVars>>

NewBlock(t, by) ==
    [by |-> by, phase |-> IF by = "guard" THEN tag[t] ELSE "App", state |-> "live",
     switched |-> by = "guard" /\ t \in crossed,
     inside |-> by = "guard" /\ nest[t] > 0, alone |-> by = "guard" /\ outside[t]]

\* route_alloc in Thunk mode
AllocFromC(t) ==
    /\ mode = "Thunk"
    /\ Bracket!Idle(t) /\ Len(blocks) < MaxBlocks
    /\ blocks' = Append(blocks, NewBlock(t, "crt"))
    /\ UNCHANGED <<bracketVars, metricVars, mode, entries, crossed, stopped>>

\* route_alloc in Stomp mode: stomp_alloc reads the phase ...
BeginAlloc(t) ==
    /\ mode = "Stomp"
    /\ Len(blocks) < MaxBlocks
    /\ Bracket!ReadPhase(t)
    /\ UNCHANGED <<metricVars, frontVars>>

\* ... and records the allocation under the lock, or the memory is refused.
AllocFromGuard(t) ==
    /\ Len(blocks) < MaxBlocks
    /\ Bracket!Record(t) /\ Metrics!Alloc
    /\ blocks' = Append(blocks, NewBlock(t, "guard"))
    /\ entries' = entries \cup {Len(blocks) + 1}
    /\ crossed' = crossed \ {t}
    /\ UNCHANGED <<mode, stopped>>

AllocRefused(t) ==
    /\ toStore = {}
    /\ Bracket!Record(t)
    /\ crossed' = crossed \ {t}
    /\ UNCHANGED <<metricVars, mode, blocks, entries, stopped>>

\* The C heap's free.  What it does with a pointer that is not its own, or not any
\* more, is undefined; the guard at least does not hear of it.
FreeToC(b) ==
    /\ blocks' = [blocks EXCEPT ![b].state = IF @ = "live" THEN "crt" ELSE @]
    /\ UNCHANGED <<metricVars, entries, stopped>>

Bury(b) ==
    /\ b \in entries
    /\ Metrics!Free
    /\ entries' = entries \ {b}
    /\ blocks' = [blocks EXCEPT ![b].state = "guard"]
    /\ UNCHANGED stopped

\* stomp_free: a live entry is buried, a pointer without one aborts the process.  The
\* address of a block from before a reset may by now be that of a later block.
FreeToGuard(b) ==
    \/ Bury(b)
    \/ blocks[b].state = "past" /\ \E c \in entries : c > b /\ Bury(c)
    \/ /\ b \notin entries /\ toStore = {}
       /\ stopped' = b
       /\ UNCHANGED <<metricVars, blocks, entries>>

\* Mutant of Free: the mode is not consulted once the guard was built.
MutFree(t, b) ==
    /\ Bracket!Idle(t)
    /\ IF installed THEN FreeToGuard(b) ELSE FreeToC(b)
    /\ UNCHANGED <<bracketVars, mode, crossed>>

\* route_free, of any block ever allocated.
Free(t, b) ==
    /\ Bracket!Idle(t)
    /\ IF mode = "Stomp" THEN FreeToGuard(b) ELSE FreeToC(b)
    /\ UNCHANGED <<bracketVars, mode, crossed>>

-----------------------------------------------------------------------------

\* update_guard_metrics' stores, and a fault's dump.
Publish ==
    /\ \/ \E c \in Metrics!Counter : Metrics!Store(c) \/ Metrics!Load(c)
       \/ Metrics!BeginDump
    /\ UNCHANGED <<bracketVars, frontVars>>

\* Nothing follows an abort.
Next ==
    /\ stopped = 0
    /\ \/ \E m \in {"Thunk", "Stomp"} : SetMode(m)
       \/ Reset \/ Publish
       \/ \E t \in Thread :
             \/ InBracket(t) \/ AllocFromC(t) \/ BeginAlloc(t)
             \/ AllocFromGuard(t) \/ AllocRefused(t)
             \/ \E b \in DOMAIN blocks : Free(t, b)
    /\ ops' + dumps' + calls' + unpaired' <= MaxWork

Spec == Init /\ [][Next]_vars

-----------------------------------------------------------------------------

\* report_leaks
Report == {b \in entries : blocks[b].phase = "App"}

\* The leak report names guarded blocks that nobody gave back since the last reset
\* (or only to the C heap, after a change of mode) and, as long as the brackets are
\* paired, none a thread allocated inside its own; and it names every such block that
\* no bracket was open for.
ReportRight ==
    /\ \A b \in Report : /\ blocks[b].by = "guard"
                         /\ \/ blocks[b].state = "live"
                            \/ blocks[b].state = "crt" /\ blocks[b].switched
                         /\ unpaired = 0 => ~blocks[b].inside
    /\ \A b \in DOMAIN blocks :
          blocks[b].by = "guard" /\ blocks[b].state = "live" /\ blocks[b].alone /\ unpaired = 0
             => b \in Report

\* Whatever the host and other threads do meanwhile, also in the middle of its
\* allocation, a block whose mode was not changed since is given back to the
\* allocator it came from, and the guard does not abort over it while it is live.
FreesGoHome ==
    \A b \in DOMAIN blocks : ~blocks[b].switched =>
        /\ blocks[b].state \in {"live", "past", blocks[b].by}
        /\ stopped = b => blocks[b].state # "live"

\* Between operations the published count of live allocations is that of the
\* ledger's live entries.
CountersMatchEntries ==
    toStore = {} => published["liveAllocs"] = Cardinality(entries)

\* As long as every thread leaves only what it entered, the depth counts the open
\* brackets, whatever loads and subtractions of other threads come between.
DepthCountsBrackets == unpaired = 0 => depth = Cardinality(Bracket!Open)

\* A dump no publication overlaps shows the counters of the ledger as they were
\* then, though it loads them one by one.
QuietSnapshotConsistent == Metrics!QuietSnapshotConsistent
=============================================================================
