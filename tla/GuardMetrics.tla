---------------------------- MODULE GuardMetrics ----------------------------
(***************************************************************************)
(* The lock-free side of the guard: after every operation the thread that  *)
(* holds the guard's lock publishes the ledger's counters with four        *)
(* relaxed stores, and a thread that faults reads them back, one relaxed   *)
(* load at a time, for the crash dump (crash_dump.rs).  Relaxed accesses   *)
(* to different atomics are not ordered, so stores and loads may happen in *)
(* any order.                                                              *)
(***************************************************************************)
EXTENDS Integers

CONSTANTS MaxOps,    \* bound: allocations, frees and resets
          MaxDumps   \* bound: crash dumps (fault filter or panic hook)

VARIABLES stats,      \* the ledger's counters, under the lock
          published,  \* the atomics
          toStore,    \* counters the publishing thread has yet to store
          ops,        \* operations so far
          installed,  \* GUARD_INSTALLED
          dump,       \* counters loaded so far by the faulting thread
          toLoad,     \* counters it has yet to load
          dumps,      \* dumps so far
          overlapped  \* history: whether a publication overlapped this dump

ledgerSide == <<stats, toStore, ops, installed>>
dumpSide   == <<dump, toLoad, dumps>>
vars       == <<ledgerSide, published, dumpSide, overlapped>>

Counter == {"liveAllocs", "totalAllocs", "totalFrees"}

Zero == [c \in Counter |-> 0]

TypeOK ==
    /\ stats \in [Counter -> 0 .. MaxOps]
    /\ published \in [Counter -> 0 .. MaxOps]
    /\ toStore \subseteq Counter
    /\ ops \in 0 .. MaxOps
    /\ installed \in BOOLEAN
    /\ dump \in [Counter -> 0 .. MaxOps]
    /\ toLoad \subseteq Counter
    /\ dumps \in 0 .. MaxDumps
    /\ overlapped \in BOOLEAN

Init ==
    /\ stats = Zero /\ published = Zero /\ dump = Zero
    /\ toStore = {} /\ toLoad = {}
    /\ ops = 0 /\ dumps = 0
    /\ installed = FALSE /\ overlapped = FALSE

-----------------------------------------------------------------------------

\* set_guard_mode(Stomp): idempotent, and before any guarded operation.
Install ==
    /\ installed' = TRUE
    /\ UNCHANGED <<stats, toStore, ops, published, dumpSide, overlapped>>

\* One operation on the ledger, its publication still ahead.  The lock admits
\* one at a time.
Operate(new) ==
    /\ installed
    /\ toStore = {}
    /\ ops < MaxOps
    /\ ops' = ops + 1
    /\ stats' = new
    /\ toStore' = Counter
    /\ overlapped' = TRUE
    /\ UNCHANGED <<installed, published, dumpSide>>

Alloc == Operate([stats EXCEPT !["liveAllocs"] = @ + 1, !["totalAllocs"] = @ + 1])

Free ==
    /\ stats["liveAllocs"] > 0
    /\ Operate([stats EXCEPT !["liveAllocs"] = @ - 1, !["totalFrees"] = @ + 1])

Reset == Operate(Zero)

\* One of update_guard_metrics' stores.
Store(c) ==
    /\ c \in toStore
    /\ published' = [published EXCEPT ![c] = stats[c]]
    /\ toStore' = toStore \ {c}
    /\ UNCHANGED <<stats, ops, installed, dumpSide, overlapped>>

\* guard_snapshot, once GUARD_INSTALLED was seen set.
BeginDump ==
    /\ installed
    /\ toLoad = {}
    /\ dumps < MaxDumps
    /\ dumps' = dumps + 1
    /\ toLoad' = Counter
    /\ dump' = Zero
    /\ overlapped' = (toStore # {})
    /\ UNCHANGED <<ledgerSide, published>>

\* Mutant of Load: the free counter is taken from the allocation counter.
MutLoad(c) ==
    /\ c \in toLoad
    /\ dump' = [dump EXCEPT ![c] = published[IF c = "totalFrees" THEN "totalAllocs" ELSE c]]
    /\ toLoad' = toLoad \ {c}
    /\ UNCHANGED <<ledgerSide, published, dumps, overlapped>>

Load(c) ==
    /\ c \in toLoad
    /\ dump' = [dump EXCEPT ![c] = published[c]]
    /\ toLoad' = toLoad \ {c}
    /\ UNCHANGED <<ledgerSide, published, dumps, overlapped>>

Next ==
    \/ Install
    \/ Alloc
    \/ Free
    \/ Reset
    \/ \E c \in Counter : Store(c)
    \/ BeginDump
    \/ \E c \in Counter : Load(c)

Spec == Init /\ [][Next]_vars

-----------------------------------------------------------------------------

Dumped == dumps > 0 /\ toLoad = {}

Consistent(s) == s["totalAllocs"] = s["liveAllocs"] + s["totalFrees"]

\* A dump that no publication overlaps shows the ledger's counters as they were
\* then, hence fits together, though it loads them one by one.
QuietSnapshotConsistent == Dumped /\ ~overlapped => dump = stats /\ Consistent(dump)
=============================================================================
