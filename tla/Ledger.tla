------------------------------- MODULE Ledger -------------------------------
(***************************************************************************)
(* The tombstone ledger (guard/ledger.rs): a side table from the pointer a *)
(* program holds to what became of it, with the running counters the crash *)
(* dump shows.  An address without an entry is Absent.  The type and site  *)
(* ids, which only name an allocation in messages, are left out.           *)
(***************************************************************************)
EXTENDS GuardParams, FiniteSets

VARIABLES ledger,     \* ledger[a]: the entry of pointer a
          ledgerGen,  \* the ledger's next_gen
          stats       \* the running counters

ledgerVars == <<ledger, ledgerGen, stats>>

EntryState == {"absent", "live", "freed"}

Entry == [state : EntryState, pages : Nat, size : Nat, phase : Phase, gen : Nat]

Stats == [liveAllocs : Nat, liveBytes : Nat, totalAllocs : Nat, totalFrees : Nat]

Absent == [state |-> "absent", pages |-> 0, size |-> 0, phase |-> Comptime, gen |-> 0]

NoStats == [liveAllocs |-> 0, liveBytes |-> 0, totalAllocs |-> 0, totalFrees |-> 0]

LedgerTypeOK ==
    /\ ledger \in [Page -> Entry]
    /\ ledgerGen \in 0 .. (GenMod - 1)
    /\ stats \in Stats

LedgerInit ==
    /\ ledger = [a \in Page |-> Absent]
    /\ ledgerGen = 1
    /\ stats = NoStats

Recorded == {a \in Page : ledger[a].state # "absent"}
Live     == {a \in Page : ledger[a].state = "live"}
Freed    == {a \in Page : ledger[a].state = "freed"}

-----------------------------------------------------------------------------

\* u64::saturating_sub
SatSub(x, y) == IF x > y THEN x - y ELSE 0

RecordAlloc(a, n, size, phase) ==
    /\ ledger' = [ledger EXCEPT ![a] = [state |-> "live", pages |-> n, size |-> size,
                                        phase |-> phase, gen |-> ledgerGen]]
    /\ ledgerGen' = (ledgerGen + 1) % GenMod
    /\ stats' = [liveAllocs  |-> stats.liveAllocs + 1,
                 liveBytes   |-> stats.liveBytes + size,
                 totalAllocs |-> stats.totalAllocs + 1,
                 totalFrees  |-> stats.totalFrees]

\* Mutant of Verdict: tombstones are not told from addresses never handed out.
MutVerdict(a) == IF a \notin Live THEN "WildFree" ELSE "FirstFree"

\* What note_free says of a pointer, before it acts.
Verdict(a) == IF a \notin Recorded THEN "WildFree"
              ELSE IF a \in Freed THEN "DoubleFree"
              ELSE "FirstFree"

\* Mutant of Bury: the bytes are not subtracted.
MutBury(a) ==
    /\ ledger' = [ledger EXCEPT ![a].state = "freed"]
    /\ stats' = [liveAllocs  |-> SatSub(stats.liveAllocs, 1),
                 liveBytes   |-> stats.liveBytes,
                 totalAllocs |-> stats.totalAllocs,
                 totalFrees  |-> stats.totalFrees + 1]
    /\ UNCHANGED ledgerGen

\* The first free of a live pointer leaves a tombstone behind.
Bury(a) ==
    /\ ledger' = [ledger EXCEPT ![a].state = "freed"]
    /\ stats' = [liveAllocs  |-> SatSub(stats.liveAllocs, 1),
                 liveBytes   |-> SatSub(stats.liveBytes, ledger[a].size),
                 totalAllocs |-> stats.totalAllocs,
                 totalFrees  |-> stats.totalFrees + 1]
    /\ UNCHANGED ledgerGen

\* Mutant of Clear: the counters survive the table.
MutClear ==
    /\ ledger' = [a \in Page |-> Absent]
    /\ ledgerGen' = 1
    /\ UNCHANGED stats

Clear ==
    /\ ledger' = [a \in Page |-> Absent]
    /\ ledgerGen' = 1
    /\ stats' = NoStats
=============================================================================
