------------------------------- MODULE Guard -------------------------------
(***************************************************************************)
(* The memory guard of the runtime (guard/mod.rs) in Stomp mode: threads   *)
(* allocate and free through one Mutex that holds the stomp allocator and  *)
(* the ledger.  Everything a thread does under that lock is one step; the  *)
(* lock is released between the verdict on a bad free and the abort, so    *)
(* other threads run on in between.  Freeing null changes nothing and is   *)
(* not an action; neither is an allocation of a negative size.             *)
(***************************************************************************)
EXTENDS StompAlloc, Ledger

CONSTANTS Thread,    \* threads that call newbf_alloc and newbf_free
          Size,      \* sizes they ask for, in bytes
          MaxResets  \* bound: how often the harness resets the guard

ASSUME GuardAssumption ==
    /\ Size \subseteq Nat
    /\ MaxResets \in Nat

VARIABLES doomed,  \* doomed[t]: the verdict thread t will abort with
          alive,   \* FALSE once the process has aborted
          resets   \* resets so far

vars == <<os, ranges, bits, stompGen, ledger, ledgerGen, stats, doomed, alive, resets>>

heapVars == <<os, ranges, bits, stompGen, ledger, ledgerGen, stats>>

BadVerdict == {"DoubleFree", "WildFree"}

TypeOK ==
    /\ StompTypeOK
    /\ LedgerTypeOK
    /\ doomed \in [Thread -> BadVerdict \cup {"none"}]
    /\ alive \in BOOLEAN
    /\ resets \in 0 .. MaxResets

Init ==
    /\ StompInit
    /\ LedgerInit
    /\ doomed = [t \in Thread |-> "none"]
    /\ alive = TRUE
    /\ resets = 0

-----------------------------------------------------------------------------

\* A thread that found its free to be bad has only the abort ahead of it.
Running(t) == alive /\ doomed[t] = "none"

\* Guard::alloc; `phase` was read from the comptime depth before the lock.
Alloc(t, size, phase, p) ==
    /\ Running(t)
    /\ StompAllocate(PagesFor(size), p)
    /\ RecordAlloc(p, PagesFor(size), size, phase)
    /\ UNCHANGED <<doomed, alive, resets>>

\* Guard::alloc returning null: nothing is recorded or published.
AllocFails(t, size, p) ==
    /\ Running(t)
    /\ CommitRefusedInNewRange(PagesFor(size), p)
    /\ UNCHANGED <<ledger, ledgerGen, stats, doomed, alive, resets>>

\* stomp_free of a live pointer.  What quarantine answers is dropped.
Free(t, p, ok) ==
    /\ Running(t)
    /\ Verdict(p) = "FirstFree"
    /\ Bury(p)
    /\ Quarantine(p, ledger[p].pages, ok)
    /\ UNCHANGED <<doomed, alive, resets>>

\* stomp_free of any other pointer: the verdict, then the unlock.
BadFree(t, p) ==
    /\ Running(t)
    /\ Verdict(p) \in BadVerdict
    /\ doomed' = [doomed EXCEPT ![t] = Verdict(p)]
    /\ UNCHANGED <<heapVars, alive, resets>>

\* abort_on_bad_free
Abort(t) ==
    /\ alive
    /\ doomed[t] # "none"
    /\ alive' = FALSE
    /\ UNCHANGED <<heapVars, doomed, resets>>

\* newbf_guard_reset, between the programs of an in-process harness.
Reset(t, kept) ==
    /\ Running(t)
    /\ resets < MaxResets
    /\ ReleaseAll(kept)
    /\ Clear
    /\ resets' = resets + 1
    /\ UNCHANGED <<doomed, alive>>

Next ==
    \E t \in Thread :
        \/ \E size \in Size, phase \in Phase, p \in Page : Alloc(t, size, phase, p)
        \/ \E size \in Size, p \in Page : AllocFails(t, size, p)
        \/ \E p \in Page, ok \in BOOLEAN : Free(t, p, ok)
        \/ \E p \in Page : BadFree(t, p)
        \/ \E kept \in SUBSET (DOMAIN ranges) : Reset(t, kept)
        \/ Abort(t)

Spec == Init /\ [][Next]_vars

-----------------------------------------------------------------------------

Extent(p) == Region(p, ledger[p].pages)

\* A program may use what it owns: a live allocation's pages hold its header and its
\* bytes, and each is backed by memory, whatever frees, refused commits and decommits
\* and resets came before.
LiveIsBacked ==
    \A p \in Live : /\ ledger[p].size + HeaderSize <= ledger[p].pages * PageSize
                    /\ \A q \in Extent(p) : q \in Page /\ os[q] = "committed"

\* A use after free faults unless the OS refused that very decommit: no page of a
\* tombstoned allocation is committed again, and its address range is still reserved,
\* so the OS cannot give it away.
FreedFaults ==
    \A p \in Freed : \A q \in Extent(p) : q \in Page /\ os[q] \in {"reserved", "stuck"}

\* The allocator's documentation: any access through a freed pointer hits decommitted
\* memory and faults.
AlwaysFaults == \A p \in Freed : \A q \in Extent(p) : os[q] = "reserved"

\* Quarantine: no page ever belongs to two recorded allocations, live or freed.
ExtentsDisjoint ==
    \A p, q \in Recorded : p # q => Extent(p) \cap Extent(q) = {}

\* The counters the crash dump shows agree with the table they summarise, and
\* the saturating subtractions never saturate.
CountersAgree ==
    /\ stats.liveAllocs = Cardinality(Live)
    /\ stats.totalFrees = Cardinality(Freed)
    /\ stats.totalAllocs = stats.liveAllocs + stats.totalFrees

\* The bytes the program owns, each as its allocation and its place in it.
LiveByte == UNION {{p} \X (1 .. ledger[p].size) : p \in Live}

\* live_bytes is the sum of the sizes of the live entries: it counts their bytes.
BytesAgree == stats.liveBytes = Cardinality(LiveByte)

\* The allocator's page flags say what the OS says, for every page of a range
\* the allocator still knows, but for those it gave up and the OS did not.
BitsAgree ==
    \A i \in DOMAIN ranges : \A q \in RegionOf(ranges[i]) :
        (q \in bits) = (os[q] = "committed")

\* The header written in a page and the ledger entry made for it carry the
\* same generation, so a dump can correlate one with the other.
GenerationsAgree == stompGen = ledgerGen

\* Where everything lies: ranges are mapped and disjoint, no cursor has passed
\* the end of its range, and every recorded allocation, live or freed, lies
\* wholly behind the cursor of one range.
Layout ==
    /\ \A i \in DOMAIN ranges :
          /\ ranges[i].next <= ranges[i].total
          /\ \A q \in RegionOf(ranges[i]) : q \in Page /\ os[q] # "free"
    /\ \A i, j \in DOMAIN ranges :
          i # j => RegionOf(ranges[i]) \cap RegionOf(ranges[j]) = {}
    /\ \A p \in Recorded :
          /\ ledger[p].pages > 0
          /\ \E i \in DOMAIN ranges :
                Extent(p) \subseteq Region(ranges[i].base, ranges[i].next)

\* The guard keeps the abstract promise: a pointer's status is its entry.
Status(p) == IF ledger[p].state = "absent" THEN "fresh" ELSE ledger[p].state

Promise == INSTANCE HeapPromise
              WITH Addr <- Page, status <- [p \in Page |-> Status(p)]

KeepsPromise == Promise!Spec
=============================================================================
