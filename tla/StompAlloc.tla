----------------------------- MODULE StompAlloc -----------------------------
(***************************************************************************)
(* The quarantining page allocator of the memory guard (guard/stomp.rs)    *)
(* over the virtual-memory shim it drives (guard/vm.rs).                   *)
(*                                                                         *)
(* Page contents, the header's magic word and the site id are left out.    *)
(***************************************************************************)
EXTENDS GuardParams, Sequences

CONSTANTS PageSize,        \* bytes in a page (PAGE_SIZE)
          HeaderSize,      \* bytes of an AllocHeader
          RangePages       \* pages reserved for a new range (range_pages)

ASSUME StompAssumption ==
    /\ PageSize \in Nat \ {0}
    /\ HeaderSize \in Nat \ {0}
    /\ RangePages \in Nat \ {0}

VARIABLES os,        \* os[p]: what the OS says of page p
          ranges,    \* reserved ranges in the order they were reserved
          bits,      \* pages whose `committed` flag is set, over all ranges
          stompGen   \* the allocator's next_gen

stompVars == <<os, ranges, bits, stompGen>>

\* A "stuck" page is one the OS refused to decommit: the allocator is done with it,
\* and it is still there to read and write.
PageState == {"free", "reserved", "committed", "stuck"}

\* A reserved range: `next` pages of its `total` are behind the cursor.
ReservedRange == [base : Nat, total : Nat, next : Nat]

Region(b, n) == b .. (b + n - 1)

RegionOf(r) == Region(r.base, r.total)

StompTypeOK ==
    /\ os \in [Page -> PageState]
    /\ ranges \in Seq(ReservedRange)
    /\ bits \subseteq Page
    /\ stompGen \in 0 .. (GenMod - 1)

StompInit ==
    /\ os = [p \in Page |-> "free"]
    /\ ranges = <<>>
    /\ bits = {}
    /\ stompGen = 1

-----------------------------------------------------------------------------

CeilDiv(a, b) == (a + b - 1) \div b

\* Mutant of PagesFor: the header is not counted.
MutPagesFor(size) ==
    CeilDiv(size, PageSize) + IF size % PageSize = 0 THEN 1 ELSE 0

\* Header and data rounded up to pages, with a slack page for a size of zero
\* or a whole number of pages.
PagesFor(size) ==
    CeilDiv(size + HeaderSize, PageSize) + IF size % PageSize = 0 THEN 1 ELSE 0

\* The ranges whose tail, past the cursor, holds n more pages.
Room(n) == {i \in DOMAIN ranges : ranges[i].next + n <= ranges[i].total}

IsFirstFit(i, n) == i \in Room(n) /\ \A j \in Room(n) : i <= j

NewTotal(n) == IF n > RangePages THEN n ELSE RangePages

\* VirtualAlloc(MEM_RESERVE) places the reservation at any unused address.
CanReserve(b, n) == Region(b, n) \subseteq {p \in Page : os[p] = "free"}

Remap(region, state) == [p \in Page |-> IF p \in region THEN state ELSE os[p]]

\* Mutant of Advance: the cursor moves by one page, however many were taken.
MutAdvance(r, n) == [base |-> r.base, total |-> r.total, next |-> r.next + 1]

\* The range with its cursor n pages further on.
Advance(r, n) == [base |-> r.base, total |-> r.total, next |-> r.next + n]

\* Commit n pages at the cursor of the first range with room.
AllocInRange(n, b) ==
    /\ \E i \in DOMAIN ranges :
          /\ IsFirstFit(i, n)
          /\ b = ranges[i].base + ranges[i].next
          /\ ranges' = [ranges EXCEPT ![i] = Advance(@, n)]
    /\ os' = Remap(Region(b, n), "committed")
    /\ bits' = bits \cup Region(b, n)
    /\ stompGen' = (stompGen + 1) % GenMod

\* No range has room: reserve one and commit n pages at its start.
AllocInNewRange(n, b) ==
    /\ Room(n) = {}
    /\ CanReserve(b, NewTotal(n))
    /\ os' = [p \in Page |-> IF p \in Region(b, n) THEN "committed"
                             ELSE IF p \in Region(b, NewTotal(n)) THEN "reserved"
                             ELSE os[p]]
    /\ ranges' = Append(ranges, [base |-> b, total |-> NewTotal(n), next |-> n])
    /\ bits' = bits \cup Region(b, n)
    /\ stompGen' = (stompGen + 1) % GenMod

StompAllocate(n, b) == AllocInRange(n, b) \/ AllocInNewRange(n, b)

\* The new range was reserved and its first commit refused: the range stays.
\* The other failures (reserve returns null, or pages of an existing range are
\* refused) change nothing and are stuttering steps.
CommitRefusedInNewRange(n, b) ==
    /\ Room(n) = {}
    /\ CanReserve(b, NewTotal(n))
    /\ os' = Remap(Region(b, NewTotal(n)), "reserved")
    /\ ranges' = Append(ranges, [base |-> b, total |-> NewTotal(n), next |-> 0])
    /\ UNCHANGED <<bits, stompGen>>

\* Mutant of Quarantine: the pages are released, not only decommitted.
MutQuarantineReleases(b, n, ok) ==
    /\ os' = Remap(Region(b, n), IF ok THEN "free" ELSE "stuck")
    /\ bits' = bits \ Region(b, n)
    /\ UNCHANGED <<ranges, stompGen>>

\* Mutant of Quarantine: the flags are not cleared.
MutQuarantineKeepsBits(b, n, ok) ==
    /\ os' = Remap(Region(b, n), IF ok THEN "reserved" ELSE "stuck")
    /\ UNCHANGED <<bits, ranges, stompGen>>

\* Decommit without releasing.  The flags are cleared whether or not the OS
\* complied, and only within the range that holds the base.
Quarantine(b, n, ok) ==
    /\ os' = Remap(Region(b, n), IF ok THEN "reserved" ELSE "stuck")
    /\ bits' = bits \ {p \in Region(b, n) :
                          \E i \in DOMAIN ranges : {b, p} \subseteq RegionOf(ranges[i])}
    /\ UNCHANGED <<ranges, stompGen>>

\* Mutant of ReleaseAll: the generation runs on.
MutReleaseAll(kept) ==
    /\ os' = [p \in Page |->
                IF \E i \in DOMAIN ranges \ kept : p \in RegionOf(ranges[i])
                THEN "free" ELSE os[p]]
    /\ ranges' = <<>>
    /\ bits' = {}
    /\ UNCHANGED stompGen

\* Hand every range back and forget it; ranges in `kept` are those whose
\* release the OS refused (the result is ignored).
ReleaseAll(kept) ==
    /\ os' = [p \in Page |->
                IF \E i \in DOMAIN ranges \ kept : p \in RegionOf(ranges[i])
                THEN "free" ELSE os[p]]
    /\ ranges' = <<>>
    /\ bits' = {}
    /\ stompGen' = 1
=============================================================================
