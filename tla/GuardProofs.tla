---------------------------- MODULE GuardProofs ----------------------------
(***************************************************************************)
(* Theorems about Guard for every address space, page size, set of threads *)
(* and set of sizes.                                                       *)
(***************************************************************************)
EXTENDS Guard, TLAPS, FiniteSetTheorems

\* Every request takes at least one page, and a whole number of them.
LEMMA PagesForPositive ==
    ASSUME NEW size \in Nat
    PROVE  PagesFor(size) \in Nat /\ PagesFor(size) > 0
<1> DEFINE raw == size + HeaderSize + PageSize - 1
           slack == IF size % PageSize = 0 THEN 1 ELSE 0
<1>1. PageSize \in Nat /\ PageSize > 0 /\ HeaderSize \in Nat /\ HeaderSize > 0
  BY StompAssumption
<1>2. raw \in Nat /\ raw >= PageSize
  BY <1>1
<1>3. raw \div PageSize \in Nat /\ raw \div PageSize > 0
  <2>1. ASSUME NEW a \in Nat, NEW b \in Nat, b > 0, a >= b
        PROVE  a \div b \in Nat /\ a \div b > 0
    BY <2>1, SMT
  <2> QED BY <2>1, <1>1, <1>2
<1>4. slack \in {0, 1}
  OBVIOUS
<1>5. PagesFor(size) = (raw \div PageSize) + slack
  BY DEF PagesFor, CeilDiv
<1> QED BY <1>3, <1>4, <1>5

\* And the pages hold the header and the bytes asked for.
LEMMA PagesForHolds ==
    ASSUME NEW size \in Nat
    PROVE  size + HeaderSize <= PagesFor(size) * PageSize
<1> DEFINE need == size + HeaderSize
           whole == (need + PageSize - 1) \div PageSize
<1>1. PageSize \in Nat /\ PageSize > 0 /\ need \in Nat
  BY StompAssumption
<1>2. ASSUME NEW a \in Nat, NEW b \in Nat, b > 0
      PROVE  (a + b - 1) \div b \in Nat /\ a <= ((a + b - 1) \div b) * b
  BY <1>2, SMT
<1>3. whole \in Nat /\ need <= whole * PageSize
  BY <1>1, <1>2
<1>4. PagesFor(size) = whole \/ PagesFor(size) = whole + 1
  <2>1. PagesFor(size) = whole + IF size % PageSize = 0 THEN 1 ELSE 0
    BY DEF PagesFor, CeilDiv
  <2>2. CASE size % PageSize = 0
    BY <2>1, <2>2
  <2>3. CASE size % PageSize # 0
    <3>1. PagesFor(size) = whole + 0
      BY <2>1, <2>3
    <3> QED BY <1>3, <3>1
  <2> QED BY <2>2, <2>3
<1> HIDE DEF need, whole
<1>5. (whole + 1) * PageSize = whole * PageSize + PageSize
  BY <1>1, <1>3
<1>6. whole * PageSize \in Nat
  BY <1>1, <1>3
<1> QED BY <1>1, <1>3, <1>4, <1>5, <1>6 DEF need

-----------------------------------------------------------------------------

(***************************************************************************)
(* The inductive invariant.  That no page is ever given out twice does not *)
(* follow from the ledger alone: it takes Layout, which says that whatever *)
(* is recorded lies behind a cursor, while allocations start at a cursor.  *)
(***************************************************************************)
IInv ==
    /\ TypeOK
    /\ Layout
    /\ ExtentsDisjoint
    /\ LiveIsBacked
    /\ FreedFaults

\* Initially nothing is reserved and nothing recorded.
LEMMA InitIInv == Init => IInv
<1> SUFFICES ASSUME Init PROVE IInv
  OBVIOUS
<1> USE DEF Init, StompInit, LedgerInit
<1>1. TypeOK
  BY GuardParamsAssumption, GuardAssumption
     DEF TypeOK, StompTypeOK, LedgerTypeOK, PageState, ReservedRange, Entry,
         EntryState, Absent, Stats, NoStats, BadVerdict
<1>2. Recorded = {} /\ Live = {} /\ Freed = {}
  BY DEF Recorded, Live, Freed, Absent
<1>3. DOMAIN ranges = {}
  OBVIOUS
<1> QED
  BY <1>1, <1>2, <1>3 DEF IInv, Layout, ExtentsDisjoint, LiveIsBacked, FreedFaults

\* What is live or freed is recorded, and recorded addresses are pages.
LEMMA RecordedSplit ==
    ASSUME LedgerTypeOK
    PROVE  Recorded = Live \cup Freed /\ Recorded \subseteq Page
BY DEF LedgerTypeOK, Recorded, Live, Freed, Entry, EntryState

(***************************************************************************)
(* What a successful allocation of n pages at b does.  The region is       *)
(* fresh: it lies inside the address space and meets no recorded           *)
(* allocation; a mapped page outside it keeps its state; the ranges stay   *)
(* well laid out and still hold, behind their cursors, all they held.      *)
(***************************************************************************)
RangesWellLaid(rs, pages) ==
    /\ \A i \in DOMAIN rs :
          /\ rs[i].next <= rs[i].total
          /\ \A q \in RegionOf(rs[i]) : q \in Page /\ pages[q] # "free"
    /\ \A i, j \in DOMAIN rs :
          i # j => RegionOf(rs[i]) \cap RegionOf(rs[j]) = {}

Allocated(n, b) ==
    /\ \A q \in Region(b, n) : q \in Page /\ os'[q] = "committed"
    /\ \A q \in Page \ Region(b, n) : os[q] # "free" => os'[q] = os[q]
    /\ \A p \in Recorded : Extent(p) \cap Region(b, n) = {}
    /\ os' \in [Page -> PageState]
    /\ ranges' \in Seq(ReservedRange)
    /\ RangesWellLaid(ranges', os')
    /\ \A i \in DOMAIN ranges : \E j \in DOMAIN ranges' :
          Region(ranges[i].base, ranges[i].next)
             \subseteq Region(ranges'[j].base, ranges'[j].next)
    /\ \E j \in DOMAIN ranges' :
          Region(b, n) \subseteq Region(ranges'[j].base, ranges'[j].next)

\* The typing of ranges, in the form the provers use it.
LEMMA RangeFields ==
    ASSUME IInv, NEW j \in DOMAIN ranges
    PROVE  /\ ranges \in Seq(ReservedRange)
           /\ ranges[j] \in ReservedRange
           /\ ranges[j].base \in Nat /\ ranges[j].total \in Nat /\ ranges[j].next \in Nat
           /\ ranges[j].next <= ranges[j].total
<1>1. ranges \in Seq(ReservedRange)
  BY DEF IInv, TypeOK, StompTypeOK
<1>2. ranges[j] \in ReservedRange
  BY <1>1
<1>3. ranges[j].next <= ranges[j].total
  BY DEF IInv, Layout
<1> QED BY <1>1, <1>2, <1>3 DEF ReservedRange

\* Allocation at a cursor.
LEMMA AllocateInRange ==
    ASSUME IInv, NEW n \in Nat, n > 0, NEW b \in Page, AllocInRange(n, b)
    PROVE  Allocated(n, b)
<1> USE DEF Region, RegionOf
<1>1. PICK i \in DOMAIN ranges :
         /\ IsFirstFit(i, n)
         /\ b = ranges[i].base + ranges[i].next
         /\ ranges' = [ranges EXCEPT ![i] = Advance(@, n)]
  BY DEF AllocInRange
<1>2. ranges \in Seq(ReservedRange) /\ os \in [Page -> PageState]
  BY DEF IInv, TypeOK, StompTypeOK
<1>3. \A j \in DOMAIN ranges :
         /\ ranges[j] \in ReservedRange
         /\ ranges[j].base \in Nat /\ ranges[j].total \in Nat /\ ranges[j].next \in Nat
         /\ ranges[j].next <= ranges[j].total
  BY RangeFields
<1>4. ranges[i].next + n <= ranges[i].total
  BY <1>1 DEF IsFirstFit, Room
<1>5. Region(b, n) \subseteq RegionOf(ranges[i])
  BY <1>1, <1>3, <1>4
<1>6. \A q \in Region(b, n) : q \in Page
  BY <1>5 DEF IInv, Layout
<1>7. ASSUME NEW p \in Recorded PROVE Extent(p) \cap Region(b, n) = {}
  <2>1. PICK j \in DOMAIN ranges : Extent(p) \subseteq Region(ranges[j].base, ranges[j].next)
    BY DEF IInv, Layout
  <2>2. CASE j = i
    BY <2>1, <2>2, <1>1, <1>3
  <2>3. CASE j # i
    <3>1. Extent(p) \subseteq RegionOf(ranges[j])
      BY <2>1, <1>3
    <3>2. RegionOf(ranges[i]) \cap RegionOf(ranges[j]) = {}
      BY <2>3 DEF IInv, Layout
    <3> QED BY <3>1, <3>2, <1>5
  <2> QED BY <2>2, <2>3
<1>8. ranges' \in Seq(ReservedRange) /\ DOMAIN ranges' = DOMAIN ranges
  BY <1>1, <1>2, <1>3 DEF ReservedRange, Advance
<1>9. /\ ranges'[i] = Advance(ranges[i], n)
      /\ \A j \in DOMAIN ranges \ {i} : ranges'[j] = ranges[j]
  BY <1>1, <1>2
<1>10. ASSUME NEW j \in DOMAIN ranges
       PROVE  /\ RegionOf(ranges'[j]) = RegionOf(ranges[j])
              /\ ranges'[j].base = ranges[j].base
              /\ ranges'[j].next >= ranges[j].next
              /\ ranges'[j].next <= ranges'[j].total
  BY <1>3, <1>4, <1>9 DEF ReservedRange, Advance
<1>11. Region(b, n) \subseteq Region(ranges'[i].base, ranges'[i].next)
  BY <1>1, <1>3, <1>9 DEF ReservedRange, Advance
<1>12. ASSUME NEW j \in DOMAIN ranges
       PROVE  Region(ranges[j].base, ranges[j].next)
                 \subseteq Region(ranges'[j].base, ranges'[j].next)
  <2>1. ranges'[j] \in ReservedRange
    BY <1>8
  <2>2. ranges'[j].next \in Nat
    BY <2>1 DEF ReservedRange
  <2> QED BY <2>2, <1>3, <1>10
<1>13. /\ os' \in [Page -> PageState]
       /\ \A q \in Region(b, n) : os'[q] = "committed"
       /\ \A q \in Page \ Region(b, n) : os'[q] = os[q]
  BY <1>2, <1>6 DEF AllocInRange, Remap, PageState
<1>14. RangesWellLaid(ranges', os')
  <2>1. ASSUME NEW j \in DOMAIN ranges', NEW q \in RegionOf(ranges'[j])
        PROVE  q \in Page /\ os'[q] # "free"
    <3>1. j \in DOMAIN ranges /\ q \in RegionOf(ranges[j])
      BY <2>1, <1>8, <1>10
    <3>2. q \in Page /\ os[q] # "free"
      BY <3>1 DEF IInv, Layout
    <3> QED BY <3>2, <1>13
  <2>2. ASSUME NEW j \in DOMAIN ranges', NEW k \in DOMAIN ranges', j # k
        PROVE  RegionOf(ranges'[j]) \cap RegionOf(ranges'[k]) = {}
    <3>1. RegionOf(ranges[j]) \cap RegionOf(ranges[k]) = {}
      BY <2>2, <1>8 DEF IInv, Layout
    <3> QED BY <3>1, <1>8, <1>10
  <2> QED BY <2>1, <2>2, <1>8, <1>10 DEF RangesWellLaid
<1> QED BY <1>6, <1>7, <1>8, <1>11, <1>12, <1>13, <1>14 DEF Allocated

\* Reserving t pages of unused address space for a new last range.
LEMMA ReserveRange ==
    ASSUME IInv, NEW t \in Nat, t > 0, NEW n \in Nat, n <= t, NEW b \in Page,
           CanReserve(b, t),
           ranges' = Append(ranges, [base |-> b, total |-> t, next |-> n]),
           os' \in [Page -> PageState],
           \A q \in Region(b, t) : os'[q] # "free",
           \A q \in Page \ Region(b, t) : os'[q] = os[q]
    PROVE  /\ \A q \in Region(b, t) : q \in Page
           /\ \A p \in Recorded : Extent(p) \cap Region(b, t) = {}
           /\ ranges' \in Seq(ReservedRange)
           /\ RangesWellLaid(ranges', os')
           /\ \A i \in DOMAIN ranges : i \in DOMAIN ranges' /\ ranges'[i] = ranges[i]
           /\ Len(ranges') \in DOMAIN ranges'
           /\ ranges'[Len(ranges')] = [base |-> b, total |-> t, next |-> n]
<1> DEFINE new == [base |-> b, total |-> t, next |-> n]
<1>1. ranges \in Seq(ReservedRange) /\ new \in ReservedRange
  BY DEF IInv, TypeOK, StompTypeOK, ReservedRange, Page
<1>2. ranges' \in Seq(ReservedRange) /\ Len(ranges') = Len(ranges) + 1
  BY <1>1
<1>3. /\ DOMAIN ranges = 1 .. Len(ranges) /\ DOMAIN ranges' = 1 .. Len(ranges')
      /\ \A i \in DOMAIN ranges : ranges'[i] = ranges[i]
      /\ ranges'[Len(ranges')] = new
  BY <1>1, <1>2
<1>4. Len(ranges) \in Nat
  BY <1>1
<1>5. \A q \in Region(b, t) : q \in Page /\ os[q] = "free"
  BY DEF CanReserve
<1>6. RegionOf(new) = Region(b, t)
  BY DEF RegionOf
<1>7. ASSUME NEW i \in DOMAIN ranges
      PROVE  /\ RegionOf(ranges[i]) \cap Region(b, t) = {}
             /\ \A q \in RegionOf(ranges[i]) : q \in Page /\ os[q] # "free"
             /\ ranges[i].next <= ranges[i].total
  BY <1>5 DEF IInv, Layout
<1>8. ASSUME NEW p \in Recorded PROVE Extent(p) \cap Region(b, t) = {}
  <2>1. PICK i \in DOMAIN ranges : Extent(p) \subseteq Region(ranges[i].base, ranges[i].next)
    BY DEF IInv, Layout
  <2>2. Region(ranges[i].base, ranges[i].next) \subseteq RegionOf(ranges[i])
    BY RangeFields DEF Region, RegionOf
  <2> QED BY <2>1, <2>2, <1>7
<1>9. RangesWellLaid(ranges', os')
  <2>1. ASSUME NEW i \in DOMAIN ranges'
        PROVE  /\ ranges'[i].next <= ranges'[i].total
               /\ \A q \in RegionOf(ranges'[i]) : q \in Page /\ os'[q] # "free"
    <3>1. CASE i \in DOMAIN ranges
      BY <3>1, <1>3, <1>7
    <3>2. CASE i = Len(ranges')
      BY <3>2, <1>3, <1>5, <1>6
    <3> QED BY <3>1, <3>2, <1>2, <1>3, <1>4
  <2>2. ASSUME NEW i \in DOMAIN ranges', NEW j \in DOMAIN ranges', i # j
        PROVE  RegionOf(ranges'[i]) \cap RegionOf(ranges'[j]) = {}
    <3>1. CASE i \in DOMAIN ranges /\ j \in DOMAIN ranges
      BY <2>2, <3>1, <1>3 DEF IInv, Layout
    <3>2. CASE i \in DOMAIN ranges /\ j = Len(ranges')
      BY <3>2, <1>3, <1>6, <1>7
    <3>3. CASE i = Len(ranges') /\ j \in DOMAIN ranges
      BY <3>3, <1>3, <1>6, <1>7
    <3>4. (i \in DOMAIN ranges \/ i = Len(ranges')) /\ (j \in DOMAIN ranges \/ j = Len(ranges'))
      BY <1>2, <1>3, <1>4
    <3> QED BY <2>2, <3>1, <3>2, <3>3, <3>4
  <2> QED BY <2>1, <2>2 DEF RangesWellLaid
<1>10. (\A i \in DOMAIN ranges : i \in DOMAIN ranges') /\ Len(ranges') \in DOMAIN ranges'
  BY <1>2, <1>3, <1>4
<1> QED BY <1>2, <1>3, <1>5, <1>8, <1>9, <1>10

\* A new range holds at least what was asked for and at least one page.
LEMMA NewTotalBounds ==
    ASSUME NEW n \in Nat
    PROVE  NewTotal(n) \in Nat /\ NewTotal(n) > 0 /\ n <= NewTotal(n)
BY StompAssumption DEF NewTotal

\* Allocation at the start of a new range.
LEMMA AllocateInNewRange ==
    ASSUME IInv, NEW n \in Nat, n > 0, NEW b \in Page, AllocInNewRange(n, b)
    PROVE  Allocated(n, b)
<1> DEFINE t == NewTotal(n)
<1>1. t \in Nat /\ t > 0 /\ n <= t
  BY NewTotalBounds
<1>2. /\ CanReserve(b, t)
      /\ ranges' = Append(ranges, [base |-> b, total |-> t, next |-> n])
      /\ os' = [p \in Page |-> IF p \in Region(b, n) THEN "committed"
                               ELSE IF p \in Region(b, t) THEN "reserved"
                               ELSE os[p]]
  BY DEF AllocInNewRange
<1>3. Region(b, n) \subseteq Region(b, t)
  BY <1>1 DEF Region, Page
<1>4. \A q \in Region(b, t) : q \in Page /\ os[q] = "free"
  BY <1>2 DEF CanReserve
<1>5. os \in [Page -> PageState]
  BY DEF IInv, TypeOK, StompTypeOK
<1>6. os' \in [Page -> PageState]
  BY <1>2, <1>5 DEF PageState
<1>7. /\ \A q \in Region(b, t) : os'[q] # "free"
      /\ \A q \in Region(b, n) : os'[q] = "committed"
      /\ \A q \in Page \ Region(b, t) : os'[q] = os[q]
  BY <1>2, <1>3, <1>4
<1> HIDE DEF t
<1>8. /\ \A p \in Recorded : Extent(p) \cap Region(b, t) = {}
      /\ ranges' \in Seq(ReservedRange)
      /\ RangesWellLaid(ranges', os')
      /\ \A i \in DOMAIN ranges : i \in DOMAIN ranges' /\ ranges'[i] = ranges[i]
      /\ Len(ranges') \in DOMAIN ranges'
      /\ ranges'[Len(ranges')] = [base |-> b, total |-> t, next |-> n]
  BY <1>1, <1>2, <1>6, <1>7, ReserveRange
<1>9. \A i \in DOMAIN ranges : \E j \in DOMAIN ranges' :
          Region(ranges[i].base, ranges[i].next)
             \subseteq Region(ranges'[j].base, ranges'[j].next)
  BY <1>8
<1>10. \E j \in DOMAIN ranges' :
          Region(b, n) \subseteq Region(ranges'[j].base, ranges'[j].next)
  BY <1>8
<1>11. \A q \in Page \ Region(b, n) : os[q] # "free" => os'[q] = os[q]
  BY <1>4, <1>7
<1> QED BY <1>3, <1>4, <1>6, <1>7, <1>8, <1>9, <1>10, <1>11 DEF Allocated

\* Wrapping arithmetic stays within the modulus.
LEMMA ModBounds ==
    ASSUME NEW g \in Nat
    PROVE  (g + 1) % GenMod \in 0 .. (GenMod - 1)
<1>1. ASSUME NEW a \in Nat, NEW m \in Nat, m > 0 PROVE a % m \in 0 .. (m - 1)
  BY <1>1
<1>2. GenMod \in Nat /\ GenMod > 0 /\ g + 1 \in Nat
  BY GuardParamsAssumption
<1> QED BY <1>1, <1>2

\* Recording a fresh allocation, as the three sets of the ledger see it.
LEMMA RecordSets ==
    ASSUME LedgerTypeOK, NEW b \in Page, NEW n \in Nat, NEW size \in Nat,
           NEW phase \in Phase, RecordAlloc(b, n, size, phase)
    PROVE  /\ LedgerTypeOK'
           /\ Live' = Live \cup {b} /\ Freed' = Freed \ {b}
           /\ Recorded' = Recorded \cup {b}
           /\ ledger'[b].pages = n /\ ledger'[b].size = size
           /\ \A p \in Page \ {b} : ledger'[p] = ledger[p]
<1> DEFINE new == [state |-> "live", pages |-> n, size |-> size, phase |-> phase,
                   gen |-> ledgerGen]
<1>1. ledger \in [Page -> Entry] /\ ledgerGen \in Nat /\ stats \in Stats
  BY GuardParamsAssumption DEF LedgerTypeOK
<1>2. new \in Entry
  BY <1>1 DEF Entry, EntryState
<1>3. ledger' = [ledger EXCEPT ![b] = new]
  BY DEF RecordAlloc
<1>4. ledger' \in [Page -> Entry]
  BY <1>1, <1>2, <1>3
<1>5. ledgerGen' \in 0 .. (GenMod - 1)
  BY <1>1, ModBounds, GuardParamsAssumption DEF RecordAlloc
<1>6. stats' \in Stats
  BY <1>1 DEF RecordAlloc, Stats
<1>7. ledger'[b] = new /\ \A p \in Page \ {b} : ledger'[p] = ledger[p]
  BY <1>1, <1>3
<1>8. Live' = Live \cup {b} /\ Freed' = Freed \ {b} /\ Recorded' = Recorded \cup {b}
  BY <1>7 DEF Live, Freed, Recorded
<1> QED BY <1>4, <1>5, <1>6, <1>7, <1>8 DEF LedgerTypeOK

\* Freeing a live pointer turns its entry into a tombstone of the same extent.
LEMMA BurySets ==
    ASSUME LedgerTypeOK, NEW a \in Live, Bury(a)
    PROVE  /\ LedgerTypeOK'
           /\ Live' = Live \ {a} /\ Freed' = Freed \cup {a} /\ Recorded' = Recorded
           /\ \A p \in Page : /\ ledger'[p].pages = ledger[p].pages
                             /\ ledger'[p].size = ledger[p].size
<1>1. ledger \in [Page -> Entry] /\ stats \in Stats /\ a \in Page
  BY DEF LedgerTypeOK, Live
<1>2. ledger' = [ledger EXCEPT ![a].state = "freed"]
  BY DEF Bury
<1>3. ledger' \in [Page -> Entry]
  BY <1>1, <1>2 DEF Entry, EntryState
<1>4. /\ \A p \in Page \ {a} : ledger'[p] = ledger[p]
      /\ ledger'[a].state = "freed"
      /\ ledger'[a].pages = ledger[a].pages /\ ledger'[a].size = ledger[a].size
  BY <1>1, <1>2 DEF Entry
<1>5. stats' \in Stats
  BY <1>1 DEF Bury, Stats, SatSub, Entry
<1>6. ledgerGen' \in 0 .. (GenMod - 1)
  BY DEF Bury, LedgerTypeOK
<1>7. ledger[a].state = "live"
  BY DEF Live
<1>8. Live' = Live \ {a} /\ Freed' = Freed \cup {a} /\ Recorded' = Recorded
  BY <1>1, <1>4, <1>7 DEF Live, Freed, Recorded
<1> QED BY <1>3, <1>4, <1>5, <1>6, <1>8 DEF LedgerTypeOK

-----------------------------------------------------------------------------

\* Where memory is handed out, nothing is or was recorded since the last reset.
LEMMA AllocatedIsFresh ==
    ASSUME IInv, NEW n \in Nat, n > 0, NEW b \in Page, Allocated(n, b)
    PROVE  b \notin Recorded
<1>1. b \in Region(b, n)
  BY DEF Region, Page
<1>2. ASSUME b \in Recorded PROVE b \in Extent(b)
  <2>1. ledger[b].pages \in Nat /\ ledger[b].pages > 0
    BY <1>2 DEF IInv, TypeOK, Layout, LedgerTypeOK, Entry
  <2> QED BY <2>1 DEF Extent, Region, Page
<1> QED BY <1>1, <1>2 DEF Allocated

\* An allocation keeps the invariant.
LEMMA AllocIInv ==
    ASSUME IInv, NEW t \in Thread, NEW size \in Size, NEW phase \in Phase, NEW b \in Page,
           Alloc(t, size, phase, b)
    PROVE  IInv'
<1> DEFINE n == PagesFor(size)
<1>1. size \in Nat
  BY GuardAssumption
<1>2. n \in Nat /\ n > 0
  BY <1>1, PagesForPositive
<1>3. /\ StompAllocate(n, b) /\ RecordAlloc(b, n, size, phase)
      /\ UNCHANGED <<doomed, alive, resets>>
  BY DEF Alloc
<1> HIDE DEF n
<1>4. Allocated(n, b)
  BY <1>2, <1>3, AllocateInRange, AllocateInNewRange DEF StompAllocate
<1>5. LedgerTypeOK
  BY DEF IInv, TypeOK
<1>6. /\ LedgerTypeOK'
      /\ Live' = Live \cup {b} /\ Freed' = Freed \ {b} /\ Recorded' = Recorded \cup {b}
      /\ ledger'[b].pages = n /\ ledger'[b].size = size
      /\ \A p \in Page \ {b} : ledger'[p] = ledger[p]
  BY <1>1, <1>2, <1>3, <1>5, RecordSets
<1>7. Recorded = Live \cup Freed /\ Recorded \subseteq Page
  BY <1>5, RecordedSplit
<1>8. b \notin Recorded
  BY <1>2, <1>4, AllocatedIsFresh
<1>9. Freed' = Freed
  BY <1>6, <1>7, <1>8
<1>10. /\ Extent(b)' = Region(b, n)
       /\ \A p \in Recorded : Extent(p)' = Extent(p)
  BY <1>6, <1>7, <1>8 DEF Extent
<1>11. \A p \in Recorded : \A q \in Extent(p) : q \in Page /\ os[q] # "free" /\ q \notin Region(b, n)
  <2>1. ASSUME NEW p \in Recorded, NEW q \in Extent(p) PROVE q \in Page /\ os[q] # "free"
    <3>1. PICK i \in DOMAIN ranges : q \in Region(ranges[i].base, ranges[i].next)
      BY DEF IInv, Layout
    <3>2. q \in RegionOf(ranges[i])
      BY <3>1, RangeFields DEF Region, RegionOf
    <3> QED BY <3>2 DEF IInv, Layout
  <2> QED BY <2>1, <1>4 DEF Allocated
<1>12. \A p \in Recorded : \A q \in Extent(p) : os'[q] = os[q]
  BY <1>4, <1>11 DEF Allocated
<1>13. TypeOK'
  <2>1. bits' \subseteq Page /\ stompGen' = (stompGen + 1) % GenMod
    BY <1>3, <1>4 DEF Allocated, StompAllocate, AllocInRange, AllocInNewRange,
                      IInv, TypeOK, StompTypeOK
  <2>2. stompGen' \in 0 .. (GenMod - 1)
    BY <2>1, ModBounds, GuardParamsAssumption DEF IInv, TypeOK, StompTypeOK
  <2>3. StompTypeOK'
    BY <2>1, <2>2, <1>4 DEF Allocated, StompTypeOK
  <2> QED BY <2>3, <1>3, <1>6 DEF IInv, TypeOK
<1>14. Layout'
  <2>1. ASSUME NEW p \in Recorded'
        PROVE  /\ ledger'[p].pages > 0
               /\ \E j \in DOMAIN ranges' :
                     Extent(p)' \subseteq Region(ranges'[j].base, ranges'[j].next)
    <3>1. CASE p = b
      BY <3>1, <1>2, <1>4, <1>6, <1>10 DEF Allocated
    <3>2. CASE p \in Recorded
      <4>1. PICK i \in DOMAIN ranges : Extent(p) \subseteq Region(ranges[i].base, ranges[i].next)
        BY <3>2 DEF IInv, Layout
      <4>2. PICK j \in DOMAIN ranges' :
               Region(ranges[i].base, ranges[i].next)
                  \subseteq Region(ranges'[j].base, ranges'[j].next)
        BY <1>4 DEF Allocated
      <4>3. ledger'[p].pages > 0
        BY <3>2, <1>6, <1>7, <1>8 DEF IInv, Layout
      <4> QED BY <3>2, <4>1, <4>2, <4>3, <1>10
    <3> QED BY <3>1, <3>2, <1>6
  <2>2. RangesWellLaid(ranges', os')
    BY <1>4 DEF Allocated
  <2> QED BY <2>1, <2>2 DEF Layout, RangesWellLaid
<1>15. ExtentsDisjoint'
  <2>1. ASSUME NEW p \in Recorded', NEW q \in Recorded', p # q
        PROVE  Extent(p)' \cap Extent(q)' = {}
    <3>1. CASE p \in Recorded /\ q \in Recorded
      BY <2>1, <3>1, <1>10 DEF IInv, ExtentsDisjoint
    <3>2. CASE p \in Recorded /\ q = b
      BY <3>2, <1>4, <1>10 DEF Allocated
    <3>3. CASE p = b /\ q \in Recorded
      BY <3>3, <1>4, <1>10 DEF Allocated
    <3> QED BY <2>1, <3>1, <3>2, <3>3, <1>6
  <2> QED BY <2>1 DEF ExtentsDisjoint
<1>16. LiveIsBacked'
  <2>1. ASSUME NEW p \in Live', NEW q \in Extent(p)' PROVE q \in Page /\ os'[q] = "committed"
    <3>1. CASE p = b
      BY <2>1, <3>1, <1>4, <1>10 DEF Allocated
    <3>2. CASE p \in Live
      BY <2>1, <3>2, <1>7, <1>10, <1>12 DEF IInv, LiveIsBacked
    <3> QED BY <3>1, <3>2, <1>6
  <2>2. ASSUME NEW p \in Live'
        PROVE  ledger'[p].size + HeaderSize <= ledger'[p].pages * PageSize
    <3>1. CASE p = b
      BY <3>1, <1>1, <1>6, PagesForHolds DEF n
    <3>2. CASE p \in Live
      BY <3>2, <1>6, <1>7, <1>8 DEF IInv, LiveIsBacked
    <3> QED BY <2>2, <3>1, <3>2, <1>6
  <2> QED BY <2>1, <2>2 DEF LiveIsBacked
<1>17. FreedFaults'
  <2>1. ASSUME NEW p \in Freed', NEW q \in Extent(p)'
        PROVE  q \in Page /\ os'[q] \in {"reserved", "stuck"}
    BY <2>1, <1>7, <1>9, <1>10, <1>12 DEF IInv, FreedFaults
  <2> QED BY <2>1 DEF FreedFaults
<1> QED BY <1>13, <1>14, <1>15, <1>16, <1>17 DEF IInv

\* An allocation whose first commit in a new range is refused.
LEMMA AllocFailsIInv ==
    ASSUME IInv, NEW t \in Thread, NEW size \in Size, NEW b \in Page,
           AllocFails(t, size, b)
    PROVE  IInv'
<1> DEFINE total == NewTotal(PagesFor(size))
<1>1. PagesFor(size) \in Nat
  BY GuardAssumption, PagesForPositive
<1>2. total \in Nat /\ total > 0
  BY <1>1, NewTotalBounds
<1>3. /\ CanReserve(b, total)
      /\ os' = Remap(Region(b, total), "reserved")
      /\ ranges' = Append(ranges, [base |-> b, total |-> total, next |-> 0])
      /\ UNCHANGED <<bits, stompGen, ledger, ledgerGen, stats, doomed, alive, resets>>
  BY DEF AllocFails, CommitRefusedInNewRange
<1> HIDE DEF total
<1>4. os \in [Page -> PageState]
  BY DEF IInv, TypeOK, StompTypeOK
<1>5. /\ os' \in [Page -> PageState]
      /\ \A q \in Region(b, total) : os'[q] # "free"
      /\ \A q \in Page \ Region(b, total) : os'[q] = os[q]
  BY <1>3, <1>4 DEF Remap, PageState, CanReserve
<1>6. /\ \A p \in Recorded : Extent(p) \cap Region(b, total) = {}
      /\ ranges' \in Seq(ReservedRange)
      /\ RangesWellLaid(ranges', os')
      /\ \A i \in DOMAIN ranges : i \in DOMAIN ranges' /\ ranges'[i] = ranges[i]
  BY <1>2, <1>3, <1>5, ReserveRange
<1>7. /\ Live' = Live /\ Freed' = Freed /\ Recorded' = Recorded
      /\ \A p \in Page : Extent(p)' = Extent(p)
  BY <1>3 DEF Live, Freed, Recorded, Extent
<1>8. Recorded = Live \cup Freed /\ Recorded \subseteq Page
  BY RecordedSplit DEF IInv, TypeOK
<1>9. TypeOK'
  BY <1>3, <1>5, <1>6 DEF IInv, TypeOK, StompTypeOK, LedgerTypeOK
<1>10. Layout'
  <2>1. ASSUME NEW p \in Recorded
        PROVE  /\ ledger[p].pages > 0
               /\ \E j \in DOMAIN ranges' :
                     Extent(p) \subseteq Region(ranges'[j].base, ranges'[j].next)
    BY <1>6 DEF IInv, Layout
  <2>2. ASSUME NEW p \in Recorded'
        PROVE  /\ ledger'[p].pages > 0
               /\ \E j \in DOMAIN ranges' :
                     Extent(p)' \subseteq Region(ranges'[j].base, ranges'[j].next)
    BY <2>1, <1>3, <1>7, <1>8
  <2>3. RangesWellLaid(ranges', os')
    BY <1>6
  <2> QED BY <2>2, <2>3 DEF Layout, RangesWellLaid
<1>11. ExtentsDisjoint'
  BY <1>7, <1>8 DEF IInv, ExtentsDisjoint
<1>12. LiveIsBacked'
  BY <1>3, <1>5, <1>6, <1>7, <1>8 DEF IInv, LiveIsBacked
<1>13. FreedFaults'
  BY <1>5, <1>6, <1>7, <1>8 DEF IInv, FreedFaults
<1> QED BY <1>9, <1>10, <1>11, <1>12, <1>13 DEF IInv

\* The first free of a live pointer.
LEMMA FreeIInv ==
    ASSUME IInv, NEW t \in Thread, NEW a \in Page, NEW ok \in BOOLEAN, Free(t, a, ok)
    PROVE  IInv'
<1>1. a \in Live
  BY RecordedSplit DEF Free, Verdict, IInv, TypeOK
<1>2. /\ Bury(a) /\ Quarantine(a, ledger[a].pages, ok)
      /\ UNCHANGED <<doomed, alive, resets>>
  BY DEF Free
<1>3. /\ LedgerTypeOK'
      /\ Live' = Live \ {a} /\ Freed' = Freed \cup {a} /\ Recorded' = Recorded
      /\ \A p \in Page : /\ ledger'[p].pages = ledger[p].pages
                        /\ ledger'[p].size = ledger[p].size
  BY <1>1, <1>2, BurySets DEF IInv, TypeOK
<1>4. Recorded = Live \cup Freed /\ Recorded \subseteq Page
  BY RecordedSplit DEF IInv, TypeOK
<1>5. \A p \in Page : Extent(p)' = Extent(p)
  BY <1>3 DEF Extent
<1>6. /\ os' = Remap(Extent(a), IF ok THEN "reserved" ELSE "stuck")
      /\ UNCHANGED <<ranges, stompGen>>
      /\ bits' \subseteq bits
  BY <1>2 DEF Quarantine, Extent
<1>7. os \in [Page -> PageState]
  BY DEF IInv, TypeOK, StompTypeOK
<1>8. /\ os' \in [Page -> PageState]
      /\ \A q \in Page \ Extent(a) : os'[q] = os[q]
      /\ \A q \in Page : os[q] # "free" => os'[q] # "free"
      /\ \A q \in Extent(a) : q \in Page => os'[q] \in {"reserved", "stuck"}
  BY <1>6, <1>7 DEF Remap, PageState
<1>9. \A q \in Extent(a) : q \in Page
  BY <1>1 DEF IInv, LiveIsBacked
<1>10. \A p \in Recorded \ {a} : Extent(p) \cap Extent(a) = {}
  BY <1>1, <1>4 DEF IInv, ExtentsDisjoint
<1>11. TypeOK'
  BY <1>2, <1>3, <1>6, <1>8 DEF IInv, TypeOK, StompTypeOK
<1>12. Layout'
  <2>1. \A i \in DOMAIN ranges :
           /\ ranges[i].next <= ranges[i].total
           /\ \A q \in RegionOf(ranges[i]) : q \in Page /\ os'[q] # "free"
    BY <1>8 DEF IInv, Layout
  <2>2. \A i, j \in DOMAIN ranges :
           i # j => RegionOf(ranges[i]) \cap RegionOf(ranges[j]) = {}
    BY DEF IInv, Layout
  <2>3. \A p \in Recorded :
           /\ ledger'[p].pages > 0
           /\ \E i \in DOMAIN ranges :
                 Extent(p)' \subseteq Region(ranges[i].base, ranges[i].next)
    BY <1>3, <1>4, <1>5 DEF IInv, Layout
  <2> QED BY <2>1, <2>2, <2>3, <1>3, <1>6 DEF Layout
<1>13. ExtentsDisjoint'
  BY <1>3, <1>4, <1>5 DEF IInv, ExtentsDisjoint
<1>14. LiveIsBacked'
  BY <1>3, <1>4, <1>5, <1>8, <1>10 DEF IInv, LiveIsBacked
<1>15. FreedFaults'
  <2>1. ASSUME NEW p \in Freed', NEW q \in Extent(p)
        PROVE  q \in Page /\ os'[q] \in {"reserved", "stuck"}
    <3>1. CASE p = a
      BY <2>1, <3>1, <1>8, <1>9
    <3>2. CASE p # a
      <4>1. p \in Freed /\ p \in Recorded \ {a}
        BY <3>2, <1>3, <1>4
      <4>2. q \in Page /\ os[q] \in {"reserved", "stuck"}
        BY <2>1, <4>1 DEF IInv, FreedFaults
      <4> QED BY <2>1, <4>1, <4>2, <1>8, <1>10
    <3> QED BY <3>1, <3>2
  <2> QED BY <2>1, <1>3, <1>4, <1>5 DEF FreedFaults
<1> QED BY <1>11, <1>12, <1>13, <1>14, <1>15 DEF IInv

\* Steps that leave the heap alone: a bad free, the abort, and stuttering.
LEMMA HeapUnchangedIInv ==
    ASSUME IInv, TypeOK', UNCHANGED heapVars
    PROVE  IInv'
<1>1. /\ UNCHANGED <<os, ranges, ledger>>
      /\ Live' = Live /\ Freed' = Freed /\ Recorded' = Recorded
      /\ \A p \in Page : Extent(p)' = Extent(p)
  BY DEF heapVars, Live, Freed, Recorded, Extent
<1>2. Recorded = Live \cup Freed /\ Recorded \subseteq Page
  BY RecordedSplit DEF IInv, TypeOK
<1>3. Layout'
  BY <1>1, <1>2 DEF IInv, Layout
<1>4. ExtentsDisjoint' /\ LiveIsBacked' /\ FreedFaults'
  BY <1>1, <1>2 DEF IInv, ExtentsDisjoint, LiveIsBacked, FreedFaults
<1> QED BY <1>3, <1>4 DEF IInv

\* A reset forgets every range and every entry at once.
LEMMA ResetIInv ==
    ASSUME IInv, NEW t \in Thread, NEW kept, Reset(t, kept)
    PROVE  IInv'
<1>1. /\ ReleaseAll(kept) /\ Clear /\ resets < MaxResets /\ resets' = resets + 1
      /\ UNCHANGED <<doomed, alive>>
  BY DEF Reset
<1>2. ranges' = <<>> /\ ranges' \in Seq(ReservedRange) /\ DOMAIN ranges' = {}
  BY <1>1 DEF ReleaseAll
<1>3. os' \in [Page -> PageState] /\ bits' \subseteq Page /\ stompGen' \in 0 .. (GenMod - 1)
  BY <1>1, GuardParamsAssumption DEF ReleaseAll, IInv, TypeOK, StompTypeOK, PageState
<1>4. LedgerTypeOK'
  BY <1>1, GuardParamsAssumption
     DEF Clear, LedgerTypeOK, Absent, NoStats, Entry, EntryState, Stats
<1>5. Live' = {} /\ Freed' = {} /\ Recorded' = {}
  BY <1>1 DEF Clear, Absent, Live, Freed, Recorded
<1>6. TypeOK'
  BY <1>1, <1>2, <1>3, <1>4, GuardAssumption DEF IInv, TypeOK, StompTypeOK
<1>7. Layout' /\ ExtentsDisjoint' /\ LiveIsBacked' /\ FreedFaults'
  BY <1>2, <1>5 DEF Layout, ExtentsDisjoint, LiveIsBacked, FreedFaults
<1> QED BY <1>6, <1>7 DEF IInv

\* Every step keeps the invariant.
LEMMA NextIInv == IInv /\ [Next]_vars => IInv'
<1> SUFFICES ASSUME IInv, [Next]_vars PROVE IInv'
  OBVIOUS
<1>1. ASSUME NEW t \in Thread, NEW size \in Size, NEW phase \in Phase, NEW p \in Page,
             Alloc(t, size, phase, p)
      PROVE  IInv'
  BY <1>1, AllocIInv
<1>2. ASSUME NEW t \in Thread, NEW size \in Size, NEW p \in Page, AllocFails(t, size, p)
      PROVE  IInv'
  BY <1>2, AllocFailsIInv
<1>3. ASSUME NEW t \in Thread, NEW p \in Page, NEW ok \in BOOLEAN, Free(t, p, ok)
      PROVE  IInv'
  BY <1>3, FreeIInv
<1>4. ASSUME NEW t \in Thread, NEW p \in Page, BadFree(t, p)
      PROVE  IInv'
  <2>1. TypeOK' /\ UNCHANGED heapVars
    BY <1>4 DEF BadFree, heapVars, IInv, TypeOK, StompTypeOK, LedgerTypeOK
  <2> QED BY <2>1, HeapUnchangedIInv
<1>5. ASSUME NEW t \in Thread, NEW kept \in SUBSET (DOMAIN ranges), Reset(t, kept)
      PROVE  IInv'
  BY <1>5, ResetIInv
<1>6. ASSUME NEW t \in Thread, Abort(t)
      PROVE  IInv'
  <2>1. TypeOK' /\ UNCHANGED heapVars
    BY <1>6 DEF Abort, heapVars, IInv, TypeOK, StompTypeOK, LedgerTypeOK
  <2> QED BY <2>1, HeapUnchangedIInv
<1>7. ASSUME UNCHANGED vars
      PROVE  IInv'
  <2>1. TypeOK' /\ UNCHANGED heapVars
    BY <1>7 DEF vars, heapVars, IInv, TypeOK, StompTypeOK, LedgerTypeOK
  <2> QED BY <2>1, HeapUnchangedIInv
<1> QED BY <1>1, <1>2, <1>3, <1>4, <1>5, <1>6, <1>7 DEF Next

(***************************************************************************)
(* Whatever threads do and however the OS answers, a live allocation fits  *)
(* its pages and is backed by memory, no page belongs to two recorded      *)
(* allocations, and the ranges hold everything recorded behind their       *)
(* cursors.                                                                *)
(***************************************************************************)
THEOREM HeapSafety ==
    Spec => [](TypeOK /\ Layout /\ ExtentsDisjoint /\ LiveIsBacked)
<1>1. IInv => TypeOK /\ Layout /\ ExtentsDisjoint /\ LiveIsBacked
  BY DEF IInv
<1> QED BY <1>1, InitIInv, NextIInv, PTL DEF Spec

\* Every page of a freed allocation faults on access, but for those the OS refused to
\* decommit, and no other allocation is ever given one: a use after free cannot reach
\* somebody else's memory.
THEOREM UseAfterFreeFaults == Spec => []FreedFaults
<1>1. IInv => FreedFaults
  BY DEF IInv
<1> QED BY <1>1, InitIInv, NextIInv, PTL DEF Spec

-----------------------------------------------------------------------------

\* What an allocation does to the ledger.
LEMMA AllocEffect ==
    ASSUME IInv, NEW t \in Thread, NEW size \in Size, NEW phase \in Phase, NEW b \in Page,
           Alloc(t, size, phase, b)
    PROVE  /\ b \notin Recorded
           /\ Live' = Live \cup {b} /\ Freed' = Freed
           /\ \A p \in Page \ {b} : ledger'[p] = ledger[p]
           /\ stats'.liveAllocs = stats.liveAllocs + 1
           /\ stats'.totalAllocs = stats.totalAllocs + 1
           /\ stats'.totalFrees = stats.totalFrees
<1> DEFINE n == PagesFor(size)
<1>1. size \in Nat /\ n \in Nat /\ n > 0
  BY GuardAssumption, PagesForPositive
<1>2. StompAllocate(n, b) /\ RecordAlloc(b, n, size, phase)
  BY DEF Alloc
<1> HIDE DEF n
<1>3. b \notin Recorded
  BY <1>1, <1>2, AllocateInRange, AllocateInNewRange, AllocatedIsFresh DEF StompAllocate
<1>4. LedgerTypeOK
  BY DEF IInv, TypeOK
<1>5. /\ Live' = Live \cup {b} /\ Freed' = Freed \ {b}
      /\ \A p \in Page \ {b} : ledger'[p] = ledger[p]
  BY <1>1, <1>2, <1>4, RecordSets
<1>6. Freed' = Freed
  BY <1>3, <1>4, <1>5, RecordedSplit
<1>7. /\ stats'.liveAllocs = stats.liveAllocs + 1
      /\ stats'.totalAllocs = stats.totalAllocs + 1
      /\ stats'.totalFrees = stats.totalFrees
  BY <1>2 DEF RecordAlloc
<1> QED BY <1>3, <1>5, <1>6, <1>7

\* The sets of live and freed addresses are finite.
LEMMA LedgerSetsFinite ==
    IsFiniteSet(Live) /\ IsFiniteSet(Freed)
<1>1. IsFiniteSet(Page)
  BY GuardParamsAssumption, FS_Interval DEF Page
<1> QED BY <1>1, FS_Subset DEF Live, Freed

\* Counting follows one allocation.
LEMMA AllocCounts ==
    ASSUME IInv, CountersAgree, NEW t \in Thread, NEW size \in Size, NEW phase \in Phase,
           NEW b \in Page, Alloc(t, size, phase, b)
    PROVE  CountersAgree'
<1>1. Cardinality(Live') = Cardinality(Live) + 1
  <2>1. b \notin Live
    BY AllocEffect DEF Live, Recorded
  <2>2. Live' = Live \cup {b}
    BY AllocEffect
  <2> QED BY <2>1, <2>2, LedgerSetsFinite, FS_AddElement
<1>2. Cardinality(Freed') = Cardinality(Freed)
  BY AllocEffect
<1>3. Cardinality(Live) \in Nat /\ Cardinality(Freed) \in Nat
  BY LedgerSetsFinite, FS_CardinalityType
<1> QED BY <1>1, <1>2, <1>3, AllocEffect DEF CountersAgree

\* Counting follows one free: the subtraction never saturates, since a pointer
\* that is being freed is counted.
LEMMA FreeCounts ==
    ASSUME IInv, CountersAgree, NEW t \in Thread, NEW a \in Page, NEW ok \in BOOLEAN,
           Free(t, a, ok)
    PROVE  CountersAgree'
<1>1. a \in Live
  BY RecordedSplit DEF Free, Verdict, IInv, TypeOK
<1>2. Live' = Live \ {a} /\ Freed' = Freed \cup {a}
  BY <1>1, BurySets DEF Free, IInv, TypeOK
<1>3. a \notin Freed
  BY <1>1 DEF Live, Freed
<1>4. Cardinality(Live') = Cardinality(Live) - 1 /\ Cardinality(Freed') = Cardinality(Freed) + 1
  BY <1>1, <1>2, <1>3, LedgerSetsFinite, FS_RemoveElement, FS_AddElement
<1>5. Cardinality(Live) \in Nat /\ Cardinality(Freed) \in Nat /\ Cardinality(Live') \in Nat
  <2>1. IsFiniteSet(Live')
    BY <1>2, LedgerSetsFinite, FS_RemoveElement
  <2> QED BY <2>1, LedgerSetsFinite, FS_CardinalityType
<1>6. stats.liveAllocs > 0
  BY <1>4, <1>5 DEF CountersAgree
<1>7. /\ stats'.liveAllocs = stats.liveAllocs - 1
      /\ stats'.totalAllocs = stats.totalAllocs
      /\ stats'.totalFrees = stats.totalFrees + 1
  BY <1>5, <1>6 DEF Free, Bury, SatSub, CountersAgree
<1> QED BY <1>4, <1>5, <1>7 DEF CountersAgree

\* Counting starts, and starts again after a reset, from an empty table.
LEMMA EmptyCounts ==
    /\ Init => CountersAgree
    /\ Clear => CountersAgree'
<1>1. ASSUME Init PROVE CountersAgree
  <2>1. Live = {} /\ Freed = {} /\ stats = NoStats
    BY <1>1 DEF Init, LedgerInit, Absent, Live, Freed
  <2> QED BY <2>1, FS_EmptySet DEF CountersAgree, NoStats
<1>2. ASSUME Clear PROVE CountersAgree'
  <2>1. Live' = {} /\ Freed' = {} /\ stats' = NoStats
    BY <1>2 DEF Clear, Absent, Live, Freed
  <2> QED BY <2>1, FS_EmptySet DEF CountersAgree, NoStats
<1> QED BY <1>1, <1>2

\* The published counters never drift from the table, over any sequence of
\* allocations, frees, refusals and resets.
THEOREM CountersNeverDrift == Spec => []CountersAgree
<1>1. IInv /\ CountersAgree /\ [Next]_vars => CountersAgree'
  <2> SUFFICES ASSUME IInv, CountersAgree, [Next]_vars PROVE CountersAgree'
    OBVIOUS
  <2>1. ASSUME NEW t \in Thread, NEW size \in Size, NEW phase \in Phase, NEW p \in Page,
               Alloc(t, size, phase, p)
        PROVE  CountersAgree'
    BY <2>1, AllocCounts
  <2>2. ASSUME NEW t \in Thread, NEW p \in Page, NEW ok \in BOOLEAN, Free(t, p, ok)
        PROVE  CountersAgree'
    BY <2>2, FreeCounts
  <2>3. ASSUME NEW t \in Thread, NEW kept \in SUBSET (DOMAIN ranges), Reset(t, kept)
        PROVE  CountersAgree'
    BY <2>3, EmptyCounts DEF Reset
  <2>4. ASSUME UNCHANGED <<ledger, stats>>
        PROVE  CountersAgree'
    BY <2>4 DEF CountersAgree, Live, Freed
  <2>5. ASSUME NEW t \in Thread, NEW size \in Size, NEW p \in Page, AllocFails(t, size, p)
        PROVE  CountersAgree'
    BY <2>5, <2>4 DEF AllocFails
  <2>6. ASSUME NEW t \in Thread, NEW p \in Page, BadFree(t, p)
        PROVE  CountersAgree'
    BY <2>6, <2>4 DEF BadFree, heapVars
  <2>7. ASSUME NEW t \in Thread, Abort(t)
        PROVE  CountersAgree'
    BY <2>7, <2>4 DEF Abort, heapVars
  <2>8. ASSUME UNCHANGED vars
        PROVE  CountersAgree'
    BY <2>8, <2>4 DEF vars
  <2> QED BY <2>1, <2>2, <2>3, <2>5, <2>6, <2>7, <2>8 DEF Next
<1> QED BY <1>1, EmptyCounts, InitIInv, NextIInv, PTL DEF Spec

-----------------------------------------------------------------------------
(* The bytes.                                                              *)

BytesInv == IsFiniteSet(LiveByte) /\ BytesAgree

\* The bytes of one allocation.
BytesOf(p, size) == {p} \X (1 .. size)

LEMMA BytesOfCount ==
    ASSUME NEW p, NEW size \in Nat
    PROVE  IsFiniteSet(BytesOf(p, size)) /\ Cardinality(BytesOf(p, size)) = size
<1>1. IsFiniteSet(1 .. size) /\ Cardinality(1 .. size) = size
  <2>1. 1 \in Int /\ size \in Int
    OBVIOUS
  <2>2. IsFiniteSet(1 .. size) /\ Cardinality(1 .. size) = IF 1 > size THEN 0 ELSE size - 1 + 1
    BY <2>1, FS_Interval
  <2> QED BY <2>2
<1>2. IsFiniteSet({p}) /\ Cardinality({p}) = 1
  BY FS_Singleton
<1>3. /\ IsFiniteSet(BytesOf(p, size))
      /\ Cardinality(BytesOf(p, size)) = Cardinality({p}) * Cardinality(1 .. size)
  BY <1>1, <1>2, FS_Product DEF BytesOf
<1> QED BY <1>1, <1>2, <1>3

\* The bytes of an allocation that is recorded are added, and were not there.
LEMMA AllocBytes ==
    ASSUME IInv, BytesInv, NEW t \in Thread, NEW size \in Size, NEW phase \in Phase,
           NEW b \in Page, Alloc(t, size, phase, b)
    PROVE  BytesInv'
<1> DEFINE new == BytesOf(b, size)
<1>1. size \in Nat /\ b \notin Live /\ Live' = Live \cup {b}
  BY AllocEffect, GuardAssumption DEF Live, Recorded
<1>2. /\ ledger'[b].size = size /\ \A p \in Live : ledger'[p] = ledger[p]
      /\ stats'.liveBytes = stats.liveBytes + size
  <2>1. RecordAlloc(b, PagesFor(size), size, phase) /\ ledger \in [Page -> Entry]
    BY DEF Alloc, IInv, TypeOK, LedgerTypeOK
  <2>2. \A p \in Page \ {b} : ledger'[p] = ledger[p]
    BY AllocEffect
  <2>3. \A p \in Live : p \in Page \ {b}
    BY <1>1 DEF Live
  <2> QED BY <2>1, <2>2, <2>3 DEF RecordAlloc
<1>3. LiveByte' = LiveByte \cup new /\ LiveByte \cap new = {}
  BY <1>1, <1>2 DEF LiveByte, BytesOf
<1>4. IsFiniteSet(new) /\ Cardinality(new) = size
  BY <1>1, BytesOfCount
<1> HIDE DEF new
<1>5. /\ IsFiniteSet(LiveByte')
      /\ Cardinality(LiveByte') = Cardinality(LiveByte) + Cardinality(new) - Cardinality({})
  BY <1>3, <1>4, FS_Union DEF BytesInv
<1>6. Cardinality(LiveByte') = Cardinality(LiveByte) + size
  BY <1>1, <1>4, <1>5, FS_EmptySet, FS_CardinalityType DEF BytesInv
<1> QED BY <1>2, <1>5, <1>6 DEF BytesInv, BytesAgree

\* The bytes of an allocation that is freed were counted, so they can be taken off.
LEMMA FreeBytes ==
    ASSUME IInv, BytesInv, NEW t \in Thread, NEW a \in Page, NEW ok \in BOOLEAN,
           Free(t, a, ok)
    PROVE  BytesInv'
<1> DEFINE size == ledger[a].size
           old  == BytesOf(a, size)
<1>1. a \in Live /\ Bury(a) /\ ledger \in [Page -> Entry] /\ LedgerTypeOK
  BY RecordedSplit DEF Free, Verdict, IInv, TypeOK, LedgerTypeOK
<1>2. Live' = Live \ {a} /\ Live \subseteq Page
  BY <1>1, BurySets DEF Live
<1>3. /\ \A p \in Live' : ledger'[p] = ledger[p]
      /\ stats'.liveBytes = SatSub(stats.liveBytes, size)
      /\ size \in Nat
  BY <1>1, <1>2 DEF Bury, Entry
<1>4. LiveByte' = LiveByte \ old /\ LiveByte \cap old = old
  BY <1>1, <1>2, <1>3 DEF LiveByte, BytesOf
<1>5. IsFiniteSet(old) /\ Cardinality(old) = size
  BY <1>3, BytesOfCount
<1> HIDE DEF size, old
<1>6. /\ IsFiniteSet(LiveByte')
      /\ Cardinality(LiveByte') = Cardinality(LiveByte) - size
  BY <1>4, <1>5, FS_Difference DEF BytesInv
<1>7. Cardinality(LiveByte') \in Nat /\ Cardinality(LiveByte) \in Nat
  BY <1>6, FS_CardinalityType DEF BytesInv
<1>8. stats'.liveBytes = Cardinality(LiveByte')
  BY <1>3, <1>6, <1>7 DEF SatSub, BytesInv, BytesAgree
<1> QED BY <1>6, <1>8 DEF BytesInv, BytesAgree

LEMMA EmptyBytes ==
    /\ Init => BytesInv
    /\ Clear => BytesInv'
<1>1. ASSUME Init PROVE BytesInv
  <2>1. Live = {} /\ LiveByte = {} /\ stats = NoStats
    BY <1>1 DEF Init, LedgerInit, Absent, Live, LiveByte
  <2> QED BY <2>1, FS_EmptySet DEF BytesInv, BytesAgree, NoStats
<1>2. ASSUME Clear PROVE BytesInv'
  <2>1. Live' = {} /\ LiveByte' = {} /\ stats' = NoStats
    BY <1>2 DEF Clear, Absent, Live, LiveByte
  <2> QED BY <2>1, FS_EmptySet DEF BytesInv, BytesAgree, NoStats
<1> QED BY <1>1, <1>2

\* The count of live bytes never drifts from the table either, and the saturating
\* subtraction that keeps it never saturates, whatever sizes are asked for.
THEOREM BytesNeverDrift == Spec => []BytesAgree
<1>1. IInv /\ BytesInv /\ [Next]_vars => BytesInv'
  <2> SUFFICES ASSUME IInv, BytesInv, [Next]_vars PROVE BytesInv'
    OBVIOUS
  <2>1. ASSUME NEW t \in Thread, NEW size \in Size, NEW phase \in Phase, NEW p \in Page,
               Alloc(t, size, phase, p)
        PROVE  BytesInv'
    BY <2>1, AllocBytes
  <2>2. ASSUME NEW t \in Thread, NEW p \in Page, NEW ok \in BOOLEAN, Free(t, p, ok)
        PROVE  BytesInv'
    BY <2>2, FreeBytes
  <2>3. ASSUME NEW t \in Thread, NEW kept \in SUBSET (DOMAIN ranges), Reset(t, kept)
        PROVE  BytesInv'
    BY <2>3, EmptyBytes DEF Reset
  <2>4. ASSUME UNCHANGED <<ledger, stats>> PROVE BytesInv'
    BY <2>4 DEF BytesInv, BytesAgree, LiveByte, Live
  <2>5. ASSUME NEW t \in Thread, NEW size \in Size, NEW p \in Page,
               AllocFails(t, size, p)
        PROVE  BytesInv'
    BY <2>4, <2>5 DEF AllocFails
  <2>6. ASSUME NEW t \in Thread, NEW p \in Page, BadFree(t, p) PROVE BytesInv'
    BY <2>4, <2>6 DEF BadFree, heapVars
  <2>7. ASSUME NEW t \in Thread, Abort(t) PROVE BytesInv'
    BY <2>4, <2>7 DEF Abort, heapVars
  <2>8. CASE UNCHANGED vars
    BY <2>4, <2>8 DEF vars
  <2> QED BY <2>1, <2>2, <2>3, <2>5, <2>6, <2>7, <2>8 DEF Next
<1>2. BytesInv => BytesAgree
  BY DEF BytesInv
<1> QED BY <1>1, <1>2, EmptyBytes, InitIInv, NextIInv, PTL DEF Spec

-----------------------------------------------------------------------------

\* An allocation hands out an address the promise calls fresh.
LEMMA AllocRefines ==
    ASSUME IInv, NEW t \in Thread, NEW size \in Size, NEW phase \in Phase, NEW b \in Page,
           Alloc(t, size, phase, b)
    PROVE  Promise!Alloc(t, b)
<1>1. /\ b \notin Recorded
      /\ Live' = Live \cup {b}
      /\ \A p \in Page \ {b} : ledger'[p] = ledger[p]
  BY AllocEffect
<1>2. Status(b) = "fresh" /\ Status(b)' = "live"
  BY <1>1 DEF Status, Recorded, Live
<1>3. \A p \in Page \ {b} : Status(p)' = Status(p)
  BY <1>1 DEF Status
<1>4. [p \in Page |-> Status(p)]' = [[p \in Page |-> Status(p)] EXCEPT ![b] = "live"]
  BY <1>2, <1>3
<1>5. Promise!Running(t) /\ UNCHANGED <<doomed, alive>>
  BY DEF Alloc, Running, Promise!Running
<1> QED BY <1>2, <1>4, <1>5 DEF Promise!Alloc

\* A first free is a free of a live address.
LEMMA FreeRefines ==
    ASSUME IInv, NEW t \in Thread, NEW a \in Page, NEW ok \in BOOLEAN, Free(t, a, ok)
    PROVE  Promise!Free(t, a)
<1>1. a \in Live
  BY RecordedSplit DEF Free, Verdict, IInv, TypeOK
<1>2. ledger \in [Page -> Entry]
  BY DEF IInv, TypeOK, LedgerTypeOK
<1>3. ledger' = [ledger EXCEPT ![a].state = "freed"]
  BY DEF Free, Bury
<1>4. ledger'[a].state = "freed" /\ \A p \in Page \ {a} : ledger'[p] = ledger[p]
  BY <1>2, <1>3 DEF Entry
<1>5. Status(a) = "live" /\ Status(a)' = "freed"
  BY <1>1, <1>4 DEF Status, Live
<1>6. \A p \in Page \ {a} : Status(p)' = Status(p)
  BY <1>4 DEF Status
<1>7. [p \in Page |-> Status(p)]' = [[p \in Page |-> Status(p)] EXCEPT ![a] = "freed"]
  BY <1>5, <1>6
<1>8. Promise!Running(t) /\ UNCHANGED <<doomed, alive>>
  BY DEF Free, Running, Promise!Running
<1> QED BY <1>5, <1>7, <1>8 DEF Promise!Free

\* A bad free condemns the thread with the verdict the promise demands.
LEMMA BadFreeRefines ==
    ASSUME IInv, NEW t \in Thread, NEW a \in Page, BadFree(t, a)
    PROVE  Promise!BadFree(t, a)
<1>1. a \notin Live /\ Verdict(a) = IF a \in Freed THEN "DoubleFree" ELSE "WildFree"
  BY RecordedSplit DEF BadFree, BadVerdict, Verdict, Live, Freed, Recorded, IInv, TypeOK
<1>2. (a \in Freed) = (Status(a) = "freed") /\ (a \in Live) = (Status(a) = "live")
  BY DEF Status, Freed, Live
<1>3. [p \in Page |-> Status(p)]' = [p \in Page |-> Status(p)]
  BY DEF BadFree, heapVars, Status
<1> QED BY <1>1, <1>2, <1>3 DEF BadFree, Running, Promise!BadFree, Promise!Running

\* A reset makes every address fresh again.
LEMMA ResetRefines ==
    ASSUME IInv, NEW t \in Thread, NEW kept, Reset(t, kept)
    PROVE  Promise!Reset(t)
<1>1. \A p \in Page : Status(p)' = "fresh"
  BY DEF Reset, Clear, Absent, Status
<1> QED BY <1>1 DEF Reset, Running, Promise!Reset, Promise!Running

\* The guard keeps the abstract promise: between resets it hands out every
\* address at most once, and it condemns exactly the frees that are bad.
THEOREM GuardKeepsPromise == Spec => KeepsPromise
<1>1. Init => Promise!Init
  <2> SUFFICES ASSUME Init PROVE Promise!Init
    OBVIOUS
  <2>1. \A p \in Page : Status(p) = "fresh"
    BY DEF Init, LedgerInit, Absent, Status
  <2> QED BY <2>1 DEF Init, Promise!Init
<1>2. IInv /\ [Next]_vars => [Promise!Next]_Promise!promiseVars
  <2> SUFFICES ASSUME IInv, [Next]_vars
               PROVE  Promise!Next \/ UNCHANGED Promise!promiseVars
    OBVIOUS
  <2>1. ASSUME NEW t \in Thread, NEW size \in Size, NEW phase \in Phase, NEW p \in Page,
               Alloc(t, size, phase, p)
        PROVE  Promise!Next
    BY <2>1, AllocRefines DEF Promise!Next
  <2>2. ASSUME NEW t \in Thread, NEW p \in Page, NEW ok \in BOOLEAN, Free(t, p, ok)
        PROVE  Promise!Next
    BY <2>2, FreeRefines DEF Promise!Next
  <2>3. ASSUME NEW t \in Thread, NEW p \in Page, BadFree(t, p)
        PROVE  Promise!Next
    BY <2>3, BadFreeRefines DEF Promise!Next
  <2>4. ASSUME NEW t \in Thread, NEW kept \in SUBSET (DOMAIN ranges), Reset(t, kept)
        PROVE  Promise!Next
    BY <2>4, ResetRefines DEF Promise!Next
  <2>5. ASSUME UNCHANGED ledger
        PROVE  [p \in Page |-> Status(p)]' = [p \in Page |-> Status(p)]
    BY <2>5 DEF Status
  <2>6. ASSUME NEW t \in Thread, Abort(t)
        PROVE  Promise!Next
    <3>1. Promise!Abort(t)
      BY <2>5, <2>6 DEF Abort, heapVars, Promise!Abort
    <3> QED BY <3>1 DEF Promise!Next
  <2>7. ASSUME NEW t \in Thread, NEW size \in Size, NEW p \in Page, AllocFails(t, size, p)
        PROVE  UNCHANGED Promise!promiseVars
    BY <2>5, <2>7 DEF AllocFails, Promise!promiseVars
  <2>8. ASSUME UNCHANGED vars
        PROVE  UNCHANGED Promise!promiseVars
    BY <2>5, <2>8 DEF vars, Promise!promiseVars
  <2> QED BY <2>1, <2>2, <2>3, <2>4, <2>6, <2>7, <2>8 DEF Next
<1> QED BY <1>1, <1>2, InitIInv, NextIInv, PTL DEF Spec, KeepsPromise, Promise!Spec
-----------------------------------------------------------------------------

\* No page ever belongs to two recorded allocations, live or freed.
THEOREM NoPageTwice == Spec => []ExtentsDisjoint
<1>1. IInv => ExtentsDisjoint
  BY DEF IInv
<1> QED BY <1>1, InitIInv, NextIInv, PTL DEF Spec

\* Every recorded allocation lies behind the cursor of one range, and ranges
\* are mapped and disjoint.
THEOREM LaidOut == Spec => []Layout
<1>1. IInv => Layout
  BY DEF IInv
<1> QED BY <1>1, InitIInv, NextIInv, PTL DEF Spec

\* The allocator and the ledger count generations in step, over wraps and resets,
\* though each keeps its own counter.
THEOREM GenerationsInStep == Spec => []GenerationsAgree
<1>1. Init => GenerationsAgree
  BY DEF Init, StompInit, LedgerInit, GenerationsAgree
<1>2. GenerationsAgree /\ [Next]_vars => GenerationsAgree'
  <2> SUFFICES ASSUME GenerationsAgree, [Next]_vars PROVE stompGen' = ledgerGen'
    BY DEF GenerationsAgree
  <2> USE DEF GenerationsAgree
  <2>1. ASSUME NEW t \in Thread, NEW size \in Size, NEW phase \in Phase, NEW p \in Page,
               Alloc(t, size, phase, p)
        PROVE  stompGen' = ledgerGen'
    BY <2>1 DEF Alloc, StompAllocate, AllocInRange, AllocInNewRange, RecordAlloc
  <2>2. ASSUME NEW t \in Thread, NEW size \in Size, NEW p \in Page, AllocFails(t, size, p)
        PROVE  stompGen' = ledgerGen'
    BY <2>2 DEF AllocFails, CommitRefusedInNewRange
  <2>3. ASSUME NEW t \in Thread, NEW p \in Page, NEW ok \in BOOLEAN, Free(t, p, ok)
        PROVE  stompGen' = ledgerGen'
    BY <2>3 DEF Free, Bury, Quarantine
  <2>4. ASSUME NEW t \in Thread, NEW kept, Reset(t, kept) PROVE stompGen' = ledgerGen'
    BY <2>4 DEF Reset, ReleaseAll, Clear
  <2>5. ASSUME UNCHANGED heapVars PROVE stompGen' = ledgerGen'
    BY <2>5 DEF heapVars
  <2> QED BY <2>1, <2>2, <2>3, <2>4, <2>5 DEF Next, BadFree, Abort, vars
<1> QED BY <1>1, <1>2, PTL DEF Spec

-----------------------------------------------------------------------------
(* The allocator's page flags.                                             *)

\* A flag is set only for a page of a range the allocator still knows.
BitsInRanges == \A q \in bits : \E i \in DOMAIN ranges : q \in RegionOf(ranges[i])

BitsInv == BitsAgree /\ BitsInRanges

\* A new range of t pages at b whose first n pages are committed and flagged.
LEMMA NewRangeBits ==
    ASSUME IInv, BitsInv, NEW n \in Nat, NEW t \in Nat, n <= t, NEW b \in Page, CanReserve(b, t),
           ranges' = Append(ranges, [base |-> b, total |-> t, next |-> n]),
           bits' = bits \cup Region(b, n),
           \A q \in Region(b, n) : os'[q] = "committed",
           \A q \in Page : /\ q \in Region(b, t) \ Region(b, n) => os'[q] = "reserved"
                           /\ q \notin Region(b, t) => os'[q] = os[q]
    PROVE  BitsInv'
<1> DEFINE new == [base |-> b, total |-> t, next |-> n]
<1>1. ranges \in Seq(ReservedRange) /\ new \in ReservedRange
  BY DEF IInv, TypeOK, StompTypeOK, ReservedRange, Page
<1>2. RegionOf(new) = Region(b, t)
  BY DEF RegionOf
<1> HIDE DEF new
<1>3. /\ \A i \in DOMAIN ranges' : i \in DOMAIN ranges \/ i = Len(ranges) + 1
      /\ \A i \in DOMAIN ranges : i \in DOMAIN ranges' /\ ranges'[i] = ranges[i]
      /\ Len(ranges) + 1 \in DOMAIN ranges' /\ ranges'[Len(ranges) + 1] = new
  <2>1. ranges' = Append(ranges, new)
    BY DEF new
  <2> QED BY <1>1, <2>1
<1>4. \A q \in Region(b, t) : q \in Page /\ os[q] = "free"
  BY DEF CanReserve
<1>5. Region(b, n) \subseteq Region(b, t)
  BY DEF Region, Page
<1>6. \A i \in DOMAIN ranges : \A q \in RegionOf(ranges[i]) : q \in Page /\ os[q] # "free"
  BY DEF IInv, Layout
<1>7. ASSUME NEW i \in DOMAIN ranges', NEW q \in RegionOf(ranges'[i])
      PROVE  (q \in bits') = (os'[q] = "committed")
  <2>1. CASE i \in DOMAIN ranges
    <3>1. /\ q \in RegionOf(ranges[i]) /\ q \notin Region(b, t) /\ q \in Page
          /\ (q \in bits) = (os[q] = "committed")
      BY <1>3, <1>4, <1>6, <1>7, <2>1 DEF BitsInv, BitsAgree
    <3> QED BY <3>1, <1>5
  <2>2. CASE i = Len(ranges) + 1
    <3>1. q \in Region(b, t)
      BY <1>2, <1>3, <1>7, <2>2
    <3>2. q \notin bits
      BY <1>4, <1>6, <3>1 DEF BitsInv, BitsInRanges
    <3>3. CASE q \in Region(b, n)
      BY <3>3
    <3>4. CASE q \notin Region(b, n)
      BY <1>4, <3>1, <3>2, <3>4
    <3> QED BY <3>3, <3>4
  <2> QED BY <1>3, <2>1, <2>2
<1>8. BitsAgree'
  BY <1>7 DEF BitsAgree
<1>9. BitsInRanges'
  BY <1>2, <1>3, <1>5 DEF BitsInv, BitsInRanges
<1> QED BY <1>8, <1>9 DEF BitsInv

\* Pages of the ranges keep their state outside the n pages at b, where flags and
\* pages are set together; new ranges bring pages without flags.
LEMMA AllocBits ==
    ASSUME IInv, BitsInv, NEW n \in Nat, n > 0, NEW b \in Page, StompAllocate(n, b)
    PROVE  BitsInv'
<1>1. Allocated(n, b)
  BY AllocateInRange, AllocateInNewRange DEF StompAllocate
<1>2. /\ bits' = bits \cup Region(b, n)
      /\ \A q \in Region(b, n) : os'[q] = "committed"
      /\ os \in [Page -> PageState] /\ os' \in [Page -> PageState]
  BY <1>1 DEF Allocated, StompAllocate, AllocInRange, AllocInNewRange, IInv, TypeOK, StompTypeOK
<1>3. CASE AllocInRange(n, b)
  <2>1. PICK i \in DOMAIN ranges : /\ IsFirstFit(i, n)
                                  /\ ranges' = [ranges EXCEPT ![i] = Advance(@, n)]
    BY <1>3 DEF AllocInRange
  <2>2. /\ DOMAIN ranges' = DOMAIN ranges
        /\ \A j \in DOMAIN ranges : RegionOf(ranges'[j]) = RegionOf(ranges[j])
    BY <2>1 DEF RegionOf, Advance
  <2>3. \A q \in Page \ Region(b, n) : os'[q] = os[q]
    BY <1>3 DEF AllocInRange, Remap
  <2>4. \A j \in DOMAIN ranges : RegionOf(ranges[j]) \subseteq Page
    BY DEF IInv, Layout
  <2>5. BitsAgree'
    BY <1>2, <2>2, <2>3, <2>4 DEF BitsInv, BitsAgree
  <2>6. ASSUME NEW q \in Region(b, n) PROVE \E j \in DOMAIN ranges' : q \in RegionOf(ranges'[j])
    <3>1. PICK j \in DOMAIN ranges' :
             Region(b, n) \subseteq Region(ranges'[j].base, ranges'[j].next)
      BY <1>1 DEF Allocated
    <3>2. ranges' \in Seq(ReservedRange) /\ RangesWellLaid(ranges', os')
      BY <1>1 DEF Allocated
    <3>3. ranges'[j] \in ReservedRange /\ ranges'[j].next <= ranges'[j].total
      BY <3>2 DEF RangesWellLaid
    <3>4. Region(ranges'[j].base, ranges'[j].next) \subseteq RegionOf(ranges'[j])
      BY <3>3 DEF Region, RegionOf, ReservedRange, Page
    <3> QED BY <3>1, <3>4
  <2>7. BitsInRanges'
    BY <1>2, <2>2, <2>6 DEF BitsInv, BitsInRanges
  <2> QED BY <2>5, <2>7 DEF BitsInv
<1>4. CASE AllocInNewRange(n, b)
  <2> DEFINE t == NewTotal(n)
  <2>1. /\ CanReserve(b, t)
        /\ ranges' = Append(ranges, [base |-> b, total |-> t, next |-> n])
        /\ t \in Nat /\ n <= t
    BY <1>4, NewTotalBounds DEF AllocInNewRange
  <2>2. \A q \in Page : /\ q \in Region(b, t) \ Region(b, n) => os'[q] = "reserved"
                        /\ q \notin Region(b, t) => os'[q] = os[q]
    <3>1. Region(b, n) \subseteq Region(b, t)
      BY <2>1 DEF Region, Page
    <3> QED BY <1>4, <3>1 DEF AllocInNewRange
  <2> HIDE DEF t
  <2> QED BY <1>2, <2>1, <2>2, NewRangeBits
<1> QED BY <1>3, <1>4 DEF StompAllocate

\* Decommitted pages lose their flags: a live allocation lies in one range.
LEMMA FreeBits ==
    ASSUME IInv, BitsInv, NEW t \in Thread, NEW a \in Page, NEW ok \in BOOLEAN, Free(t, a, ok)
    PROVE  BitsInv'
<1> DEFINE extent == Region(a, ledger[a].pages)
           left == IF ok THEN "reserved" ELSE "stuck"
<1>1. a \in Recorded
  BY DEF Free, Verdict
<1>2. /\ os' = Remap(extent, left) /\ ranges' = ranges
      /\ bits' = bits \ {p \in extent :
                            \E i \in DOMAIN ranges : {a, p} \subseteq RegionOf(ranges[i])}
  BY DEF Free, Quarantine
<1>3. PICK i \in DOMAIN ranges : extent \subseteq Region(ranges[i].base, ranges[i].next)
  BY <1>1 DEF IInv, Layout, Extent
<1>4. extent \subseteq RegionOf(ranges[i])
  <2>1. Region(ranges[i].base, ranges[i].next) \subseteq RegionOf(ranges[i])
    BY RangeFields DEF Region, RegionOf
  <2> QED BY <1>3, <2>1
<1>5. a \in extent
  <2>1. ledger[a].pages \in Nat /\ ledger[a].pages > 0
    BY <1>1 DEF IInv, Layout, TypeOK, LedgerTypeOK, Entry
  <2> QED BY <2>1 DEF Region, Page
<1> HIDE DEF extent
<1>6. bits' = bits \ extent
  BY <1>2, <1>4, <1>5
<1>7. \A j \in DOMAIN ranges : RegionOf(ranges[j]) \subseteq Page
  BY DEF IInv, Layout
<1>8. /\ \A q \in Page : os'[q] = IF q \in extent THEN left ELSE os[q]
      /\ left # "committed"
  BY <1>2 DEF Remap
<1> HIDE DEF left
<1>9. BitsAgree'
  BY <1>2, <1>6, <1>7, <1>8 DEF BitsInv, BitsAgree
<1>10. BitsInRanges'
  BY <1>2, <1>6 DEF BitsInv, BitsInRanges
<1> QED BY <1>9, <1>10 DEF BitsInv

LEMMA AllocFailsBits ==
    ASSUME IInv, BitsInv, NEW t \in Thread, NEW size \in Size, NEW b \in Page,
           AllocFails(t, size, b)
    PROVE  BitsInv'
<1> DEFINE total == NewTotal(PagesFor(size))
<1>1. total \in Nat
  BY GuardAssumption, PagesForPositive, NewTotalBounds
<1>2. /\ CanReserve(b, total)
      /\ os' = Remap(Region(b, total), "reserved")
      /\ ranges' = Append(ranges, [base |-> b, total |-> total, next |-> 0])
      /\ bits' = bits
  BY DEF AllocFails, CommitRefusedInNewRange
<1> HIDE DEF total
<1>3. Region(b, 0) = {}
  BY DEF Region, Page
<1>4. \A q \in Page : /\ q \in Region(b, total) => os'[q] = "reserved"
                      /\ q \notin Region(b, total) => os'[q] = os[q]
  BY <1>2 DEF Remap
<1> QED BY <1>1, <1>2, <1>3, <1>4, NewRangeBits

(***************************************************************************)
(* The flags of the allocator say what the OS says of every page of a      *)
(* range it knows, but for those the OS refused to decommit.               *)
(***************************************************************************)
THEOREM FlagsFollowPages == Spec => []BitsAgree
<1>1. Init => BitsInv
  BY DEF Init, StompInit, BitsInv, BitsAgree, BitsInRanges
<1>2. IInv /\ BitsInv /\ [Next]_vars => BitsInv'
  <2> SUFFICES ASSUME IInv, BitsInv, [Next]_vars PROVE BitsInv'
    OBVIOUS
  <2>1. ASSUME NEW t \in Thread, NEW size \in Size, NEW phase \in Phase, NEW p \in Page,
               Alloc(t, size, phase, p)
        PROVE  BitsInv'
    <3>1. PagesFor(size) \in Nat /\ PagesFor(size) > 0
      BY GuardAssumption, PagesForPositive
    <3>2. StompAllocate(PagesFor(size), p)
      BY <2>1 DEF Alloc
    <3> QED BY <3>1, <3>2, AllocBits
  <2>2. ASSUME NEW t \in Thread, NEW size \in Size, NEW p \in Page, AllocFails(t, size, p)
        PROVE  BitsInv'
    BY <2>2, AllocFailsBits
  <2>3. ASSUME NEW t \in Thread, NEW p \in Page, NEW ok \in BOOLEAN, Free(t, p, ok)
        PROVE  BitsInv'
    BY <2>3, FreeBits
  <2>4. ASSUME NEW t \in Thread, NEW kept, Reset(t, kept) PROVE BitsInv'
    BY <2>4 DEF Reset, ReleaseAll, BitsInv, BitsAgree, BitsInRanges
  <2>5. ASSUME UNCHANGED <<os, ranges, bits>> PROVE BitsInv'
    BY <2>5 DEF BitsInv, BitsAgree, BitsInRanges
  <2> QED BY <2>1, <2>2, <2>3, <2>4, <2>5 DEF Next, BadFree, Abort, vars, heapVars
<1> QED BY <1>1, <1>2, InitIInv, NextIInv, PTL DEF Spec, BitsInv
=============================================================================
