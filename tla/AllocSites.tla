----------------------------- MODULE AllocSites -----------------------------
(***************************************************************************)
(* The allocation-site registry (guard/sites.rs): a host registers the     *)
(* table a compiled module carries with two stores, and a thread that      *)
(* reports a bad free or a leak resolves a site id with two loads and a    *)
(* read of the entry.  The accesses are Release/Acquire, so each side's    *)
(* happen in program order.                                                *)
(***************************************************************************)
EXTENDS Integers

CONSTANTS Table,             \* tables of compiled modules
          TableLen,          \* TableLen[T]: entries of table T
          Null,              \* the null table pointer
          Reporter,          \* threads that resolve site ids
          MaxSite,           \* bound: site ids compiled into programs
          MaxRegistrations,  \* how often hosts register (or clear) a table
          MaxResolves        \* bound: resolutions per reporter

None == "none"   \* no registration in progress

ASSUME SitesAssumption ==
    /\ Null \notin Table /\ None \notin Table \cup {Null}
    /\ TableLen \in [Table -> Nat]
    /\ MaxSite \in Nat /\ MaxRegistrations \in Nat /\ MaxResolves \in Nat

VARIABLES base,      \* TABLE
          count,     \* COUNT
          pending,   \* the table whose count register_alloc_sites has yet to store
          regs,      \* registrations so far
          phase,     \* phase[r]: where reporter r is in resolve_raw
          seenBase,  \* seenBase[r]: the base it loaded
          seenCount, \* seenCount[r]: the count it loaded
          site,      \* site[r]: the site id it resolves
          answer,    \* answer[r]: the table whose entry it read, or Null
          resolves,  \* resolutions begun by each reporter
          quiet      \* history: quiet[r] if no registration overlapped r's last
                     \* resolution, nor began since

hostVars == <<base, count, pending, regs>>
sitesVars == <<hostVars, phase, seenBase, seenCount, site, answer, resolves, quiet>>

SiteId == 0 .. MaxSite

Len0(T) == IF T = Null THEN 0 ELSE TableLen[T]

SitesTypeOK ==
    /\ base \in Table \cup {Null} /\ count \in Nat
    /\ pending \in Table \cup {Null, None}
    /\ regs \in Nat
    /\ phase \in [Reporter -> {"idle", "base", "count"}]
    /\ seenBase \in [Reporter -> Table \cup {Null}]
    /\ seenCount \in [Reporter -> Nat]
    /\ site \in [Reporter -> SiteId]
    /\ answer \in [Reporter -> Table \cup {Null}]
    /\ resolves \in [Reporter -> Nat]
    /\ quiet \in [Reporter -> BOOLEAN]

SitesInit ==
    /\ base = Null /\ count = 0 /\ pending = None /\ regs = 0
    /\ phase = [r \in Reporter |-> "idle"]
    /\ seenBase = [r \in Reporter |-> Null]
    /\ seenCount = [r \in Reporter |-> 0]
    /\ site = [r \in Reporter |-> 0]
    /\ answer = [r \in Reporter |-> Null]
    /\ resolves = [r \in Reporter |-> 0]
    /\ quiet = [r \in Reporter |-> FALSE]

-----------------------------------------------------------------------------

\* register_alloc_sites, first store.
StoreBase(T) ==
    /\ pending = None
    /\ regs < MaxRegistrations
    /\ regs' = regs + 1
    /\ base' = T
    /\ pending' = T
    /\ quiet' = [r \in Reporter |-> FALSE]
    /\ UNCHANGED <<count, phase, seenBase, seenCount, site, answer, resolves>>

\* Mutant of StoreCount: the count only ever grows.
MutStoreCount ==
    /\ pending # None
    /\ count' = IF count < Len0(pending) THEN Len0(pending) ELSE count
    /\ pending' = None
    /\ UNCHANGED <<base, regs, phase, seenBase, seenCount, site, answer, resolves, quiet>>

\* register_alloc_sites, second store.
StoreCount ==
    /\ pending # None
    /\ count' = Len0(pending)
    /\ pending' = None
    /\ UNCHANGED <<base, regs, phase, seenBase, seenCount, site, answer, resolves, quiet>>

\* resolve_raw: the load of the base ...
LoadBase(r, s) ==
    /\ phase[r] = "idle"
    /\ resolves[r] < MaxResolves
    /\ resolves' = [resolves EXCEPT ![r] = @ + 1]
    /\ site' = [site EXCEPT ![r] = s]
    /\ seenBase' = [seenBase EXCEPT ![r] = base]
    /\ answer' = [answer EXCEPT ![r] = Null]
    /\ phase' = [phase EXCEPT ![r] = "base"]
    /\ quiet' = [quiet EXCEPT ![r] = (pending = None)]
    /\ UNCHANGED <<hostVars, seenCount>>

\* ... of the count ...
LoadCount(r) ==
    /\ phase[r] = "base"
    /\ seenCount' = [seenCount EXCEPT ![r] = count]
    /\ phase' = [phase EXCEPT ![r] = "count"]
    /\ UNCHANGED <<hostVars, seenBase, site, answer, resolves, quiet>>

\* Mutant of Resolvable: an off-by-one in the bound.
MutResolvable(r) == seenBase[r] # Null /\ site[r] <= seenCount[r]

Resolvable(r) == seenBase[r] # Null /\ site[r] < seenCount[r]

\* ... and the read of the entry, or None.
ReadEntry(r) ==
    /\ phase[r] = "count"
    /\ answer' = [answer EXCEPT ![r] = IF Resolvable(r) THEN seenBase[r] ELSE Null]
    /\ phase' = [phase EXCEPT ![r] = "idle"]
    /\ UNCHANGED <<hostVars, seenBase, seenCount, site, resolves, quiet>>

SitesNext ==
    \/ \E T \in Table \cup {Null} : StoreBase(T)
    \/ StoreCount
    \/ \E r \in Reporter :
          \/ \E s \in SiteId : LoadBase(r, s)
          \/ LoadCount(r)
          \/ ReadEntry(r)

SitesSpec == SitesInit /\ [][SitesNext]_sitesVars

-----------------------------------------------------------------------------

\* "site_id < count and the registrant guaranteed count valid entries": an
\* entry is read only within the table it is read from.
EntryInTable ==
    \A r \in Reporter :
        phase[r] = "count" /\ Resolvable(r) => site[r] < Len0(seenBase[r])

\* What does hold: while no table was replaced, however the resolutions and
\* the two stores of the registration interleave.
FirstTableSafe == regs <= 1 => EntryInTable

\* A resolution that no registration overlaps names a site of the registered
\* table, and names nothing for an id outside it, however many tables came
\* before.
QuietResolves ==
    \A r \in Reporter :
        quiet[r] /\ phase[r] = "idle" /\ resolves[r] > 0
        => answer[r] = IF site[r] < Len0(base) THEN base ELSE Null
=============================================================================
