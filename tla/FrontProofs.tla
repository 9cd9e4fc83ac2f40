----------------------------- MODULE FrontProofs -----------------------------
(***************************************************************************)
(* Theorems about GuardFront for every set of threads and every bound, and *)
(* about the registry of allocation sites beside it (AllocSites) for every *)
(* set of tables, of reporters and every number of registrations.          *)
(***************************************************************************)
EXTENDS GuardFront, AllocSites, TLAPS, FiniteSetTheorems

Counter == Metrics!Counter

Of(m) == IF m = "Stomp" THEN "guard" ELSE "crt"

\* What the variables the argument needs range over.
Kinds ==
    /\ mode \in {"Thunk", "Stomp"}
    /\ blocks \in Seq(Block)
    /\ crossed \subseteq Thread
    /\ tag \in [Thread -> {"none", "App", "Comptime"}]
    /\ outside \in [Thread -> BOOLEAN]

\* Whoever allocates from the guard began to in Stomp mode.
MidAlloc == \A t \in Thread : tag[t] # "none" /\ t \notin crossed => mode = "Stomp"

\* A block the mode was not changed under came from the allocator it names.
InMode == \A b \in DOMAIN blocks : ~blocks[b].switched => blocks[b].by = Of(mode)

\* The entries are the guarded blocks nobody gave back to the guard since the last reset.
Listed ==
    entries = {b \in DOMAIN blocks : blocks[b].by = "guard" /\ blocks[b].state \in {"live", "crt"}}

RouteInv == Kinds /\ MidAlloc /\ InMode /\ Listed /\ FreesGoHome

-----------------------------------------------------------------------------

\* A sequence of blocks changed in place is one.
LEMMA InPlace ==
    ASSUME NEW s \in Seq(Block), NEW f, f = [b \in DOMAIN s |-> f[b]],
           \A b \in DOMAIN s : f[b] \in Block
    PROVE  f \in Seq(Block) /\ DOMAIN f = DOMAIN s
<1>1. DOMAIN s = 1 .. Len(s) /\ Len(s) \in Nat
  OBVIOUS
<1>2. DOMAIN f = DOMAIN s
  OBVIOUS
<1>3. f \in [1 .. Len(s) -> Block]
  BY <1>1
<1> QED BY <1>1, <1>2, <1>3

\* A block that is appended is of its mode's allocator, or the mode was changed since.
LEMMA AppendRoute ==
    ASSUME RouteInv, stopped = 0, NEW by \in {"crt", "guard"}, NEW t \in Thread,
           by = Of(mode) \/ (by = "guard" /\ t \in crossed),
           by = "guard" => tag[t] # "none",
           blocks' = Append(blocks, NewBlock(t, by)),
           entries' = IF by = "guard" THEN entries \cup {Len(blocks) + 1} ELSE entries,
           UNCHANGED <<mode, stopped>>
    PROVE  blocks' \in Seq(Block) /\ InMode' /\ Listed' /\ FreesGoHome'
<1> DEFINE new == NewBlock(t, by)
           n == Len(blocks) + 1
<1>1. new \in Block
  BY DEF NewBlock, Block, RouteInv, Kinds
<1>2. /\ new.by = by /\ new.state = "live"
      /\ new.switched = (by = "guard" /\ t \in crossed)
  BY DEF NewBlock
<1> HIDE DEF new
<1>3. blocks \in Seq(Block) /\ blocks' = Append(blocks, new)
  BY DEF RouteInv, Kinds, new
<1>4. /\ blocks' \in Seq(Block)
      /\ DOMAIN blocks' = DOMAIN blocks \cup {n} /\ n \notin DOMAIN blocks
      /\ \A b \in DOMAIN blocks : blocks'[b] = blocks[b]
      /\ blocks'[n] = new /\ n # 0
  BY <1>1, <1>3
<1> HIDE DEF n
<1>5. entries' = IF by = "guard" THEN entries \cup {n} ELSE entries
  BY DEF n
<1>6. InMode'
  BY <1>2, <1>4 DEF RouteInv, InMode, Of
<1>7. Listed'
  <2>1. ASSUME NEW b
        PROVE  b \in entries' <=> /\ b \in DOMAIN blocks' /\ blocks'[b].by = "guard"
                                  /\ blocks'[b].state \in {"live", "crt"}
    <3>1. CASE b = n
      BY <3>1, <1>2, <1>4, <1>5 DEF RouteInv, Listed
    <3>2. CASE b # n
      BY <3>2, <1>4, <1>5 DEF RouteInv, Listed
    <3> QED BY <3>1, <3>2
  <2> QED BY <2>1 DEF Listed
<1>8. FreesGoHome'
  BY <1>2, <1>4 DEF RouteInv, FreesGoHome
<1> QED BY <1>4, <1>6, <1>7, <1>8

\* What leaves the front's own variables and the tags alone keeps the invariant.
LEMMA FrontUnchanged ==
    ASSUME RouteInv, UNCHANGED frontVars,
           tag' \in [Thread -> {"none", "App", "Comptime"}],
           outside' \in [Thread -> BOOLEAN], MidAlloc'
    PROVE  RouteInv'
BY DEF RouteInv, Kinds, InMode, Listed, FreesGoHome, Of, frontVars

LEMMA SetModeRoute ==
    ASSUME RouteInv, stopped = 0, NEW m \in {"Thunk", "Stomp"}, SetMode(m) PROVE RouteInv'
<1>1. /\ mode' = m /\ UNCHANGED <<tag, outside, entries, stopped>>
  BY DEF SetMode, bracketVars
<1>2. CASE m = mode
  <2>1. UNCHANGED frontVars
    BY <1>1, <1>2 DEF SetMode, frontVars
  <2> QED BY <1>1, <2>1, FrontUnchanged DEF RouteInv, Kinds, MidAlloc, frontVars
<1>3. CASE m # mode
  <2>1. /\ blocks' = [b \in DOMAIN blocks |-> [blocks[b] EXCEPT !.switched = TRUE]]
        /\ crossed' = {t \in Thread : tag[t] # "none"}
    BY <1>3 DEF SetMode
  <2>2. blocks \in Seq(Block)
    BY DEF RouteInv, Kinds
  <2>3. ASSUME NEW b \in DOMAIN blocks
        PROVE  /\ blocks'[b] \in Block /\ blocks'[b].switched
               /\ blocks'[b].by = blocks[b].by /\ blocks'[b].state = blocks[b].state
    <3>1. blocks[b] \in Block
      BY <2>2
    <3> QED BY <2>1, <3>1 DEF Block
  <2>4. blocks' = [b \in DOMAIN blocks |-> blocks'[b]]
    BY <2>1
  <2>5. blocks' \in Seq(Block) /\ DOMAIN blocks' = DOMAIN blocks
    BY <2>2, <2>3, <2>4, InPlace
  <2>6. Kinds' /\ MidAlloc'
    BY <1>1, <2>1, <2>5 DEF RouteInv, Kinds, MidAlloc
  <2>7. InMode' /\ Listed' /\ FreesGoHome'
    BY <1>1, <2>3, <2>5 DEF RouteInv, InMode, Listed, FreesGoHome
  <2> QED BY <2>6, <2>7 DEF RouteInv
<1> QED BY <1>2, <1>3

LEMMA ResetRoute == ASSUME RouteInv, stopped = 0, Reset PROVE RouteInv'
<1>1. /\ blocks \in Seq(Block) /\ blocks' = [b \in DOMAIN blocks |-> Forgotten(b)]
      /\ entries' = {} /\ UNCHANGED <<mode, crossed, stopped, tag, outside>>
  BY DEF Reset, RouteInv, Kinds, bracketVars
<1>2. ASSUME NEW b \in DOMAIN blocks
      PROVE  /\ Forgotten(b) \in Block /\ Forgotten(b).by = blocks[b].by
             /\ Forgotten(b).switched = blocks[b].switched
             /\ Forgotten(b).state = IF blocks[b].by = "guard" THEN "past" ELSE blocks[b].state
  <2>1. blocks[b] \in Block
    BY <1>1
  <2> QED BY <2>1 DEF Forgotten, Block
<1> HIDE DEF Forgotten
<1>3. /\ DOMAIN blocks' = DOMAIN blocks
      /\ \A b \in DOMAIN blocks : blocks'[b] = Forgotten(b)
      /\ blocks' = [b \in DOMAIN blocks |-> blocks'[b]]
  BY <1>1
<1>4. blocks' \in Seq(Block)
  BY <1>1, <1>2, <1>3, InPlace
<1>5. FreesGoHome' /\ InMode'
  BY <1>1, <1>2, <1>3 DEF RouteInv, FreesGoHome, InMode, Of
<1>6. Listed'
  BY <1>1, <1>2, <1>3 DEF Listed
<1> QED BY <1>1, <1>4, <1>5, <1>6 DEF RouteInv, Kinds, MidAlloc

\* One block gets a new state that fits where it came from.
LEMMA NewState ==
    ASSUME RouteInv, stopped = 0, NEW b \in DOMAIN blocks, NEW to \in {"live", "crt", "guard", "past"},
           blocks' = [blocks EXCEPT ![b].state = to],
           ~blocks[b].switched => to \in {"live", "past", blocks[b].by},
           entries' = IF to \in {"live", "crt"} THEN entries ELSE entries \ {b},
           to \in {"live", "crt"} => blocks[b].state \in {"live", "crt"},
           UNCHANGED <<mode, crossed, stopped, tag, outside>>
    PROVE  RouteInv'
<1>1. blocks \in Seq(Block) /\ blocks[b] \in Block
  BY DEF RouteInv, Kinds
<1>2. /\ blocks' \in Seq(Block) /\ DOMAIN blocks' = DOMAIN blocks
      /\ \A c \in DOMAIN blocks : c # b => blocks'[c] = blocks[c]
      /\ blocks'[b].state = to /\ blocks'[b].by = blocks[b].by
      /\ blocks'[b].switched = blocks[b].switched
  <2>1. [blocks[b] EXCEPT !.state = to] \in Block
    BY <1>1 DEF Block
  <2>2. blocks' = [blocks EXCEPT ![b] = [blocks[b] EXCEPT !.state = to]]
    OBVIOUS
  <2>3. blocks' \in Seq(Block)
    BY <1>1, <2>1, <2>2
  <2> QED BY <1>1, <2>2, <2>3 DEF Block
<1>3. FreesGoHome'
  <2>1. 0 \notin DOMAIN blocks
    BY <1>1
  <2> QED BY <1>2, <2>1 DEF RouteInv, FreesGoHome
<1>4. InMode'
  BY <1>2 DEF RouteInv, InMode, Of
<1>5. Listed'
  <2>1. ASSUME NEW c \in DOMAIN blocks
        PROVE  c \in entries' <=> blocks'[c].by = "guard" /\ blocks'[c].state \in {"live", "crt"}
    <3>1. CASE c = b
      BY <3>1, <1>2 DEF RouteInv, Listed
    <3>2. CASE c # b
      BY <3>2, <1>2 DEF RouteInv, Listed
    <3> QED BY <3>1, <3>2
  <2>2. entries' \subseteq DOMAIN blocks
    BY DEF RouteInv, Listed
  <2> QED BY <1>2, <2>1, <2>2 DEF Listed
<1> QED BY <1>2, <1>3, <1>4, <1>5 DEF RouteInv, Kinds, MidAlloc

LEMMA BuryRoute ==
    ASSUME RouteInv, stopped = 0, NEW b \in DOMAIN blocks, Bury(b),
           UNCHANGED <<mode, crossed, tag, outside>>
    PROVE  RouteInv'
<1>1. /\ b \in entries /\ entries' = entries \ {b} /\ stopped' = stopped
      /\ blocks' = [blocks EXCEPT ![b].state = "guard"]
  BY DEF Bury
<1>2. blocks[b].by = "guard"
  BY <1>1 DEF RouteInv, Listed
<1> QED BY <1>1, <1>2, NewState

LEMMA FreeRoute ==
    ASSUME RouteInv, stopped = 0, NEW t \in Thread, NEW b \in DOMAIN blocks, Free(t, b)
    PROVE  RouteInv'
<1>1. /\ UNCHANGED <<mode, crossed, tag, outside>>
      /\ IF mode = "Stomp" THEN FreeToGuard(b) ELSE FreeToC(b)
  BY DEF Free, bracketVars
<1>2. blocks \in Seq(Block) /\ blocks[b] \in Block /\ mode \in {"Thunk", "Stomp"}
  BY DEF RouteInv, Kinds
<1>3. CASE mode = "Thunk"
  <2> DEFINE to == IF blocks[b].state = "live" THEN "crt" ELSE blocks[b].state
  <2>1. /\ UNCHANGED <<entries, stopped>>
        /\ blocks' = [blocks EXCEPT ![b].state = IF @ = "live" THEN "crt" ELSE @]
    BY <1>1, <1>3 DEF FreeToC
  <2>2. CASE blocks[b].state = "live"
    <3>1. blocks' = [blocks EXCEPT ![b].state = "crt"]
      BY <2>1, <2>2
    <3>2. ~blocks[b].switched => blocks[b].by = "crt"
      BY <1>3 DEF RouteInv, InMode, Of
    <3> QED BY <1>1, <2>1, <2>2, <3>1, <3>2, NewState
  <2>3. CASE blocks[b].state # "live"
    <3>1. blocks' = blocks
      <4>1. blocks' = [blocks EXCEPT ![b] = [blocks[b] EXCEPT !.state = blocks[b].state]]
        BY <2>1, <2>3
      <4>2. [blocks[b] EXCEPT !.state = blocks[b].state] = blocks[b]
        BY <1>2 DEF Block
      <4> QED BY <1>2, <4>1, <4>2
    <3>2. UNCHANGED frontVars
      BY <1>1, <2>1, <3>1 DEF frontVars
    <3> QED BY <1>1, <3>2, FrontUnchanged DEF RouteInv, Kinds, MidAlloc, frontVars
  <2> QED BY <2>2, <2>3
<1>4. CASE mode = "Stomp"
  <2>1. CASE Bury(b)
    BY <1>1, <2>1, BuryRoute
  <2>2. ASSUME NEW c \in entries, Bury(c) PROVE RouteInv'
    <3>1. c \in DOMAIN blocks
      BY <2>2 DEF RouteInv, Listed
    <3> QED BY <1>1, <2>2, <3>1, BuryRoute
  <2>3. CASE b \notin entries /\ stopped' = b /\ UNCHANGED <<blocks, entries>>
    <3>1. ~blocks[b].switched => blocks[b].state # "live"
      <4>1. ~blocks[b].switched => blocks[b].by = "guard"
        BY <1>4 DEF RouteInv, InMode, Of
      <4> QED BY <2>3, <4>1 DEF RouteInv, Listed
    <3>2. FreesGoHome'
      BY <2>3, <3>1 DEF RouteInv, FreesGoHome
    <3> QED BY <1>1, <2>3, <3>2 DEF RouteInv, Kinds, MidAlloc, InMode, Listed, Of
  <2> QED BY <1>1, <1>4, <2>1, <2>2, <2>3 DEF FreeToGuard
<1> QED BY <1>2, <1>3, <1>4

LEMMA InBracketRoute == ASSUME RouteInv, NEW t \in Thread, InBracket(t) PROVE RouteInv'
<1>1. /\ UNCHANGED frontVars /\ tag' = tag
      /\ outside' = outside \/ outside' = [u \in Thread |-> FALSE]
  BY DEF InBracket, Bracket!Enter, Bracket!BeginExit, Bracket!EndExit
<1>2. MidAlloc'
  BY <1>1 DEF RouteInv, MidAlloc, frontVars
<1> QED BY <1>1, <1>2, FrontUnchanged DEF RouteInv, Kinds, frontVars

LEMMA BeginAllocRoute == ASSUME RouteInv, NEW t \in Thread, BeginAlloc(t) PROVE RouteInv'
<1>1. /\ UNCHANGED frontVars /\ mode = "Stomp"
      /\ tag' \in [Thread -> {"none", "App", "Comptime"}]
      /\ outside' \in [Thread -> BOOLEAN]
  BY DEF BeginAlloc, Bracket!ReadPhase, RouteInv, Kinds
<1>2. MidAlloc'
  BY <1>1 DEF MidAlloc, frontVars
<1> QED BY <1>1, <1>2, FrontUnchanged

\* The end of an allocation from the guard takes the tag away.
LEMMA RecordTag ==
    ASSUME RouteInv, NEW t \in Thread, Bracket!Record(t),
           mode' = mode, crossed' = crossed \ {t}
    PROVE  /\ tag[t] # "none" /\ (mode = "Stomp" \/ t \in crossed)
           /\ crossed' \subseteq Thread
           /\ outside' \in [Thread -> BOOLEAN] /\ \A u \in Thread : u # t => outside'[u] = outside[u]
           /\ tag' \in [Thread -> {"none", "App", "Comptime"}] /\ tag'[t] = "none"
           /\ \A u \in Thread : u # t => tag'[u] = tag[u]
           /\ MidAlloc'
<1>1. /\ tag[t] # "none" /\ tag' = [tag EXCEPT ![t] = "none"]
      /\ outside' = [outside EXCEPT ![t] = FALSE]
  BY DEF Bracket!Record
<1> QED BY <1>1 DEF RouteInv, Kinds, MidAlloc

LEMMA AllocFromGuardRoute ==
    ASSUME RouteInv, stopped = 0, NEW t \in Thread, AllocFromGuard(t) PROVE RouteInv'
<1>1. /\ Bracket!Record(t) /\ blocks' = Append(blocks, NewBlock(t, "guard"))
      /\ entries' = entries \cup {Len(blocks) + 1} /\ crossed' = crossed \ {t}
      /\ UNCHANGED <<mode, stopped>>
  BY DEF AllocFromGuard
<1>2. tag[t] # "none" /\ (mode = "Stomp" \/ t \in crossed)
  BY <1>1, RecordTag
<1>3. blocks' \in Seq(Block) /\ InMode' /\ Listed' /\ FreesGoHome'
  BY <1>1, <1>2, AppendRoute DEF Of
<1> QED BY <1>1, <1>3, RecordTag DEF RouteInv, Kinds

LEMMA AllocFromCRoute ==
    ASSUME RouteInv, stopped = 0, NEW t \in Thread, AllocFromC(t) PROVE RouteInv'
<1>1. /\ mode = "Thunk" /\ blocks' = Append(blocks, NewBlock(t, "crt"))
      /\ UNCHANGED <<mode, entries, crossed, stopped, tag, outside>>
  BY DEF AllocFromC, bracketVars
<1>2. blocks' \in Seq(Block) /\ InMode' /\ Listed' /\ FreesGoHome'
  BY <1>1, AppendRoute DEF Of
<1> QED BY <1>1, <1>2 DEF RouteInv, Kinds, MidAlloc

LEMMA AllocRefusedRoute ==
    ASSUME RouteInv, NEW t \in Thread, AllocRefused(t) PROVE RouteInv'
<1>1. /\ Bracket!Record(t) /\ crossed' = crossed \ {t}
      /\ UNCHANGED <<mode, blocks, entries, stopped>>
  BY DEF AllocRefused
<1>2. Kinds' /\ MidAlloc'
  BY <1>1, RecordTag DEF RouteInv, Kinds
<1> QED BY <1>1, <1>2 DEF RouteInv, InMode, Listed, FreesGoHome, Of

LEMMA RouteInvariance == Spec => []RouteInv
<1>1. Init => RouteInv
  <2> SUFFICES ASSUME Init PROVE RouteInv
    OBVIOUS
  <2>1. /\ mode = "Thunk" /\ blocks = <<>> /\ entries = {} /\ crossed = {}
        /\ tag = [t \in Thread |-> "none"] /\ outside = [t \in Thread |-> FALSE]
    BY DEF Init, Bracket!Init
  <2>2. blocks \in Seq(Block) /\ DOMAIN blocks = {}
    BY <2>1
  <2>3. Kinds
    BY <2>1, <2>2 DEF Kinds
  <2> QED BY <2>1, <2>2, <2>3 DEF RouteInv, MidAlloc, InMode, Listed, FreesGoHome
<1>2. RouteInv /\ [Next]_vars => RouteInv'
  <2> SUFFICES ASSUME RouteInv, [Next]_vars PROVE RouteInv'
    OBVIOUS
  <2>1. ASSUME NEW m \in {"Thunk", "Stomp"}, stopped = 0, SetMode(m) PROVE RouteInv'
    BY <2>1, SetModeRoute
  <2>2. CASE stopped = 0 /\ Reset
    BY <2>2, ResetRoute
  <2>3. CASE Publish \/ UNCHANGED vars
    <3>1. UNCHANGED <<bracketVars, frontVars>>
      BY <2>3 DEF Publish, vars
    <3> QED BY <3>1, FrontUnchanged DEF bracketVars, frontVars, RouteInv, Kinds, MidAlloc
  <2>4. ASSUME NEW t \in Thread, InBracket(t) PROVE RouteInv'
    BY <2>4, InBracketRoute
  <2>5. ASSUME NEW t \in Thread, stopped = 0, AllocFromC(t) PROVE RouteInv'
    BY <2>5, AllocFromCRoute
  <2>6. ASSUME NEW t \in Thread, BeginAlloc(t) PROVE RouteInv'
    BY <2>6, BeginAllocRoute
  <2>7. ASSUME NEW t \in Thread, stopped = 0, AllocFromGuard(t) PROVE RouteInv'
    BY <2>7, AllocFromGuardRoute
  <2>8. ASSUME NEW t \in Thread, AllocRefused(t) PROVE RouteInv'
    BY <2>8, AllocRefusedRoute
  <2>9. ASSUME NEW t \in Thread, NEW b \in DOMAIN blocks, stopped = 0, Free(t, b) PROVE RouteInv'
    BY <2>9, FreeRoute
  <2> QED BY <2>1, <2>2, <2>3, <2>4, <2>5, <2>6, <2>7, <2>8, <2>9 DEF Next
<1> QED BY <1>1, <1>2, PTL DEF Spec

(***************************************************************************)
(* A block is given back to the allocator it came from, and the guard does *)
(* not abort over it while it is live, unless the mode was changed since   *)
(* its allocation began: for any number of threads and blocks, whatever is *)
(* freed when and by whom, and with modes set and the guard reset at any   *)
(* time.                                                                   *)
(***************************************************************************)
THEOREM EveryFreeGoesHome == Spec => []FreesGoHome
<1>1. RouteInv => FreesGoHome
  BY DEF RouteInv
<1> QED BY <1>1, RouteInvariance, PTL

-----------------------------------------------------------------------------
(* The brackets and the leak report.                                       *)

Open == Bracket!Open

\* As long as the brackets are paired, the depth is the number of open ones, which are
\* no more than were entered; and whoever is leaving one is in one and saw that the
\* depth was not zero.
Paired ==
    /\ depth = Cardinality(Open) /\ depth <= calls
    /\ \A t \in Thread : leaving[t] # "no" => leaving[t] = "positive" /\ nest[t] > 0

DepthInv ==
    /\ nest \in [Thread -> 0 .. MaxNest]
    /\ leaving \in [Thread -> {"no", "zero", "positive"}]
    /\ calls \in 0 .. MaxCalls
    /\ unpaired \in 0 .. MaxUnpaired
    /\ unpaired = 0 => Paired

DepthVars == <<depth, nest, leaving, calls, unpaired>>

LEMMA DepthUnchanged == ASSUME DepthInv, UNCHANGED DepthVars PROVE DepthInv'
BY DEF DepthInv, DepthVars, Paired, Open, Bracket!Open

LEMMA OpenFinite ==
    ASSUME DepthInv, Paired
    PROVE  /\ IsFiniteSet(Open) /\ depth \in 0 .. MaxCalls
           /\ depth = 0 <=> Open = {}
           /\ \A t \in Thread : nest[t] > 0 => <<t, nest[t]>> \in Open
           /\ (\A t \in Thread : nest[t] = 0) => Open = {}
<1>1. IsFiniteSet(Thread \X (1 .. MaxNest))
  <2>1. 1 \in Int /\ MaxNest \in Int
    BY FrontAssumption
  <2>2. IsFiniteSet(1 .. MaxNest)
    BY <2>1, FS_Interval
  <2> QED BY <2>2, FrontAssumption, FS_Product
<1>2. Open \in SUBSET (Thread \X (1 .. MaxNest))
  BY DEF Open, Bracket!Open
<1>3. IsFiniteSet(Open)
  BY <1>1, <1>2, FS_Subset
<1>4. depth \in Nat /\ (depth = 0 <=> Open = {})
  BY <1>3, FS_CardinalityType, FS_EmptySet DEF Paired
<1>5. ASSUME NEW t \in Thread, nest[t] > 0 PROVE <<t, nest[t]>> \in Open
  BY <1>5, FrontAssumption DEF DepthInv, Open, Bracket!Open
<1>6. ASSUME \A t \in Thread : nest[t] = 0 PROVE Open = {}
  BY <1>6 DEF Open, Bracket!Open
<1> QED BY <1>3, <1>4, <1>5, <1>6, FrontAssumption DEF DepthInv, Paired

LEMMA EnterDepth == ASSUME DepthInv, NEW t \in Thread, Bracket!Enter(t) PROVE DepthInv'
<1> DEFINE new == <<t, nest[t] + 1>>
<1>1. /\ nest[t] < MaxNest /\ calls < MaxCalls /\ leaving[t] = "no"
      /\ depth' = (depth + 1) % DepthMod /\ calls' = calls + 1
      /\ nest' = [nest EXCEPT ![t] = @ + 1] /\ leaving' = leaving /\ unpaired' = unpaired
  BY DEF Bracket!Enter, Bracket!Idle
<1>2. nest \in [Thread -> 0 .. MaxNest] /\ MaxNest \in Nat
  BY FrontAssumption DEF DepthInv
<1>3. /\ nest' \in [Thread -> 0 .. MaxNest] /\ nest'[t] = nest[t] + 1
      /\ \A u \in Thread : u # t => nest'[u] = nest[u]
  BY <1>1, <1>2
<1>4. new \notin Open /\ Open' = Open \cup {new}
  <2>1. new \in Thread \X (1 .. MaxNest) /\ new \notin Open
    BY <1>1, <1>2 DEF Open, Bracket!Open
  <2>2. ASSUME NEW u \in Thread, NEW i \in 1 .. MaxNest
        PROVE  i <= nest'[u] <=> i <= nest[u] \/ <<u, i>> = new
    <3>1. CASE u = t
      BY <3>1, <1>2, <1>3
    <3>2. CASE u # t
      BY <3>2, <1>3
    <3> QED BY <3>1, <3>2
  <2> HIDE DEF new
  <2> QED BY <2>1, <2>2 DEF Open, Bracket!Open
<1> HIDE DEF new
<1>5. ASSUME Paired PROVE Paired'
  <2>1. Cardinality(Open') = depth + 1
    BY <1>4, <1>5, OpenFinite, FS_AddElement DEF Paired
  <2>2. depth' = depth + 1 /\ depth' <= calls'
    BY <1>1, <1>5, OpenFinite, FrontAssumption DEF DepthInv, Paired
  <2>3. \A u \in Thread : leaving'[u] # "no" => leaving'[u] = "positive" /\ nest'[u] > 0
    BY <1>1, <1>3, <1>5 DEF Paired
  <2> QED BY <2>1, <2>2, <2>3 DEF Paired
<1>6. calls' \in 0 .. MaxCalls
  BY <1>1, FrontAssumption DEF DepthInv
<1> QED BY <1>1, <1>3, <1>5, <1>6 DEF DepthInv

LEMMA BeginExitDepth ==
    ASSUME DepthInv, NEW t \in Thread, Bracket!BeginExit(t) PROVE DepthInv'
<1>1. /\ UNCHANGED <<depth, nest, calls>>
      /\ leaving' = [leaving EXCEPT ![t] = IF depth > 0 THEN "positive" ELSE "zero"]
      /\ \/ nest[t] > 0 /\ unpaired' = unpaired
         \/ unpaired < MaxUnpaired /\ unpaired' = unpaired + 1
  BY DEF Bracket!BeginExit
<1>2. Open' = Open
  BY <1>1 DEF Open, Bracket!Open
<1>3. unpaired' \in 0 .. MaxUnpaired
  BY <1>1, FrontAssumption DEF DepthInv
<1>4. leaving' \in [Thread -> {"no", "zero", "positive"}]
  BY <1>1 DEF DepthInv
<1>5. ASSUME unpaired' = 0 PROVE Paired'
  <2>1. unpaired = 0 /\ nest[t] > 0 /\ Paired
    BY <1>1, <1>5 DEF DepthInv
  <2>2. depth > 0
    <3>1. depth # 0 /\ depth \in 0 .. MaxCalls
      BY <2>1, OpenFinite
    <3> QED BY <3>1, FrontAssumption
  <2> QED BY <1>1, <1>2, <2>1, <2>2 DEF DepthInv, Paired
<1> QED BY <1>1, <1>3, <1>4, <1>5 DEF DepthInv

LEMMA EndExitDepth == ASSUME DepthInv, NEW t \in Thread, Bracket!EndExit(t) PROVE DepthInv'
<1> DEFINE gone == <<t, nest[t]>>
<1>1. /\ depth' = IF leaving[t] = "positive" THEN (depth - 1) % DepthMod ELSE depth
      /\ calls' = calls /\ unpaired' = unpaired /\ leaving[t] # "no"
      /\ nest' = [nest EXCEPT ![t] = IF @ > 0 THEN @ - 1 ELSE 0]
      /\ leaving' = [leaving EXCEPT ![t] = "no"]
  BY DEF Bracket!EndExit, Bracket!Left
<1>2. nest \in [Thread -> 0 .. MaxNest] /\ MaxNest \in Nat
  BY FrontAssumption DEF DepthInv
<1>3. /\ nest' \in [Thread -> 0 .. MaxNest]
      /\ nest'[t] = IF nest[t] > 0 THEN nest[t] - 1 ELSE 0
      /\ \A u \in Thread : u # t => nest'[u] = nest[u]
  BY <1>1, <1>2
<1>4. leaving' \in [Thread -> {"no", "zero", "positive"}]
  BY <1>1 DEF DepthInv
<1>5. ASSUME Paired PROVE Paired'
  <2>1. leaving[t] = "positive" /\ nest[t] > 0
    BY <1>1, <1>5 DEF Paired
  <2>2. gone \in Open /\ Open' = Open \ {gone}
    <3>1. gone \in Open
      BY <1>5, <2>1, OpenFinite
    <3>2. ASSUME NEW u \in Thread, NEW i \in 1 .. MaxNest
          PROVE  i <= nest'[u] <=> i <= nest[u] /\ <<u, i>> # gone
      <4>1. CASE u = t
        BY <4>1, <1>2, <1>3, <2>1
      <4>2. CASE u # t
        BY <4>2, <1>3
      <4> QED BY <4>1, <4>2
    <3> HIDE DEF gone
    <3> QED BY <3>1, <3>2 DEF Open, Bracket!Open
  <2> HIDE DEF gone
  <2>3. Cardinality(Open') = depth - 1 /\ depth \in 0 .. MaxCalls /\ depth # 0
    BY <1>5, <2>2, OpenFinite, FS_RemoveElement DEF Paired
  <2>4. depth' = depth - 1 /\ depth' <= calls'
    BY <1>1, <1>5, <2>1, <2>3, FrontAssumption DEF DepthInv, Paired
  <2>5. \A u \in Thread : leaving'[u] # "no" => leaving'[u] = "positive" /\ nest'[u] > 0
    BY <1>1, <1>3, <1>5 DEF DepthInv, Paired
  <2> QED BY <2>3, <2>4, <2>5 DEF Paired
<1> QED BY <1>1, <1>3, <1>4, <1>5 DEF DepthInv

LEMMA DepthInvariance == Spec => []DepthInv
<1>1. Init => DepthInv
  <2> SUFFICES ASSUME Init PROVE DepthInv
    OBVIOUS
  <2>1. /\ depth = 0 /\ calls = 0 /\ nest = [t \in Thread |-> 0] /\ unpaired = 0
        /\ leaving = [t \in Thread |-> "no"]
    BY DEF Init, Bracket!Init
  <2>2. Open = {} /\ Cardinality(Open) = 0
    BY <2>1, FS_EmptySet DEF Open, Bracket!Open
  <2> QED BY <2>1, <2>2, FrontAssumption DEF DepthInv, Paired
<1>2. DepthInv /\ [Next]_vars => DepthInv'
  <2> SUFFICES ASSUME DepthInv, [Next]_vars PROVE DepthInv'
    OBVIOUS
  <2>1. ASSUME NEW t \in Thread, InBracket(t) PROVE DepthInv'
    BY <2>1, EnterDepth, BeginExitDepth, EndExitDepth DEF InBracket
  <2>2. ASSUME NEW t \in Thread, BeginAlloc(t) \/ AllocFromGuard(t) \/ AllocRefused(t)
        PROVE  DepthInv'
    BY <2>2, DepthUnchanged DEF BeginAlloc, AllocFromGuard, AllocRefused,
       Bracket!ReadPhase, Bracket!Record, DepthVars
  <2>3. ASSUME NEW t \in Thread, NEW b \in DOMAIN blocks, Free(t, b) PROVE DepthInv'
    BY <2>3, DepthUnchanged DEF Free, bracketVars, DepthVars
  <2>4. ASSUME NEW m, SetMode(m) PROVE DepthInv'
    BY <2>4, DepthUnchanged DEF SetMode, bracketVars, DepthVars
  <2>5. ASSUME NEW t \in Thread, AllocFromC(t) PROVE DepthInv'
    BY <2>5, DepthUnchanged DEF AllocFromC, bracketVars, DepthVars
  <2>6. CASE Reset \/ Publish \/ UNCHANGED vars
    BY <2>6, DepthUnchanged DEF Reset, Publish, vars, bracketVars, DepthVars
  <2> QED BY <2>1, <2>2, <2>3, <2>4, <2>5, <2>6 DEF Next
<1> QED BY <1>1, <1>2, PTL DEF Spec

(***************************************************************************)
(* Leaving a bracket is a load and a subtraction that other threads come   *)
(* between; still the depth is the number of open brackets, for any number *)
(* of threads, as long as a usize can count the brackets entered and every *)
(* thread leaves only what it entered.                                     *)
(***************************************************************************)
THEOREM DepthIsRight == Spec => []DepthCountsBrackets
<1>1. DepthInv => DepthCountsBrackets
  BY DEF DepthInv, Paired, DepthCountsBrackets, Open
<1> QED BY <1>1, DepthInvariance, PTL

\* As long as the brackets are paired, a thread in its own bracket tags its allocation
\* as compile time and one that nobody's bracket overlaps is tagged as the program's; and
\* the blocks carry the tag they were made with.
Tagged ==
    /\ \A t \in Thread : tag[t] # "none" =>
          /\ nest[t] > 0 => tag[t] = "Comptime"
          /\ outside[t] => tag[t] = "App"
    /\ \A b \in DOMAIN blocks : blocks[b].by = "guard" =>
          /\ blocks[b].inside => blocks[b].phase = "Comptime"
          /\ blocks[b].alone => blocks[b].phase = "App"

ReportInv == unpaired = 0 => Tagged

ReportVars == <<blocks, tag, outside, nest>>

LEMMA ReportUnchanged == ASSUME ReportInv, UNCHANGED <<ReportVars, unpaired>> PROVE ReportInv'
BY DEF ReportInv, Tagged, ReportVars

LEMMA InBracketReport ==
    ASSUME RouteInv, DepthInv, ReportInv, NEW t \in Thread, InBracket(t) PROVE ReportInv'
<1>1. UNCHANGED <<blocks, tag>> /\ (unpaired' = 0 => unpaired = 0)
  BY FrontAssumption DEF InBracket, frontVars, Bracket!Enter, Bracket!BeginExit, Bracket!EndExit,
     DepthInv
<1>2. \A u \in Thread : nest[u] \in Nat
  BY FrontAssumption DEF DepthInv
<1>3. ASSUME NEW u \in Thread, tag[u] # "none"
      PROVE  (nest'[u] > 0 => nest[u] > 0) /\ (outside'[u] => outside[u])
  <2>1. CASE Bracket!Enter(t)
    BY <1>3, <2>1 DEF Bracket!Enter, Bracket!Idle, DepthInv
  <2>2. CASE Bracket!BeginExit(t)
    BY <2>2 DEF Bracket!BeginExit
  <2>3. CASE Bracket!EndExit(t)
    BY <1>2, <2>3 DEF Bracket!EndExit, Bracket!Left, DepthInv
  <2> QED BY <2>1, <2>2, <2>3 DEF InBracket
<1> QED BY <1>1, <1>3 DEF ReportInv, Tagged

LEMMA BeginAllocReport ==
    ASSUME RouteInv, DepthInv, ReportInv, NEW t \in Thread, BeginAlloc(t) PROVE ReportInv'
<1> SUFFICES ASSUME unpaired' = 0 PROVE Tagged'
  BY DEF ReportInv
<1>1. /\ UNCHANGED <<blocks, nest, unpaired>>
      /\ tag' = [tag EXCEPT ![t] = IF depth > 0 THEN "Comptime" ELSE "App"]
      /\ outside' = [outside EXCEPT ![t] = \A u \in Thread : nest[u] = 0]
  BY DEF BeginAlloc, Bracket!ReadPhase, frontVars
<1>2. Tagged /\ Paired
  BY <1>1 DEF ReportInv, DepthInv
<1>3. depth \in Nat
  BY <1>2, OpenFinite, FrontAssumption
<1>4. nest[t] > 0 => depth > 0
  <2>1. nest[t] > 0 => depth # 0
    BY <1>2, OpenFinite
  <2> QED BY <1>3, <2>1
<1>5. (\A u \in Thread : nest[u] = 0) => depth = 0
  BY <1>2, OpenFinite
<1>6. ASSUME NEW u \in Thread, tag'[u] # "none"
      PROVE  /\ nest'[u] > 0 => tag'[u] = "Comptime"
             /\ outside'[u] => tag'[u] = "App"
  <2>1. CASE u = t
    BY <2>1, <1>1, <1>3, <1>4, <1>5 DEF RouteInv, Kinds
  <2>2. CASE u # t
    BY <2>2, <1>1, <1>2, <1>6 DEF RouteInv, Kinds, Tagged
  <2> QED BY <2>1, <2>2
<1> QED BY <1>1, <1>2, <1>6 DEF Tagged

\* A block that is appended carries the tag of its allocation.
LEMMA AppendReport ==
    ASSUME RouteInv, ReportInv, NEW t \in Thread, NEW by \in {"crt", "guard"},
           by = "guard" => tag[t] # "none",
           blocks' = Append(blocks, NewBlock(t, by)),
           UNCHANGED <<nest, unpaired>>,
           \A u \in Thread : tag'[u] # "none" => tag'[u] = tag[u] /\ outside'[u] = outside[u]
    PROVE  ReportInv'
<1> SUFFICES ASSUME Tagged PROVE Tagged'
  BY DEF ReportInv
<1> DEFINE new == NewBlock(t, by)
           n == Len(blocks) + 1
<1>1. /\ new.by = by
      /\ by = "guard" => /\ new.phase = tag[t] /\ new.inside = (nest[t] > 0)
                         /\ new.alone = outside[t]
  BY DEF NewBlock, RouteInv, Kinds
<1>2. blocks' = Append(blocks, new) /\ blocks \in Seq(Block)
  BY DEF RouteInv, Kinds
<1> HIDE DEF new
<1>3. /\ DOMAIN blocks' = DOMAIN blocks \cup {n} /\ n \notin DOMAIN blocks
      /\ \A b \in DOMAIN blocks : blocks'[b] = blocks[b]
      /\ blocks'[n] = new
  BY <1>2
<1> HIDE DEF n
<1>4. ASSUME NEW b \in DOMAIN blocks', blocks'[b].by = "guard"
      PROVE  /\ blocks'[b].inside => blocks'[b].phase = "Comptime"
             /\ blocks'[b].alone => blocks'[b].phase = "App"
  <2>1. CASE b = n
    BY <2>1, <1>1, <1>3, <1>4 DEF Tagged
  <2>2. CASE b \in DOMAIN blocks
    BY <2>2, <1>3, <1>4 DEF Tagged
  <2> QED BY <2>1, <2>2, <1>3
<1>5. \A u \in Thread : tag'[u] # "none" =>
          /\ nest'[u] > 0 => tag'[u] = "Comptime"
          /\ outside'[u] => tag'[u] = "App"
  BY DEF Tagged
<1> QED BY <1>4, <1>5 DEF Tagged

\* Blocks that only change their state, or learn of a change of mode, keep their tags.
LEMMA SameTags ==
    ASSUME ReportInv, UNCHANGED <<tag, outside, nest, unpaired>>, DOMAIN blocks' = DOMAIN blocks,
           \A b \in DOMAIN blocks :
              /\ blocks'[b].by = blocks[b].by /\ blocks'[b].phase = blocks[b].phase
              /\ blocks'[b].inside = blocks[b].inside /\ blocks'[b].alone = blocks[b].alone
    PROVE  ReportInv'
BY DEF ReportInv, Tagged

LEMMA StateTags ==
    ASSUME RouteInv, ReportInv, UNCHANGED <<tag, outside, nest, unpaired>>, NEW b \in DOMAIN blocks,
           NEW to, blocks' = [blocks EXCEPT ![b].state = to]
    PROVE  ReportInv'
<1>1. blocks \in Seq(Block) /\ blocks[b] \in Block
  BY DEF RouteInv, Kinds
<1>2. blocks' = [blocks EXCEPT ![b] = [blocks[b] EXCEPT !.state = to]]
  OBVIOUS
<1>3. DOMAIN blocks' = DOMAIN blocks
  BY <1>1, <1>2
<1>4. \A c \in DOMAIN blocks :
         /\ blocks'[c].by = blocks[c].by /\ blocks'[c].phase = blocks[c].phase
         /\ blocks'[c].inside = blocks[c].inside /\ blocks'[c].alone = blocks[c].alone
  BY <1>1, <1>2 DEF Block
<1> QED BY <1>3, <1>4, SameTags

LEMMA FreeReport ==
    ASSUME RouteInv, ReportInv, NEW t \in Thread, NEW b \in DOMAIN blocks, Free(t, b)
    PROVE  ReportInv'
<1>1. UNCHANGED <<tag, outside, nest, unpaired>>
  BY DEF Free, bracketVars
<1>2. CASE FreeToC(b)
  <2>1. blocks' = [blocks EXCEPT ![b].state = IF blocks[b].state = "live" THEN "crt" ELSE blocks[b].state]
    BY <1>2 DEF FreeToC
  <2> QED BY <1>1, <2>1, StateTags
<1>3. ASSUME NEW c \in DOMAIN blocks, Bury(c) PROVE ReportInv'
  BY <1>1, <1>3, StateTags DEF Bury
<1>4. CASE UNCHANGED blocks
  BY <1>1, <1>4, ReportUnchanged DEF ReportVars
<1>5. entries \subseteq DOMAIN blocks
  BY DEF RouteInv, Listed
<1> QED BY <1>2, <1>3, <1>4, <1>5 DEF Free, FreeToGuard

LEMMA ResetReport == ASSUME RouteInv, ReportInv, Reset PROVE ReportInv'
<1>1. /\ blocks' = [b \in DOMAIN blocks |-> Forgotten(b)]
      /\ UNCHANGED <<tag, outside, nest, unpaired>>
  BY DEF Reset, bracketVars
<1>2. ASSUME NEW b \in DOMAIN blocks
      PROVE  /\ Forgotten(b).by = blocks[b].by /\ Forgotten(b).phase = blocks[b].phase
             /\ Forgotten(b).inside = blocks[b].inside /\ Forgotten(b).alone = blocks[b].alone
  <2>1. blocks[b] \in Block
    BY DEF RouteInv, Kinds
  <2> QED BY <2>1 DEF Forgotten, Block
<1> HIDE DEF Forgotten
<1> QED BY <1>1, <1>2, SameTags

LEMMA SetModeReport == ASSUME RouteInv, ReportInv, NEW m, SetMode(m) PROVE ReportInv'
<1>1. UNCHANGED <<tag, outside, nest, unpaired>>
  BY DEF SetMode, bracketVars
<1>2. CASE UNCHANGED blocks
  BY <1>1, <1>2, ReportUnchanged DEF ReportVars
<1>3. CASE blocks' = [b \in DOMAIN blocks |-> [blocks[b] EXCEPT !.switched = TRUE]]
  <2>1. \A b \in DOMAIN blocks : blocks[b] \in Block
    BY DEF RouteInv, Kinds
  <2>2. \A b \in DOMAIN blocks :
           /\ blocks'[b].by = blocks[b].by /\ blocks'[b].phase = blocks[b].phase
           /\ blocks'[b].inside = blocks[b].inside /\ blocks'[b].alone = blocks[b].alone
    BY <1>3, <2>1 DEF Block
  <2> QED BY <1>1, <1>3, <2>2, SameTags
<1> QED BY <1>2, <1>3 DEF SetMode

\* The end of an allocation leaves everybody else's tag.
LEMMA OthersTags ==
    ASSUME RouteInv, NEW t \in Thread, Bracket!Record(t)
    PROVE  /\ tag[t] # "none" /\ UNCHANGED <<nest, unpaired>>
           /\ \A u \in Thread : tag'[u] # "none" => tag'[u] = tag[u] /\ outside'[u] = outside[u]
BY DEF Bracket!Record, RouteInv, Kinds

LEMMA ReportInvariance == Spec => []ReportInv
<1>1. Init => ReportInv
  BY DEF Init, Bracket!Init, ReportInv, Tagged
<1>2. RouteInv /\ DepthInv /\ ReportInv /\ [Next]_vars => ReportInv'
  <2> SUFFICES ASSUME RouteInv, DepthInv, ReportInv, [Next]_vars PROVE ReportInv'
    OBVIOUS
  <2>1. ASSUME NEW t \in Thread, InBracket(t) PROVE ReportInv'
    BY <2>1, InBracketReport
  <2>2. ASSUME NEW t \in Thread, BeginAlloc(t) PROVE ReportInv'
    BY <2>2, BeginAllocReport
  <2>3. ASSUME NEW t \in Thread, AllocFromGuard(t) PROVE ReportInv'
    <3>1. Bracket!Record(t) /\ blocks' = Append(blocks, NewBlock(t, "guard"))
      BY <2>3 DEF AllocFromGuard
    <3> QED BY <3>1, OthersTags, AppendReport
  <2>4. ASSUME NEW t \in Thread, AllocRefused(t) PROVE ReportInv'
    <3>1. Bracket!Record(t) /\ UNCHANGED blocks
      BY <2>4 DEF AllocRefused
    <3> QED BY <3>1, OthersTags DEF ReportInv, Tagged
  <2>5. ASSUME NEW t \in Thread, AllocFromC(t) PROVE ReportInv'
    BY <2>5, AppendReport DEF AllocFromC, bracketVars
  <2>6. ASSUME NEW t \in Thread, NEW b \in DOMAIN blocks, Free(t, b) PROVE ReportInv'
    BY <2>6, FreeReport
  <2>7. CASE Reset
    BY <2>7, ResetReport
  <2>8. ASSUME NEW m, SetMode(m) PROVE ReportInv'
    BY <2>8, SetModeReport
  <2>9. CASE Publish \/ UNCHANGED vars
    BY <2>9, ReportUnchanged DEF Publish, vars, bracketVars, frontVars, ReportVars
  <2> QED BY <2>1, <2>2, <2>3, <2>4, <2>5, <2>6, <2>7, <2>8, <2>9 DEF Next
<1> QED BY <1>1, <1>2, RouteInvariance, DepthInvariance, PTL DEF Spec

(***************************************************************************)
(* The leak report names guarded blocks that nobody gave back since the    *)
(* last reset, but perhaps to the C heap after a change of mode.  As long  *)
(* as every thread leaves only brackets it entered, the blocks it names    *)
(* were made outside their thread's own bracket, and it names every one    *)
(* made while nobody was in a bracket, though the phase is read before the *)
(* lock and the depth is everybody's.                                      *)
(***************************************************************************)
THEOREM LeakReportRight == Spec => []ReportRight
<1>1. RouteInv /\ ReportInv => ReportRight
  <2> SUFFICES ASSUME RouteInv, ReportInv PROVE ReportRight
    OBVIOUS
  <2>1. ASSUME NEW b \in Report
        PROVE  /\ blocks[b].by = "guard"
               /\ \/ blocks[b].state = "live"
                  \/ blocks[b].state = "crt" /\ blocks[b].switched
               /\ unpaired = 0 => ~blocks[b].inside
    <3>1. /\ b \in DOMAIN blocks /\ blocks[b].by = "guard" /\ blocks[b].phase = "App"
          /\ blocks[b].state \in {"live", "crt"}
      BY <2>1 DEF Report, RouteInv, Listed
    <3>2. blocks[b].state = "crt" => blocks[b].switched
      BY <3>1 DEF RouteInv, FreesGoHome
    <3>3. unpaired = 0 => ~blocks[b].inside
      BY <3>1 DEF ReportInv, Tagged
    <3> QED BY <3>1, <3>2, <3>3
  <2>2. ASSUME NEW b \in DOMAIN blocks, blocks[b].by = "guard", blocks[b].state = "live",
               blocks[b].alone, unpaired = 0
        PROVE  b \in Report
    BY <2>2 DEF Report, RouteInv, Listed, ReportInv, Tagged
  <2> QED BY <2>1, <2>2 DEF ReportRight
<1> QED BY <1>1, RouteInvariance, ReportInvariance, PTL

-----------------------------------------------------------------------------
(* The published counters.                                                 *)

\* The ledger's counters fit together and count the live entries; what was stored
\* and loaded since is what they say.
CountInv ==
    /\ stats \in [Counter -> Int] /\ dump \in [Counter -> Int]
    /\ toStore \subseteq Counter /\ toLoad \subseteq Counter
    /\ IsFiniteSet(entries) /\ stats["liveAllocs"] = Cardinality(entries)
    /\ stats["totalAllocs"] = stats["liveAllocs"] + stats["totalFrees"]
    /\ published \in [Counter -> Int]
    /\ \A c \in Counter \ toStore : published[c] = stats[c]
    /\ dumps \in Nat
    /\ dumps > 0 /\ ~overlapped =>
          toStore = {} /\ \A c \in Counter \ toLoad : dump[c] = stats[c]

CountVars == <<stats, published, toStore, dump, toLoad, dumps, overlapped, entries>>

LEMMA CountUnchanged == ASSUME CountInv, UNCHANGED CountVars PROVE CountInv'
BY DEF CountInv, CountVars

\* An operation on the ledger that keeps the counters right.
LEMMA OperateCounts ==
    ASSUME CountInv, NEW new \in [Counter -> Int], Metrics!Operate(new),
           IsFiniteSet(entries'), new["liveAllocs"] = Cardinality(entries'),
           new["totalAllocs"] = new["liveAllocs"] + new["totalFrees"]
    PROVE  CountInv'
BY DEF Metrics!Operate, Metrics!dumpSide, CountInv, Counter

LEMMA AllocCounts ==
    ASSUME RouteInv, CountInv, NEW t \in Thread, AllocFromGuard(t) PROVE CountInv'
<1> DEFINE new == [stats EXCEPT !["liveAllocs"] = @ + 1, !["totalAllocs"] = @ + 1]
           n == Len(blocks) + 1
<1>1. Metrics!Operate(new) /\ entries' = entries \cup {n}
  BY DEF AllocFromGuard, Metrics!Alloc
<1>2. n \notin entries
  <2>1. blocks \in Seq(Block) /\ entries \subseteq DOMAIN blocks
    BY DEF RouteInv, Kinds, Listed
  <2> QED BY <2>1
<1> HIDE DEF n
<1>3. IsFiniteSet(entries') /\ Cardinality(entries') = Cardinality(entries) + 1
  BY <1>1, <1>2, FS_AddElement DEF CountInv
<1>4. /\ new \in [Counter -> Int] /\ new["liveAllocs"] = stats["liveAllocs"] + 1
      /\ new["totalAllocs"] = stats["totalAllocs"] + 1 /\ new["totalFrees"] = stats["totalFrees"]
      /\ stats["liveAllocs"] \in Int /\ stats["totalFrees"] \in Int
  BY DEF CountInv, Counter, Metrics!Counter
<1> HIDE DEF new
<1>5. /\ new["liveAllocs"] = Cardinality(entries')
      /\ new["totalAllocs"] = new["liveAllocs"] + new["totalFrees"]
  BY <1>3, <1>4 DEF CountInv
<1> QED BY <1>1, <1>3, <1>4, <1>5, OperateCounts

LEMMA BuryCounts == ASSUME CountInv, NEW b, Bury(b) PROVE CountInv'
<1> DEFINE new == [stats EXCEPT !["liveAllocs"] = @ - 1, !["totalFrees"] = @ + 1]
<1>1. b \in entries /\ Metrics!Operate(new) /\ entries' = entries \ {b}
  BY DEF Bury, Metrics!Free
<1>2. IsFiniteSet(entries') /\ Cardinality(entries') = Cardinality(entries) - 1
  BY <1>1, FS_RemoveElement DEF CountInv
<1>3. /\ new \in [Counter -> Int] /\ new["liveAllocs"] = stats["liveAllocs"] - 1
      /\ new["totalAllocs"] = stats["totalAllocs"]
      /\ new["totalFrees"] = stats["totalFrees"] + 1
      /\ stats["liveAllocs"] \in Int /\ stats["totalFrees"] \in Int
  BY DEF CountInv, Counter, Metrics!Counter
<1> HIDE DEF new
<1>4. /\ new["liveAllocs"] = Cardinality(entries')
      /\ new["totalAllocs"] = new["liveAllocs"] + new["totalFrees"]
  BY <1>2, <1>3 DEF CountInv
<1> QED BY <1>1, <1>2, <1>3, <1>4, OperateCounts

LEMMA FreeCounts ==
    ASSUME CountInv, NEW t \in Thread, NEW b \in DOMAIN blocks, Free(t, b) PROVE CountInv'
<1>1. CASE UNCHANGED <<metricVars, entries>>
  BY <1>1, CountUnchanged DEF CountVars, metricVars
<1>2. CASE \E c \in DOMAIN blocks \cup entries : Bury(c)
  BY <1>2, BuryCounts
<1> QED BY <1>1, <1>2 DEF Free, FreeToC, FreeToGuard

LEMMA ResetCounts == ASSUME CountInv, Reset PROVE CountInv'
<1>1. Metrics!Operate(Metrics!Zero) /\ entries' = {}
  BY DEF Reset, Metrics!Reset
<1>2. IsFiniteSet(entries') /\ Cardinality(entries') = 0
  BY <1>1, FS_EmptySet
<1>3. /\ Metrics!Zero \in [Counter -> Int]
      /\ \A c \in Counter : Metrics!Zero[c] = 0
  BY DEF Metrics!Zero, Counter
<1>4. "liveAllocs" \in Counter /\ "totalAllocs" \in Counter /\ "totalFrees" \in Counter
  BY DEF Counter, Metrics!Counter
<1> QED BY <1>1, <1>2, <1>3, <1>4, OperateCounts

LEMMA PublishCounts == ASSUME CountInv, Publish PROVE CountInv'
<1>1. entries' = entries
  BY DEF Publish, frontVars
<1>2. ASSUME NEW c \in Counter, Metrics!Store(c) PROVE CountInv'
  BY <1>1, <1>2 DEF Metrics!Store, Metrics!dumpSide, CountInv
<1>3. ASSUME NEW c \in Counter, Metrics!Load(c) PROVE CountInv'
  BY <1>1, <1>3 DEF Metrics!Load, Metrics!ledgerSide, CountInv
<1>4. CASE Metrics!BeginDump
  <2>1. /\ dumps' = dumps + 1 /\ toLoad' = Counter /\ dump' = Metrics!Zero
        /\ overlapped' = (toStore # {})
        /\ UNCHANGED <<stats, toStore, published>>
    BY <1>4 DEF Metrics!BeginDump, Metrics!ledgerSide, Counter
  <2>2. Metrics!Zero \in [Counter -> Int]
    BY DEF Metrics!Zero, Counter
  <2>3. ~overlapped' => toStore' = {}
    BY <2>1
  <2> QED BY <1>1, <2>1, <2>2, <2>3 DEF CountInv
<1> QED BY <1>2, <1>3, <1>4 DEF Publish, Counter

LEMMA CountInvariance == Spec => []CountInv
<1>1. Init => CountInv
  BY FS_EmptySet DEF Init, Metrics!Init, Metrics!Zero, CountInv, Counter, Metrics!Counter
<1>2. RouteInv /\ CountInv /\ [Next]_vars => CountInv'
  <2> SUFFICES ASSUME RouteInv, CountInv, [Next]_vars PROVE CountInv'
    OBVIOUS
  <2>1. ASSUME NEW m \in {"Thunk", "Stomp"}, SetMode(m) PROVE CountInv'
    BY <2>1, CountUnchanged DEF SetMode, Metrics!Install, Metrics!dumpSide, metricVars, CountVars
  <2>2. CASE Reset
    BY <2>2, ResetCounts
  <2>3. CASE Publish
    BY <2>3, PublishCounts
  <2>4. ASSUME NEW t \in Thread,
               InBracket(t) \/ AllocFromC(t) \/ BeginAlloc(t) \/ AllocRefused(t)
        PROVE  CountInv'
    BY <2>4, CountUnchanged
       DEF InBracket, AllocFromC, BeginAlloc, AllocRefused, metricVars, frontVars, CountVars
  <2>5. ASSUME NEW t \in Thread, AllocFromGuard(t) PROVE CountInv'
    BY <2>5, AllocCounts
  <2>6. ASSUME NEW t \in Thread, NEW b \in DOMAIN blocks, Free(t, b) PROVE CountInv'
    BY <2>6, FreeCounts
  <2>7. CASE UNCHANGED vars
    BY <2>7, CountUnchanged DEF vars, metricVars, frontVars, CountVars
  <2> QED BY <2>1, <2>2, <2>3, <2>4, <2>5, <2>6, <2>7 DEF Next
<1> QED BY <1>1, <1>2, RouteInvariance, PTL DEF Spec

(***************************************************************************)
(* Between operations the published count of live allocations is the       *)
(* number of live entries, for any number of allocations, frees and resets, *)
(* in any modes.                                                           *)
(***************************************************************************)
THEOREM CountersSayEntries == Spec => []CountersMatchEntries
<1>1. CountInv => CountersMatchEntries
  BY DEF CountInv, CountersMatchEntries, Counter, Metrics!Counter
<1> QED BY <1>1, CountInvariance, PTL

\* A dump that no publication overlaps is a consistent picture of the ledger, in
\* whatever order its loads happen and whatever happened before.
THEOREM QuietDumpsConsistent == Spec => []QuietSnapshotConsistent
<1>1. CountInv => QuietSnapshotConsistent
  <2> SUFFICES ASSUME CountInv, dumps > 0, toLoad = {}, ~overlapped
               PROVE  dump = stats /\ Metrics!Consistent(dump)
    BY DEF QuietSnapshotConsistent, Metrics!QuietSnapshotConsistent, Metrics!Dumped
  <2>1. dump = stats
    BY DEF CountInv
  <2> QED BY <2>1 DEF CountInv, Metrics!Consistent
<1> QED BY <1>1, CountInvariance, PTL

-----------------------------------------------------------------------------
(* The composition.                                                        *)

\* The front uses the counters only as GuardMetrics says they are used: no call
\* publishes what no ledger operation did, and no two operations overlap.
THEOREM FrontRefinesMetrics == Spec => Metrics!Spec
<1>1. Init => Metrics!Init
  BY DEF Init
<1>2. [Next]_vars => [Metrics!Next]_Metrics!vars
  BY DEF Next, vars, bracketVars, metricVars, frontVars, Metrics!vars, Metrics!ledgerSide,
         Metrics!dumpSide, Metrics!Next, SetMode, Reset, InBracket, AllocFromC, BeginAlloc, AllocFromGuard,
         AllocRefused, Free, FreeToC, FreeToGuard, Bury, Publish
<1> QED BY <1>1, <1>2, PTL DEF Spec, Metrics!Spec

\* And the bracket only as ComptimePhase says: whatever holds of that protocol
\* holds of the guard.
THEOREM FrontRefinesBracket == Spec => Bracket!Spec
<1>1. Init => Bracket!Init
  BY DEF Init
<1>2. [Next]_vars => [Bracket!Next]_Bracket!vars
  BY DEF Next, vars, bracketVars, metricVars, frontVars, Bracket!vars, Bracket!Next,
         SetMode, Reset, InBracket, AllocFromC, BeginAlloc, AllocFromGuard,
         AllocRefused, Free, FreeToC, FreeToGuard, Bury, Publish
<1> QED BY <1>1, <1>2, PTL DEF Spec, Bracket!Spec

-----------------------------------------------------------------------------
(* The registry of allocation sites.                                       *)

Base == Table \cup {Null}

\* The second store follows the first: in between the base is already the new one.
StoresPair ==
    /\ pending # None => pending = base
    /\ pending = None => count = Len0(base)

\* Before the first registration there is nothing to see; up to the end of the
\* first, a reporter sees at most the first table and at most its count.
FirstOnly ==
    /\ regs = 0 => base = Null /\ pending = None
    /\ regs <= 1 => /\ count <= Len0(base)
                    /\ \A r \in Reporter : /\ seenBase[r] \in {Null, base}
                                           /\ seenCount[r] <= Len0(base)

\* What a resolution has loaded so far is still there if no registration came.
QuietLoads ==
    \A r \in Reporter : quiet[r] =>
        /\ pending = None
        /\ phase[r] # "idle" => seenBase[r] = base
        /\ phase[r] = "count" => seenCount[r] = count
        /\ phase[r] = "idle" /\ resolves[r] > 0
              => answer[r] = IF site[r] < Len0(base) THEN base ELSE Null

SitesInv == SitesTypeOK /\ StoresPair /\ FirstOnly /\ QuietLoads

\* A table has a natural number of entries.
LEMMA LengthKind == \A T \in Base : Len0(T) \in Nat
BY SitesAssumption DEF Len0, Base

LEMMA InitSites == SitesInit => SitesInv
BY SitesAssumption
   DEF SitesInit, SitesInv, SitesTypeOK, StoresPair, FirstOnly, QuietLoads, Base, SiteId, Len0

LEMMA StoreBaseSites ==
    ASSUME SitesInv, NEW T \in Base, StoreBase(T) PROVE SitesInv'
<1>1. SitesTypeOK'
  BY DEF StoreBase, SitesInv, SitesTypeOK, Base
<1>2. StoresPair'
  BY SitesAssumption DEF StoreBase, StoresPair, Base
<1>3. FirstOnly'
  <2>1. CASE regs = 0
    <3>1. base = Null /\ count = 0
      BY <2>1 DEF SitesInv, FirstOnly, StoresPair, Len0
    <3>2. \A r \in Reporter : seenBase[r] = Null /\ seenCount[r] = 0
      BY <2>1, <3>1 DEF SitesInv, FirstOnly, Len0, SitesTypeOK
    <3>3. Len0(T) \in Nat
      BY LengthKind
    <3> QED BY <2>1, <3>1, <3>2, <3>3 DEF FirstOnly, StoreBase
  <2>2. CASE regs > 0
    BY <2>2 DEF FirstOnly, StoreBase, SitesInv, SitesTypeOK
  <2> QED BY <2>1, <2>2 DEF SitesInv, SitesTypeOK
<1>4. QuietLoads'
  BY DEF StoreBase, QuietLoads
<1> QED BY <1>1, <1>2, <1>3, <1>4 DEF SitesInv

LEMMA StoreCountSites ==
    ASSUME SitesInv, StoreCount PROVE SitesInv'
<1>1. pending = base /\ count' = Len0(base) /\ pending' = None /\ Len0(base) \in Nat
  BY LengthKind DEF StoreCount, SitesInv, StoresPair, SitesTypeOK, Base
<1>2. SitesTypeOK'
  BY <1>1 DEF StoreCount, SitesInv, SitesTypeOK, Base
<1>3. StoresPair' /\ FirstOnly'
  BY <1>1 DEF StoreCount, SitesInv, StoresPair, FirstOnly
<1>4. \A r \in Reporter : ~quiet[r]
  BY DEF StoreCount, SitesInv, QuietLoads
<1>5. QuietLoads'
  BY <1>4 DEF StoreCount, QuietLoads
<1> QED BY <1>2, <1>3, <1>5 DEF SitesInv

LEMMA LoadBaseSites ==
    ASSUME SitesInv, NEW r \in Reporter, NEW s \in SiteId, LoadBase(r, s) PROVE SitesInv'
<1>1. SitesTypeOK'
  BY DEF LoadBase, hostVars, SitesInv, SitesTypeOK
<1>2. StoresPair' /\ FirstOnly'
  BY DEF LoadBase, hostVars, SitesInv, StoresPair, FirstOnly, SitesTypeOK
<1>3. QuietLoads'
  BY DEF LoadBase, hostVars, SitesInv, QuietLoads, SitesTypeOK
<1> QED BY <1>1, <1>2, <1>3 DEF SitesInv

LEMMA LoadCountSites ==
    ASSUME SitesInv, NEW r \in Reporter, LoadCount(r) PROVE SitesInv'
<1>1. SitesTypeOK'
  BY DEF LoadCount, hostVars, SitesInv, SitesTypeOK
<1>2. StoresPair' /\ FirstOnly'
  BY DEF LoadCount, hostVars, SitesInv, StoresPair, FirstOnly, SitesTypeOK
<1>3. QuietLoads'
  BY DEF LoadCount, hostVars, SitesInv, QuietLoads, SitesTypeOK
<1> QED BY <1>1, <1>2, <1>3 DEF SitesInv

LEMMA ReadEntrySites ==
    ASSUME SitesInv, NEW r \in Reporter, ReadEntry(r) PROVE SitesInv'
<1>1. SitesTypeOK'
  BY DEF ReadEntry, hostVars, SitesInv, SitesTypeOK, Base
<1>2. StoresPair' /\ FirstOnly'
  BY DEF ReadEntry, hostVars, SitesInv, StoresPair, FirstOnly, SitesTypeOK
<1>3. ASSUME quiet[r]
      PROVE  answer'[r] = IF site[r] < Len0(base) THEN base ELSE Null
  <2>1. seenBase[r] = base /\ seenCount[r] = Len0(base)
    BY <1>3 DEF ReadEntry, SitesInv, QuietLoads, StoresPair
  <2>2. answer'[r] = IF base # Null /\ site[r] < Len0(base) THEN base ELSE Null
    BY <2>1 DEF ReadEntry, Resolvable, SitesInv, SitesTypeOK
  <2> QED BY <2>2
<1>4. QuietLoads'
  BY <1>3 DEF ReadEntry, hostVars, SitesInv, QuietLoads, SitesTypeOK
<1> QED BY <1>1, <1>2, <1>4 DEF SitesInv

\* The invariant holds in every reachable state.
LEMMA SitesInvariance == SitesSpec => []SitesInv
<1>1. SitesInit => SitesInv
  BY InitSites
<1>2. SitesInv /\ [SitesNext]_sitesVars => SitesInv'
  <2> SUFFICES ASSUME SitesInv, [SitesNext]_sitesVars PROVE SitesInv'
    OBVIOUS
  <2>1. ASSUME NEW T \in Base, StoreBase(T) PROVE SitesInv'
    BY <2>1, StoreBaseSites
  <2>2. ASSUME StoreCount PROVE SitesInv'
    BY <2>2, StoreCountSites
  <2>3. ASSUME NEW r \in Reporter, NEW s \in SiteId, LoadBase(r, s) PROVE SitesInv'
    BY <2>3, LoadBaseSites
  <2>4. ASSUME NEW r \in Reporter, LoadCount(r) PROVE SitesInv'
    BY <2>4, LoadCountSites
  <2>5. ASSUME NEW r \in Reporter, ReadEntry(r) PROVE SitesInv'
    BY <2>5, ReadEntrySites
  <2>6. ASSUME UNCHANGED sitesVars PROVE SitesInv'
    BY <2>6 DEF sitesVars, hostVars, SitesInv, SitesTypeOK, StoresPair, FirstOnly, QuietLoads
  <2> QED BY <2>1, <2>2, <2>3, <2>4, <2>5, <2>6 DEF SitesNext, Base
<1> QED BY <1>1, <1>2, PTL DEF SitesSpec

(***************************************************************************)
(* Until a table is replaced, every entry resolve_raw reads lies within    *)
(* the table it is read from, however many reporters run and however their *)
(* loads fall between the two stores of the registration.                  *)
(***************************************************************************)
THEOREM FirstTableIsSafe == SitesSpec => []FirstTableSafe
<1>1. SitesInv => FirstTableSafe
  <2> SUFFICES ASSUME SitesInv, regs <= 1, NEW r \in Reporter, phase[r] = "count", Resolvable(r)
               PROVE  site[r] < Len0(seenBase[r])
    BY DEF FirstTableSafe, EntryInTable
  <2>1. seenBase[r] = base /\ seenCount[r] <= Len0(base) /\ site[r] < seenCount[r]
    BY DEF SitesInv, FirstOnly, Resolvable
  <2>2. Len0(base) \in Nat /\ seenCount[r] \in Nat /\ site[r] \in Nat
    BY LengthKind DEF SitesInv, SitesTypeOK, Base, SiteId
  <2> QED BY <2>1, <2>2
<1> QED BY <1>1, SitesInvariance, PTL

\* However many tables came before, a resolution that no registration overlaps
\* names the registered table, or nothing for an id outside it.
THEOREM QuietResolutions == SitesSpec => []QuietResolves
<1>1. SitesInv => QuietResolves
  BY DEF SitesInv, QuietLoads, QuietResolves
<1> QED BY <1>1, SitesInvariance, PTL
=============================================================================
