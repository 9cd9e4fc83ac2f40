--------------------------- MODULE ComptimePhase ---------------------------
(***************************************************************************)
(* The comptime bracket of the guard (guard/mod.rs): a process-wide depth  *)
(* that allocations consult to decide whether the leak report covers them. *)
(* Entering is one atomic add; leaving is a load and, if the depth was not *)
(* zero, an atomic subtraction.  Nothing makes a caller pair the two: a    *)
(* thread that entered nothing may leave.                                  *)
(***************************************************************************)
EXTENDS Integers

CONSTANTS Thread,       \* threads that evaluate or allocate
          DepthMod,     \* the depth wraps modulo this (usize in the code)
          MaxNest,      \* bound: brackets a thread nests
          MaxCalls,     \* bound: brackets entered
          MaxUnpaired   \* bound: exits by a thread in no bracket

VARIABLES depth,    \* COMPTIME_DEPTH
          nest,     \* nest[t]: brackets thread t has entered and not left
          leaving,  \* leaving[t]: "no", or what exit_comptime's load saw
          calls,    \* brackets entered so far
          tag,      \* tag[t]: the phase of the allocation t is making, or "none"
          outside,  \* history: outside[t] if t is allocating and nobody was in a
                    \* bracket at any time since it began
          unpaired  \* history: exits by a thread that was in no bracket

vars == <<depth, nest, leaving, calls, tag, outside, unpaired>>

TypeOK ==
    /\ depth \in 0 .. (DepthMod - 1)
    /\ nest \in [Thread -> 0 .. MaxNest]
    /\ leaving \in [Thread -> {"no", "zero", "positive"}]
    /\ calls \in 0 .. MaxCalls
    /\ tag \in [Thread -> {"none", "App", "Comptime"}]
    /\ outside \in [Thread -> BOOLEAN]
    /\ unpaired \in 0 .. MaxUnpaired

Init ==
    /\ depth = 0
    /\ nest = [t \in Thread |-> 0]
    /\ leaving = [t \in Thread |-> "no"]
    /\ calls = 0
    /\ tag = [t \in Thread |-> "none"]
    /\ outside = [t \in Thread |-> FALSE]
    /\ unpaired = 0

-----------------------------------------------------------------------------

Idle(t) == leaving[t] = "no" /\ tag[t] = "none"

\* enter_comptime
Enter(t) ==
    /\ Idle(t)
    /\ nest[t] < MaxNest /\ calls < MaxCalls
    /\ depth' = (depth + 1) % DepthMod
    /\ nest' = [nest EXCEPT ![t] = @ + 1]
    /\ calls' = calls + 1
    /\ outside' = [u \in Thread |-> FALSE]
    /\ UNCHANGED <<leaving, tag, unpaired>>

\* exit_comptime, paired with an enter or not: the load ...
BeginExit(t) ==
    /\ Idle(t)
    /\ leaving' = [leaving EXCEPT ![t] = IF depth > 0 THEN "positive" ELSE "zero"]
    /\ \/ nest[t] > 0 /\ UNCHANGED unpaired
       \/ nest[t] = 0 /\ unpaired < MaxUnpaired /\ unpaired' = unpaired + 1
    /\ UNCHANGED <<depth, nest, calls, tag, outside>>

\* One bracket fewer, if the thread was in any.
Left(t) == [nest EXCEPT ![t] = IF @ > 0 THEN @ - 1 ELSE 0]

\* Mutant of EndExit: leaving one bracket closes all of them.
MutEndExitResets(t) ==
    /\ leaving[t] # "no"
    /\ depth' = 0
    /\ nest' = Left(t)
    /\ leaving' = [leaving EXCEPT ![t] = "no"]
    /\ UNCHANGED <<calls, tag, outside, unpaired>>

\* Mutant of EndExit: the last bracket is never left.
MutEndExitSticks(t) ==
    /\ leaving[t] # "no"
    /\ depth' = IF depth > 1 THEN depth - 1 ELSE depth
    /\ nest' = Left(t)
    /\ leaving' = [leaving EXCEPT ![t] = "no"]
    /\ UNCHANGED <<calls, tag, outside, unpaired>>

\* ... and the subtraction, which only a positive load is followed by.
EndExit(t) ==
    /\ leaving[t] # "no"
    /\ depth' = IF leaving[t] = "positive" THEN (depth - 1) % DepthMod ELSE depth
    /\ nest' = Left(t)
    /\ leaving' = [leaving EXCEPT ![t] = "no"]
    /\ UNCHANGED <<calls, tag, outside, unpaired>>

\* stomp_alloc reads the phase before it takes the lock ...
ReadPhase(t) ==
    /\ Idle(t)
    /\ tag' = [tag EXCEPT ![t] = IF depth > 0 THEN "Comptime" ELSE "App"]
    /\ outside' = [outside EXCEPT ![t] = \A u \in Thread : nest[u] = 0]
    /\ UNCHANGED <<depth, nest, leaving, calls, unpaired>>

\* ... under which the ledger records the allocation with that phase.
Record(t) ==
    /\ tag[t] # "none"
    /\ tag' = [tag EXCEPT ![t] = "none"]
    /\ outside' = [outside EXCEPT ![t] = FALSE]
    /\ UNCHANGED <<depth, nest, leaving, calls, unpaired>>

Next == \E t \in Thread : Enter(t) \/ BeginExit(t) \/ EndExit(t) \/ ReadPhase(t) \/ Record(t)

Spec == Init /\ [][Next]_vars

-----------------------------------------------------------------------------

\* The brackets entered and not left, each as its thread and its place in the nest.
Open == {bracket \in Thread \X (1 .. MaxNest) : bracket[2] <= nest[bracket[1]]}

\* The comment in exit_comptime: the guard before the subtraction keeps the depth
\* from underflowing even if exits are mis-paired.
NeverUnderflows == depth <= calls
=============================================================================
