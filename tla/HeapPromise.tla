---------------------------- MODULE HeapPromise ----------------------------
(***************************************************************************)
(* What the memory guard promises a program, said without ranges, pages or *)
(* a side table: between two resets an address is handed out at most once, *)
(* every free of an address that is not live condemns the process with the *)
(* right verdict, and a condemned thread does nothing but abort it.        *)
(***************************************************************************)
CONSTANTS Addr, Thread

VARIABLES status,  \* status[a]: "fresh", "live" or "freed" since the last reset
          doomed,  \* doomed[t]: the verdict thread t is about to abort with
          alive    \* whether the process still runs

promiseVars == <<status, doomed, alive>>

Init ==
    /\ status = [a \in Addr |-> "fresh"]
    /\ doomed = [t \in Thread |-> "none"]
    /\ alive = TRUE

Running(t) == alive /\ doomed[t] = "none"

Alloc(t, a) ==
    /\ Running(t)
    /\ status[a] = "fresh"
    /\ status' = [status EXCEPT ![a] = "live"]
    /\ UNCHANGED <<doomed, alive>>

Free(t, a) ==
    /\ Running(t)
    /\ status[a] = "live"
    /\ status' = [status EXCEPT ![a] = "freed"]
    /\ UNCHANGED <<doomed, alive>>

BadFree(t, a) ==
    /\ Running(t)
    /\ status[a] # "live"
    /\ doomed' = [doomed EXCEPT ![t] = IF status[a] = "freed" THEN "DoubleFree"
                                       ELSE "WildFree"]
    /\ UNCHANGED <<status, alive>>

Reset(t) ==
    /\ Running(t)
    /\ status' = [a \in Addr |-> "fresh"]
    /\ UNCHANGED <<doomed, alive>>

Abort(t) ==
    /\ alive
    /\ doomed[t] # "none"
    /\ alive' = FALSE
    /\ UNCHANGED <<status, doomed>>

Next ==
    \E t \in Thread :
        \/ \E a \in Addr : Alloc(t, a) \/ Free(t, a) \/ BadFree(t, a)
        \/ Reset(t)
        \/ Abort(t)

Spec == Init /\ [][Next]_promiseVars
=============================================================================
