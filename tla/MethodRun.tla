----------------------------- MODULE MethodRun -----------------------------
(***************************************************************************)
(* A method body as the compiler leaves it, running.  A behaviour chooses  *)
(* a body of one of the dialects, diagnoses it (DeleteFlow), lowers it     *)
(* (ScopeLowering) and runs the instructions, every condition going either *)
(* way, on a heap that aborts at a double free as the guard does.  What    *)
(* the diagnostics claim and what the cleanup promises is then compared    *)
(* with what happens.                                                      *)
(***************************************************************************)
EXTENDS ScopeLowering

CONSTANTS Dialects,   \* the dialects methods are written in
          Written(_), \* Written(d): the bodies of dialect d
          MaxTurns    \* bound: turns of loops after the first one

ASSUME MethodRunAssumption ==
    /\ \A d \in Dialects : Written(d) \subseteq Stmt
    /\ MaxTurns \in Nat

VARIABLES work,     \* instructions left to run
          about,    \* the body's gaps, and the kinds of statement in it
          ptr,      \* ptr[v]: the object v points to, or Null
          site,     \* site[i]: what allocation site i allocated last, or Null
          objects,  \* number of objects allocated
          freed,    \* objects freed
          crashed,  \* whether a freed object was freed again
          scoped,   \* history: objects allocated with scope
          letGo,    \* history: objects stored, aliased or returned
          strayed,  \* history: scope objects deleted through another binding,
                    \* or whose binding was deleted holding another object
          claimed,  \* history: objects reported as leaked at the exit taken
          warned,   \* history: whether a delete was run that is reported to free
                    \* what the scope frees too
          due,      \* history: deferred statements declared and not yet run
          turns     \* history: turns of loops after the first one

heap    == <<ptr, site, objects, freed, crashed, scoped>>
history == <<letGo, strayed, claimed, warned, due, turns>>
vars    == <<work, about, heap, history>>

Null == 0

Object == 1 .. objects

\* The statements directly inside s.
Inside(s) ==
    CASE s.op = "block"  -> ToSet(s.stmts)
      [] s.op = "if"     -> {s.then} \cup ToSet(s.els)
      [] s.op = "switch" -> UNION {ToSet(s.arms[i]) : i \in DOMAIN s.arms}
      [] s.op \in {"while", "do", "defer"} -> {s.body}
      [] OTHER           -> {}

\* The kinds of statement that occur in s.
kindsAt[h \in Depth] ==
    [s \in StmtOf[h] |-> {s.op} \cup UNION {kindsAt[h - 1][t] : t \in Inside(s)}]

Kinds(s) == kindsAt[MaxDepth][s]

TypeOK ==
    /\ ptr \in [Var -> Object \cup {Null}]
    /\ \A i \in DOMAIN site : site[i] \in scoped \cup {Null}
    /\ freed \cup scoped \cup letGo \subseteq Object
    /\ strayed \subseteq scoped
    /\ crashed \in BOOLEAN
    /\ turns \in 0 .. MaxTurns

Init ==
    /\ \E d \in Dialects : \E body \in Written(d) :
          LET checked == CheckDeleteFlow(body)
              lowered == Lower(checked.body, LowerInit)
          IN  /\ work = Append(lowered.code, [op |-> "end", leaks |-> checked.leaks])
              /\ site = [i \in 1 .. lowered.low.sites |-> Null]
              /\ about = [gaps |-> lowered.low.gaps, kinds |-> Kinds(body)]
    /\ ptr = [v \in Var |-> Null]
    /\ objects = 0 /\ turns = 0
    /\ freed = {} /\ scoped = {} /\ letGo = {} /\ strayed = {} /\ claimed = {}
    /\ due = <<>>
    /\ crashed = FALSE /\ warned = FALSE

-----------------------------------------------------------------------------
(* Instructions that touch the heap.                                       *)

Running(ops) == work # <<>> /\ Head(work).op \in ops

Instr == Head(work)

Step == work' = Tail(work) /\ UNCHANGED about

\* Free obj; the guard aborts if it was freed before.
Release(obj) ==
    /\ freed' = freed \cup ({obj} \ {Null})
    /\ crashed' = (obj \in freed)
    /\ work' = IF obj \in freed THEN <<>> ELSE Tail(work)
    /\ UNCHANGED about

Allocate ==
    /\ Running({"let", "assign"}) /\ Instr.value # "null"
    /\ Step
    /\ objects' = objects + 1
    /\ ptr' = [ptr EXCEPT ![Instr.var] = objects + 1]
    /\ IF Instr.value = "scope"
       THEN /\ site' = [site EXCEPT ![Instr.site] = objects + 1]
            /\ scoped' = scoped \cup {objects + 1}
       ELSE UNCHANGED <<site, scoped>>
    /\ UNCHANGED <<freed, crashed, history>>

Clear ==
    /\ Running({"let", "assign"}) /\ Instr.value = "null"
    /\ Step
    /\ ptr' = [ptr EXCEPT ![Instr.var] = Null]
    /\ UNCHANGED <<site, objects, freed, crashed, scoped, history>>

DeleteLocal ==
    LET obj   == ptr[Instr.var]
        bound == {site[a.site] : a \in Instr.bound}
    IN  /\ Running({"delete"})
        /\ Release(obj)
        /\ site' = [i \in DOMAIN site |->
                      IF \E a \in Instr.bound : a.site = i /\ a.kind = "slot" THEN Null
                      ELSE site[i]]
        /\ strayed' = IF bound = {obj} THEN strayed
                      ELSE strayed \cup ((bound \cup {obj}) \cap scoped)
        /\ warned' = (warned \/ Instr.alarm = "OwnedScope")
        /\ UNCHANGED <<ptr, objects, scoped, letGo, claimed, due, turns>>

Pass ==
    /\ Running({"pass"})
    /\ Step
    /\ UNCHANGED <<heap, history>>

LetGo ==
    /\ Running({"store", "alias"})
    /\ Step
    /\ letGo' = letGo \cup ({ptr[Instr.var]} \ {Null})
    /\ UNCHANGED <<heap, strayed, claimed, warned, due, turns>>

\* The cleanup of one allocation.  A slot that is null is passed over.
FreeScoped ==
    LET obj == site[Instr.site]
    IN  /\ Running({"free"})
        /\ IF Instr.kind = "slot" /\ obj = Null
           THEN Step /\ UNCHANGED <<freed, crashed>>
           ELSE Release(obj)
        /\ UNCHANGED <<ptr, site, objects, scoped, history>>

-----------------------------------------------------------------------------
(* Instructions that direct control.                                       *)

Goto(code) ==
    /\ work' = code
    /\ UNCHANGED <<about, heap, letGo, strayed, claimed, warned, due>>

If ==
    /\ Running({"if"})
    /\ \E branch \in {Instr.then, Instr.else} : Goto(branch \o Tail(work))
    /\ UNCHANGED turns

\* [op |-> "exit"] stands where the arms of a switch go on.
Switch ==
    /\ Running({"switch"})
    /\ \/ \E arm \in ToSet(Instr.arms) : Goto(arm \o <<[op |-> "exit"]>> \o Tail(work))
       \/ ~Instr.default /\ Goto(Tail(work))
    /\ UNCHANGED turns

\* [op |-> "loop"] stands where the condition is tested again.
EnterLoop ==
    /\ Running({"while", "do"})
    /\ \/ Goto(Instr.turn \o <<[op |-> "loop", turn |-> Instr.turn]>> \o Tail(work))
       \/ Instr.op = "while" /\ Goto(Tail(work))
    /\ UNCHANGED turns

Again ==
    /\ Running({"loop"}) /\ turns < MaxTurns
    /\ Goto(Instr.turn \o work)
    /\ turns' = turns + 1

Continue(mark) ==
    /\ Running({"continue"})
    /\ work[mark].op = "loop" /\ \A i \in 1 .. mark - 1 : work[i].op # "loop"
    /\ Goto(SubSeq(work, mark, Len(work)))
    /\ UNCHANGED turns

Break(mark) ==
    /\ Running({"break"})
    /\ work[mark].op \in {"loop", "exit"}
    /\ \A i \in 1 .. mark - 1 : work[i].op \notin {"loop", "exit"}
    /\ Goto(SubSeq(work, mark + 1, Len(work)))
    /\ UNCHANGED turns

GoOn ==
    /\ Running({"loop", "exit"})
    /\ Goto(Tail(work))
    /\ UNCHANGED turns

Declare ==
    /\ Running({"declare"})
    /\ Step
    /\ due' = Append(due, Instr.id)
    /\ UNCHANGED <<heap, letGo, strayed, claimed, warned, turns>>

RunDeferred ==
    /\ Running({"run"})
    /\ Step
    /\ due' = SelectSeq(due, LAMBDA id : id # Instr.id)
    /\ UNCHANGED <<heap, letGo, strayed, claimed, warned, turns>>

\* A return evaluates its value; the cleanup comes between it and "ret".
Return ==
    /\ Running({"return"})
    /\ Step
    /\ claimed' = {ptr[v] : v \in Instr.leaks}
    /\ letGo' = letGo \cup ({ptr[v] : v \in {Instr.var} \cap Var} \ {Null})
    /\ UNCHANGED <<heap, strayed, warned, due, turns>>

Ret ==
    /\ Running({"ret"})
    /\ Goto(<<>>)
    /\ UNCHANGED turns

End ==
    /\ Running({"end"})
    /\ Step
    /\ claimed' = {ptr[v] : v \in Instr.leaks}
    /\ UNCHANGED <<heap, letGo, strayed, warned, due, turns>>

Next ==
    \/ Allocate \/ Clear \/ DeleteLocal \/ Pass \/ LetGo \/ FreeScoped
    \/ If \/ Switch \/ EnterLoop \/ Again \/ GoOn
    \/ \E mark \in DOMAIN work : Continue(mark) \/ Break(mark)
    \/ Declare \/ RunDeferred \/ Return \/ Ret \/ End

Spec == Init /\ [][Next]_vars

-----------------------------------------------------------------------------
(* What the diagnostics claim ("zero false positives").                    *)

\* The objects the diagnostics know nothing bad about at an exit that reports
\* them as leaked.
FalseLeaks == claimed \cap (freed \cup letGo \cup {Null})

\* The analysis follows neither jumps out of loops and switches nor defers.
FollowsAll == about.kinds \cap {"break", "continue", "defer"} = {}

\* A delete reported to delete again what was deleted does so, on every path the
\* analysis follows, second turns of loops excepted.
AlarmsTrue ==
    Running({"delete"}) /\ Instr.alarm = "Deleted" /\ turns = 0 /\ FollowsAll
        => ptr[Instr.var] \in freed

\* An object reported as leaked is still there when the method has ended, and
\* nobody else was given it.
LeaksTrue == work = <<>> /\ ~crashed /\ turns = 0 /\ FollowsAll => FalseLeaks = {}

\* In a method without branches, whose locals are not given to anyone, every
\* second delete of an object is reported.
NoSilentDoubleFree ==
    Running({"delete"}) /\ about.kinds \subseteq {"block", "let", "assign", "delete", "return"}
        => (ptr[Instr.var] \in freed => Instr.alarm # NoAlarm)

\* The rule as ownership.rs states it: a leak is reported only if it is one on
\* every path to the exit.
LeaksOnEveryPath == work = <<>> /\ ~crashed /\ turns = 0 => FalseLeaks = {}

\* The other report as ownership.rs words it: what the delete frees is freed by its
\* scope as well, so that no method ends well that ran such a delete.
ScopeFreesToo == work = <<>> /\ ~crashed /\ turns = 0 /\ FollowsAll => ~warned

-----------------------------------------------------------------------------
(* What the cleanup promises.                                              *)

\* An allocation that is freed without a test has been made.
DirectDominates ==
    Running({"free"}) /\ Instr.kind = "direct" => site[Instr.site] # Null

\* The cleanup never frees an object that was freed, whatever exits are taken,
\* but for objects deleted through another binding.
FreedOnce ==
    Running({"free"}) /\ site[Instr.site] \in freed
        => site[Instr.site] \in strayed \/ about.gaps # {}

\* When the method has ended, all its scope objects are freed.
FreedInTheEnd ==
    work = <<>> /\ ~crashed => scoped \subseteq freed \cup strayed \/ about.gaps # {}

\* Deferred statements run once each, the last one declared first, and all of
\* them before the method ends.
DefersInOrder ==
    about.gaps = {} =>
        /\ Running({"run"}) => due # <<>> /\ Last(due) = Instr.id
        /\ work = <<>> /\ ~crashed => due = <<>>

\* The cleanup as lower.rs states it: "freed exactly once on every exit edge".
\* Not twice:
FreedOnEveryEdge ==
    Running({"free"}) /\ site[Instr.site] \in freed => site[Instr.site] \in strayed

\* And, unless it was deleted through another binding, not never:
NoneLeftBehind == work = <<>> /\ ~crashed => scoped \subseteq freed \cup strayed
=============================================================================
