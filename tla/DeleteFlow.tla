----------------------------- MODULE DeleteFlow -----------------------------
(***************************************************************************)
(* The walk of the delete-flow analysis over a method body                 *)
(* (newbf-sema/src/ownership.rs).  Walking a statement gives the statement *)
(* with its diagnostics, the environment after it, and whether control     *)
(* falls through.  ...By is the code for a statement, again its call for   *)
(* one that is nested in it.                                               *)
(***************************************************************************)
EXTENDS MethodBody

INSTANCE Ownership WITH Local <- Var

Walked(code, env, falls) == [code |-> code, env |-> env, falls |-> falls]

\* Statements in sequence; what follows one that diverges is dead.
WalkSeqBy(again, stmts, env) ==
    LET after[i \in 0 .. Len(stmts)] ==
            IF i = 0 THEN Walked(<<>>, env, TRUE)
            ELSE LET before == after[i - 1]
                     next   == again[stmts[i]][before.env]
                 IN  IF before.falls
                     THEN Walked(Append(before.code, next.code), next.env, next.falls)
                     ELSE before
    IN  after[Len(stmts)]

WalkBlockBy(again, s, env) ==
    LET b == WalkSeqBy(again, s.stmts, env)
    IN  Walked([op |-> s.op, stmts |-> b.code], b.env, b.falls)

\* Only the paths that fall through reach the code after the if.
WalkIfBy(again, s, env) ==
    LET t == again[s.then][env]
        e == WalkSeqBy(again, s.els, env)
    IN  Walked([op |-> s.op, then |-> t.code, els |-> e.code],
               CASE t.falls = e.falls -> Merge(t.env, e.env)
                 [] t.falls /\ ~e.falls -> t.env
                 [] ~t.falls /\ e.falls -> e.env,
               t.falls \/ e.falls)

\* The body of a loop or of a defer is walked once, where it stands.
WalkOnceBy(again, s, env) ==
    LET b == again[s.body][env]
    IN  Walked([op |-> s.op, body |-> b.code], Merge(env, b.env), TRUE)

\* The arms that fall through are merged with the state before the switch.
WalkSwitchBy(again, s, env) ==
    LET arm       == [i \in DOMAIN s.arms |-> WalkSeqBy(again, s.arms[i], env)]
        Agreed(v) == \A i \in DOMAIN arm : arm[i].falls => arm[i].env[v] = env[v]
    IN  Walked([op |-> s.op, arms |-> [i \in DOMAIN arm |-> arm[i].code], default |-> s.default],
               [v \in Var |-> IF Agreed(v) THEN env[v] ELSE "untracked"],
               TRUE)

\* The value returned is moved out before the exit is scanned.
WalkReturn(s, env) ==
    LET after == IF s.var \in Var THEN SetMoved(env, s.var) ELSE env
    IN  Walked([op |-> s.op, var |-> s.var, leaks |-> ExitScan(after)], after, FALSE)

WalkDelete(s, env) ==
    Walked([op |-> s.op, var |-> s.var, alarm |-> DeleteAlarm(env, s.var)], Flow(env, s), TRUE)

WalkBy(again, s, env) ==
    CASE s.op = "block"                  -> WalkBlockBy(again, s, env)
      [] s.op = "if"                     -> WalkIfBy(again, s, env)
      [] s.op \in {"while", "do", "defer"} -> WalkOnceBy(again, s, env)
      [] s.op = "switch"                 -> WalkSwitchBy(again, s, env)
      [] s.op = "return"                 -> WalkReturn(s, env)
      [] s.op \in {"break", "continue"}  -> Walked(s, env, FALSE)
      [] s.op = "delete"                 -> WalkDelete(s, env)
      [] OTHER                           -> Walked(s, Flow(env, s), TRUE)

\* The walk of the statements of depth h at most.
walkAt[h \in Depth] ==
    [s \in StmtOf[h] |-> [env \in Env |->
        WalkBy(IF h = 0 THEN <<>> ELSE walkAt[h - 1], s, env)]]

Walk(s, env) == walkAt[MaxDepth][s][env]

\* The diagnosed body, and the leaks reported at its end if that is an exit.
CheckDeleteFlow(body) ==
    LET b == Walk(body, NoEnv)
    IN  [body |-> b.code, leaks |-> IF b.falls THEN ExitScan(b.env) ELSE {}]
=============================================================================
