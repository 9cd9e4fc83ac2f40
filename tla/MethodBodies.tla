---------------------------- MODULE MethodBodies ----------------------------
(***************************************************************************)
(* Finite sets of method bodies.  There is no dead code in them: a jump    *)
(* ends its body.  A dialect says what the bodies of a set are made of:    *)
(* how many statements beside the declarations, the values its locals are  *)
(* given, what is done with them, the compound statements and the jumps.   *)
(***************************************************************************)
EXTENDS MethodBody, FiniteSetsExt

\* What is executed in sequence: the body of an if, a loop or a defer is a
\* bare statement or, if there are several, a block.
Braced(body) == IF Len(body) = 1 THEN body[1] ELSE [op |-> "block", stmts |-> body]

Simple(d, vs) ==
    [op : {"assign"}, var : vs, value : d.values]
    \cup [op : d.uses \ {"delete"}, var : vs]
    \cup [op : d.uses \cap {"delete"}, var : vs, alarm : {NoAlarm}]

\* Where a body stands: the jumps it may end with and the locals in scope.
Contexts(d) ==
    LET loop == {{}, {"break"}, {"break", "continue"}}
    IN  [jumps : {(r \cup l) \cap d.jumps : r \in {{}, {"return"}}, l \in loop},
         vars  : {{Outer}, Var}]

JumpsIn(c) ==
    [op : c.jumps \ {"return"}]
    \cup [op : c.jumps \cap {"return"}, var : c.vars \cup {NoVar}, leaks : {{}}]

\* smaller[k][c] is the set of bodies of k statements for context c, k < n.
Compounds(d, smaller, n, c) ==
    LET With(jumps) == [c EXCEPT !.jumps = (@ \cup jumps) \cap d.jumps]
        Body(ctx)   == smaller[n - 1][ctx]
        Pairs(ctx)  == UNION {smaller[k][ctx] \X smaller[n - 1 - k][ctx] : k \in 1 .. n - 2}
        IfAllowed(op, stmts) == IF op \in d.compound THEN stmts ELSE {}
    IN  IfAllowed("block",
            {[op |-> "block", stmts |-> b] : b \in Body(c)})
        \cup IfAllowed("if",
            {[op |-> "if", then |-> Braced(b), els |-> <<>>] : b \in Body(c)}
            \cup {[op |-> "if", then |-> Braced(p[1]), els |-> <<Braced(p[2])>>] :
                    p \in Pairs(c)})
        \cup IfAllowed("switch",
            {[op |-> "switch", arms |-> a, default |-> x] : x \in BOOLEAN,
                a \in {<<b>> : b \in Body(With({"break"}))} \cup Pairs(With({"break"}))})
        \cup UNION {IfAllowed(op,
            {[op |-> op, body |-> Braced(b)] : b \in Body(With({"break", "continue"}))}) :
                op \in {"while", "do"}}
        \cup IfAllowed("defer",
            {[op |-> "defer", body |-> Braced(b)] : b \in Body([c EXCEPT !.jumps = {}])})

\* The bodies of n statements, nested ones included.  Inner is declared where
\* something follows that can use it.
BodiesAt(d, smaller, n) ==
    [c \in Contexts(d) |->
        LET First(k)  == IF k = 1 THEN Simple(d, c.vars) ELSE Compounds(d, smaller, k, c)
            Rest(k)   == IF k = n THEN {<<>>} ELSE smaller[n - k][c]
            declaring == IF n = 1 \/ Inner \in c.vars THEN {}
                         ELSE {Let(Inner, v) : v \in d.values}
                                \X smaller[n - 1][[c EXCEPT !.vars = Var]]
        IN  (IF n = 1 THEN {<<j>> : j \in JumpsIn(c)} ELSE {})
            \cup {<<p[1]>> \o p[2] : p \in declaring}
            \cup UNION {{<<p[1]>> \o p[2] : p \in First(k) \X Rest(k)} : k \in 1 .. n}]

\* The method bodies of a dialect.
BodiesOf(d) ==
    LET whole  == [jumps |-> d.jumps \cap {"return"}, vars |-> {Outer}]
        levels == FoldLeft(LAMBDA smaller, n : Append(smaller, BodiesAt(d, smaller, n)),
                           <<>>, [n \in 1 .. d.size |-> n])
    IN  {[op |-> "block", stmts |-> <<Let(Outer, v)>> \o b] :
            v \in d.values, b \in {<<>>} \cup UNION {levels[n][whole] : n \in 1 .. d.size}}
=============================================================================
