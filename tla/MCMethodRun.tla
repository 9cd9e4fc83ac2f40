---------------------------- MODULE MCMethodRun ----------------------------
(* Dialects: manual memory, objects lent to others, scope allocations, and *)
(* scopes with defers; and three small ones whose counterexamples are      *)
(* findings.                                                               *)
EXTENDS MethodRun, MethodBodies

Manual ==
    [size |-> 4, values |-> {"new", "null"}, uses |-> {"delete", "store"},
     compound |-> {"if", "while"}, jumps |-> {"return"}]

Lent ==
    [size |-> 3, values |-> {"new", "null"}, uses |-> {"delete", "pass", "alias"},
     compound |-> {"if", "while"}, jumps |-> {"return"}]

Scopes ==
    [size |-> 4, values |-> {"scope"}, uses |-> {"delete"},
     compound |-> {"block", "if", "while", "switch"}, jumps |-> {"return", "break", "continue"}]

Defers ==
    [size |-> 4, values |-> {"scope"}, uses |-> {"delete"},
     compound |-> {"block", "if", "do", "defer"}, jumps |-> {"return", "break"}]

AllDialects == {Manual, Lent, Scopes, Defers}

Branches ==
    [size |-> 4, values |-> {"scope"}, uses |-> {},
     compound |-> {"if", "while"}, jumps |-> {}]

OnlyBranches == {Branches}

ScopeDeletes ==
    [size |-> 2, values |-> {"scope"}, uses |-> {"delete"},
     compound |-> {"if"}, jumps |-> {"return"}]

OnlyScopeDeletes == {ScopeDeletes}

SwitchArms ==
    [size |-> 3, values |-> {"new"}, uses |-> {"delete"},
     compound |-> {"switch"}, jumps |-> {"break"}]

OnlySwitchArms == {SwitchArms}
=============================================================================
