----------------------------- MODULE EmitRounds -----------------------------
(***************************************************************************)
(* The emission loop of the comptime (newbf-comptime/src/emit.rs): the     *)
(* program is analysed and lowered, its generators are run, what they emit *)
(* that is new is spliced as extension units, and the program is lowered   *)
(* again until a round brings nothing new or a cap ends it.                *)
(***************************************************************************)
EXTENDS EmitText

CONSTANTS Type,       \* qualified names, numbered in their order, in which they are declared
          Simple,     \* the simple name of every type
          Texts,      \* what generators may emit, in the order of strings
          MaxRounds,  \* EmitConfig::max_rounds
          MaxBytes,   \* EmitConfig::max_bytes
          MaxEmits    \* bound: texts emitted in one round

ASSUME EmitAssumption ==
    /\ IsFiniteSet(Type) /\ Type = 1 .. Cardinality(Type)
    /\ Simple \in [Type -> Nat]
    /\ Texts \in Seq(Seq(Token))
    /\ MaxRounds \in Nat /\ MaxBytes \in Nat /\ MaxEmits \in Nat

VARIABLES pc,         \* "lower", "run" or "done"
          structOf,   \* this round's StructId of every simple name
          jobs,       \* the types that have a generator this round
          sink,       \* EMIT_SINK
          errors,     \* whether EMIT_ERROR_SINK holds a message
          generated,  \* the units spliced so far
          seen,       \* normalised emissions met so far
          rounds, bytes,
          outcome,    \* how the run ended
          emitted     \* history: every text a generator of a type emitted

vars == <<pc, structOf, jobs, sink, errors, generated, seen, rounds, bytes, outcome, emitted>>

Text == DOMAIN Texts

-----------------------------------------------------------------------------
(* The loop.                                                               *)

SimpleNames == {Simple[o] : o \in Type}

\* Structs are registered by their simple names, one for all types that share it.
StructIds == {ids \in [SimpleNames -> 1 .. Cardinality(SimpleNames)] : IsInjective(ids)}

Init ==
    /\ pc = "lower"
    /\ structOf \in StructIds /\ jobs \in SUBSET Type
    /\ sink = <<>> /\ errors = FALSE
    /\ generated = <<>> /\ seen = {}
    /\ rounds = 0 /\ bytes = 0
    /\ outcome = "none"
    /\ emitted = {}

End(how) == pc' = "done" /\ outcome' = how

\* The spliced program has analyze diagnostics: stop and report them.
Malformed ==
    /\ pc = "lower" /\ generated # <<>>
    /\ End("malformed")
    /\ UNCHANGED <<structOf, jobs, sink, errors, generated, seen, rounds, bytes, emitted>>

\* Analyze and lower: ids shift from round to round, spliced units may bring generators.
Lower ==
    /\ pc = "lower"
    /\ structOf' \in StructIds
    /\ jobs' \in {js \in SUBSET Type : jobs \subseteq js /\ (generated = <<>> => js = jobs)}
    /\ IF jobs' = {} THEN End("settled") /\ UNCHANGED <<rounds, sink>>
       ELSE IF rounds >= MaxRounds THEN End("round cap") /\ UNCHANGED <<rounds, sink>>
       ELSE /\ pc' = "run" /\ outcome' = outcome
            /\ rounds' = rounds + 1
            /\ sink' = <<>>
    /\ UNCHANGED <<errors, generated, seen, bytes, emitted>>

\* A generator calls the shim with its type's id.
Emit(o, t) ==
    /\ pc = "run" /\ o \in jobs /\ Len(sink) < MaxEmits
    /\ sink' = Append(sink, [id |-> structOf[Simple[o]], text |-> t])
    /\ emitted' = emitted \cup {[owner |-> o, text |-> t]}
    /\ UNCHANGED <<pc, structOf, jobs, errors, generated, seen, rounds, bytes, outcome>>

\* A generator's argument was neither a literal nor a String.
EmitError ==
    /\ pc = "run" /\ ~errors
    /\ errors' = TRUE
    /\ UNCHANGED <<pc, structOf, jobs, sink, generated, seen, rounds, bytes, outcome, emitted>>

\* The generators are back and one of them reported an error: both sinks are drained.
RunFails ==
    /\ pc = "run"
    /\ errors' = FALSE
    /\ sink' = IF errors THEN <<>> ELSE sink  \* FALSE: the sandbox was not built, nothing ran
    /\ errors \/ sink = <<>>
    /\ End("failed")
    /\ UNCHANGED <<structOf, jobs, generated, seen, rounds, bytes, emitted>>

\* Mutant of OwnerOf: ids are taken to be the same in every round.
MutOwnerOf(id) == CHOOSE o \in jobs : Simple[o] = id \/ \A p \in jobs : Simple[p] # id

\* owner_id_to_qual, by this round's ids: a struct is found by its simple name, and of the
\* types that share the name the last one with a generator is taken.
OwnerOf(id) ==
    CHOOSE o \in jobs : /\ structOf[Simple[o]] = id
                        /\ \A p \in jobs : Simple[p] = Simple[o] => p <= o

Unit(e) == [owner |-> OwnerOf(e.id), text |-> e.text]

Normalize(t) == Normal(Texts[t])

\* EmitKey
Key(u) == <<u.owner, Normalize(u.text)>>

Before(u, v) == u.owner < v.owner \/ (u.owner = v.owner /\ u.text < v.text)

\* The first emission of every key not seen before.
NewUnits(out) ==
    {Unit(out[k]) : k \in {k \in DOMAIN out :
                              /\ Key(Unit(out[k])) \notin seen
                              /\ \A j \in 1 .. k - 1 : Key(Unit(out[j])) # Key(Unit(out[k]))}}

\* new_units.sort(): the one listing in the order of owners and texts.
Listings(units) ==
    {l \in [1 .. Cardinality(units) -> units] : \A i, j \in DOMAIN l : i < j => Before(l[i], l[j])}

\* Every byte of the texts of es, as its text and its place in it.
BytesIn(es) == UNION {{k} \X (1 .. ByteLen(Texts[es[k].text])) : k \in DOMAIN es}

OutputOf(es) == Cardinality(BytesIn(es))

\* Mutant of OverCap: the cap is compared before this round is added.
MutOverCap(n) == bytes > MaxBytes

OverCap(n) == bytes + n > MaxBytes

Parse(units) == \A k \in DOMAIN units : Closes(Texts[units[k].text])

\* The generators are back: account, deduplicate, splice.
Collect ==
    \E units \in Listings(NewUnits(sink)) :
        LET n == OutputOf(sink)
        IN  /\ pc = "run" /\ ~errors
            /\ sink' = <<>>
            /\ bytes' = bytes + n
            /\ seen' = seen \cup {Key(Unit(sink[k])) : k \in DOMAIN sink}
            /\ \/ OverCap(n) /\ End("byte cap") /\ UNCHANGED generated
               \/ ~OverCap(n) /\ units = <<>> /\ End("fixpoint") /\ UNCHANGED generated
               \/ ~OverCap(n) /\ ~Parse(units) /\ End("failed") /\ UNCHANGED generated
               \/ /\ ~OverCap(n) /\ units # <<>> /\ Parse(units)
                  /\ generated' = generated \o units
                  /\ pc' = "lower" /\ outcome' = outcome
            /\ UNCHANGED <<structOf, jobs, errors, rounds, emitted>>

Next ==
    \/ Malformed \/ Lower \/ EmitError \/ RunFails \/ Collect
    \/ \E o \in Type, t \in Text : Emit(o, t)

Spec == Init /\ [][Next]_vars

-----------------------------------------------------------------------------
(* Properties.                                                             *)

\* Pairs of texts that differ in their layout only, and pairs that are the same source.
Alike == {pair \in Text \X Text : SameLayout(Texts[pair[1]], Texts[pair[2]])}

Synonyms == {pair \in Text \X Text : SameSource(Texts[pair[1]], Texts[pair[2]])}

Plain == {t \in Text : IsPlain(Texts[t])}

\* No other type has the simple name.
HasOwnName(o) == \A p \in Type : Simple[p] = Simple[o] => p = o

EmitsPlainly(o) == \A e \in emitted : e.owner = o => e.text \in Plain

\* In whatever rounds and order they come, of the texts that differ only in line comments
\* and in how blank a blank is, one is spliced into a type (normalize, the seen set;
\* emit.rs:441).  For texts with nothing that normalize takes for something else.
SplicedOnce ==
    \A i, j \in DOMAIN generated :
        /\ i # j /\ generated[i].owner = generated[j].owner
        /\ {generated[i].text, generated[j].text} \subseteq Plain
        => <<generated[i].text, generated[j].text>> \notin Alike

\* While the loop goes on, and when it says it converged, whatever a generator of a type
\* emitted is in a unit of that very type, but for its layout, though struct ids shift
\* between rounds and several emissions are dropped as known.  For types that share their
\* simple name with no other, whose generators emit nothing that normalize takes for
\* something else.
NothingDropped ==
    pc = "lower" \/ outcome = "fixpoint" =>
        \A e \in emitted : HasOwnName(e.owner) /\ EmitsPlainly(e.owner) =>
            \E k \in DOMAIN generated : /\ generated[k].owner = e.owner
                                        /\ <<generated[k].text, e.text>> \in Alike

\* A run never goes past its round cap, and what it splices stays within its byte cap, also
\* when most emissions are known and when one round emits more than is left (emit.rs:455).
CapsHold ==
    /\ rounds <= MaxRounds
    /\ OutputOf(generated) <= MaxBytes

\* Emissions that the compiler reads the same are the same member, which is spliced into
\* its type once (emit.rs:204-207).
SourceSplicedOnce ==
    \A i, j \in DOMAIN generated :
        i # j /\ generated[i].owner = generated[j].owner
            => <<generated[i].text, generated[j].text>> \notin Synonyms

\* Only what is in a unit already is dropped: every emission is the same source as some
\* unit (emit.rs:209-211: the key forgets cosmetic differences).
SourceKept ==
    pc = "lower" \/ outcome = "fixpoint" =>
        \A e \in emitted :
            \E k \in DOMAIN generated : <<generated[k].text, e.text>> \in Synonyms

\* A generator's text goes to the generator's own type (module.rs:184-186).
RoutedHome == \A k \in DOMAIN generated : generated[k] \in emitted
=============================================================================
