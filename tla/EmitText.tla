------------------------------ MODULE EmitText ------------------------------
(***************************************************************************)
(* The texts that comptime generators emit: how the emission loop          *)
(* normalises one (newbf-comptime/src/emit.rs), and what the compiler will *)
(* read of it (newbf-lexer/src/lexer.rs).                                  *)
(*                                                                         *)
(* A text is a sequence of tokens, one of each kind that normalize or the  *)
(* lexer treats in a way of its own: letters "x" and "y", of which words   *)
(* are made; a punctuator "punct"; blanks "sp" and line ends "nl"; "cm",   *)
(* the two slashes of a line comment; string literals "lit", "wide" (the   *)
(* same with two blanks for one) and "url" (which holds two slashes); and  *)
(* block comments "rem" and "remurl" (which holds two slashes).            *)
(***************************************************************************)
EXTENDS Integers, Sequences, SequencesExt, FiniteSets

Token == {"x", "y", "punct", "sp", "nl", "cm", "lit", "wide", "url", "rem", "remurl"}

IsSpace(c) == c \in {"sp", "nl"}

BlockComment == {"rem", "remurl"}

\* What begins with a slash: after the slash that ends a block comment it makes two.
Slash == BlockComment \cup {"cm"}

-----------------------------------------------------------------------------
(* normalize.  It finds two slashes wherever they are; of a token cut by   *)
(* them "url" and "remurl" stand for the part that is left, and "torn" for *)
(* a "rem" without its last slash.                                         *)

Blank == [out |-> <<>>, space |-> FALSE, comment |-> FALSE]

Tears(at, c) == c \in Slash /\ at.out # <<>> /\ Last(at.out) = "rem"

\* One more token in: at is what is known of the text before it.
NormalStep(at, c) ==
    LET with(word, cut) == [out |-> Append(at.out, word), space |-> FALSE, comment |-> cut]
    IN  IF at.comment /\ c # "nl" THEN at
        ELSE CASE Tears(at, c) -> [out |-> Append(Front(at.out), "torn"),
                                   space |-> FALSE, comment |-> TRUE]
               [] ~Tears(at, c) /\ c = "cm" -> [at EXCEPT !.comment = TRUE]
               [] c = "wide" -> with("lit", FALSE)
               [] IsSpace(c) ->
                     [out |-> IF at.space \/ at.out = <<>> THEN at.out ELSE Append(at.out, "sp"),
                      space |-> at.space \/ c = "sp" \/ at.out # <<>>,
                      comment |-> FALSE]
               [] OTHER -> with(c, c \in {"url", "remurl"})

\* What is known after every prefix of s.
Normalizing(s) ==
    LET at[i \in 0 .. Len(s)] == IF i = 0 THEN Blank ELSE NormalStep(at[i - 1], s[i])
    IN  at

\* Mutant of Trimmed: the blank a line end leaves behind is kept.
MutTrimmed(s) == s

Trimmed(s) == IF s # <<>> /\ Last(s) = "sp" THEN Front(s) ELSE s

Normal(s) == Trimmed(Normalizing(s)[Len(s)].out)

-----------------------------------------------------------------------------
(* The compiler.                                                           *)

\* Position i of the text lies in a line comment.
InComment(s, i) == \E j \in 1 .. i : s[j] = "cm" /\ \A k \in j .. i : s[k] # "nl"

\* Where something is written, other than a line comment.
InkAt(s) == {i \in DOMAIN s : ~IsSpace(s[i]) /\ ~InComment(s, i)}

\* Where there is code.
CodeAt(s) == {i \in InkAt(s) : s[i] \notin BlockComment}

\* f leads from places of s to all the places of u in to, in order, and finds the same there.
Follows(f, s, u, to) ==
    /\ \A j \in to : \E i \in DOMAIN f : f[i] = j
    /\ \A i, j \in DOMAIN f : i < j => f[i] < f[j]
    /\ \A i \in DOMAIN f : u[f[i]] = s[i]

\* Two texts differ in their layout only: line comments, and how blank a blank is.
SameLayout(s, u) ==
    \E f \in [InkAt(s) -> InkAt(u)] :
        /\ Follows(f, s, u, InkAt(u))
        /\ \A i \in InkAt(s) : f[i] - 1 \in InkAt(u) <=> i - 1 \in InkAt(s)

\* The letter at i goes on the word of the letter before it.
GoesOn(s, i) == {i - 1, i} \subseteq CodeAt(s) /\ {s[i - 1], s[i]} \subseteq {"x", "y"}

\* Two texts are the same to the compiler: they have the same words, punctuators and literals.
SameSource(s, u) ==
    \E f \in [CodeAt(s) -> CodeAt(u)] :
        /\ Follows(f, s, u, CodeAt(u))
        /\ \A i \in CodeAt(s) : GoesOn(u, f[i]) <=> GoesOn(s, i)

\* There is nothing in the text that normalize takes for something else: no literal with
\* two slashes or more than one blank in a row, no block comment with two slashes in it or
\* where it meets the next comment.
IsPlain(s) ==
    \A i \in InkAt(s) : /\ s[i] \in {"x", "y", "punct", "lit", "rem"}
                        /\ s[i] = "rem" /\ i + 1 \in DOMAIN s => s[i + 1] \notin Slash

\* extension Owner { text } is closed on the text's last line: a comment there hides the brace.
Closes(s) == s = <<>> \/ ~InComment(s, Len(s))

\* A token of several characters counts as two.
ByteLen(s) ==
    Len(s) + Cardinality({i \in DOMAIN s : s[i] \notin {"x", "y", "punct", "sp", "nl"}})
=============================================================================
