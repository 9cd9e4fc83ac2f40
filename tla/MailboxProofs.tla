--------------------------- MODULE MailboxProofs ---------------------------
(***************************************************************************)
(* Theorems about Mailbox for every set of windows, every capacity, every  *)
(* mix of calls and every number of events.                                *)
(***************************************************************************)
EXTENDS Mailbox, SequenceTheorems, TLAPS

(***************************************************************************)
(* Taking one element out of a sequence and putting one at its end.        *)
(***************************************************************************)

\* t is s without its i-th element.
Without(s, i, t) ==
    /\ Len(t) = Len(s) - 1
    /\ \A j \in 1 .. Len(t) : t[j] = s[IF j < i THEN j ELSE j + 1]

\* R maps an element to those that may come after it.
May(R, x, y) == x \in DOMAIN R /\ y \in R[x]

\* The elements of s come in an order R allows.
Sorted(s, R) == \A i, j \in DOMAIN s : i < j => May(R, s[i], s[j])

LEMMA TailWithout ==
    ASSUME NEW S, NEW s \in Seq(S), s # <<>>
    PROVE  /\ Tail(s) \in Seq(S) /\ Without(s, 1, Tail(s))
           /\ 1 \in 1 .. Len(s) /\ s[1] = Head(s) /\ Len(Tail(s)) < Len(s)
<1>1. Len(s) \in Nat \ {0}
  BY EmptySeq
<1>2. /\ Tail(s) \in Seq(S) /\ Len(Tail(s)) = Len(s) - 1
      /\ \A i \in 1 .. Len(Tail(s)) : Tail(s)[i] = s[i + 1]
  BY HeadTailProperties
<1>3. Head(s) = s[1]
  OBVIOUS
<1> QED BY <1>1, <1>2, <1>3 DEF Without

LEMMA FrontWithout ==
    ASSUME NEW S, NEW s \in Seq(S), s # <<>>
    PROVE  /\ Front(s) \in Seq(S) /\ Without(s, Len(s), Front(s))
           /\ Len(s) \in 1 .. Len(s) /\ s[Len(s)] = Last(s)
<1>1. PICK n \in Nat : n = Len(s) /\ n # 0
  BY EmptySeq
<1>2. \A i \in 1 .. n - 1 : s[i] \in S
  BY <1>1, ElementOfSeq
<1>3. /\ SubSeq(s, 1, n - 1) \in Seq(S)
      /\ Len(SubSeq(s, 1, n - 1)) = IF 1 <= n - 1 THEN (n - 1) - 1 + 1 ELSE 0
      /\ \A i \in 1 .. (n - 1) - 1 + 1 : SubSeq(s, 1, n - 1)[i] = s[1 + i - 1]
  BY <1>1, <1>2, SubSeqProperties
<1>4. Front(s) = SubSeq(s, 1, n - 1)
  BY <1>1 DEF Front
<1>5. Len(Front(s)) = n - 1 /\ \A i \in 1 .. n - 1 : Front(s)[i] = s[i]
  BY <1>1, <1>3, <1>4
<1>6. Without(s, Len(s), Front(s))
  BY <1>1, <1>5 DEF Without
<1> QED BY <1>1, <1>3, <1>4, <1>6 DEF Last

LEMMA RemoveWithout ==
    ASSUME NEW S, NEW s \in Seq(S), NEW i \in 1 .. Len(s)
    PROVE  RemoveAt(s, i) \in Seq(S) /\ Without(s, i, RemoveAt(s, i))
<1>1. PICK n \in Nat : n = Len(s) /\ n # 0 /\ i \in 1 .. n
  BY LenProperties
<1>2. PICK a : a = SubSeq(s, 1, i - 1)
  OBVIOUS
<1>3. PICK b : b = SubSeq(s, i + 1, n)
  OBVIOUS
<1>4. /\ a \in Seq(S) /\ Len(a) = i - 1
      /\ \A j \in 1 .. i - 1 : a[j] = s[j]
  <2>1. \A j \in 1 .. i - 1 : s[j] \in S
    BY <1>1, ElementOfSeq
  <2>2. /\ SubSeq(s, 1, i - 1) \in Seq(S)
        /\ Len(SubSeq(s, 1, i - 1)) = IF 1 <= i - 1 THEN (i - 1) - 1 + 1 ELSE 0
        /\ \A j \in 1 .. (i - 1) - 1 + 1 : SubSeq(s, 1, i - 1)[j] = s[1 + j - 1]
    BY <1>1, <2>1, SubSeqProperties
  <2> QED BY <1>1, <1>2, <2>2
<1>5. /\ b \in Seq(S) /\ Len(b) = n - i
      /\ \A j \in 1 .. n - i : b[j] = s[i + j]
  <2>1. \A j \in i + 1 .. n : s[j] \in S
    BY <1>1, ElementOfSeq
  <2>2. /\ SubSeq(s, i + 1, n) \in Seq(S)
        /\ Len(SubSeq(s, i + 1, n)) = IF i + 1 <= n THEN n - (i + 1) + 1 ELSE 0
        /\ \A j \in 1 .. n - (i + 1) + 1 : SubSeq(s, i + 1, n)[j] = s[i + 1 + j - 1]
    BY <1>1, <2>1, SubSeqProperties
  <2> QED BY <1>1, <1>3, <2>2
<1>6. RemoveAt(s, i) = a \o b
  BY <1>1, <1>2, <1>3 DEF RemoveAt
<1>7. /\ a \o b \in Seq(S) /\ Len(a \o b) = Len(a) + Len(b)
      /\ \A j \in 1 .. Len(a) + Len(b) :
            (a \o b)[j] = IF j <= Len(a) THEN a[j] ELSE b[j - Len(a)]
  BY <1>4, <1>5, ConcatProperties
<1>8. Len(a \o b) = n - 1
  BY <1>1, <1>4, <1>5, <1>7
<1>9. ASSUME NEW j \in 1 .. n - 1
      PROVE  (a \o b)[j] = s[IF j < i THEN j ELSE j + 1]
  <2>1. (a \o b)[j] = IF j <= i - 1 THEN a[j] ELSE b[j - (i - 1)]
    BY <1>1, <1>4, <1>5, <1>7
  <2>2. CASE j < i
    BY <1>1, <1>4, <2>1, <2>2
  <2>3. CASE ~(j < i)
    <3>1. j - (i - 1) \in 1 .. n - i /\ i + (j - (i - 1)) = j + 1 /\ ~(j <= i - 1)
      BY <1>1, <2>3
    <3> QED BY <1>5, <2>1, <2>3, <3>1
  <2> QED BY <2>2, <2>3
<1> QED BY <1>1, <1>6, <1>7, <1>8, <1>9 DEF Without

\* What is left has the other elements, each once, in the order they had.
LEMMA WithoutKeeps ==
    ASSUME NEW S, NEW s \in Seq(S), NEW i \in 1 .. Len(s), NEW t \in Seq(S),
           Without(s, i, t), NEW R
    PROVE  /\ Range(s) = Range(t) \cup {s[i]}
           /\ IsInjective(s) => IsInjective(t) /\ s[i] \notin Range(t)
           /\ Sorted(s, R) => Sorted(t, R)
           /\ i = 1 /\ Sorted(s, R) => \A x \in Range(t) : May(R, s[1], x)
<1>1. PICK n \in Nat : n = Len(s) /\ Len(t) = n - 1 /\ i \in 1 .. n
  BY LenProperties DEF Without
<1>2. DOMAIN s = 1 .. n /\ DOMAIN t = 1 .. n - 1
  BY <1>1, LenProperties
<1> DEFINE at(j) == IF j < i THEN j ELSE j + 1
<1>3. \A j \in 1 .. n - 1 : t[j] = s[at(j)] /\ at(j) \in 1 .. n /\ at(j) # i
  <2>1. \A j \in 1 .. n - 1 : t[j] = s[at(j)]
    BY <1>1 DEF Without
  <2>2. \A j \in 1 .. n - 1 : at(j) \in 1 .. n /\ at(j) # i
    BY <1>1
  <2> QED BY <2>1, <2>2
<1>4. \A j, k \in 1 .. n - 1 : j < k => at(j) < at(k)
  BY <1>1
<1>5. \A m \in 1 .. n : m # i => \E j \in 1 .. n - 1 : at(j) = m
  <2> SUFFICES ASSUME NEW m \in 1 .. n, m # i PROVE \E j \in 1 .. n - 1 : at(j) = m
    OBVIOUS
  <2>1. CASE m < i
    BY <1>1, <2>1
  <2>2. CASE i < m
    <3>1. m - 1 \in 1 .. n - 1 /\ at(m - 1) = m
      BY <1>1, <2>2
    <3> QED BY <3>1
  <2> QED BY <1>1, <2>1, <2>2
<1>6. i = 1 => \A j \in 1 .. n - 1 : 1 < at(j)
  BY <1>1
<1> HIDE DEF at
<1>7. Range(s) = Range(t) \cup {s[i]}
  <2>1. \A m \in 1 .. n : m # i => \E j \in 1 .. n - 1 : s[m] = t[j]
    BY <1>3, <1>5
  <2>2. \A j \in 1 .. n - 1 : \E m \in 1 .. n : t[j] = s[m]
    BY <1>3
  <2>3. \A x \in Range(s) : x \in Range(t) \cup {s[i]}
    BY <1>2, <2>1 DEF Range
  <2>4. \A x \in Range(t) : x \in Range(s)
    BY <1>2, <2>2 DEF Range
  <2>5. s[i] \in Range(s)
    BY <1>1, <1>2 DEF Range
  <2> QED BY <2>3, <2>4, <2>5
<1>8. ASSUME IsInjective(s) PROVE IsInjective(t) /\ s[i] \notin Range(t)
  <2>1. ASSUME NEW j \in 1 .. n - 1, NEW k \in 1 .. n - 1, t[j] = t[k] PROVE j = k
    <3>1. at(j) = at(k)
      BY <1>2, <1>3, <1>8, <2>1 DEF IsInjective
    <3>2. j \in Int /\ k \in Int /\ at(j) \in Int
      BY <1>3
    <3>3. ~(j < k) /\ ~(k < j)
      BY <1>4, <3>1, <3>2
    <3> QED BY <3>2, <3>3
  <2>2. \A j \in 1 .. n - 1 : t[j] # s[i]
    BY <1>1, <1>2, <1>3, <1>8 DEF IsInjective
  <2> QED BY <1>2, <2>1, <2>2 DEF IsInjective, Range
<1>9. ASSUME Sorted(s, R) PROVE Sorted(t, R)
  BY <1>2, <1>3, <1>4, <1>9 DEF Sorted
<1>10. ASSUME i = 1, Sorted(s, R) PROVE \A x \in Range(t) : May(R, s[1], x)
  <2>1. \A j \in 1 .. n - 1 : May(R, s[1], t[j])
    BY <1>1, <1>2, <1>3, <1>6, <1>10 DEF Sorted
  <2> QED BY <1>2, <2>1 DEF Range
<1> QED BY <1>7, <1>8, <1>9, <1>10

LEMMA AppendKeeps ==
    ASSUME NEW S, NEW s \in Seq(S), NEW e \in S, NEW R
    PROVE  /\ Append(s, e) \in Seq(S) /\ Len(Append(s, e)) = Len(s) + 1
           /\ Range(Append(s, e)) = Range(s) \cup {e}
           /\ IsInjective(s) /\ e \notin Range(s) => IsInjective(Append(s, e))
           /\ Sorted(s, R) /\ (\A x \in Range(s) : May(R, x, e))
              => Sorted(Append(s, e), R)
<1>1. PICK n \in Nat : n = Len(s)
  BY LenProperties
<1>2. PICK t : t = Append(s, e)
  OBVIOUS
<1>3. /\ t \in Seq(S) /\ Len(t) = n + 1 /\ t[n + 1] = e
      /\ \A i \in 1 .. n : t[i] = s[i]
  BY <1>1, <1>2, AppendProperties
<1>4. DOMAIN s = 1 .. n /\ DOMAIN t = 1 .. n + 1
  BY <1>1, <1>3, LenProperties
<1>5. Range(t) = Range(s) \cup {e}
  BY <1>3, <1>4 DEF Range
<1>6. ASSUME IsInjective(s), e \notin Range(s) PROVE IsInjective(t)
  BY <1>3, <1>4, <1>6 DEF IsInjective, Range
<1>7. ASSUME Sorted(s, R), \A x \in Range(s) : May(R, x, e) PROVE Sorted(t, R)
  BY <1>3, <1>4, <1>7 DEF Sorted, Range
<1> QED BY <1>1, <1>2, <1>3, <1>5, <1>6, <1>7

(***************************************************************************)
(* The inductive invariant.  InTurn relates two events that may be         *)
(* delivered in this order; events are in turn inside each sequence and    *)
(* from what was delivered over what is parked to what is in the channel.  *)
(***************************************************************************)

InTurnOf(l, r) ==
    [x \in DOMAIN l |-> {y \in DOMAIN l : x < y \/ l[x] # l[y] \/ x \in r \/ y \in r}]

InTurn == InTurnOf(log, returned)

LEMMA InTurnIs ==
    ASSUME NEW l, NEW r, NEW x, NEW y
    PROVE  May(InTurnOf(l, r), x, y)
           <=> /\ x \in DOMAIN l /\ y \in DOMAIN l
               /\ x < y \/ l[x] # l[y] \/ x \in r \/ y \in r
  BY DEF InTurnOf, May

\* R allows what Q allows.
Within(Q, R) == \A x, y : May(Q, x, y) => May(R, x, y)

Leads(X, Y, R) == \A x \in X, y \in Y : May(R, x, y)

Ordered ==
    /\ Sorted(channel, InTurn) /\ Sorted(stash, InTurn) /\ Sorted(delivered, InTurn)
    /\ Leads(Range(delivered), Range(stash), InTurn)
    /\ Leads(Range(delivered), Range(channel), InTurn)
    /\ Leads(Range(stash), Range(channel), InTurn)

IInv == TypeOK /\ EventsConserved /\ Ordered /\ NoMatchParked

\* The same facts, of any order that allows what InTurn allows.
LEMMA OrderedIn ==
    ASSUME Ordered, NEW R, Within(InTurn, R)
    PROVE  /\ Sorted(channel, R) /\ Sorted(stash, R) /\ Sorted(delivered, R)
           /\ Leads(Range(delivered), Range(stash), R)
           /\ Leads(Range(delivered), Range(channel), R)
           /\ Leads(Range(stash), Range(channel), R)
  BY DEF Ordered, Sorted, Leads, Within

\* While the log stays and more events are returned, more is in turn.
LEMMA InTurnGrows ==
    ASSUME UNCHANGED log, returned \subseteq returned'
    PROVE  Within(InTurn, InTurn')
<1>1. \A x, y : May(InTurnOf(log, returned), x, y)
                => May(InTurnOf(log', returned'), x, y)
  BY InTurnIs
<1> QED BY <1>1 DEF InTurn, Within

LEMMA Bounds == MaxEvents \in Nat /\ Capacity \in Nat \ {0}
  BY MailboxAssumption

\* The events of the log, and their kinds.
LEMMA LogShape ==
    ASSUME TypeOK
    PROVE  /\ Len(log) \in Nat /\ Len(log) <= MaxEvents
           /\ DOMAIN log = 1 .. Len(log) /\ DOMAIN log \subseteq Event
  BY Bounds, LenProperties DEF TypeOK, Event

LEMMA InitIInv == Init => IInv
<1> SUFFICES ASSUME Init PROVE IInv
  OBVIOUS
<1>1. /\ log = <<>> /\ channel = <<>> /\ stash = <<>> /\ delivered = <<>>
      /\ filter = {} /\ wanted = {} /\ gone = {} /\ returned = {} /\ patience = "forever"
  BY DEF Init
<1>2. DOMAIN <<>> = {} /\ Range(<<>>) = {}
  BY DEF Range
<1>3. TypeOK
  <2>1. \A S : <<>> \in Seq(S) /\ Len(<<>>) = 0
    BY EmptySeq
  <2> QED BY <1>1, <2>1, Bounds DEF TypeOK
<1>4. EventsConserved
  BY <1>1, <1>2 DEF EventsConserved, IsInjective
<1>5. Ordered
  BY <1>1, <1>2 DEF Ordered, Sorted, Leads
<1>6. NoMatchParked
  BY <1>1 DEF NoMatchParked, Idle
<1> QED BY <1>3, <1>4, <1>5, <1>6 DEF IInv

-----------------------------------------------------------------------------
(* The GUI thread.                                                         *)

\* A new event is the last one, and nothing but it changes place.
LEMMA NewEvent ==
    ASSUME IInv, NEW k \in Kind, Push(k)
    PROVE  /\ Len(log) + 1 \in Event /\ Len(log) + 1 \notin DOMAIN log
           /\ log' \in Seq(Kind) /\ Len(log') <= MaxEvents
           /\ DOMAIN log' = DOMAIN log \cup {Len(log) + 1}
           /\ \A e \in DOMAIN log : log'[e] = log[e]
           /\ Within(InTurn, InTurn')
           /\ \A e \in DOMAIN log : May(InTurn', e, Len(log) + 1)
<1>1. PICK n \in Nat : n = Len(log) /\ n <= MaxEvents /\ DOMAIN log = 1 .. n
  BY LogShape DEF IInv
<1>2. n < MaxEvents /\ log' = Append(log, k) /\ returned' = returned
  BY <1>1 DEF Push, consumerVars
<1>3. log \in Seq(Kind)
  BY DEF IInv, TypeOK
<1>4. /\ log' \in Seq(Kind) /\ Len(log') = n + 1
      /\ \A e \in 1 .. n : log'[e] = log[e]
  BY <1>1, <1>2, <1>3, AppendProperties
<1>5. DOMAIN log' = 1 .. n + 1
  BY <1>4, LenProperties
<1>6. n + 1 \in Event
  BY <1>1, <1>2, Bounds DEF Event
<1>7. Within(InTurn, InTurn')
  <2> SUFFICES ASSUME NEW x, NEW y, May(InTurnOf(log, returned), x, y)
               PROVE  May(InTurnOf(log', returned'), x, y)
    BY DEF InTurn, Within
  <2>1. /\ x \in 1 .. n /\ y \in 1 .. n
        /\ x < y \/ log[x] # log[y] \/ x \in returned \/ y \in returned
    BY <1>1, InTurnIs
  <2>2. log'[x] = log[x] /\ log'[y] = log[y] /\ x \in 1 .. n + 1 /\ y \in 1 .. n + 1
    BY <1>1, <1>4, <2>1
  <2> QED BY <1>2, <1>5, <2>1, <2>2, InTurnIs
<1>8. \A e \in 1 .. n : May(InTurn', e, n + 1)
  <2> SUFFICES ASSUME NEW e \in 1 .. n PROVE May(InTurnOf(log', returned'), e, n + 1)
    BY DEF InTurn
  <2>1. e < n + 1 /\ e \in 1 .. n + 1 /\ n + 1 \in 1 .. n + 1
    BY <1>1
  <2> QED BY <1>5, <2>1, InTurnIs
<1> QED BY <1>1, <1>2, <1>4, <1>5, <1>6, <1>7, <1>8, Bounds

LEMMA PushStep ==
    ASSUME IInv, NEW k \in Kind, Push(k)
    PROVE  IInv'
<1> DEFINE e == Len(log) + 1
<1>1. /\ e \in Event /\ e \notin DOMAIN log
      /\ log' \in Seq(Kind) /\ Len(log') <= MaxEvents
      /\ DOMAIN log' = DOMAIN log \cup {e}
      /\ \A x \in DOMAIN log : log'[x] = log[x]
      /\ Within(InTurn, InTurn')
      /\ \A x \in DOMAIN log : May(InTurn', x, e)
  BY NewEvent
<1>2. /\ UNCHANGED <<filter, stash, wanted, patience, delivered, returned>>
      /\ \/ Len(channel) < Capacity /\ channel' = Append(channel, e) /\ UNCHANGED gone
         \/ gone' = gone \cup {e} /\ UNCHANGED channel
  BY DEF Push, consumerVars
<1> HIDE DEF e
<1>3. /\ Range(channel) \subseteq DOMAIN log /\ Range(stash) \subseteq DOMAIN log
      /\ Range(delivered) \subseteq DOMAIN log /\ gone \subseteq DOMAIN log
  BY DEF IInv, EventsConserved
<1>4. /\ Sorted(channel, InTurn') /\ Sorted(stash, InTurn') /\ Sorted(delivered, InTurn')
      /\ Leads(Range(delivered), Range(stash), InTurn')
      /\ Leads(Range(delivered), Range(channel), InTurn')
      /\ Leads(Range(stash), Range(channel), InTurn')
  BY <1>1, OrderedIn DEF IInv
<1>5. NoMatchParked'
  <2>1. \A i \in DOMAIN stash : log'[stash[i]] = log[stash[i]]
    BY <1>1, <1>3 DEF Range
  <2> QED BY <1>2, <2>1 DEF IInv, NoMatchParked, Stashed, Idle
<1>6. channel \in Seq(Event) /\ Len(channel) \in Nat
  BY LenProperties DEF IInv, TypeOK
<1>7. CASE Len(channel) < Capacity /\ channel' = Append(channel, e) /\ UNCHANGED gone
  <2>1. e \notin Range(channel)
    BY <1>1, <1>3
  <2>2. \A x \in Range(channel) : May(InTurn', x, e)
    BY <1>1, <1>3
  <2>3. /\ channel' \in Seq(Event) /\ Len(channel') = Len(channel) + 1
        /\ Range(channel') = Range(channel) \cup {e}
        /\ IsInjective(channel) => IsInjective(channel')
        /\ Sorted(channel', InTurn')
    BY <1>1, <1>4, <1>6, <1>7, <2>1, <2>2, AppendKeeps
  <2>4. TypeOK'
    BY <1>1, <1>2, <1>6, <1>7, <2>3, Bounds DEF IInv, TypeOK
  <2>5. EventsConserved'
    BY <1>1, <1>2, <1>3, <1>7, <2>3 DEF IInv, EventsConserved
  <2>6. Ordered'
    BY <1>1, <1>2, <1>3, <1>4, <2>3 DEF Ordered, Leads
  <2> QED BY <1>5, <2>4, <2>5, <2>6 DEF IInv
<1>8. CASE gone' = gone \cup {e} /\ UNCHANGED channel
  <2>1. TypeOK'
    BY <1>1, <1>2, <1>8 DEF IInv, TypeOK
  <2>2. EventsConserved'
    BY <1>1, <1>2, <1>3, <1>8 DEF IInv, EventsConserved
  <2>3. Ordered'
    BY <1>2, <1>4, <1>8 DEF Ordered
  <2> QED BY <1>5, <2>1, <2>2, <2>3 DEF IInv
<1> QED BY <1>2, <1>7, <1>8

-----------------------------------------------------------------------------
(* Steps that move no event.                                               *)

LEMMA QuietStep ==
    ASSUME IInv, UNCHANGED <<log, channel, gone, stash, delivered, returned>>,
           filter' \subseteq Window, wanted' \subseteq Kind,
           patience' \in {"forever", "timed"},
           wanted' # {} => Stashed(wanted') = {}
    PROVE  IInv'
<1>1. TypeOK'
  BY DEF IInv, TypeOK
<1>2. EventsConserved'
  BY DEF IInv, EventsConserved
<1>3. Ordered'
  BY DEF IInv, Ordered, InTurn
<1>4. NoMatchParked'
  BY DEF NoMatchParked, Idle, Stashed
<1> QED BY <1>1, <1>2, <1>3, <1>4 DEF IInv

LEMMA SetFilterStep ==
    ASSUME IInv, NEW f \in SUBSET Window, SetFilter(f)
    PROVE  IInv'
<1>1. /\ filter' = f
      /\ UNCHANGED <<log, channel, gone, stash, wanted, patience, delivered, returned>>
  BY DEF SetFilter, consumerVars
<1>2. wanted \subseteq Kind /\ patience \in {"forever", "timed"}
      /\ (wanted # {} => Stashed(wanted) = {})
  BY DEF IInv, TypeOK, NoMatchParked, Idle
<1> QED BY <1>1, <1>2, QuietStep

LEMMA InterestsAreKinds == \A interest \in Interests : interest \subseteq Kind
  BY DEF Interests, FilterInterest, TargetInterest

LEMMA CallBlocksStep ==
    ASSUME IInv, NEW interest \in Interests, NEW how \in Patience,
           CallBlocks(interest, how)
    PROVE  IInv'
<1>1. how \in {"forever", "timed"} /\ interest \subseteq Kind
  BY MailboxAssumption, InterestsAreKinds
<1>2. filter \subseteq Window
  BY DEF IInv, TypeOK
<1> QED BY <1>1, <1>2, QuietStep DEF CallBlocks

LEMMA TimeOutStep == ASSUME IInv, TimeOut PROVE IInv'
<1>1. filter \subseteq Window /\ patience \in {"forever", "timed"}
  BY DEF IInv, TypeOK
<1> QED BY <1>1, QuietStep DEF TimeOut

-----------------------------------------------------------------------------
(* The language thread.                                                    *)

LEMMA CallFromStashStep ==
    ASSUME IInv, NEW interest \in Interests, CallFromStash(interest)
    PROVE  IInv'
<1>1. PICK i \in DOMAIN stash :
            /\ IsNext(i, interest)
            /\ stash' = RemoveAt(stash, i)
            /\ delivered' = Append(delivered, stash[i])
  BY DEF CallFromStash
<1>2. Idle /\ UNCHANGED <<log, channel, filter, gone, wanted, patience, returned>>
  BY DEF CallFromStash
<1>3. stash \in Seq(Event) /\ delivered \in Seq(Event)
  BY DEF IInv, TypeOK
<1>4. DOMAIN stash = 1 .. Len(stash) /\ stash[i] \in Event /\ stash[i] \in Range(stash)
  BY <1>1, <1>3, LenProperties, ElementOfSeq DEF Range
<1>5. stash' \in Seq(Event) /\ Without(stash, i, stash')
  BY <1>1, <1>3, <1>4, RemoveWithout
<1>6. IsInjective(stash) /\ Sorted(stash, InTurn)
  BY DEF IInv, EventsConserved, Ordered
<1>7. /\ Range(stash) = Range(stash') \cup {stash[i]}
      /\ IsInjective(stash') /\ stash[i] \notin Range(stash')
      /\ Sorted(stash', InTurn)
  BY <1>1, <1>3, <1>4, <1>5, <1>6, WithoutKeeps
<1>8. stash[i] \notin Range(delivered) /\ \A x \in Range(delivered) : May(InTurn, x, stash[i])
  BY <1>4 DEF IInv, EventsConserved, Ordered, Leads
<1>9. IsInjective(delivered) /\ Sorted(delivered, InTurn)
  BY DEF IInv, EventsConserved, Ordered
<1>10. /\ delivered' \in Seq(Event)
       /\ Range(delivered') = Range(delivered) \cup {stash[i]}
       /\ IsInjective(delivered') /\ Sorted(delivered', InTurn)
  BY <1>1, <1>3, <1>4, <1>8, <1>9, AppendKeeps
<1>11. \A x \in Range(stash') : May(InTurn, stash[i], x)
  <2> SUFFICES ASSUME NEW x \in Range(stash') PROVE May(InTurn, stash[i], x)
    OBVIOUS
  <2>1. PICK j \in DOMAIN stash : x = stash[j] /\ j # i
    BY <1>7 DEF Range
  <2>2. x \in DOMAIN log /\ stash[i] \in DOMAIN log
    BY <1>4, <1>7 DEF IInv, EventsConserved
  <2>3. CASE i < j
    BY <1>1, <1>6, <2>1, <2>3 DEF Sorted
  <2>4. CASE j < i
    <3>1. j \notin Stashed(interest) /\ i \in Stashed(interest)
      <4>1. i \in Int /\ j \in Int
        BY <1>1, <1>4, <2>1
      <4> QED BY <1>1, <2>4, <4>1 DEF IsNext
    <3>2. log[stash[j]] # log[stash[i]]
      BY <2>1, <3>1 DEF Stashed
    <3> QED BY <2>1, <2>2, <3>2, InTurnIs DEF InTurn
  <2> QED BY <1>1, <1>4, <2>1, <2>3, <2>4
<1>12. TypeOK'
  BY <1>2, <1>5, <1>10 DEF IInv, TypeOK
<1>13. EventsConserved'
  BY <1>2, <1>4, <1>7, <1>8, <1>10 DEF IInv, EventsConserved
<1>14. InTurn' = InTurn
  BY <1>2 DEF InTurn
<1>15. Ordered'
  BY <1>2, <1>4, <1>7, <1>10, <1>11, <1>14 DEF IInv, Ordered, Leads
<1>16. NoMatchParked'
  BY <1>2 DEF NoMatchParked, Idle
<1> QED BY <1>12, <1>13, <1>15, <1>16 DEF IInv

LEMMA ReceiveStep ==
    ASSUME IInv, Receive
    PROVE  IInv'
<1> DEFINE e == Head(channel)
<1>1. /\ ~Idle /\ channel # <<>> /\ channel' = Tail(channel)
      /\ UNCHANGED <<log, filter, gone, patience, returned>>
  BY DEF Receive
<1>2. channel \in Seq(Event) /\ stash \in Seq(Event) /\ delivered \in Seq(Event)
  BY DEF IInv, TypeOK
<1>3. /\ channel' \in Seq(Event) /\ Without(channel, 1, channel')
      /\ 1 \in 1 .. Len(channel) /\ channel[1] = e /\ Len(channel') < Len(channel)
  BY <1>1, <1>2, TailWithout
<1>4. e \in Event
  BY <1>1, <1>2, HeadTailProperties
<1>5. \/ /\ log[e] \in wanted /\ delivered' = Append(delivered, e)
         /\ wanted' = {} /\ UNCHANGED stash
      \/ /\ log[e] \notin wanted /\ stash' = Append(stash, e)
         /\ UNCHANGED <<delivered, wanted>>
  BY DEF Receive
<1> HIDE DEF e
<1>6. IsInjective(channel) /\ Sorted(channel, InTurn)
  BY DEF IInv, EventsConserved, Ordered
<1>7. /\ Range(channel) = Range(channel') \cup {e}
      /\ IsInjective(channel') /\ e \notin Range(channel')
      /\ Sorted(channel', InTurn)
      /\ \A x \in Range(channel') : May(InTurn, e, x)
  BY <1>2, <1>3, <1>6, WithoutKeeps
<1>8. /\ Len(channel') <= Capacity /\ e \in DOMAIN log
      /\ e \notin Range(stash) /\ e \notin Range(delivered) /\ e \notin gone
  <2>1. Len(channel) \in Nat /\ Len(channel') \in Nat
    BY <1>2, <1>3, LenProperties
  <2>2. Len(channel) <= Capacity
    BY DEF IInv, TypeOK
  <2>3. Len(channel') <= Capacity
    BY <1>3, <2>1, <2>2, Bounds
  <2> QED BY <1>7, <2>3 DEF IInv, EventsConserved
<1>9. InTurn' = InTurn
  BY <1>1 DEF InTurn
<1>10. /\ \A x \in Range(delivered) : May(InTurn, x, e)
       /\ \A x \in Range(stash) : May(InTurn, x, e)
  BY <1>7 DEF IInv, Ordered, Leads
<1>11. CASE log[e] \in wanted /\ delivered' = Append(delivered, e)
            /\ wanted' = {} /\ UNCHANGED stash
  <2>1. IsInjective(delivered) /\ Sorted(delivered, InTurn)
    BY DEF IInv, EventsConserved, Ordered
  <2>2. /\ delivered' \in Seq(Event) /\ Range(delivered') = Range(delivered) \cup {e}
        /\ IsInjective(delivered') /\ Sorted(delivered', InTurn)
    BY <1>2, <1>4, <1>8, <1>10, <1>11, <2>1, AppendKeeps
  <2>3. \A x \in Range(stash) : May(InTurn, e, x)
    <3>1. \A x \in Range(stash) : log[x] # log[e] /\ x \in DOMAIN log
      BY <1>1, <1>11 DEF IInv, NoMatchParked, Stashed, Range, EventsConserved
    <3> QED BY <1>8, <3>1, InTurnIs DEF InTurn
  <2>4. TypeOK'
    BY <1>1, <1>3, <1>8, <1>11, <2>2 DEF IInv, TypeOK
  <2>5. EventsConserved'
    BY <1>1, <1>7, <1>8, <1>11, <2>2 DEF IInv, EventsConserved
  <2>6. Ordered'
    BY <1>7, <1>9, <1>11, <2>2, <2>3 DEF IInv, Ordered, Leads
  <2>7. NoMatchParked'
    BY <1>11 DEF NoMatchParked, Idle
  <2> QED BY <2>4, <2>5, <2>6, <2>7 DEF IInv
<1>12. CASE log[e] \notin wanted /\ stash' = Append(stash, e)
            /\ UNCHANGED <<delivered, wanted>>
  <2>1. IsInjective(stash) /\ Sorted(stash, InTurn)
    BY DEF IInv, EventsConserved, Ordered
  <2>2. /\ stash' \in Seq(Event) /\ Range(stash') = Range(stash) \cup {e}
        /\ IsInjective(stash') /\ Sorted(stash', InTurn)
    BY <1>2, <1>4, <1>8, <1>10, <1>12, <2>1, AppendKeeps
  <2>3. TypeOK'
    BY <1>1, <1>3, <1>8, <1>12, <2>2 DEF IInv, TypeOK
  <2>4. EventsConserved'
    BY <1>1, <1>7, <1>8, <1>12, <2>2 DEF IInv, EventsConserved
  <2>5. Ordered'
    BY <1>7, <1>9, <1>10, <1>12, <2>2 DEF IInv, Ordered, Leads
  <2>6. \A x \in Range(stash') : log[x] \notin wanted
    <3>1. \A x \in Range(stash) : log[x] \notin wanted
      BY <1>1 DEF IInv, NoMatchParked, Stashed, Range
    <3> QED BY <1>12, <2>2, <3>1
  <2>7. NoMatchParked'
    BY <1>1, <1>12, <2>6 DEF NoMatchParked, Stashed, Range
  <2> QED BY <2>3, <2>4, <2>5, <2>7 DEF IInv
<1> QED BY <1>5, <1>11, <1>12

\* An event the consumer puts back is out of turn for good.
LEMMA StashEventStep ==
    ASSUME IInv, StashEvent
    PROVE  IInv'
<1> DEFINE e == Last(delivered)
<1>1. /\ Idle /\ delivered # <<>> /\ stash' = Append(stash, e)
      /\ delivered' = Front(delivered) /\ returned' = returned \cup {e}
      /\ UNCHANGED <<log, channel, filter, gone, wanted, patience>>
  BY DEF StashEvent
<1>2. channel \in Seq(Event) /\ stash \in Seq(Event) /\ delivered \in Seq(Event)
  BY DEF IInv, TypeOK
<1>3. /\ delivered' \in Seq(Event) /\ Without(delivered, Len(delivered), delivered')
      /\ Len(delivered) \in 1 .. Len(delivered) /\ delivered[Len(delivered)] = e
  BY <1>1, <1>2, FrontWithout
<1>4. e \in Event
  BY <1>2, <1>3, ElementOfSeq
<1> HIDE DEF e
<1>5. Within(InTurn, InTurn')
  BY <1>1, InTurnGrows
<1>6. /\ Sorted(channel, InTurn') /\ Sorted(stash, InTurn') /\ Sorted(delivered, InTurn')
      /\ Leads(Range(delivered), Range(stash), InTurn')
      /\ Leads(Range(delivered), Range(channel), InTurn')
      /\ Leads(Range(stash), Range(channel), InTurn')
  BY <1>5, OrderedIn DEF IInv
<1>7. IsInjective(delivered) /\ IsInjective(stash)
  BY DEF IInv, EventsConserved
<1>8. /\ Range(delivered) = Range(delivered') \cup {e}
      /\ IsInjective(delivered') /\ e \notin Range(delivered')
      /\ Sorted(delivered', InTurn')
  <2>1. PICK n \in 1 .. Len(delivered) : n = Len(delivered)
    BY <1>3
  <2> QED BY <1>2, <1>3, <1>6, <1>7, <2>1, WithoutKeeps
<1>9. /\ e \in DOMAIN log /\ e \notin Range(stash) /\ e \notin Range(channel) /\ e \notin gone
      /\ Range(stash) \subseteq DOMAIN log /\ Range(channel) \subseteq DOMAIN log
      /\ Range(delivered) \subseteq DOMAIN log
  BY <1>8 DEF IInv, EventsConserved
<1>10. \A x \in DOMAIN log : May(InTurn', x, e) /\ May(InTurn', e, x)
  BY <1>1, <1>9, InTurnIs DEF InTurn
<1>11. /\ stash' \in Seq(Event) /\ Range(stash') = Range(stash) \cup {e}
       /\ IsInjective(stash') /\ Sorted(stash', InTurn')
  <2>1. \A x \in Range(stash) : May(InTurn', x, e)
    BY <1>9, <1>10
  <2> QED BY <1>1, <1>2, <1>4, <1>6, <1>7, <1>9, <2>1, AppendKeeps
<1>12. TypeOK'
  BY <1>1, <1>3, <1>4, <1>11 DEF IInv, TypeOK
<1>13. EventsConserved'
  BY <1>1, <1>8, <1>9, <1>11 DEF IInv, EventsConserved
<1>14. Ordered'
  BY <1>1, <1>6, <1>8, <1>9, <1>10, <1>11 DEF Ordered, Leads
<1>15. NoMatchParked'
  BY <1>1 DEF NoMatchParked, Idle
<1> QED BY <1>12, <1>13, <1>14, <1>15 DEF IInv

LEMMA DiscardStep ==
    ASSUME IInv, Discard
    PROVE  IInv'
<1>1. /\ Idle /\ stash' = <<>> /\ gone' = gone \cup Range(stash)
      /\ UNCHANGED <<log, channel, filter, wanted, patience, delivered, returned>>
  BY DEF Discard, Range
<1>2. DOMAIN <<>> = {} /\ Range(<<>>) = {}
  BY DEF Range
<1>3. Range(stash) \subseteq Event
  BY LogShape DEF IInv, EventsConserved
<1>4. TypeOK'
  <2>1. <<>> \in Seq(Event)
    BY EmptySeq
  <2> QED BY <1>1, <1>3, <2>1 DEF IInv, TypeOK
<1>5. EventsConserved'
  <2>1. IsInjective(<<>>)
    BY <1>2 DEF IsInjective
  <2> QED BY <1>1, <1>2, <2>1 DEF IInv, EventsConserved
<1>6. Ordered'
  <2>1. InTurn' = InTurn
    BY <1>1 DEF InTurn
  <2> QED BY <1>1, <1>2, <2>1 DEF IInv, Ordered, Sorted, Leads
<1>7. NoMatchParked'
  BY <1>1 DEF NoMatchParked, Idle
<1> QED BY <1>4, <1>5, <1>6, <1>7 DEF IInv

-----------------------------------------------------------------------------

LEMMA NextIInv == IInv /\ [Next]_vars => IInv'
<1> SUFFICES ASSUME IInv, [Next]_vars PROVE IInv'
  OBVIOUS
<1>1. CASE UNCHANGED vars
  <2>1. /\ UNCHANGED <<log, channel, gone, stash, delivered, returned>>
        /\ UNCHANGED <<filter, wanted, patience>>
    BY <1>1 DEF vars, consumerVars
  <2>2. /\ filter \subseteq Window /\ wanted \subseteq Kind
        /\ patience \in {"forever", "timed"} /\ (wanted # {} => Stashed(wanted) = {})
    BY DEF IInv, TypeOK, NoMatchParked, Idle
  <2> QED BY <2>1, <2>2, QuietStep
<1>2. ASSUME NEW k \in Kind, Push(k) PROVE IInv'
  BY <1>2, PushStep
<1>3. ASSUME NEW f \in SUBSET Window, SetFilter(f) PROVE IInv'
  BY <1>3, SetFilterStep
<1>4. ASSUME NEW interest \in Interests, CallFromStash(interest) PROVE IInv'
  BY <1>4, CallFromStashStep
<1>5. ASSUME NEW interest \in Interests, NEW how \in Patience, CallBlocks(interest, how)
      PROVE  IInv'
  BY <1>5, CallBlocksStep
<1>6. CASE Receive \/ TimeOut \/ StashEvent \/ Discard
  BY <1>6, ReceiveStep, TimeOutStep, StashEventStep, DiscardStep
<1> QED BY <1>1, <1>2, <1>3, <1>4, <1>5, <1>6 DEF Next

THEOREM Invariance == Spec => []IInv
<1> QED BY InitIInv, NextIInv, PTL DEF Spec

\* The state is of its type: the channel never holds more than its capacity.
THEOREM TypeCorrect == Spec => []TypeOK
<1>1. IInv => TypeOK
  BY DEF IInv
<1> QED BY Invariance, <1>1, PTL

\* No call, filter, target, time-out or stash loses or duplicates an event
\* (channels.rs): each is in one place, once.
THEOREM NothingLost == Spec => []EventsConserved
<1>1. IInv => EventsConserved
  BY DEF IInv
<1> QED BY Invariance, <1>1, PTL

\* Events of one kind for one window are returned in the order they were pushed,
\* however they were parked in between (next_event, next_event_for).
THEOREM KindsInOrder == Spec => []OrderKept
<1>1. IInv => OrderKept
  <2> SUFFICES ASSUME IInv, NEW i \in DOMAIN delivered, NEW j \in DOMAIN delivered,
                      i < j, log[delivered[i]] = log[delivered[j]],
                      {delivered[i], delivered[j]} \cap returned = {}
               PROVE  delivered[i] < delivered[j]
    BY DEF OrderKept
  <2>1. May(InTurn, delivered[i], delivered[j])
    BY DEF IInv, Ordered, Sorted
  <2> QED BY <2>1, InTurnIs DEF InTurn
<1> QED BY Invariance, <1>1, PTL

\* A call that waits at the channel waits for nothing the stash holds.
THEOREM NothingOverlooked == Spec => []NoMatchParked
<1>1. IInv => NoMatchParked
  BY DEF IInv
<1> QED BY Invariance, <1>1, PTL
=============================================================================
