------------------------------ MODULE Mailbox ------------------------------
(***************************************************************************)
(* The event mailbox between the GUI thread and the language thread        *)
(* (igui/src/channels.rs): a bounded queue the GUI thread never blocks on, *)
(* and a stash that parks what the language thread's current call is not   *)
(* interested in.                                                          *)
(*                                                                         *)
(* An event is named by its position in the log of all pushed events; of   *)
(* its payload only the kind decides who gets it.  An empty poll of the    *)
(* stash with a timeout of 0 changes nothing and is not an action.         *)
(***************************************************************************)
EXTENDS Integers, Sequences, SequencesExt

CONSTANTS Window,     \* child windows
          NoWindow,   \* stands for the absent child of a frame-wide event
          Capacity,   \* CAPACITY of the channel
          Patience,   \* how calls wait: "forever" and, maybe, "timed"
          MaxEvents   \* bound: events the GUI thread pushes

ASSUME MailboxAssumption ==
    /\ NoWindow \notin Window
    /\ Capacity \in Nat \ {0}
    /\ MaxEvents \in Nat
    /\ Patience \subseteq {"forever", "timed"}

VARIABLES log,        \* history: the kinds of all pushed events, in order
          channel,    \* the channel's buffer
          stash,      \* EVENT_STASH
          filter,     \* EVENT_FILTER
          wanted,     \* the kinds the blocked call takes; {} outside a call
          patience,   \* how it waits
          delivered,  \* history: what calls returned, in order
          gone,       \* history: events dropped at a full channel or discarded
          returned    \* history: events the consumer ever put back

consumerVars == <<stash, wanted, patience, delivered, returned>>
vars == <<log, channel, filter, gone, consumerVars>>

\* FrameClose; the other frame-wide events; per-window input; and the
\* per-window events (DpiChange, ReplSubmit) that no targeted call takes.
Kind == [class : {"frame", "global"}, child : {NoWindow}]
        \cup [class : {"window", "pane"}, child : Window]

Event == 1 .. MaxEvents

TypeOK ==
    /\ log \in Seq(Kind) /\ Len(log) <= MaxEvents
    /\ channel \in Seq(Event) /\ Len(channel) <= Capacity
    /\ stash \in Seq(Event)
    /\ filter \subseteq Window
    /\ wanted \subseteq Kind
    /\ patience \in {"forever", "timed"}
    /\ delivered \in Seq(Event)
    /\ gone \subseteq Event /\ returned \subseteq Event

Init ==
    /\ log = <<>> /\ channel = <<>> /\ stash = <<>> /\ delivered = <<>>
    /\ filter = {} /\ wanted = {} /\ gone = {} /\ returned = {}
    /\ patience = "forever"

-----------------------------------------------------------------------------

\* Mutant of MatchesFilter: a frame close is filtered like any other event.
MutMatchesFilter(k, f) == k.child \in f

MatchesFilter(k, f) == k.class \in {"frame", "global"} \/ k.child \in f

MatchesTarget(k, w) == k.class = "frame" \/ (k.class = "window" /\ k.child = w)

\* What next_event takes under a snapshot of the filter, and what
\* next_event_for takes.
FilterInterest(f) == IF f = {} THEN Kind ELSE {k \in Kind : MatchesFilter(k, f)}
TargetInterest(w) == {k \in Kind : MatchesTarget(k, w)}

Interests == {FilterInterest(filter)} \cup {TargetInterest(w) : w \in Window}

Idle == wanted = {}

\* push: the GUI thread drops the event rather than wait for room.
Push(k) ==
    /\ Len(log) < MaxEvents
    /\ log' = Append(log, k)
    /\ IF Len(channel) < Capacity
       THEN channel' = Append(channel, Len(log) + 1) /\ UNCHANGED gone
       ELSE gone' = gone \cup {Len(log) + 1} /\ UNCHANGED channel
    /\ UNCHANGED <<filter, consumerVars>>

\* filter_on_window, unfilter_window and clear_filter, from any thread.
SetFilter(f) ==
    /\ f \in {filter \cup {w} : w \in Window} \cup {filter \ {w} : w \in Window} \cup {{}}
    /\ filter' = f
    /\ UNCHANGED <<log, channel, gone, consumerVars>>

\* Positions of the stash a call takes its event from: the first match.
Stashed(interest) == {i \in DOMAIN stash : log[stash[i]] \in interest}
\* Mutant of IsNext: the latest match.
MutIsNext(i, interest) == i \in Stashed(interest) /\ \A j \in Stashed(interest) : i >= j

IsNext(i, interest) == i \in Stashed(interest) /\ \A j \in Stashed(interest) : i <= j

\* next_event or next_event_for, answered from the stash ...
CallFromStash(interest) ==
    /\ Idle
    /\ \E i \in DOMAIN stash :
          /\ IsNext(i, interest)
          /\ stash' = RemoveAt(stash, i)
          /\ delivered' = Append(delivered, stash[i])
    /\ UNCHANGED <<log, channel, filter, gone, wanted, patience, returned>>

\* Mutant of CallBlocks: only the head of the stash was looked at.
MutCallBlocks(interest, how) ==
    /\ Idle
    /\ 1 \notin Stashed(interest)
    /\ wanted' = interest
    /\ patience' = how
    /\ UNCHANGED <<log, channel, filter, gone, stash, delivered, returned>>

\* ... or going on to wait at the channel.
CallBlocks(interest, how) ==
    /\ Idle
    /\ Stashed(interest) = {}
    /\ wanted' = interest
    /\ patience' = how
    /\ UNCHANGED <<log, channel, filter, gone, stash, delivered, returned>>

\* Mutant of Receive: what the call does not want is lost.
MutReceive ==
    /\ ~Idle
    /\ channel # <<>>
    /\ channel' = Tail(channel)
    /\ IF log[Head(channel)] \in wanted
       THEN delivered' = Append(delivered, Head(channel)) /\ wanted' = {}
       ELSE UNCHANGED <<delivered, wanted>>
    /\ UNCHANGED <<log, filter, gone, stash, patience, returned>>

\* The blocked call receives an event: it returns it or parks it.
Receive ==
    /\ ~Idle
    /\ channel # <<>>
    /\ channel' = Tail(channel)
    /\ IF log[Head(channel)] \in wanted
       THEN /\ delivered' = Append(delivered, Head(channel))
            /\ wanted' = {}
            /\ UNCHANGED stash
       ELSE /\ stash' = Append(stash, Head(channel))
            /\ UNCHANGED <<delivered, wanted>>
    /\ UNCHANGED <<log, filter, gone, patience, returned>>

\* The deadline may pass with events still in the channel.
TimeOut ==
    /\ ~Idle /\ patience = "timed"
    /\ wanted' = {}
    /\ UNCHANGED <<log, channel, filter, gone, stash, patience, delivered, returned>>

\* stash_event: the consumer puts back the event it was last given.  Bound: it
\* puts no event back twice; doing so for ever, it would never see another one.
StashEvent ==
    /\ Idle /\ delivered # <<>>
    /\ Last(delivered) \notin returned
    /\ stash' = Append(stash, Last(delivered))
    /\ delivered' = Front(delivered)
    /\ returned' = returned \cup {Last(delivered)}
    /\ UNCHANGED <<log, channel, filter, gone, wanted, patience>>

\* discard_stashed_events
Discard ==
    /\ Idle
    /\ stash' = <<>>
    /\ gone' = gone \cup {stash[i] : i \in DOMAIN stash}
    /\ UNCHANGED <<log, channel, filter, wanted, patience, delivered, returned>>

CallForever ==
    \E interest \in Interests :
        CallFromStash(interest) \/ CallBlocks(interest, "forever")

Next ==
    \/ \E k \in Kind : Push(k)
    \/ \E f \in SUBSET Window : SetFilter(f)
    \/ \E interest \in Interests : CallFromStash(interest)
    \/ \E interest \in Interests, how \in Patience : CallBlocks(interest, how)
    \/ Receive \/ TimeOut \/ StashEvent \/ Discard

Spec == Init /\ [][Next]_vars

\* The language thread's loop calls again after every event and every time-out,
\* and a call receives what the channel holds: a timed call reads the clock before
\* the channel, so it may come back empty-handed once, but not every time.
LiveSpec == Spec /\ WF_vars(CallForever) /\ SF_vars(Receive)

-----------------------------------------------------------------------------

\* Whatever calls, filters and targets park and take in whatever order, every
\* pushed event is in exactly one place, once: waiting, parked, returned or
\* dropped.
EventsConserved ==
    /\ IsInjective(channel) /\ IsInjective(stash) /\ IsInjective(delivered)
    /\ DOMAIN log = Range(channel) \cup Range(stash) \cup Range(delivered) \cup gone
    /\ Range(channel) \cap (Range(stash) \cup Range(delivered) \cup gone) = {}
    /\ Range(stash) \cap (Range(delivered) \cup gone) = {}
    /\ Range(delivered) \cap gone = {}

\* Parking reorders nothing a window can notice: events of one kind for one
\* window are returned in the order they were pushed, unless the consumer
\* itself put one of them back.
OrderKept ==
    \A i, j \in DOMAIN delivered :
        i < j /\ log[delivered[i]] = log[delivered[j]]
              /\ {delivered[i], delivered[j]} \cap returned = {}
        => delivered[i] < delivered[j]

\* A blocked call never waits for something already parked: what it scanned
\* before waiting stays without a match, whatever it parks meanwhile.
NoMatchParked == ~Idle => Stashed(wanted) = {}

\* A frame close the channel accepted reaches a language thread that keeps
\* calling, through filters, targets and parked events, unless it discards it.
ShutdownReaches ==
    \A e \in Event :
        (e \in DOMAIN log /\ log[e].class = "frame")
        ~> (e \in Range(delivered) \cup gone)
=============================================================================
