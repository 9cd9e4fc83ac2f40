----------------------------- MODULE SyncQuery -----------------------------
(***************************************************************************)
(* Batches and synchronous text queries (igui/src/batch.rs, replies.rs,    *)
(* the three query exports of cp_exports.rs and the render host of         *)
(* child.rs).  Language threads build batches and hand them to the GUI     *)
(* thread through one display slot per pane; a query travels in a batch of *)
(* its own and blocks its thread until the GUI thread, painting the pane,  *)
(* delivers the reply.                                                     *)
(*                                                                         *)
(* Of a batch only its pane, its sequence number and the query it carries  *)
(* (0 for a drawing) are kept.                                             *)
(***************************************************************************)
EXTENDS Integers, FiniteSets

CONSTANTS Thread,      \* language threads
          Pane,        \* panes that were opened
          NoPane,
          MayClose,    \* whether panes are closed
          MayBlank,    \* whether a pane may have nothing to paint on: no client
                       \* area for a while, or a render target refused
          MaxBatches,  \* bound: batches begun
          MaxQueries   \* bound: request ids allocated

ASSUME SyncQueryAssumption ==
    /\ NoPane \notin Pane
    /\ {MayClose, MayBlank} \subseteq BOOLEAN
    /\ MaxBatches \in Nat /\ MaxQueries \in Nat

VARIABLES current,     \* current[t]: thread t's CURRENT, the batch it builds
          sending,     \* sending[t]: the batch it hands over or waits for
          asking,      \* asking[t]: the request id it wants answered, or 0
          pc,          \* pc[t]: where it is
          display,     \* PANE_STATES
          slots,       \* request ids with a reply slot (SLOTS)
          sent,        \* sent[q]: replies sent on the channel of request q
          nextBatch,   \* SEQUENCE
          nextQuery,   \* NEXT_REQUEST_ID
          registered,  \* panes in the registry
          closing,     \* the pane whose WM_NCDESTROY the GUI thread handles
          hidden,      \* panes without a client area
          refused,     \* history: panes whose last paint got no render target
          dirty,       \* panes with a paint message ahead
          painting,    \* the batch the GUI thread executes and how
          shown        \* history: shown[t], the last batch t put on display

threadVars == <<current, sending, asking, pc, nextBatch, nextQuery>>
windowVars == <<registered, closing, hidden, refused>>
vars == <<threadVars, windowVars, display, slots, sent, dirty, painting, shown>>

Query == 1 .. MaxQueries

Batch == [pane : Pane, seq : 1 .. MaxBatches, query : 0 .. MaxQueries]
NoBatch == [pane |-> NoPane, seq |-> 0, query |-> 0]

Blank == [batch |-> NoBatch, by |-> "none"]

TypeOK ==
    /\ current \in [Thread -> Batch \cup {NoBatch}]
    /\ sending \in [Thread -> Batch \cup {NoBatch}]
    /\ asking \in [Thread -> 0 .. MaxQueries]
    /\ pc \in [Thread -> {"run", "insert", "check", "wait"}]
    /\ display \in [Pane -> Batch \cup {NoBatch}]
    /\ slots \subseteq Query
    /\ sent \in [Query -> Nat]
    /\ nextBatch \in 1 .. MaxBatches + 1
    /\ nextQuery \in 1 .. MaxQueries + 1
    /\ {registered, hidden, refused, dirty} \subseteq SUBSET Pane
    /\ closing \in Pane \cup {NoPane}
    /\ painting \in [batch : Batch, by : {"d2d", "gdi"}] \cup {Blank}
    /\ shown \in [Thread -> 0 .. MaxBatches]

Init ==
    /\ current = [t \in Thread |-> NoBatch]
    /\ sending = [t \in Thread |-> NoBatch]
    /\ asking = [t \in Thread |-> 0]
    /\ pc = [t \in Thread |-> "run"]
    /\ display = [p \in Pane |-> NoBatch]
    /\ slots = {} /\ sent = [q \in Query |-> 0]
    /\ nextBatch = 1 /\ nextQuery = 1
    /\ registered = Pane /\ closing = NoPane
    /\ hidden = {} /\ refused = {} /\ dirty = {} /\ painting = Blank
    /\ shown = [t \in Thread |-> 0]

-----------------------------------------------------------------------------
(* A language thread.                                                      *)

NewBatch(p, q) == [pane |-> p, seq |-> nextBatch, query |-> q]

\* begin: a batch in progress is forgotten.
BeginBatch(t, p) ==
    /\ pc[t] = "run"
    /\ nextBatch <= MaxBatches
    /\ current' = [current EXCEPT ![t] = NewBatch(p, 0)]
    /\ nextBatch' = nextBatch + 1
    /\ UNCHANGED <<sending, asking, pc, nextQuery, windowVars, display, slots,
                   sent, dirty, painting, shown>>

\* SubmitBatch, up to the call of submit; without a batch it returns 0.
SubmitBatch(t) ==
    /\ pc[t] = "run"
    /\ current[t] # NoBatch
    /\ sending' = [sending EXCEPT ![t] = current[t]]
    /\ current' = [current EXCEPT ![t] = NoBatch]
    /\ pc' = [pc EXCEPT ![t] = "insert"]
    /\ UNCHANGED <<asking, nextBatch, nextQuery, windowVars, display, slots,
                   sent, dirty, painting, shown>>

\* Mutant of Ask: the drawing in progress is restored after the query.
MutAsk(t, p) ==
    /\ pc[t] = "run"
    /\ nextQuery <= MaxQueries /\ nextBatch <= MaxBatches
    /\ asking' = [asking EXCEPT ![t] = nextQuery]
    /\ slots' = slots \cup {nextQuery}
    /\ sending' = [sending EXCEPT ![t] = NewBatch(p, nextQuery)]
    /\ pc' = [pc EXCEPT ![t] = "insert"]
    /\ nextBatch' = nextBatch + 1
    /\ nextQuery' = nextQuery + 1
    /\ UNCHANGED <<current, windowVars, display, sent, dirty, painting, shown>>

\* MeasureTextRun and its like: alloc_id, install, begin, push, finish.
Ask(t, p) ==
    /\ pc[t] = "run"
    /\ nextQuery <= MaxQueries /\ nextBatch <= MaxBatches
    /\ asking' = [asking EXCEPT ![t] = nextQuery]
    /\ slots' = slots \cup {nextQuery}
    /\ sending' = [sending EXCEPT ![t] = NewBatch(p, nextQuery)]
    /\ current' = [current EXCEPT ![t] = NoBatch]
    /\ pc' = [pc EXCEPT ![t] = "insert"]
    /\ nextBatch' = nextBatch + 1
    /\ nextQuery' = nextQuery + 1
    /\ UNCHANGED <<windowVars, display, sent, dirty, painting, shown>>

\* submit: the batch takes the pane's display slot ...
Insert(t) ==
    /\ pc[t] = "insert"
    /\ display' = [display EXCEPT ![sending[t].pane] = sending[t]]
    /\ shown' = [shown EXCEPT ![t] = sending[t].seq]
    /\ pc' = [pc EXCEPT ![t] = "check"]
    /\ UNCHANGED <<current, sending, asking, nextBatch, nextQuery, windowVars,
                   slots, sent, dirty, painting>>

\* ... and a paint message is posted if the pane is registered.  A query waits
\* then, and gives up at once otherwise.
Check(t) ==
    LET open == sending[t].pane \in registered
        wait == open /\ asking[t] # 0
    IN  /\ pc[t] = "check"
        /\ dirty' = IF open THEN dirty \cup {sending[t].pane} ELSE dirty
        /\ pc' = [pc EXCEPT ![t] = IF wait THEN "wait" ELSE "run"]
        /\ asking' = [asking EXCEPT ![t] = IF wait THEN @ ELSE 0]
        /\ sending' = [sending EXCEPT ![t] = IF wait THEN @ ELSE NoBatch]
        /\ UNCHANGED <<current, nextBatch, nextQuery, windowVars, display, slots,
                       sent, painting, shown>>

Resume(t) ==
    /\ pc' = [pc EXCEPT ![t] = "run"]
    /\ asking' = [asking EXCEPT ![t] = 0]
    /\ sending' = [sending EXCEPT ![t] = NoBatch]
    /\ UNCHANGED <<current, nextBatch, nextQuery, windowVars, display, slots,
                   sent, dirty, painting, shown>>

\* wait returns the reply ...
Answered(t) == pc[t] = "wait" /\ sent[asking[t]] > 0 /\ Resume(t)

\* ... or gives up after five seconds, whatever the GUI thread is doing.
GiveUp(t) == pc[t] = "wait" /\ sent[asking[t]] = 0 /\ Resume(t)

-----------------------------------------------------------------------------
(* The GUI thread handles one message at a time.                           *)

GuiIdle == painting = Blank /\ closing = NoPane

\* WM_PAINT: snapshot the display slot, or return early.
Paint(p) ==
    /\ GuiIdle
    /\ p \in dirty
    /\ dirty' = dirty \ {p}
    /\ painting' = IF p \in hidden \/ display[p] = NoBatch THEN Blank
                   ELSE [batch |-> display[p], by |-> "d2d"]
    /\ refused' = refused \ {p}
    /\ UNCHANGED <<threadVars, registered, closing, hidden, display, slots, sent, shown>>

\* WM_PAINT of a pane whose render target cannot be created or resized.
PaintRefused(p) ==
    /\ MayBlank /\ GuiIdle
    /\ p \in dirty \ hidden
    /\ dirty' = dirty \ {p}
    /\ refused' = refused \cup {p}
    /\ UNCHANGED <<threadVars, registered, closing, hidden, display, slots, sent,
                   painting, shown>>

\* Mutant of Deliver: the slot stays.
MutDeliver(q) ==
    IF q \in slots
    THEN UNCHANGED slots /\ sent' = [sent EXCEPT ![q] = @ + 1]
    ELSE UNCHANGED <<slots, sent>>

\* deliver: the slot is taken before the reply is sent, once.
Deliver(q) ==
    IF q \in slots
    THEN slots' = slots \ {q} /\ sent' = [sent EXCEPT ![q] = @ + 1]
    ELSE UNCHANGED <<slots, sent>>

\* Mutant of Execute: the GDI fallback skips queries as it does other text.
MutExecute ==
    /\ painting # Blank
    /\ IF painting.by = "d2d" THEN Deliver(painting.batch.query)
       ELSE UNCHANGED <<slots, sent>>
    /\ painting' = Blank
    /\ UNCHANGED <<threadVars, windowVars, display, dirty, shown>>

\* The batch is executed to its end.
Execute ==
    /\ painting # Blank
    /\ Deliver(painting.batch.query)
    /\ painting' = Blank
    /\ UNCHANGED <<threadVars, windowVars, display, dirty, shown>>

\* Mutant of FallBack: the failing path takes the slot and sends nothing.
MutFallBack(answered) ==
    /\ painting.by = "d2d"
    /\ slots' = slots \ {painting.batch.query}
    /\ IF answered /\ painting.batch.query \in slots
       THEN sent' = [sent EXCEPT ![painting.batch.query] = @ + 1] ELSE UNCHANGED sent
    /\ painting' = [painting EXCEPT !.by = "gdi"]
    /\ UNCHANGED <<threadVars, windowVars, display, dirty, shown>>

\* Direct2D failed, before or after the query was answered, and the whole
\* batch is executed again by the GDI fallback.
FallBack(answered) ==
    /\ painting.by = "d2d"
    /\ IF answered THEN Deliver(painting.batch.query) ELSE UNCHANGED <<slots, sent>>
    /\ painting' = [painting EXCEPT !.by = "gdi"]
    /\ UNCHANGED <<threadVars, windowVars, display, dirty, shown>>

\* The system asks for a repaint: the last batch is executed again.
Expose(p) ==
    /\ p \in registered \ dirty
    /\ dirty' = dirty \cup {p}
    /\ UNCHANGED <<threadVars, windowVars, display, slots, sent, painting, shown>>

Hide(p) ==
    /\ MayBlank /\ GuiIdle
    /\ p \in registered \ hidden
    /\ hidden' = hidden \cup {p}
    /\ UNCHANGED <<threadVars, registered, closing, refused, display, slots, sent,
                   dirty, painting, shown>>

Show(p) ==
    /\ GuiIdle
    /\ p \in hidden \cap registered
    /\ hidden' = hidden \ {p}
    /\ dirty' = dirty \cup {p}
    /\ UNCHANGED <<threadVars, registered, closing, refused, display, slots, sent,
                   painting, shown>>

\* WM_NCDESTROY: forget the batch ...
BeginClose(p) ==
    /\ MayClose /\ GuiIdle
    /\ p \in registered
    /\ closing' = p
    /\ display' = [display EXCEPT ![p] = NoBatch]
    /\ dirty' = dirty \ {p}
    /\ UNCHANGED <<threadVars, registered, hidden, refused, slots, sent, painting, shown>>

\* ... then leave the registry.  Messages posted in between die with the window.
EndClose ==
    /\ closing # NoPane
    /\ registered' = registered \ {closing}
    /\ dirty' = dirty \ {closing}
    /\ closing' = NoPane
    /\ UNCHANGED <<threadVars, hidden, refused, display, slots, sent, painting, shown>>

Next ==
    \/ \E t \in Thread :
          \/ \E p \in Pane : BeginBatch(t, p) \/ Ask(t, p)
          \/ SubmitBatch(t) \/ Insert(t) \/ Check(t) \/ Answered(t) \/ GiveUp(t)
    \/ \E p \in Pane : \/ Paint(p) \/ PaintRefused(p) \/ Expose(p)
                       \/ Hide(p) \/ Show(p) \/ BeginClose(p)
    \/ Execute \/ EndClose
    \/ \E answered \in BOOLEAN : FallBack(answered)

Spec == Init /\ [][Next]_vars

-----------------------------------------------------------------------------

\* A reply channel holds one reply: a second send would block the GUI thread
\* for ever.  Repaints and fallbacks execute a query's batch again, but answer
\* it once.
OneReplyEach == \A q \in Query : sent[q] <= 1

\* No request is forgotten by both sides: until it was answered, its slot waits.
UnansweredHasSlot == \A q \in Query : q < nextQuery /\ sent[q] = 0 => q \in slots

\* Why a query may still be unanswered: its pane is gone, going or has nothing to
\* paint on; the GUI thread has yet to paint it or is at it; or another thread's
\* batch took the pane's display slot.
Excused(t) ==
    LET p == sending[t].pane
    IN  \/ p \in hidden \cup refused \cup (Pane \ registered) \/ closing = p
        \/ p \in dirty \/ painting.batch = sending[t]
        \/ display[p] # sending[t]

\* A query goes unanswered only for such a reason: nothing its thread displayed
\* earlier, no fallback, no repaint and no reopened pane gets in its way.
GivesUpWithReason ==
    [][\A t \in Thread :
          pc[t] = "wait" /\ pc'[t] = "run" /\ sent[asking[t]] = 0 => Excused(t)]_vars

\* A thread's batches take the display slots in the order it began them: a query
\* from the middle of a drawing is never followed by what was drawn before it.
DisplayMovesForward == [][\A t \in Thread : shown'[t] >= shown[t]]_vars

\* restore_current is documented as "used by `measure-text` so that calling it
\* from inside a `with-batch` doesn't clobber the user's draw work in progress".
MeasureKeepsDrawing ==
    [][\A t \in Thread : nextQuery' > nextQuery /\ asking'[t] = nextQuery
                         => current'[t] = current[t]]_vars
=============================================================================
