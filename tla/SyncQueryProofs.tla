-------------------------- MODULE SyncQueryProofs --------------------------
(***************************************************************************)
(* Theorems about SyncQuery for any number of threads and panes, whatever  *)
(* closes or refuses to paint, and any bound on batches and queries.       *)
(***************************************************************************)
EXTENDS SyncQuery, TLAPS

\* A request has a slot from the time it is made until its one reply is sent.
Slots ==
    \A q \in Query :
        /\ q \in slots => q < nextQuery /\ sent[q] = 0
        /\ sent[q] \in {0, 1}
        /\ sent[q] = 1 => q < nextQuery
        /\ q < nextQuery /\ sent[q] = 0 => q \in slots

\* What a thread hands over, and that it builds nothing meanwhile.
Handover ==
    \A t \in Thread :
        /\ pc[t] = "run" => sending[t] = NoBatch /\ asking[t] = 0
        /\ pc[t] # "run" => /\ sending[t] \in Batch /\ sending[t].query = asking[t]
                            /\ current[t] = NoBatch
        /\ pc[t] = "wait" => asking[t] # 0
        /\ asking[t] < nextQuery /\ current[t].query = 0

\* Numbers of batches are fresh, so that no two batches are equal.
Fresh ==
    \A t \in Thread :
        /\ current[t].seq < nextBatch /\ sending[t].seq < nextBatch
        /\ current[t] # NoBatch =>
              \A u \in Thread : /\ sending[u].seq # current[t].seq
                                /\ u # t => current[u].seq # current[t].seq
        /\ sending[t] # NoBatch =>
              \A u \in Thread : u # t => sending[u].seq # sending[t].seq

\* A thread that waits for an answer has a reason to.
Excuses ==
    \A t \in Thread : pc[t] = "wait" /\ sent[asking[t]] = 0 => Excused(t)

\* What a thread may still put on display is newer than what it put there.
Forward ==
    \A t \in Thread :
        /\ shown[t] < nextBatch
        /\ pc[t] = "insert" => shown[t] <= sending[t].seq
        /\ current[t] # NoBatch => shown[t] <= current[t].seq

IInv == TypeOK /\ Slots /\ Handover /\ Fresh /\ Excuses /\ Forward

\* What every definition below is built from.
LEMMA Constants ==
    /\ MaxBatches \in Nat /\ MaxQueries \in Nat /\ NoPane \notin Pane
    /\ NoBatch \notin Batch /\ NoBatch.seq = 0 /\ NoBatch.query = 0
    /\ \A b \in Batch : /\ b.pane \in Pane /\ b.seq \in 1 .. MaxBatches
                        /\ b.query \in 0 .. MaxQueries
BY SyncQueryAssumption DEF SyncQueryAssumption, NoBatch, Batch

LEMMA InitIInv == Init => IInv
<1> SUFFICES ASSUME Init PROVE IInv
  OBVIOUS
<1>1. TypeOK
  BY Constants DEF Init, TypeOK, Query, Blank
<1>2. Slots /\ Handover /\ Fresh
  BY Constants DEF Init, Slots, Handover, Fresh, Query, NoBatch
<1>3. Excuses /\ Forward
  BY Constants DEF Init, Excuses, Forward, NoBatch
<1> QED BY <1>1, <1>2, <1>3 DEF IInv

-----------------------------------------------------------------------------
(***************************************************************************)
(* The steps of a language thread.                                         *)
(***************************************************************************)

LEMMA NewBatchType ==
    ASSUME TypeOK, NEW p \in Pane, NEW q \in 0 .. MaxQueries, nextBatch <= MaxBatches
    PROVE  /\ NewBatch(p, q) \in Batch /\ NewBatch(p, q) # NoBatch
           /\ NewBatch(p, q).seq = nextBatch /\ NewBatch(p, q).query = q
           /\ NewBatch(p, q).pane = p
           /\ nextBatch + 1 \in 1 .. MaxBatches + 1
<1>1. nextBatch \in 1 .. MaxBatches
  BY Constants DEF TypeOK
<1>2. NewBatch(p, q) \in Batch
  BY <1>1 DEF NewBatch, Batch
<1> QED BY <1>1, <1>2, Constants DEF NewBatch

LEMMA BeginBatchStep ==
    ASSUME IInv, NEW t \in Thread, NEW p \in Pane, BeginBatch(t, p)
    PROVE  IInv'
<1> DEFINE b == NewBatch(p, 0)
<1>1. /\ pc[t] = "run" /\ nextBatch <= MaxBatches
      /\ current' = [current EXCEPT ![t] = b] /\ nextBatch' = nextBatch + 1
      /\ UNCHANGED <<sending, asking, pc, nextQuery, windowVars, display, slots,
                     sent, dirty, painting, shown>>
  BY DEF BeginBatch
<1>2. /\ b \in Batch /\ b # NoBatch /\ b.seq = nextBatch /\ b.query = 0
      /\ nextBatch' \in 1 .. MaxBatches + 1
  BY <1>1, Constants, NewBatchType DEF IInv
<1> HIDE DEF b
<1>3. TypeOK'
  BY <1>1, <1>2 DEF IInv, TypeOK, windowVars
<1>4. Slots' /\ Excuses'
  BY <1>1 DEF IInv, Slots, Excuses, Excused, windowVars
<1>5. Handover'
  BY <1>1, <1>2 DEF IInv, TypeOK, Handover
<1>6. Fresh'
  BY <1>1, <1>2, Constants DEF IInv, TypeOK, Fresh
<1>7. Forward'
  BY <1>1, <1>2 DEF IInv, TypeOK, Forward
<1> QED BY <1>3, <1>4, <1>5, <1>6, <1>7 DEF IInv

LEMMA SubmitBatchStep ==
    ASSUME IInv, NEW t \in Thread, SubmitBatch(t)
    PROVE  IInv'
<1>1. /\ pc[t] = "run" /\ current[t] # NoBatch
      /\ sending' = [sending EXCEPT ![t] = current[t]]
      /\ current' = [current EXCEPT ![t] = NoBatch]
      /\ pc' = [pc EXCEPT ![t] = "insert"]
      /\ UNCHANGED <<asking, nextBatch, nextQuery, windowVars, display, slots,
                     sent, dirty, painting, shown>>
  BY DEF SubmitBatch
<1>2. current[t] \in Batch
  BY <1>1 DEF IInv, TypeOK
<1>3. TypeOK'
  BY <1>1, <1>2 DEF IInv, TypeOK, windowVars
<1>4. Slots'
  BY <1>1 DEF IInv, Slots
<1>5. Excuses'
  BY <1>1 DEF IInv, TypeOK, Excuses, Excused, windowVars
<1>6. Handover'
  BY <1>1, <1>2, Constants DEF IInv, TypeOK, Handover
<1>7. Fresh'
  BY <1>1, <1>2, Constants DEF IInv, TypeOK, Fresh
<1>8. Forward'
  BY <1>1, <1>2, Constants DEF IInv, TypeOK, Forward
<1> QED BY <1>3, <1>4, <1>5, <1>6, <1>7, <1>8 DEF IInv

LEMMA AskStep ==
    ASSUME IInv, NEW t \in Thread, NEW p \in Pane, Ask(t, p)
    PROVE  IInv'
<1> DEFINE b == NewBatch(p, nextQuery)
<1>1. /\ pc[t] = "run" /\ nextQuery <= MaxQueries /\ nextBatch <= MaxBatches
      /\ asking' = [asking EXCEPT ![t] = nextQuery]
      /\ slots' = slots \cup {nextQuery}
      /\ sending' = [sending EXCEPT ![t] = b]
      /\ current' = [current EXCEPT ![t] = NoBatch]
      /\ pc' = [pc EXCEPT ![t] = "insert"]
      /\ nextBatch' = nextBatch + 1 /\ nextQuery' = nextQuery + 1
      /\ UNCHANGED <<windowVars, display, sent, dirty, painting, shown>>
  BY DEF Ask
<1>2. nextQuery \in Query /\ nextQuery \in 0 .. MaxQueries /\ nextQuery # 0
  BY <1>1, Constants DEF IInv, TypeOK, Query
<1>3. /\ b \in Batch /\ b # NoBatch /\ b.seq = nextBatch /\ b.query = nextQuery
      /\ nextBatch' \in 1 .. MaxBatches + 1
  BY <1>1, <1>2, Constants, NewBatchType DEF IInv
<1> HIDE DEF b
<1>4. TypeOK'
  <2>1. nextQuery' \in 1 .. MaxQueries + 1
    BY <1>1, <1>2, Constants DEF Query
  <2> QED BY <1>1, <1>2, <1>3, <2>1 DEF IInv, TypeOK, windowVars
<1>5. Slots'
  BY <1>1, <1>2, Constants DEF IInv, TypeOK, Slots, Query
<1>6. Excuses'
  BY <1>1 DEF IInv, TypeOK, Excuses, Excused, windowVars
<1>7. Handover'
  BY <1>1, <1>2, <1>3, Constants DEF IInv, TypeOK, Handover, Query
<1>8. Fresh'
  BY <1>1, <1>3, Constants DEF IInv, TypeOK, Fresh
<1>9. Forward'
  BY <1>1, <1>3, Constants DEF IInv, TypeOK, Forward
<1> QED BY <1>4, <1>5, <1>6, <1>7, <1>8, <1>9 DEF IInv

LEMMA InsertStep ==
    ASSUME IInv, NEW t \in Thread, Insert(t)
    PROVE  IInv'
<1>1. /\ pc[t] = "insert"
      /\ display' = [display EXCEPT ![sending[t].pane] = sending[t]]
      /\ shown' = [shown EXCEPT ![t] = sending[t].seq]
      /\ pc' = [pc EXCEPT ![t] = "check"]
      /\ UNCHANGED <<current, sending, asking, nextBatch, nextQuery, windowVars,
                     slots, sent, dirty, painting>>
  BY DEF Insert
<1>2. /\ sending[t] \in Batch /\ sending[t].pane \in Pane
      /\ sending[t].seq \in 1 .. MaxBatches /\ sending[t] # NoBatch
  BY <1>1, Constants DEF IInv, Handover
<1>3. TypeOK'
  <2>1. sending[t].seq \in 0 .. MaxBatches
    BY <1>2, Constants
  <2> QED BY <1>1, <1>2, <2>1 DEF IInv, TypeOK, windowVars
<1>4. Slots' /\ Fresh'
  BY <1>1 DEF IInv, Slots, Fresh
<1>5. Handover'
  BY <1>1 DEF IInv, TypeOK, Handover
<1>6. Excuses'
  <2> SUFFICES ASSUME NEW u \in Thread, pc'[u] = "wait", sent'[asking'[u]] = 0
               PROVE  Excused(u)'
    BY DEF Excuses
  <2>1. u # t /\ pc[u] = "wait" /\ sent[asking[u]] = 0
    BY <1>1 DEF IInv, TypeOK
  <2>2. Excused(u)
    BY <2>1 DEF IInv, Excuses
  <2>3. sending[u] \in Batch /\ sending[u].pane \in Pane /\ sending[u] # NoBatch
    BY <2>1, Constants DEF IInv, Handover
  <2>4. sending[t] # sending[u]
    BY <1>2, <2>1, <2>3 DEF IInv, Fresh
  <2>5. display'[sending[u].pane] \in {display[sending[u].pane], sending[t]}
    BY <1>1, <2>3 DEF IInv, TypeOK
  <2> QED BY <1>1, <2>2, <2>4, <2>5 DEF Excused, windowVars
<1>7. Forward'
  BY <1>1, <1>2 DEF IInv, TypeOK, Forward, Fresh, Handover
<1> QED BY <1>3, <1>4, <1>5, <1>6, <1>7 DEF IInv

\* What a step that ends a thread's turn, or lets it wait, leaves.
LEMMA CheckStep ==
    ASSUME IInv, NEW t \in Thread, Check(t)
    PROVE  IInv'
<1> DEFINE open == sending[t].pane \in registered
           wait == open /\ asking[t] # 0
<1>1. /\ pc[t] = "check"
      /\ dirty' = IF open THEN dirty \cup {sending[t].pane} ELSE dirty
      /\ pc' = [pc EXCEPT ![t] = IF wait THEN "wait" ELSE "run"]
      /\ asking' = [asking EXCEPT ![t] = IF wait THEN asking[t] ELSE 0]
      /\ sending' = [sending EXCEPT ![t] = IF wait THEN sending[t] ELSE NoBatch]
      /\ UNCHANGED <<current, nextBatch, nextQuery, windowVars, display, slots,
                     sent, painting, shown>>
  BY DEF Check
<1>2. sending[t] \in Batch /\ sending[t].pane \in Pane /\ current[t] = NoBatch
  BY <1>1, Constants DEF IInv, Handover
<1>3. asking[t] \in 0 .. MaxQueries /\ 0 \in 0 .. MaxQueries
  BY Constants DEF IInv, TypeOK
<1>4. TypeOK'
  BY <1>1, <1>2, <1>3 DEF IInv, TypeOK, windowVars
<1>5. Slots'
  BY <1>1 DEF IInv, Slots
<1>6. Handover'
  BY <1>1, <1>2, <1>3, Constants DEF IInv, TypeOK, Handover
<1>7. Fresh'
  BY <1>1, <1>2, Constants DEF IInv, TypeOK, Fresh
<1>8. Forward'
  BY <1>1, <1>2 DEF IInv, TypeOK, Forward
<1>9. Excuses'
  <2> SUFFICES ASSUME NEW u \in Thread, pc'[u] = "wait", sent'[asking'[u]] = 0
               PROVE  Excused(u)'
    BY DEF Excuses
  <2>1. CASE u = t
    <3>1. wait /\ sending'[t] = sending[t] /\ sending[t].pane \in dirty'
      BY <1>1, <2>1 DEF IInv, TypeOK
    <3> QED BY <2>1, <3>1 DEF Excused
  <2>2. CASE u # t
    <3>1. pc[u] = "wait" /\ sent[asking[u]] = 0 /\ sending'[u] = sending[u]
      BY <1>1, <2>2 DEF IInv, TypeOK
    <3>2. Excused(u)
      BY <3>1 DEF IInv, Excuses
    <3>3. dirty \subseteq dirty'
      BY <1>1
    <3> QED BY <1>1, <3>1, <3>2, <3>3 DEF Excused, windowVars
  <2> QED BY <2>1, <2>2
<1> QED BY <1>4, <1>5, <1>6, <1>7, <1>8, <1>9 DEF IInv

LEMMA ResumeStep ==
    ASSUME IInv, NEW t \in Thread, pc[t] = "wait", Resume(t)
    PROVE  IInv'
<1>1. /\ pc' = [pc EXCEPT ![t] = "run"]
      /\ asking' = [asking EXCEPT ![t] = 0]
      /\ sending' = [sending EXCEPT ![t] = NoBatch]
      /\ UNCHANGED <<current, nextBatch, nextQuery, windowVars, display, slots,
                     sent, dirty, painting, shown>>
  BY DEF Resume
<1>2. TypeOK'
  BY <1>1, Constants DEF IInv, TypeOK, windowVars
<1>3. Slots'
  BY <1>1 DEF IInv, Slots
<1>4. Handover'
  BY <1>1, Constants DEF IInv, TypeOK, Handover
<1>5. Fresh'
  BY <1>1, Constants DEF IInv, TypeOK, Fresh
<1>6. Forward'
  BY <1>1 DEF IInv, TypeOK, Forward
<1>7. Excuses'
  BY <1>1 DEF IInv, TypeOK, Excuses, Excused, windowVars
<1> QED BY <1>2, <1>3, <1>4, <1>5, <1>6, <1>7 DEF IInv

-----------------------------------------------------------------------------
(***************************************************************************)
(* The steps of the GUI thread.                                            *)
(***************************************************************************)

LEMMA GuiStep ==
    ASSUME IInv, UNCHANGED threadVars, UNCHANGED shown, TypeOK', Slots', Excuses'
    PROVE  IInv'
BY DEF IInv, threadVars, Handover, Fresh, Forward

\* A step that answers nothing keeps the slots, and a thread's excuse unless it
\* concerns the thread's pane.
LEMMA QuietGuiStep ==
    ASSUME IInv, UNCHANGED threadVars, UNCHANGED <<shown, slots, sent>>, TypeOK',
           \A t \in Thread : pc[t] = "wait" /\ sending[t].pane \in Pane
                              /\ sending[t] # NoBatch /\ Excused(t) => Excused(t)'
    PROVE  IInv'
<1>1. Slots'
  BY DEF IInv, Slots, threadVars
<1>2. Excuses'
  <2> SUFFICES ASSUME NEW t \in Thread, pc'[t] = "wait", sent'[asking'[t]] = 0
               PROVE  Excused(t)'
    BY DEF Excuses
  <2>1. pc[t] = "wait" /\ Excused(t)
    BY DEF IInv, Excuses, threadVars
  <2>2. sending[t].pane \in Pane /\ sending[t] # NoBatch
    BY <2>1, Constants DEF IInv, Handover
  <2> QED BY <2>1, <2>2
<1> QED BY <1>1, <1>2, GuiStep

LEMMA PaintStep ==
    ASSUME IInv, NEW p \in Pane, Paint(p)
    PROVE  IInv'
<1>1. /\ painting = Blank /\ closing = NoPane /\ p \in dirty
      /\ dirty' = dirty \ {p} /\ refused' = refused \ {p}
      /\ painting' = IF p \in hidden \/ display[p] = NoBatch THEN Blank
                     ELSE [batch |-> display[p], by |-> "d2d"]
      /\ UNCHANGED <<threadVars, registered, closing, hidden, display, slots, sent, shown>>
  BY DEF Paint, GuiIdle
<1>2. TypeOK'
  <2>1. painting' \in [batch : Batch, by : {"d2d", "gdi"}] \cup {Blank}
    BY <1>1 DEF IInv, TypeOK
  <2> QED BY <1>1, <2>1 DEF IInv, TypeOK, threadVars
<1>3. ASSUME NEW t \in Thread, sending[t].pane \in Pane, sending[t] # NoBatch, Excused(t)
      PROVE  Excused(t)'
  <2>1. CASE sending[t].pane # p
    <3>1. painting.batch # sending[t] /\ painting.batch = NoBatch
      BY <1>1, <1>3 DEF Blank
    <3> QED BY <1>1, <1>3, <2>1, <3>1 DEF Excused, threadVars
  <2>2. CASE sending[t].pane = p /\ (p \in hidden \/ display[p] = NoBatch)
    BY <1>1, <1>3, <2>2 DEF Excused, threadVars
  <2>3. CASE sending[t].pane = p /\ ~(p \in hidden \/ display[p] = NoBatch)
    <3>1. painting'.batch = display[p]
      BY <1>1, <2>3
    <3> QED BY <1>1, <2>3, <3>1 DEF Excused, threadVars
  <2> QED BY <2>1, <2>2, <2>3
<1>4. UNCHANGED threadVars /\ UNCHANGED <<shown, slots, sent>>
  BY <1>1
<1> QED BY <1>2, <1>3, <1>4, QuietGuiStep

LEMMA PaintRefusedStep ==
    ASSUME IInv, NEW p \in Pane, PaintRefused(p)
    PROVE  IInv'
<1>1. /\ dirty' = dirty \ {p} /\ refused' = refused \cup {p}
      /\ UNCHANGED <<threadVars, registered, closing, hidden, display, slots, sent,
                     painting, shown>>
  BY DEF PaintRefused
<1>2. TypeOK'
  BY <1>1 DEF IInv, TypeOK, threadVars
<1>3. ASSUME NEW t \in Thread, Excused(t) PROVE Excused(t)'
  BY <1>1, <1>3 DEF Excused, threadVars
<1>4. UNCHANGED threadVars /\ UNCHANGED <<shown, slots, sent>>
  BY <1>1
<1> QED BY <1>2, <1>3, <1>4, QuietGuiStep

\* Delivering an answer takes its slot.
LEMMA DeliverSlots ==
    ASSUME IInv, NEW q \in 0 .. MaxQueries, Deliver(q)
    PROVE  /\ slots' \subseteq Query /\ sent' \in [Query -> Nat]
           /\ nextQuery' = nextQuery => Slots'
           /\ \A r \in Query : sent'[r] = 0 => sent[r] = 0 /\ (r = q => ~(r < nextQuery))
<1>1. slots \subseteq Query /\ sent \in [Query -> Nat] /\ Slots
  BY DEF IInv, TypeOK
<1>2. CASE q \in slots
  <2>1. slots' = slots \ {q} /\ sent' = [sent EXCEPT ![q] = sent[q] + 1]
    BY <1>2 DEF Deliver
  <2>2. q \in Query /\ sent[q] = 0
    BY <1>1, <1>2 DEF Slots
  <2> QED BY <1>1, <1>2, <2>1, <2>2 DEF Slots
<1>3. CASE q \notin slots
  <2>1. slots' = slots /\ sent' = sent
    BY <1>3 DEF Deliver
  <2> QED BY <1>1, <1>3, <2>1 DEF Slots
<1> QED BY <1>2, <1>3

LEMMA ExecuteStep ==
    ASSUME IInv, Execute
    PROVE  IInv'
<1> DEFINE q == painting.batch.query
<1>1. /\ painting # Blank /\ Deliver(q) /\ painting' = Blank
      /\ UNCHANGED threadVars /\ UNCHANGED windowVars
      /\ UNCHANGED <<display, dirty, shown>>
  BY DEF Execute
<1>2. q \in 0 .. MaxQueries
  BY <1>1, Constants DEF IInv, TypeOK
<1> HIDE DEF q
<1>3. /\ slots' \subseteq Query /\ sent' \in [Query -> Nat] /\ Slots'
      /\ \A r \in Query : sent'[r] = 0 => sent[r] = 0 /\ (r = q => ~(r < nextQuery))
  BY <1>1, <1>2, DeliverSlots DEF threadVars
<1>4. TypeOK'
  BY <1>1, <1>3 DEF IInv, TypeOK, threadVars, windowVars
<1>5. Excuses'
  <2> SUFFICES ASSUME NEW t \in Thread, pc'[t] = "wait", sent'[asking'[t]] = 0
               PROVE  Excused(t)'
    BY DEF Excuses
  <2>1. pc[t] = "wait" /\ sent'[asking[t]] = 0 /\ sending'[t] = sending[t]
    BY <1>1 DEF threadVars
  <2>2. asking[t] \in Query /\ asking[t] < nextQuery /\ sending[t].query = asking[t]
    BY <2>1, Constants DEF IInv, TypeOK, Handover, Query
  <2>3. sent[asking[t]] = 0 /\ asking[t] # q
    BY <1>3, <2>1, <2>2
  <2>4. Excused(t)
    BY <2>1, <2>3 DEF IInv, Excuses
  <2>5. painting.batch # sending[t]
    BY <2>2, <2>3 DEF q
  <2> QED BY <1>1, <2>1, <2>4, <2>5 DEF Excused, windowVars
<1> QED BY <1>1, <1>3, <1>4, <1>5, GuiStep

LEMMA FallBackStep ==
    ASSUME IInv, NEW answered \in BOOLEAN, FallBack(answered)
    PROVE  IInv'
<1> DEFINE q == painting.batch.query
<1>1. /\ painting.by = "d2d"
      /\ IF answered THEN Deliver(q) ELSE UNCHANGED <<slots, sent>>
      /\ painting' = [painting EXCEPT !.by = "gdi"]
      /\ UNCHANGED threadVars /\ UNCHANGED windowVars
      /\ UNCHANGED <<display, dirty, shown>>
  BY DEF FallBack
<1>2. painting \in [batch : Batch, by : {"d2d", "gdi"}]
  BY <1>1 DEF IInv, TypeOK, Blank
<1>3. /\ q \in 0 .. MaxQueries /\ painting'.batch = painting.batch
      /\ painting' \in [batch : Batch, by : {"d2d", "gdi"}]
  BY <1>1, <1>2, Constants
<1> HIDE DEF q
<1>4. /\ slots' \subseteq Query /\ sent' \in [Query -> Nat] /\ Slots'
      /\ \A r \in Query : sent'[r] = 0 => sent[r] = 0
  <2>1. CASE answered
    BY <1>1, <1>3, <2>1, DeliverSlots DEF threadVars
  <2>2. CASE ~answered
    BY <1>1, <2>2 DEF IInv, TypeOK, Slots, threadVars
  <2> QED BY <2>1, <2>2
<1>5. TypeOK'
  BY <1>1, <1>3, <1>4 DEF IInv, TypeOK, threadVars, windowVars
<1>6. Excuses'
  <2> SUFFICES ASSUME NEW t \in Thread, pc'[t] = "wait", sent'[asking'[t]] = 0
               PROVE  Excused(t)'
    BY DEF Excuses
  <2>1. pc[t] = "wait" /\ sent'[asking[t]] = 0 /\ sending'[t] = sending[t]
    BY <1>1 DEF threadVars
  <2>2. asking[t] \in Query
    BY <2>1, Constants DEF IInv, TypeOK, Handover, Query
  <2>3. Excused(t)
    BY <1>4, <2>1, <2>2 DEF IInv, Excuses
  <2> QED BY <1>1, <1>3, <2>1, <2>3 DEF Excused, windowVars
<1> QED BY <1>1, <1>4, <1>5, <1>6, GuiStep

LEMMA WindowStep ==
    ASSUME IInv, NEW p \in Pane, Expose(p) \/ Hide(p) \/ Show(p)
    PROVE  IInv'
<1>1. /\ UNCHANGED threadVars /\ UNCHANGED <<shown, slots, sent>>
      /\ UNCHANGED <<registered, closing, refused, display, painting>>
  BY DEF Expose, Hide, Show, windowVars
<1>2. /\ dirty' \subseteq dirty \cup {p} /\ dirty \subseteq dirty'
      /\ hidden' \subseteq hidden \cup {p}
      /\ \A x \in hidden : x \in hidden' \/ x \in dirty'
  <2>1. CASE Expose(p)
    BY <2>1 DEF Expose, windowVars
  <2>2. CASE Hide(p)
    BY <2>2 DEF Hide
  <2>3. CASE Show(p)
    BY <2>3 DEF Show
  <2> QED BY <2>1, <2>2, <2>3
<1>3. TypeOK'
  BY <1>1, <1>2 DEF IInv, TypeOK, threadVars
<1>4. ASSUME NEW t \in Thread, Excused(t) PROVE Excused(t)'
  BY <1>1, <1>2, <1>4 DEF Excused, threadVars
<1> QED BY <1>1, <1>3, <1>4, QuietGuiStep

LEMMA BeginCloseStep ==
    ASSUME IInv, NEW p \in Pane, BeginClose(p)
    PROVE  IInv'
<1>1. /\ closing = NoPane /\ closing' = p /\ display' = [display EXCEPT ![p] = NoBatch]
      /\ dirty' = dirty \ {p}
      /\ UNCHANGED <<threadVars, registered, hidden, refused, slots, sent, painting, shown>>
  BY DEF BeginClose, GuiIdle
<1>2. TypeOK'
  BY <1>1 DEF IInv, TypeOK, threadVars
<1>3. ASSUME NEW t \in Thread, sending[t].pane \in Pane, Excused(t) PROVE Excused(t)'
  <2>1. CASE sending[t].pane = p
    BY <1>1, <2>1 DEF Excused, threadVars
  <2>2. CASE sending[t].pane # p
    <3>1. display'[sending[t].pane] = display[sending[t].pane] /\ closing # sending[t].pane
      BY <1>1, <1>3, <2>2, Constants DEF IInv, TypeOK
    <3> QED BY <1>1, <1>3, <2>2, <3>1 DEF Excused, threadVars
  <2> QED BY <2>1, <2>2
<1>4. UNCHANGED threadVars /\ UNCHANGED <<shown, slots, sent>>
  BY <1>1
<1> QED BY <1>2, <1>3, <1>4, QuietGuiStep

LEMMA EndCloseStep ==
    ASSUME IInv, EndClose
    PROVE  IInv'
<1>1. /\ registered' = registered \ {closing} /\ dirty' = dirty \ {closing}
      /\ closing' = NoPane
      /\ UNCHANGED <<threadVars, hidden, refused, display, slots, sent, painting, shown>>
  BY DEF EndClose
<1>2. TypeOK'
  BY <1>1 DEF IInv, TypeOK, threadVars
<1>3. ASSUME NEW t \in Thread, sending[t].pane \in Pane, Excused(t) PROVE Excused(t)'
  BY <1>1, <1>3 DEF Excused, threadVars
<1>4. UNCHANGED threadVars /\ UNCHANGED <<shown, slots, sent>>
  BY <1>1
<1> QED BY <1>2, <1>3, <1>4, QuietGuiStep

-----------------------------------------------------------------------------

LEMMA NextIInv == IInv /\ [Next]_vars => IInv'
<1> SUFFICES ASSUME IInv, [Next]_vars PROVE IInv'
  OBVIOUS
<1>1. CASE UNCHANGED vars
  BY <1>1 DEF vars, threadVars, windowVars, IInv, TypeOK, Slots, Handover, Fresh,
              Excuses, Excused, Forward
<1>2. ASSUME NEW t \in Thread, NEW p \in Pane, BeginBatch(t, p) \/ Ask(t, p)
      PROVE  IInv'
  BY <1>2, BeginBatchStep, AskStep
<1>3. ASSUME NEW t \in Thread,
             SubmitBatch(t) \/ Insert(t) \/ Check(t) \/ Answered(t) \/ GiveUp(t)
      PROVE  IInv'
  BY <1>3, SubmitBatchStep, InsertStep, CheckStep, ResumeStep DEF Answered, GiveUp
<1>4. ASSUME NEW p \in Pane,
             \/ Paint(p) \/ PaintRefused(p) \/ Expose(p)
             \/ Hide(p) \/ Show(p) \/ BeginClose(p)
      PROVE  IInv'
  BY <1>4, PaintStep, PaintRefusedStep, WindowStep, BeginCloseStep
<1>5. CASE Execute \/ EndClose
  BY <1>5, ExecuteStep, EndCloseStep
<1>6. ASSUME NEW answered \in BOOLEAN, FallBack(answered) PROVE IInv'
  BY <1>6, FallBackStep
<1> QED BY <1>1, <1>2, <1>3, <1>4, <1>5, <1>6 DEF Next

THEOREM Invariance == Spec => []IInv
<1> QED BY InitIInv, NextIInv, PTL DEF Spec

\* The state is of its type.
THEOREM TypeCorrect == Spec => []TypeOK
<1>1. IInv => TypeOK
  BY DEF IInv
<1> QED BY Invariance, <1>1, PTL

\* The GUI thread never sends a second reply to a channel that holds one
\* (replies.rs, deliver), so it never blocks there, however often a query's
\* batch is executed.
THEOREM RepliesOnce == Spec => []OneReplyEach
<1>1. IInv => OneReplyEach
  BY DEF IInv, Slots, OneReplyEach
<1> QED BY Invariance, <1>1, PTL

\* A request keeps its slot until it was answered (replies.rs).
THEOREM SlotsWait == Spec => []UnansweredHasSlot
<1>1. IInv => UnansweredHasSlot
  BY DEF IInv, Slots, UnansweredHasSlot
<1> QED BY Invariance, <1>1, PTL

\* A query goes unanswered only for one of the reasons Excused lists.
THEOREM QueriesAreAnswered == Spec => GivesUpWithReason
<1> DEFINE A == \A t \in Thread :
                  pc[t] = "wait" /\ pc'[t] = "run" /\ sent[asking[t]] = 0 => Excused(t)
<1>1. IInv /\ [Next]_vars => [A]_vars
  BY DEF IInv, Excuses
<1> QED BY Invariance, <1>1, PTL DEF Spec, GivesUpWithReason

\* One thread's batches take the display slots in the order it began them.
THEOREM DisplayIsInOrder == Spec => DisplayMovesForward
<1> DEFINE A == \A t \in Thread : shown'[t] >= shown[t]
<1>1. IInv /\ [Next]_vars => [A]_vars
  <2> SUFFICES ASSUME IInv, Next PROVE A
    OBVIOUS
  <2>1. ASSUME NEW t \in Thread, Insert(t) PROVE A
    <3>1. shown' = [shown EXCEPT ![t] = sending[t].seq] /\ shown[t] <= sending[t].seq
      BY <2>1 DEF Insert, IInv, Forward
    <3>2. shown \in [Thread -> 0 .. MaxBatches] /\ MaxBatches \in Nat
      BY Constants DEF IInv, TypeOK
    <3> QED BY <3>1, <3>2
  <2>2. ASSUME UNCHANGED shown PROVE A
    <3>1. shown \in [Thread -> 0 .. MaxBatches] /\ MaxBatches \in Nat
      BY Constants DEF IInv, TypeOK
    <3> QED BY <2>2, <3>1
  <2>3. (\E t \in Thread : Insert(t)) \/ UNCHANGED shown
    BY DEF Next, BeginBatch, SubmitBatch, Ask, Check, Answered, GiveUp, Resume, Paint,
           PaintRefused, Execute, FallBack, Expose, Hide, Show, BeginClose, EndClose
  <2> QED BY <2>1, <2>2, <2>3
<1> QED BY Invariance, <1>1, PTL DEF Spec, DisplayMovesForward
=============================================================================
