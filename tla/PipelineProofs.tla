--------------------------- MODULE PipelineProofs ---------------------------
(***************************************************************************)
(* Traffic is reported at most once and none is skipped, the buckets tile  *)
(* the time, and what a collector knows to be accepted is shown: for any   *)
(* number of flows, batches, runs of the collector and ticks, whatever the *)
(* network loses and whenever the process is stopped.                      *)
(*                                                                         *)
(* None of this is inductive.  That the next batch reports nothing again   *)
(* depends on how the source's baseline relates to the batches (Intervals),*)
(* how buckets tile depends on the order of the bucket, the running flush  *)
(* and the waiting tick (Clocks), and what the control plane did with a    *)
(* batch depends on where its handler is (Handled).                        *)
(***************************************************************************)
EXTENDS Pipeline, SequenceTheorems, TLAPS

Last == Len(batches)
Batches == 1 .. Last

Shown(b) == \E i \in DOMAIN recent : recent[i] = b
Kept(b) == \E i \in DOMAIN stored : stored[i] = b

(* No batch reaches past the baseline, nor the baseline past the counters. *)
Intervals ==
  /\ \A f \in Flows : drained[f] <= counted[f]
  /\ \A i \in Batches : \A f \in PublicFlows : batches[i].upto[f] <= drained[f]

(* The bucket starts before the running flush ends it, which is before the *)
(* next tick, and all are past.  A bucket starts where the last batch of   *)
(* the run ended, once its flush is over.                                  *)
Clocks ==
  /\ bucketStart <= clock /\ end <= clock /\ tick <= clock
  /\ apc = "down" => tick = 0
  /\ apc = "select" /\ tick # 0 => bucketStart <= tick
  /\ apc \in {"drain", "send"} => bucketStart <= end
  /\ apc \in {"drain", "send"} /\ ~final /\ tick # 0 => end <= tick
  /\ \A i \in Batches : batches[i].run <= runs
  /\ Last # 0 /\ batches[Last].run = runs =>
       /\ apc = "send" => batches[Last].end = end
       /\ apc \in {"select", "drain"} => batches[Last].end = bucketStart

(* A batch is shown and stored by the steps of its handler, which answers  *)
(* last.  The collector waits for the last batch at most.                  *)
Handled ==
  \A b \in Batches :
    /\ reply[b] # 0 => handler[b] = "done"
    /\ outcome[b] \in {"accepted", "refused"} => handler[b] = "done"
    /\ outcome[b] = "in_flight" => apc = "send" /\ b = Last
    /\ handler[b] \in {"posted", "push"} => ~Shown(b)
    /\ handler[b] # "done" => ~Kept(b)
    /\ handler[b] = "insert" \/ reply[b] = 202 => Shown(b)

Sending == apc = "send" => Last # 0 /\ outcome[Last] = "in_flight"

IInv ==
  /\ TypeOK /\ Intervals /\ Clocks /\ Handled /\ Sending
  /\ AtMostOnce /\ NoTrafficSkipped /\ BucketsTile
  /\ OutOfOrderOnlyIfGivenUp /\ AcceptedIsShown

Places == {"posted", "push", "insert", "done"}
Replies == {0, 202, 500}
Outcomes == {"in_flight", "accepted", "refused", "unanswered", "abandoned"}

-----------------------------------------------------------------------------
(* The sequences *)

LEMMA Shape ==
  ASSUME TypeOK
  PROVE  /\ Last \in Nat
         /\ DOMAIN batches = Batches
         /\ batches \in [Batches -> Batch]
         /\ outcome \in [Batches -> Outcomes]
         /\ handler \in [Batches -> Places]
         /\ reply \in [Batches -> Replies]
         /\ recent \in Seq(Batches) /\ stored \in Seq(Batches)
  BY DEF TypeOK, Last, Batches, Outcomes, Places, Replies

(* Appending to a sequence and replacing one of its elements.              *)
LEMMA AppendTo ==
  ASSUME NEW S, NEW s \in Seq(S), NEW x \in S
  PROVE  /\ Append(s, x) \in Seq(S)
         /\ Len(Append(s, x)) = Len(s) + 1
         /\ DOMAIN Append(s, x) = 1 .. Len(s) + 1
         /\ \A i \in 1 .. Len(s) : Append(s, x)[i] = s[i]
         /\ Append(s, x)[Len(s) + 1] = x
  BY AppendProperties

LEMMA LargerDomain ==
  ASSUME NEW n \in Nat
  PROVE  1 .. n + 1 = (1 .. n) \cup {n + 1} /\ n + 1 \notin 1 .. n
  OBVIOUS

LEMMA SeqOfSuperset ==
  ASSUME NEW S, NEW T, S \subseteq T, NEW s \in Seq(S)
  PROVE  s \in Seq(T)
  OBVIOUS

(* The batch a drain posts.                                                *)
NewBatch ==
  [run |-> runs, start |-> bucketStart, end |-> end,
   from |-> [f \in PublicFlows |-> drained[f]],
   upto |-> [f \in PublicFlows |-> counted[f]]]

LEMMA NewBatchType ==
  ASSUME TypeOK
  PROVE  NewBatch \in Batch
  BY FlowsAssumption DEF TypeOK, NewBatch, Batch, Counts

LEMMA Posted ==
  ASSUME TypeOK, DrainAndPost
  PROVE  /\ Last' = Last + 1
         /\ Batches' = Batches \cup {Last + 1} /\ Last + 1 \notin Batches
         /\ DOMAIN batches' = Batches'
         /\ batches' \in Seq(Batch) /\ outcome' \in Seq(Outcomes)
         /\ handler' \in Seq(Places) /\ reply' \in Seq(Replies)
         /\ Len(outcome') = Last' /\ Len(handler') = Last' /\ Len(reply') = Last'
         /\ \A b \in Batches :
              /\ batches'[b] = batches[b] /\ outcome'[b] = outcome[b]
              /\ handler'[b] = handler[b] /\ reply'[b] = reply[b]
         /\ batches'[Last + 1] = NewBatch
         /\ outcome'[Last + 1] = "in_flight"
         /\ handler'[Last + 1] = "posted"
         /\ reply'[Last + 1] = 0
<1>1. /\ batches \in Seq(Batch) /\ outcome \in Seq(Outcomes)
      /\ handler \in Seq(Places) /\ reply \in Seq(Replies)
      /\ Len(outcome) = Last /\ Len(handler) = Last /\ Len(reply) = Last
      /\ Last \in Nat
  BY DEF TypeOK, Outcomes, Places, Replies, Last
<1>2. /\ batches' = Append(batches, NewBatch)
      /\ outcome' = Append(outcome, "in_flight")
      /\ handler' = Append(handler, "posted")
      /\ reply' = Append(reply, 0)
  BY DEF DrainAndPost, NewBatch
<1>3. NewBatch \in Batch
  BY NewBatchType
<1>4. "in_flight" \in Outcomes /\ "posted" \in Places /\ 0 \in Replies
  BY DEF Outcomes, Places, Replies
<1>5. /\ batches' \in Seq(Batch) /\ Last' = Last + 1 /\ DOMAIN batches' = 1 .. Last + 1
      /\ \A b \in 1 .. Last : batches'[b] = batches[b]
      /\ batches'[Last + 1] = NewBatch
  BY <1>1, <1>2, <1>3, AppendTo DEF Last
<1>6. /\ outcome' \in Seq(Outcomes) /\ Len(outcome') = Last + 1
      /\ \A b \in 1 .. Last : outcome'[b] = outcome[b]
      /\ outcome'[Last + 1] = "in_flight"
  BY <1>1, <1>2, <1>4, AppendTo
<1>7. /\ handler' \in Seq(Places) /\ Len(handler') = Last + 1
      /\ \A b \in 1 .. Last : handler'[b] = handler[b]
      /\ handler'[Last + 1] = "posted"
  BY <1>1, <1>2, <1>4, AppendTo
<1>8. /\ reply' \in Seq(Replies) /\ Len(reply') = Last + 1
      /\ \A b \in 1 .. Last : reply'[b] = reply[b]
      /\ reply'[Last + 1] = 0
  BY <1>1, <1>2, <1>4, AppendTo
<1>9. Batches' = Batches \cup {Last + 1} /\ Last + 1 \notin Batches
  BY <1>1, <1>5, LargerDomain DEF Batches
<1> QED BY <1>5, <1>6, <1>7, <1>8, <1>9 DEF Batches

(* An outcome of the last batch.                                           *)
LEMMA OutcomeOf ==
  ASSUME TypeOK, Last # 0, NEW r \in Outcomes,
         outcome' = [outcome EXCEPT ![Last] = r]
  PROVE  /\ outcome' \in Seq(Outcomes) /\ Len(outcome') = Last
         /\ \A b \in Batches : outcome'[b] = IF b = Last THEN r ELSE outcome[b]
<1>1. outcome \in Seq(Outcomes) /\ Len(outcome) = Last /\ Last \in Nat
  BY DEF TypeOK, Outcomes, Last
<1>2. Last \in 1 .. Len(outcome) /\ Batches = 1 .. Len(outcome)
  BY <1>1 DEF Batches
<1> QED BY <1>1, <1>2, ExceptSeq

(* A step of the handler of batch b.                                       *)
LEMMA HandlerStep ==
  ASSUME TypeOK, NEW b \in Batches, NEW p \in Places, NEW r \in Replies,
         handler' = [handler EXCEPT ![b] = p],
         reply' = [reply EXCEPT ![b] = r]
  PROVE  /\ handler' \in Seq(Places) /\ Len(handler') = Last
         /\ \A d \in Batches : handler'[d] = IF d = b THEN p ELSE handler[d]
         /\ reply' \in Seq(Replies) /\ Len(reply') = Last
         /\ \A d \in Batches : reply'[d] = IF d = b THEN r ELSE reply[d]
<1>1. /\ handler \in Seq(Places) /\ reply \in Seq(Replies)
      /\ Len(handler) = Last /\ Len(reply) = Last
  BY DEF TypeOK, Places, Replies, Last
<1>2. Batches = 1 .. Last
  BY DEF Batches
<1>3. /\ handler' \in Seq(Places) /\ Len(handler') = Last
      /\ \A d \in Batches : handler'[d] = IF d = b THEN p ELSE handler[d]
  BY <1>1, <1>2, ExceptSeq
<1>4. /\ reply' \in Seq(Replies) /\ Len(reply') = Last
      /\ \A d \in Batches : reply'[d] = IF d = b THEN r ELSE reply[d]
  BY <1>1, <1>2, ExceptSeq
<1> QED BY <1>3, <1>4

(* What the handler of batch b may do: its place, its answer, and the      *)
(* sequence it appends the batch to.                                       *)
HandlerDoes(b, p, r) ==
  /\ handler' = [handler EXCEPT ![b] = p]
  /\ reply' = [reply EXCEPT ![b] = r]
  /\ UNCHANGED <<clock, counted, collector, batches, outcome>>

LEMMA HandlerCases ==
  ASSUME TypeOK, NEW b \in Batches, Handler(b)
  PROVE  \/ /\ handler[b] = "posted" /\ UNCHANGED <<recent, stored>>
            /\ HandlerDoes(b, "done", 500) \/ HandlerDoes(b, "push", reply[b])
         \/ /\ handler[b] = "push" /\ HandlerDoes(b, "insert", reply[b])
            /\ recent' = Append(recent, b) /\ stored' = stored
         \/ /\ handler[b] = "insert" /\ recent' = recent
            /\ stored' = stored \/ stored' = Append(stored, b)
            /\ HandlerDoes(b, "done", 202) \/ HandlerDoes(b, "done", 500)
<1>0. reply \in [Batches -> Replies]
  BY Shape
<1>1. reply' = reply => reply' = [reply EXCEPT ![b] = reply[b]]
  BY <1>0
<1>2. CASE Verify(b)
  BY <1>1, <1>2 DEF Verify, At, HandlerDoes
<1>3. CASE Push(b)
  BY <1>1, <1>3 DEF Push, At, HandlerDoes
<1>4. CASE Insert(b)
  <2>1. PICK o \in InsertOutcomes :
          /\ stored' = IF o.committed THEN Append(stored, b) ELSE stored
          /\ reply' = [reply EXCEPT ![b] = o.status]
    BY <1>4 DEF Insert
  <2>2. o.status \in {202, 500}
    BY DEF InsertOutcomes
  <2> QED BY <1>4, <2>1, <2>2 DEF Insert, At, HandlerDoes
<1> QED BY <1>2, <1>3, <1>4 DEF Handler

(* The three ways a step can touch the batches; every other step leaves    *)
(* them and all that is kept about them alone.                             *)
Silent == UNCHANGED <<batches, outcome, server>>

(* The collector learns, or will never learn, what became of the last.     *)
Closing(r) ==
  /\ apc = "send" /\ apc' # "send"
  /\ outcome' = [outcome EXCEPT ![Last] = r]
  /\ UNCHANGED <<clock, counted, drained, runs, batches, server>>
  /\ r = "accepted" => reply[Last] = 202
  /\ r = "refused" => reply[Last] = 500
  /\ r \in Outcomes \ {"in_flight"}

LEMMA StepCases ==
  ASSUME [Next]_vars, TypeOK
  PROVE  \/ Silent /\ (apc' = "send" <=> apc = "send")
         \/ DrainAndPost
         \/ \E r \in Outcomes : Closing(r)
         \/ \E b \in Batches : Handler(b)
<1> USE DEF collector, server
<1>1. CASE UNCHANGED vars
  BY <1>1 DEF vars, Silent
<1>2. CASE (\E f \in Flows : Count(f)) \/ Tick \/ Start \/ ReceiveTick \/ ReceiveDone \/ Signal
  BY <1>2 DEF Count, Tick, Start, ReceiveTick, ReceiveDone, Signal, Silent
<1>3. CASE DrainFails
  BY <1>3 DEF DrainFails, EndFlush, Silent
<1>4. ASSUME NEW r \in {"accepted", "refused", "unanswered"}, SendReturns(r),
             r = "accepted" => reply[Last] = 202, r = "refused" => reply[Last] = 500
      PROVE  Closing(r) /\ r \in Outcomes
  BY <1>4 DEF SendReturns, EndFlush, Closing, Outcomes, Last
<1>5. CASE Answered \/ GiveUp
  BY <1>4, <1>5 DEF Answered, GiveUp, Last
<1>6. CASE Exit
  <2>1. CASE apc = "send"
    BY <1>6, <2>1 DEF Exit, Closing, Outcomes, Last
  <2>2. CASE apc # "send"
    BY <1>6, <2>2 DEF Exit, Silent
  <2> QED BY <2>1, <2>2
<1>7. ASSUME NEW b \in DOMAIN batches, Handler(b) PROVE b \in Batches
  BY <1>7, Shape
<1> QED BY <1>1, <1>2, <1>3, <1>5, <1>6, <1>7 DEF Next, Collector

-----------------------------------------------------------------------------
(* Types *)

(* The types of what the clock and the collector keep, and of the batches. *)
LocalTypes ==
  /\ clock \in Nat
  /\ counted \in [Flows -> Nat]
  /\ apc \in {"down", "select", "drain", "send", "returned"}
  /\ cancelled \in BOOLEAN /\ final \in BOOLEAN
  /\ {tick, bucketStart, end, runs} \subseteq Nat
  /\ drained \in [Flows -> Nat]

BatchTypes ==
  /\ batches \in Seq(Batch)
  /\ outcome \in Seq(Outcomes)
  /\ handler \in Seq(Places)
  /\ reply \in Seq(Replies)
  /\ Len(outcome) = Last /\ Len(handler) = Last /\ Len(reply) = Last
  /\ recent \in Seq(Batches) /\ stored \in Seq(Batches)

LEMMA TypeHalves == TypeOK <=> LocalTypes /\ BatchTypes
<1>1. ASSUME batches \in Seq(Batch) PROVE DOMAIN batches = Batches
  BY <1>1 DEF Batches, Last
<1> QED BY <1>1 DEF TypeOK, LocalTypes, BatchTypes, Outcomes, Places, Replies, Last

LEMMA LocalTypesPreserved ==
  ASSUME TypeOK, [Next]_vars
  PROVE  LocalTypes'
<1> LocalTypes
  BY TypeHalves
<1> USE DEF LocalTypes, collector
<1>1. CASE UNCHANGED vars
  BY <1>1 DEF vars
<1>2. CASE (\E f \in Flows : Count(f)) \/ Tick
  BY <1>2 DEF Count, Tick, Ticker
<1>3. CASE Start
  BY <1>3 DEF Start
<1>4. CASE ReceiveTick
  BY <1>4 DEF ReceiveTick
<1>5. CASE ReceiveDone
  BY <1>5 DEF ReceiveDone
<1>6. CASE Signal
  <2>1. cancelled' \in BOOLEAN
    BY <1>6 DEF Signal
  <2> QED BY <1>6, <2>1 DEF Signal
<1>7. CASE DrainFails \/ DrainAndPost
  BY <1>7 DEF DrainFails, DrainAndPost, BaselineAfterError, Baseline, EndFlush
<1>8. CASE Answered \/ GiveUp
  BY <1>8 DEF Answered, GiveUp, SendReturns, NextStart, EndFlush
<1>9. CASE Exit
  <2>1. cancelled' \in BOOLEAN /\ final' \in BOOLEAN
    BY <1>9 DEF Exit
  <2> QED BY <1>9, <2>1 DEF Exit
<1>10. ASSUME NEW b \in DOMAIN batches, Handler(b) PROVE LocalTypes'
  BY <1>10 DEF Handler, Verify, Push, Insert
<1> QED BY <1>1, <1>2, <1>3, <1>4, <1>5, <1>6, <1>7, <1>8, <1>9, <1>10 DEF Next, Collector

LEMMA BatchTypesPreserved ==
  ASSUME TypeOK, Sending, [Next]_vars
  PROVE  BatchTypes'
<1> BatchTypes
  BY TypeHalves
<1>1. CASE Silent
  BY <1>1 DEF BatchTypes, Silent, server, Last, Batches
<1>2. CASE DrainAndPost
  <2>1. Batches \subseteq Batches' /\ recent' = recent /\ stored' = stored
    BY <1>2, Posted DEF DrainAndPost
  <2>2. recent' \in Seq(Batches') /\ stored' \in Seq(Batches')
    BY <2>1, SeqOfSuperset DEF BatchTypes
  <2> QED BY <1>2, <2>2, Posted DEF BatchTypes
<1>3. ASSUME NEW r \in Outcomes, Closing(r) PROVE BatchTypes'
  <2>1. outcome' \in Seq(Outcomes) /\ Len(outcome') = Last
    BY <1>3, OutcomeOf DEF Closing, Sending
  <2> QED BY <1>3, <2>1 DEF BatchTypes, Closing, server, Last, Batches
<1>4. ASSUME NEW b \in Batches, Handler(b) PROVE BatchTypes'
  <2>1. PICK p \in Places, r \in Replies : HandlerDoes(b, p, r)
    BY <1>4, HandlerCases, Shape DEF Places, Replies
  <2>2. recent' \in {recent, Append(recent, b)} /\ stored' \in {stored, Append(stored, b)}
    BY <1>4, HandlerCases
  <2>3. recent' \in Seq(Batches) /\ stored' \in Seq(Batches)
    <3>1. recent \in Seq(Batches) /\ stored \in Seq(Batches)
      BY DEF BatchTypes
    <3>2. Append(recent, b) \in Seq(Batches) /\ Append(stored, b) \in Seq(Batches)
      BY <3>1, AppendProperties
    <3> QED BY <2>2, <3>1, <3>2
  <2>4. /\ handler' \in Seq(Places) /\ Len(handler') = Last
        /\ reply' \in Seq(Replies) /\ Len(reply') = Last
    BY <2>1, HandlerStep DEF HandlerDoes
  <2> QED BY <2>1, <2>3, <2>4 DEF BatchTypes, HandlerDoes, Last, Batches
<1> QED BY <1>1, <1>2, <1>3, <1>4, StepCases

-----------------------------------------------------------------------------
(* The control plane *)

LEMMA Appended ==
  ASSUME NEW S, NEW s \in Seq(S), NEW x \in S, NEW t, t = Append(s, x)
  PROVE  /\ DOMAIN t = DOMAIN s \cup {Len(s) + 1}
         /\ \A i \in DOMAIN s : t[i] = s[i] /\ i \in Nat /\ i < Len(s) + 1
         /\ t[Len(s) + 1] = x
<1>1. Len(s) \in Nat /\ DOMAIN s = 1 .. Len(s)
  OBVIOUS
<1>2. DOMAIN t = 1 .. Len(s) + 1 /\ \A i \in 1 .. Len(s) : t[i] = s[i]
  BY AppendTo
<1>3. t[Len(s) + 1] = x
  BY AppendTo
<1> QED BY <1>1, <1>2, <1>3, LargerDomain

LEMMA ShownAfter ==
  ASSUME NEW s \in Seq(Batches), NEW b \in Batches, NEW t, t = Append(s, b), NEW d
  PROVE  (\E i \in DOMAIN t : t[i] = d) <=> (\E i \in DOMAIN s : s[i] = d) \/ d = b
  BY Appended

LEMMA ElementsAreBatches ==
  ASSUME TypeOK
  PROVE  /\ \A i \in DOMAIN recent : recent[i] \in Batches
         /\ \A i \in DOMAIN stored : stored[i] \in Batches
  BY Shape

LEMMA SendingPreserved ==
  ASSUME TypeOK, Sending, [Next]_vars
  PROVE  Sending'
<1>1. CASE Silent /\ (apc' = "send" <=> apc = "send")
  BY <1>1 DEF Silent, Sending, Last
<1>2. CASE DrainAndPost
  <2>1. Last' # 0 /\ outcome'[Last'] = "in_flight"
    BY <1>2, Posted, Shape
  <2> QED BY <2>1 DEF Sending
<1>3. ASSUME NEW r \in Outcomes, Closing(r) PROVE Sending'
  BY <1>3 DEF Closing, Sending
<1>4. ASSUME NEW b \in Batches, Handler(b) PROVE Sending'
  BY <1>4, HandlerCases DEF HandlerDoes, collector, Sending, Last
<1> QED BY <1>1, <1>2, <1>3, <1>4, StepCases

LEMMA HandledPreserved ==
  ASSUME TypeOK, Sending, Handled, [Next]_vars
  PROVE  Handled'
<1>1. CASE Silent /\ (apc' = "send" <=> apc = "send")
  BY <1>1 DEF Silent, server, Handled, Last, Batches, Shown, Kept
<1>2. CASE DrainAndPost
  <2>1. UNCHANGED <<recent, stored>> /\ apc = "drain" /\ apc' = "send"
    BY <1>2 DEF DrainAndPost
  <2>2. \A d : Shown(d)' = Shown(d) /\ Kept(d)' = Kept(d)
    BY <2>1 DEF Shown, Kept
  <2>3. ~Shown(Last + 1) /\ ~Kept(Last + 1)
    BY <1>2, Posted, ElementsAreBatches DEF Shown, Kept
  <2> SUFFICES ASSUME NEW b \in Batches'
               PROVE  /\ reply'[b] # 0 => handler'[b] = "done"
                      /\ outcome'[b] \in {"accepted", "refused"} => handler'[b] = "done"
                      /\ outcome'[b] = "in_flight" => apc' = "send" /\ b = Last'
                      /\ handler'[b] \in {"posted", "push"} => ~Shown(b)'
                      /\ handler'[b] # "done" => ~Kept(b)'
                      /\ handler'[b] = "insert" \/ reply'[b] = 202 => Shown(b)'
    BY DEF Handled
  <2>4. CASE b \in Batches
    <3>1. /\ outcome'[b] = outcome[b] /\ handler'[b] = handler[b] /\ reply'[b] = reply[b]
      BY <1>2, <2>4, Posted
    <3>2. outcome[b] # "in_flight"
      BY <2>1, <2>4 DEF Handled
    <3> QED BY <2>2, <2>4, <3>1, <3>2 DEF Handled
  <2>5. CASE b = Last + 1
    BY <1>2, <2>1, <2>2, <2>3, <2>5, Posted
  <2> QED BY <1>2, <2>4, <2>5, Posted
<1>3. ASSUME NEW r \in Outcomes, Closing(r) PROVE Handled'
  <2>1. UNCHANGED <<batches, handler, reply, recent, stored>> /\ apc = "send"
    BY <1>3 DEF Closing, server
  <2>2. Batches' = Batches /\ \A d : Shown(d)' = Shown(d) /\ Kept(d)' = Kept(d)
    BY <2>1 DEF Batches, Last, Shown, Kept
  <2>3. \A b \in Batches : outcome'[b] = IF b = Last THEN r ELSE outcome[b]
    <3>1. Last # 0 /\ outcome' = [outcome EXCEPT ![Last] = r]
      BY <1>3, <2>1 DEF Closing, Sending
    <3> QED BY <3>1, OutcomeOf
  <2>4. r \in {"accepted", "refused"} => handler[Last] = "done"
    <3>1. r \in {"accepted", "refused"} => reply[Last] # 0
      BY <1>3 DEF Closing
    <3>2. Last \in Batches
      BY <2>1, Shape DEF Sending, Batches
    <3> QED BY <3>1, <3>2 DEF Handled
  <2>5. r # "in_flight"
    BY <1>3 DEF Closing
  <2> QED BY <2>1, <2>2, <2>3, <2>4, <2>5 DEF Handled
<1>4. ASSUME NEW b \in Batches, Handler(b) PROVE Handled'
  <2>0. /\ UNCHANGED <<batches, apc, outcome>> /\ Batches' = Batches /\ Last' = Last
        /\ recent \in Seq(Batches) /\ stored \in Seq(Batches)
        /\ reply[b] \in Replies
    <3>1. UNCHANGED <<batches, apc, outcome>>
      BY <1>4, HandlerCases DEF HandlerDoes, collector
    <3> QED BY <3>1, Shape DEF Last, Batches
  <2>1. CASE /\ handler[b] = "posted" /\ UNCHANGED <<recent, stored>>
             /\ HandlerDoes(b, "done", 500) \/ HandlerDoes(b, "push", reply[b])
    <3>1. \A d : Shown(d)' = Shown(d) /\ Kept(d)' = Kept(d)
      BY <2>1 DEF Shown, Kept
    <3>2. \/ \A d \in Batches : /\ handler'[d] = IF d = b THEN "done" ELSE handler[d]
                                /\ reply'[d] = IF d = b THEN 500 ELSE reply[d]
          \/ \A d \in Batches : /\ handler'[d] = IF d = b THEN "push" ELSE handler[d]
                                /\ reply'[d] = reply[d]
      BY <2>0, <2>1, HandlerStep DEF HandlerDoes, Places, Replies
    <3> QED BY <2>0, <2>1, <3>1, <3>2 DEF Handled
  <2>2. CASE /\ handler[b] = "push" /\ HandlerDoes(b, "insert", reply[b])
             /\ recent' = Append(recent, b) /\ stored' = stored
    <3>1. \A d : (Shown(d)' <=> Shown(d) \/ d = b) /\ Kept(d)' = Kept(d)
      <4>1. \A d : Shown(d)' <=> Shown(d) \/ d = b
        <5> recent \in Seq(Batches) /\ recent' = Append(recent, b)
          BY <2>0, <2>2
        <5> QED BY ShownAfter DEF Shown
      <4> QED BY <2>2, <4>1 DEF Kept
    <3>2. \A d \in Batches : /\ handler'[d] = IF d = b THEN "insert" ELSE handler[d]
                             /\ reply'[d] = reply[d]
      <4>1. handler \in [Batches -> Places] /\ reply \in [Batches -> Replies]
        BY Shape
      <4> QED BY <2>2, <4>1 DEF HandlerDoes
    <3> QED BY <2>0, <2>2, <3>1, <3>2 DEF Handled
  <2>3. CASE /\ handler[b] = "insert" /\ recent' = recent
             /\ stored' = stored \/ stored' = Append(stored, b)
             /\ HandlerDoes(b, "done", 202) \/ HandlerDoes(b, "done", 500)
    <3>1. \A d : Shown(d)' = Shown(d) /\ (Kept(d)' => Kept(d) \/ d = b)
      BY <2>0, <2>3, ShownAfter DEF Shown, Kept
    <3>2. \A d \in Batches : /\ handler'[d] = IF d = b THEN "done" ELSE handler[d]
                             /\ d # b => reply'[d] = reply[d]
      BY <2>0, <2>3, HandlerStep DEF HandlerDoes, Places, Replies
    <3> QED BY <2>0, <2>3, <3>1, <3>2 DEF Handled
  <2> QED BY <1>4, <2>1, <2>2, <2>3, HandlerCases
<1> QED BY <1>1, <1>2, <1>3, <1>4, StepCases

LEMMA AcceptedPreserved ==
  ASSUME TypeOK, Sending, Handled, AcceptedIsShown, [Next]_vars
  PROVE  AcceptedIsShown'
<1>0. /\ \A b \in Batches : outcome[b] = "accepted" \/ Kept(b) => Shown(b)
      /\ DOMAIN batches = Batches
  BY Shape DEF AcceptedIsShown, Shown, Kept
<1>1. CASE Silent
  BY <1>1 DEF Silent, server, AcceptedIsShown
<1>2. CASE DrainAndPost
  <2>1. UNCHANGED <<recent, stored>>
    BY <1>2 DEF DrainAndPost
  <2>2. ~Kept(Last + 1)
    BY <1>2, Posted, ElementsAreBatches DEF Kept
  <2>3. \A b \in Batches' :
          outcome'[b] = "accepted" \/ (\E i \in DOMAIN stored : stored[i] = b) => Shown(b)
    BY <1>0, <1>2, <2>2, Posted DEF Kept
  <2> QED BY <1>2, <2>1, <2>3, Posted DEF AcceptedIsShown, Shown
<1>3. ASSUME NEW r \in Outcomes, Closing(r) PROVE AcceptedIsShown'
  <2>1. UNCHANGED <<batches, recent, stored>> /\ Last # 0 /\ Last \in Batches
    BY <1>3, Shape DEF Closing, server, Sending, Batches
  <2>2. \A b \in Batches : outcome'[b] = IF b = Last THEN r ELSE outcome[b]
    <3>1. outcome' = [outcome EXCEPT ![Last] = r]
      BY <1>3 DEF Closing
    <3> QED BY <2>1, <3>1, OutcomeOf
  <2>3. r = "accepted" => Shown(Last)
    BY <1>3, <2>1 DEF Closing, Handled
  <2>4. \A b \in Batches :
          outcome'[b] = "accepted" \/ (\E i \in DOMAIN stored : stored[i] = b) => Shown(b)
    BY <1>0, <2>2, <2>3 DEF Kept
  <2> QED BY <1>0, <2>1, <2>4 DEF AcceptedIsShown, Shown
<1>4. ASSUME NEW b \in Batches, Handler(b) PROVE AcceptedIsShown'
  <2>0. /\ UNCHANGED <<batches, outcome>>
        /\ recent \in Seq(Batches) /\ stored \in Seq(Batches)
    BY <1>4, HandlerCases, Shape DEF HandlerDoes
  <2>1. \A d : Shown(d) => Shown(d)'
    <3>1. recent' = recent \/ recent' = Append(recent, b)
      BY <1>4, HandlerCases
    <3> QED BY <2>0, <3>1, ShownAfter DEF Shown
  <2>2. \A d : Kept(d)' => Kept(d) \/ (d = b /\ Shown(b))
    <3>1. stored' = stored \/ (handler[b] = "insert" /\ stored' = Append(stored, b))
      BY <1>4, HandlerCases
    <3>2. handler[b] = "insert" => Shown(b)
      BY DEF Handled
    <3> QED BY <2>0, <3>1, <3>2, ShownAfter DEF Kept
  <2>3. \A d \in Batches : outcome'[d] = "accepted" \/ Kept(d)' => Shown(d)'
    BY <1>0, <2>0, <2>1, <2>2
  <2> QED BY <1>0, <2>0, <2>3 DEF AcceptedIsShown, Shown, Kept
<1> QED BY <1>1, <1>2, <1>3, <1>4, StepCases

(* A batch whose handler is still at work while a later one exists is      *)
(* given up on.                                                            *)
LEMMA LateIsGivenUp ==
  ASSUME TypeOK, Handled, NEW b \in Batches, handler[b] # "done", b # Last
  PROVE  outcome[b] \in {"unanswered", "abandoned"}
<1>1. outcome[b] \in Outcomes
  BY Shape
<1> QED BY <1>1 DEF Handled, Outcomes

InOrder(s) ==
  \A i, j \in DOMAIN s : i < j /\ s[j] < s[i] => outcome[s[j]] \in {"unanswered", "abandoned"}

LEMMA InOrderAfter ==
  ASSUME TypeOK, Handled, NEW s \in Seq(Batches), InOrder(s), NEW b \in Batches,
         handler[b] # "done"
  PROVE  InOrder(Append(s, b))
<1> DEFINE t == Append(s, b)
<1>1. /\ DOMAIN t = DOMAIN s \cup {Len(s) + 1}
      /\ \A i \in DOMAIN s : t[i] = s[i] /\ i \in Nat /\ i < Len(s) + 1
      /\ t[Len(s) + 1] = b
      /\ Len(s) \in Nat
  BY Appended
<1>2. \A i \in DOMAIN s : s[i] \in Batches
  OBVIOUS
<1> HIDE DEF t
<1> SUFFICES ASSUME NEW i \in DOMAIN t, NEW j \in DOMAIN t, i < j, t[j] < t[i]
             PROVE  outcome[t[j]] \in {"unanswered", "abandoned"}
  BY DEF InOrder, t
<1>3. i \in DOMAIN s
  BY <1>1
<1>4. CASE j \in DOMAIN s
  BY <1>1, <1>3, <1>4 DEF InOrder
<1>5. CASE j = Len(s) + 1
  <2>1. b # Last
    BY <1>1, <1>2, <1>3, <1>5, Shape DEF Batches
  <2> QED BY <1>1, <1>5, <2>1, LateIsGivenUp
<1> QED BY <1>1, <1>4, <1>5

LEMMA OrderPreserved ==
  ASSUME TypeOK, Sending, Handled, OutOfOrderOnlyIfGivenUp, [Next]_vars
  PROVE  OutOfOrderOnlyIfGivenUp'
<1>0. /\ InOrder(recent) /\ InOrder(stored)
      /\ recent \in Seq(Batches) /\ stored \in Seq(Batches)
  BY Shape DEF OutOfOrderOnlyIfGivenUp, InOrder
<1>1. CASE Silent
  BY <1>1 DEF Silent, server, OutOfOrderOnlyIfGivenUp
<1>2. CASE DrainAndPost
  <2>1. UNCHANGED <<recent, stored>>
    BY <1>2 DEF DrainAndPost
  <2>2. \A b \in Batches : outcome'[b] = outcome[b]
    BY <1>2, Posted
  <2> QED BY <1>0, <2>1, <2>2, ElementsAreBatches DEF OutOfOrderOnlyIfGivenUp, InOrder
<1>3. ASSUME NEW r \in Outcomes, Closing(r) PROVE OutOfOrderOnlyIfGivenUp'
  <2>1. UNCHANGED <<recent, stored>> /\ Last # 0
    BY <1>3 DEF Closing, server, Sending
  <2>2. \A b \in Batches : b # Last => outcome'[b] = outcome[b]
    <3>1. outcome' = [outcome EXCEPT ![Last] = r]
      BY <1>3 DEF Closing
    <3> QED BY <2>1, <3>1, OutcomeOf
  <2>3. \A b, d \in Batches : b < d => b # Last
    BY Shape DEF Batches
  <2> QED BY <1>0, <2>1, <2>2, <2>3, ElementsAreBatches DEF OutOfOrderOnlyIfGivenUp, InOrder
<1>4. ASSUME NEW b \in Batches, Handler(b) PROVE OutOfOrderOnlyIfGivenUp'
  <2>1. /\ outcome' = outcome
        /\ recent' = recent \/ recent' = Append(recent, b)
        /\ stored' = stored \/ stored' = Append(stored, b)
        /\ handler[b] # "done"
    BY <1>4, HandlerCases DEF HandlerDoes
  <2>2. InOrder(Append(recent, b)) /\ InOrder(Append(stored, b))
    BY <1>0, <2>1, InOrderAfter
  <2> QED BY <1>0, <2>1, <2>2 DEF OutOfOrderOnlyIfGivenUp, InOrder
<1> QED BY <1>1, <1>2, <1>3, <1>4, StepCases

-----------------------------------------------------------------------------
(* The counts *)

LEMMA BatchFields ==
  ASSUME TypeOK, NEW i \in Batches
  PROVE  /\ batches[i].run \in Nat /\ batches[i].start \in Nat /\ batches[i].end \in Nat
         /\ \A f \in PublicFlows : batches[i].from[f] \in Nat /\ batches[i].upto[f] \in Nat
<1>1. batches[i] \in Batch
  BY Shape
<1> QED BY <1>1 DEF Batch, Counts

LEMMA NewBatchFields ==
  /\ NewBatch.run = runs /\ NewBatch.start = bucketStart /\ NewBatch.end = end
  /\ \A f \in PublicFlows : NewBatch.from[f] = drained[f] /\ NewBatch.upto[f] = counted[f]
  BY DEF NewBatch

(* What a step can do to the counters, the baseline and the batches.       *)
LEMMA CountCases ==
  ASSUME TypeOK, [Next]_vars
  PROVE  \/ /\ UNCHANGED <<drained, runs, batches>>
            /\ \A f \in Flows : counted[f] <= counted'[f]
         \/ /\ drained' = counted /\ runs' = runs + 1
            /\ UNCHANGED <<counted, batches>>
         \/ DrainAndPost /\ drained' = counted /\ UNCHANGED <<counted, runs>>
<1> LocalTypes
  BY TypeHalves
<1>0. \A f \in Flows : counted[f] <= counted[f]
  BY DEF LocalTypes
<1>1. CASE UNCHANGED vars
  BY <1>0, <1>1 DEF vars, collector
<1>2. ASSUME NEW f \in Flows, Count(f)
      PROVE  /\ UNCHANGED <<drained, runs, batches>>
             /\ \A g \in Flows : counted[g] <= counted'[g]
  BY <1>2 DEF Count, LocalTypes, collector
<1>3. CASE Tick \/ ReceiveTick \/ ReceiveDone \/ DrainFails \/ Answered \/ GiveUp \/ Signal \/ Exit
  BY <1>0, <1>3 DEF Tick, ReceiveTick, ReceiveDone, DrainFails, BaselineAfterError,
                    Answered, GiveUp, SendReturns, Signal, Exit
<1>4. CASE Start
  BY <1>4 DEF Start
<1>5. CASE DrainAndPost
  BY <1>5 DEF DrainAndPost, Baseline
<1>6. ASSUME NEW b \in DOMAIN batches, Handler(b)
      PROVE  UNCHANGED <<drained, runs, batches, counted>>
  BY <1>6 DEF Handler, Verify, Push, Insert, collector
<1> QED BY <1>0, <1>1, <1>2, <1>3, <1>4, <1>5, <1>6 DEF Next, Collector

(* The first two parts of AtMostOnce.                                      *)
UnitsOnce ==
  /\ \A i, j \in Batches : \A f \in PublicFlows :
       i < j => batches[i].upto[f] <= batches[j].from[f]
  /\ \A i \in Batches : \A f \in PublicFlows :
       batches[i].from[f] <= batches[i].upto[f] /\ batches[i].upto[f] <= counted[f]

LEMMA UnitsPreserved ==
  ASSUME TypeOK, Intervals, UnitsOnce, [Next]_vars
  PROVE  Intervals' /\ UnitsOnce'
<1> LocalTypes /\ PublicFlows \subseteq Flows
  BY TypeHalves, FlowsAssumption
<1>1. /\ \A f \in Flows : counted[f] \in Nat /\ drained[f] \in Nat /\ counted'[f] \in Nat
  BY LocalTypesPreserved DEF LocalTypes
<1>2. CASE /\ UNCHANGED <<drained, runs, batches>>
           /\ \A f \in Flows : counted[f] <= counted'[f]
  <2>1. Batches' = Batches
    BY <1>2 DEF Batches, Last
  <2>2. Intervals'
    BY <1>1, <1>2, <2>1 DEF Intervals
  <2>3. UnitsOnce'
    BY <1>1, <1>2, <2>1, BatchFields DEF UnitsOnce
  <2> QED BY <2>2, <2>3
<1>3. CASE /\ drained' = counted /\ UNCHANGED <<counted, batches>>
  <2>1. Batches' = Batches
    BY <1>3 DEF Batches, Last
  <2>2. Intervals'
    BY <1>1, <1>3, <2>1 DEF Intervals, UnitsOnce
  <2>3. UnitsOnce'
    BY <1>3, <2>1 DEF UnitsOnce
  <2> QED BY <2>2, <2>3
<1>4. CASE DrainAndPost /\ drained' = counted /\ counted' = counted
  <2>1. /\ Batches' = Batches \cup {Last + 1}
        /\ \A i \in Batches : batches'[i] = batches[i] /\ i \in Nat /\ i < Last + 1
        /\ batches'[Last + 1] = NewBatch
    BY <1>4, Posted, Shape DEF Batches
  <2>2. \A f \in PublicFlows : /\ batches'[Last + 1].from[f] = drained[f]
                               /\ batches'[Last + 1].upto[f] = counted[f]
                               /\ drained[f] <= counted[f]
    BY <2>1, NewBatchFields DEF Intervals
  <2>3. Intervals'
    BY <1>1, <1>4, <2>1, <2>2 DEF Intervals, UnitsOnce
  <2>4. ASSUME NEW i \in Batches', NEW f \in PublicFlows
        PROVE  batches'[i].from[f] <= batches'[i].upto[f] /\ batches'[i].upto[f] <= counted'[f]
    BY <1>1, <1>4, <2>1, <2>2 DEF UnitsOnce
  <2>5. ASSUME NEW i \in Batches', NEW j \in Batches', NEW f \in PublicFlows, i < j
        PROVE  batches'[i].upto[f] <= batches'[j].from[f]
    <3>1. i \in Batches
      BY <2>1, <2>5, Shape
    <3>2. CASE j \in Batches
      BY <2>1, <2>5, <3>1, <3>2 DEF UnitsOnce
    <3>3. CASE j = Last + 1
      BY <2>1, <2>2, <3>1, <3>3 DEF Intervals
    <3> QED BY <2>1, <3>2, <3>3
  <2> QED BY <2>3, <2>4, <2>5 DEF UnitsOnce
<1> QED BY <1>2, <1>3, <1>4, CountCases

(* The third part: nothing is shown or stored twice.                       *)
Distinct(s) == \A i, j \in DOMAIN s : s[i] = s[j] => i = j

LEMMA DistinctAfter ==
  ASSUME NEW s \in Seq(Batches), Distinct(s), NEW b \in Batches,
         \A i \in DOMAIN s : s[i] # b
  PROVE  Distinct(Append(s, b))
  BY Appended DEF Distinct

LEMMA DistinctPreserved ==
  ASSUME TypeOK, Handled, Distinct(recent), Distinct(stored), [Next]_vars
  PROVE  Distinct(recent') /\ Distinct(stored')
<1>1. CASE UNCHANGED <<recent, stored>>
  BY <1>1 DEF Distinct
<1>2. ASSUME NEW b \in Batches, Handler(b) PROVE Distinct(recent') /\ Distinct(stored')
  <2>1. recent \in Seq(Batches) /\ stored \in Seq(Batches)
    BY Shape
  <2>2. handler[b] = "push" => Distinct(Append(recent, b))
    BY <2>1, DistinctAfter DEF Handled, Shown
  <2>3. handler[b] = "insert" => Distinct(Append(stored, b))
    BY <2>1, DistinctAfter DEF Handled, Kept
  <2> QED BY <1>2, <2>2, <2>3, HandlerCases
<1> QED BY <1>1, <1>2, StepCases DEF Silent, server, DrainAndPost, Closing

LEMMA AtMostOnceParts == TypeOK => (AtMostOnce <=> UnitsOnce /\ Distinct(recent) /\ Distinct(stored))
  BY Shape DEF AtMostOnce, UnitsOnce, Distinct

LEMMA SkippingPreserved ==
  ASSUME TypeOK, Clocks, NoTrafficSkipped, [Next]_vars
  PROVE  NoTrafficSkipped'
<1>0. Last \in Nat /\ DOMAIN batches = Batches /\ runs \in Nat
  BY Shape DEF TypeOK
<1>1. CASE UNCHANGED <<drained, runs, batches>>
  BY <1>1 DEF NoTrafficSkipped
<1>2. CASE drained' = counted /\ runs' = runs + 1 /\ UNCHANGED <<counted, batches>>
  <2>1. \A i \in Batches : batches[i].run # runs + 1
    BY <1>0, BatchFields DEF Clocks
  <2> QED BY <1>0, <1>2, <2>1 DEF NoTrafficSkipped
<1>3. CASE DrainAndPost /\ drained' = counted /\ UNCHANGED <<counted, runs>>
  <2>1. /\ DOMAIN batches' = Batches \cup {Last + 1} /\ Last' = Last + 1
        /\ \A i \in Batches : batches'[i] = batches[i]
        /\ batches'[Last + 1] = NewBatch
    BY <1>3, Posted
  <2> SUFFICES ASSUME NEW i \in DOMAIN batches', NEW f \in PublicFlows
               PROVE  LET next == IF i = Last' THEN [run |-> runs', from |-> drained']
                                  ELSE batches'[i + 1]
                      IN  next.run = batches'[i].run => next.from[f] = batches'[i].upto[f]
    BY DEF NoTrafficSkipped, Last
  <2>2. CASE i = Last + 1
    BY <1>3, <2>1, <2>2, NewBatchFields
  <2>3. CASE i = Last /\ i \in Batches
    <3>1. batches'[i + 1] = NewBatch /\ i # Last'
      BY <1>0, <2>1, <2>3
    <3>2. runs = batches[i].run => drained[f] = batches[i].upto[f]
      BY <1>0, <2>3 DEF NoTrafficSkipped, Last
    <3> QED BY <2>1, <2>3, <3>1, <3>2, NewBatchFields
  <2>4. CASE i # Last /\ i \in Batches
    <3>1. i + 1 \in Batches /\ i # Last'
      BY <1>0, <2>1, <2>4 DEF Batches
    <3>2. batches[i + 1].run = batches[i].run => batches[i + 1].from[f] = batches[i].upto[f]
      BY <1>0, <2>4 DEF NoTrafficSkipped, Last
    <3> QED BY <2>1, <2>4, <3>1, <3>2
  <2> QED BY <2>1, <2>2, <2>3, <2>4
<1> QED BY <1>1, <1>2, <1>3, CountCases

-----------------------------------------------------------------------------
(* The buckets *)

(* Clocks without the batches.                                             *)
Times ==
  /\ bucketStart <= clock /\ end <= clock /\ tick <= clock
  /\ apc = "down" => tick = 0
  /\ apc = "select" /\ tick # 0 => bucketStart <= tick
  /\ apc \in {"drain", "send"} => bucketStart <= end
  /\ apc \in {"drain", "send"} /\ ~final /\ tick # 0 => end <= tick

LEMMA TimesPreserved ==
  ASSUME TypeOK, Times, [Next]_vars
  PROVE  Times' /\ clock <= clock'
<1> /\ clock \in Nat /\ tick \in Nat /\ bucketStart \in Nat /\ end \in Nat /\ final \in BOOLEAN
    /\ apc \in {"down", "select", "drain", "send", "returned"}
  BY DEF TypeOK
<1> USE DEF Times, collector
<1>1. CASE UNCHANGED vars
  BY <1>1 DEF vars
<1>2. ASSUME NEW f \in Flows, Count(f) PROVE Times' /\ clock <= clock'
  BY <1>2 DEF Count
<1>3. CASE Tick
  BY <1>3 DEF Tick, Ticker, Running
<1>4. CASE Start \/ ReceiveTick
  BY <1>4 DEF Start, ReceiveTick
<1>5. CASE ReceiveDone
  BY <1>5 DEF ReceiveDone
<1>6. CASE DrainFails \/ DrainAndPost
  BY <1>6 DEF DrainFails, DrainAndPost, EndFlush
<1>7. CASE Answered \/ GiveUp
  BY <1>7 DEF Answered, GiveUp, SendReturns, NextStart, EndFlush
<1>8. CASE Signal \/ Exit
  BY <1>8 DEF Signal, Exit
<1>9. ASSUME NEW b \in DOMAIN batches, Handler(b) PROVE Times' /\ clock <= clock'
  BY <1>9 DEF Handler, Verify, Push, Insert
<1> QED BY <1>1, <1>2, <1>3, <1>4, <1>5, <1>6, <1>7, <1>8, <1>9 DEF Next, Collector

(* Where the last batch of the run ended.                                  *)
LastEnds ==
  Last # 0 /\ batches[Last].run = runs =>
    /\ apc = "send" => batches[Last].end = end
    /\ apc \in {"select", "drain"} => batches[Last].end = bucketStart

LEMMA LastEndsPreserved ==
  ASSUME TypeOK, Clocks, [Next]_vars
  PROVE  LastEnds' /\ \A i \in Batches' : batches'[i].run <= runs'
<1> DEFINE Goal == LastEnds' /\ \A i \in Batches' : batches'[i].run <= runs'
<1>0. /\ runs \in Nat /\ Last \in Nat
      /\ apc \in {"down", "select", "drain", "send", "returned"}
      /\ \A i \in Batches : batches[i].run \in Nat /\ batches[i].run <= runs
      /\ Last # 0 => Last \in Batches
  BY Shape, BatchFields DEF TypeOK, Clocks, Batches
<1>a. batches' = batches => Last' = Last /\ Batches' = Batches
  BY DEF Last, Batches
<1>1. CASE UNCHANGED vars
  BY <1>0, <1>1, <1>a DEF vars, collector, Clocks, LastEnds
<1>2. ASSUME NEW f \in Flows, Count(f) PROVE Goal
  BY <1>0, <1>2, <1>a DEF Count, collector, Clocks, LastEnds
<1>3. CASE Tick \/ ReceiveTick \/ ReceiveDone \/ Signal \/ Exit
  BY <1>0, <1>3, <1>a DEF Tick, ReceiveTick, ReceiveDone, Signal, Exit, Clocks, LastEnds
<1>4. CASE Start
  BY <1>0, <1>4, <1>a DEF Start, LastEnds
<1>5. CASE DrainFails
  BY <1>0, <1>5, <1>a DEF DrainFails, EndFlush, Clocks, LastEnds
<1>6. CASE DrainAndPost
  <2>1. /\ Last' = Last + 1 /\ Batches' = Batches \cup {Last + 1}
        /\ \A i \in Batches : batches'[i] = batches[i]
        /\ batches'[Last + 1] = NewBatch
    BY <1>6, Posted
  <2>2. runs' = runs /\ end' = end /\ apc' = "send"
    BY <1>6 DEF DrainAndPost
  <2> QED BY <1>0, <2>1, <2>2, NewBatchFields DEF LastEnds
<1>7. CASE Answered \/ GiveUp
  BY <1>0, <1>7, <1>a DEF Answered, GiveUp, SendReturns, NextStart, EndFlush, Clocks, LastEnds
<1>8. ASSUME NEW b \in DOMAIN batches, Handler(b) PROVE Goal
  BY <1>0, <1>8, <1>a DEF Handler, Verify, Push, Insert, collector, Clocks, LastEnds
<1> QED BY <1>1, <1>2, <1>3, <1>4, <1>5, <1>6, <1>7, <1>8 DEF Next, Collector

LEMMA ClocksPreserved ==
  ASSUME TypeOK, Clocks, [Next]_vars
  PROVE  Clocks' /\ clock <= clock'
<1>1. Times
  BY DEF Times, Clocks
<1>2. Times' /\ clock <= clock'
  BY <1>1, TimesPreserved
<1> QED BY <1>2, LastEndsPreserved DEF Clocks, Times, LastEnds

LEMMA BucketsPreserved ==
  ASSUME TypeOK, Clocks, BucketsTile, [Next]_vars
  PROVE  BucketsTile'
<1>0. /\ Last \in Nat /\ DOMAIN batches = Batches
      /\ clock <= clock' /\ clock \in Nat /\ clock' \in Nat
  BY Shape, ClocksPreserved, LocalTypesPreserved DEF TypeOK, LocalTypes
<1>1. CASE batches' = batches
  BY <1>0, <1>1, BatchFields DEF BucketsTile
<1>2. CASE DrainAndPost
  <2>1. /\ DOMAIN batches' = Batches \cup {Last + 1}
        /\ \A i \in Batches : batches'[i] = batches[i]
        /\ batches'[Last + 1] = NewBatch
    BY <1>2, Posted
  <2>2. clock' = clock /\ apc = "drain"
    BY <1>2 DEF DrainAndPost
  <2>3. ASSUME NEW i \in Batches
        PROVE  /\ batches'[i].start <= batches'[i].end /\ batches'[i].end <= clock'
               /\ i > 1 /\ batches'[i - 1].run = batches'[i].run
                    => batches'[i].start = batches'[i - 1].end
    <3>1. i > 1 => i - 1 \in Batches
      BY <1>0 DEF Batches
    <3> QED BY <1>0, <2>1, <2>2, <3>1 DEF BucketsTile
  <2>4. NewBatch.start <= NewBatch.end /\ NewBatch.end <= clock'
    BY <2>2, NewBatchFields DEF Clocks
  <2>5. Last # 0 /\ batches'[Last].run = NewBatch.run => NewBatch.start = batches'[Last].end
    <3> SUFFICES ASSUME Last # 0, batches'[Last].run = NewBatch.run
                 PROVE  NewBatch.start = batches'[Last].end
      OBVIOUS
    <3>1. Last \in Batches
      BY <1>0 DEF Batches
    <3> QED BY <2>1, <2>2, <3>1, NewBatchFields DEF Clocks
  <2> SUFFICES ASSUME NEW i \in DOMAIN batches'
               PROVE  /\ batches'[i].start <= batches'[i].end /\ batches'[i].end <= clock'
                      /\ i > 1 /\ batches'[i - 1].run = batches'[i].run
                           => batches'[i].start = batches'[i - 1].end
    BY DEF BucketsTile
  <2>6. CASE i \in Batches
    BY <2>3, <2>6
  <2>7. CASE i = Last + 1
    <3>1. batches'[i] = NewBatch
      BY <2>1, <2>7
    <3>2. batches'[i].start <= batches'[i].end /\ batches'[i].end <= clock'
      BY <2>4, <3>1
    <3>3. i > 1 /\ batches'[i - 1].run = batches'[i].run
            => batches'[i].start = batches'[i - 1].end
      <4>1. i - 1 = Last /\ (i > 1 => Last # 0)
        BY <1>0, <2>7
      <4> QED BY <2>5, <3>1, <4>1
    <3> QED BY <3>2, <3>3
  <2> QED BY <2>1, <2>6, <2>7
<1> QED BY <1>1, <1>2, CountCases

-----------------------------------------------------------------------------

LEMMA InitInvariant == Init => IInv
<1> SUFFICES ASSUME Init PROVE IInv
  OBVIOUS
<1> USE DEF Init
<1>1. Len(batches) = 0 /\ DOMAIN batches = {} /\ Last = 0 /\ Batches = {}
  BY DEF Last, Batches
<1>2. TypeOK
  <2>1. LocalTypes
    <3>1. cancelled \in BOOLEAN /\ final \in BOOLEAN
      OBVIOUS
    <3>2. /\ counted \in [Flows -> Nat] /\ drained \in [Flows -> Nat]
          /\ clock \in Nat /\ {tick, bucketStart, end, runs} \subseteq Nat
          /\ apc \in {"down", "select", "drain", "send", "returned"}
      OBVIOUS
    <3> QED BY <3>1, <3>2 DEF LocalTypes
  <2>2. BatchTypes
    BY <1>1 DEF BatchTypes
  <2> QED BY <2>1, <2>2, TypeHalves
<1>3. Intervals /\ Clocks /\ Handled /\ Sending
  BY <1>1 DEF Intervals, Clocks, Handled, Sending
<1>4. AtMostOnce /\ NoTrafficSkipped /\ BucketsTile
  BY <1>1 DEF AtMostOnce, NoTrafficSkipped, BucketsTile
<1>5. OutOfOrderOnlyIfGivenUp /\ AcceptedIsShown
  BY <1>1 DEF OutOfOrderOnlyIfGivenUp, AcceptedIsShown
<1> QED BY <1>2, <1>3, <1>4, <1>5 DEF IInv

LEMMA InvariantPreserved == IInv /\ [Next]_vars => IInv'
<1> SUFFICES ASSUME IInv, [Next]_vars PROVE IInv'
  OBVIOUS
<1> USE DEF IInv
<1>1. TypeOK'
  <2>1. LocalTypes' /\ BatchTypes'
    BY LocalTypesPreserved, BatchTypesPreserved
  <2> QED BY <2>1, TypeHalves, PTL
<1>2. Clocks' /\ Handled' /\ Sending'
  BY ClocksPreserved, HandledPreserved, SendingPreserved
<1>3. Intervals' /\ AtMostOnce'
  <2>1. UnitsOnce /\ Distinct(recent) /\ Distinct(stored)
    BY AtMostOnceParts
  <2>2. Intervals' /\ UnitsOnce' /\ Distinct(recent') /\ Distinct(stored')
    BY <2>1, UnitsPreserved, DistinctPreserved
  <2>3. DOMAIN batches' = Batches'
    BY BatchTypesPreserved DEF BatchTypes, Batches, Last
  <2> QED BY <2>2, <2>3 DEF AtMostOnce, UnitsOnce, Distinct
<1>4. NoTrafficSkipped' /\ BucketsTile'
  BY SkippingPreserved, BucketsPreserved
<1>5. OutOfOrderOnlyIfGivenUp' /\ AcceptedIsShown'
  BY OrderPreserved, AcceptedPreserved
<1> QED BY <1>1, <1>2, <1>3, <1>4, <1>5

(* Every state the pipeline reaches satisfies the inductive invariant.     *)
THEOREM InvariantHolds == Spec => []IInv
  BY InitInvariant, InvariantPreserved, PTL DEF Spec

(* The aggregator, the requests and the control plane's lists stay well    *)
(* formed: one outcome, handler and reply per batch.                       *)
THEOREM TypeCorrect == Spec => []TypeOK
  BY InvariantHolds, PTL DEF IInv

(* No unit of traffic is reported, shown or stored twice: a batch whose    *)
(* answer is lost is never sent again (export.go).                         *)
THEOREM ReportedAtMostOnce == Spec => []AtMostOnce
  BY InvariantHolds, PTL DEF IInv

(* A collector that runs skips no traffic whatever drains and sends fail:  *)
(* the source's baseline moves only with a drain that succeeds.            *)
THEOREM NothingSkipped == Spec => []NoTrafficSkipped
  BY InvariantHolds, PTL DEF IInv

(* The buckets of a run tile the time, late ticks and failed drains        *)
(* included (aggregator.Run, flush).                                       *)
THEOREM BucketsAreTiles == Spec => []BucketsTile
  BY InvariantHolds, PTL DEF IInv

(* Only a batch its sender stopped waiting for can be shown or stored      *)
(* after a later one.                                                      *)
THEOREM OrderedUnlessGivenUp == Spec => []OutOfOrderOnlyIfGivenUp
  BY InvariantHolds, PTL DEF IInv

(* An accepted or stored batch was shown first (handleIngest pushes before *)
(* it inserts, and answers last).                                          *)
THEOREM AcceptedShown == Spec => []AcceptedIsShown
  BY InvariantHolds, PTL DEF IInv
=============================================================================
