------------------------------ MODULE Pipeline ------------------------------
(***************************************************************************)
(* The way of the traffic counts from a collector to the control plane.    *)
(* On the collector, aggregator.Run flushes at every tick and once more    *)
(* when it is cancelled; a flush drains the capture source and posts one   *)
(* batch (export.Send).  On the control plane every request runs the       *)
(* handler handleIngest in a goroutine of its own: check the credential,   *)
(* push the batch to the recent flows, insert it into the flows table,     *)
(* answer.                                                                 *)
(*                                                                         *)
(* A request, an answer or both may get lost; the client gives up when its *)
(* timeout expires, but the handler it gave up on still runs.  main cancels*)
(* the aggregator on a signal and exits at once, also in mid-flush.        *)
(*                                                                         *)
(* The units counted for a flow are numbered, so a record of a batch is    *)
(* the interval of the units it reports.  Drain is one step: FlowDrain     *)
(* shows that its deltas add up even though it reads entry by entry.       *)
(***************************************************************************)
EXTENDS Integers, Sequences

CONSTANTS
  Flows,       \* flows with exactly one end on the collector's host
  PublicFlows, \* those whose remote end can be located
  MaxClock,    \* bound: ticks of the aggregator's interval
  MaxCounted,  \* bound: units counted per flow
  MaxBatches,  \* bound: batches posted
  MaxRuns      \* bound: times the collector is started

ASSUME FlowsAssumption == PublicFlows \subseteq Flows
ASSUME BoundAssumption == {MaxClock, MaxCounted, MaxBatches, MaxRuns} \subseteq Nat

VARIABLES
  clock,       \* the time, in intervals of the aggregator
  counted,     \* units the kernel program has counted for every flow
  \* collector
  apc,         \* "down", "select", "drain", "send" or "returned"
  cancelled,   \* the context is cancelled
  tick,        \* the time in the ticker's channel, 0 if it is empty
  drained,     \* units read by the source so far
  bucketStart,
  end,         \* the argument of the running flush
  final,       \* it is the one after the cancellation
  runs,
  \* requests and the control plane
  batches,     \* the batches posted, in the order they were assembled
  outcome,     \* what the collector knows of each
  handler,     \* the place each one's handler is at
  reply,       \* its status code, 0 before there is one
  recent,      \* the batches pushed to the recent flows, in push order
  stored       \* the batches inserted into the flows table, in that order

collector == <<apc, cancelled, tick, drained, bucketStart, end, final, runs>>
server == <<handler, reply, recent, stored>>
vars == <<clock, counted, collector, batches, outcome, server>>

Init ==
  /\ clock = 1
  /\ counted = [f \in Flows |-> 0]
  /\ apc = "down"
  /\ cancelled = FALSE
  /\ tick = 0
  /\ drained = [f \in Flows |-> 0]
  /\ bucketStart = 0
  /\ end = 0
  /\ final = FALSE
  /\ runs = 0
  /\ batches = << >> /\ outcome = << >> /\ handler = << >> /\ reply = << >>
  /\ recent = << >> /\ stored = << >>

-----------------------------------------------------------------------------
(* The pieces the properties depend on.  Those named after a mistake are   *)
(* variants of the operator that follows; no behaviour uses them.          *)

Running == apc # "down"

(* The baseline of the source after a drain, and after one that failed. *)
BaselineKept == drained
Baseline == counted

BaselineLost == counted
BaselineAfterError == drained

(* The start of the next bucket. *)
NextStartNow == clock
NextStart == end

(* A send on the ticker's channel is dropped while the channel is full. *)
Ticker == IF tick = 0 THEN clock + 1 ELSE tick

(* InsertBatch and the status it leads to.  The inserts run in one         *)
(* transaction.  An error may come after the commit, and an error of the   *)
(* commit itself is dropped with the result of Close.                      *)
InsertOutcomesOk == [committed : BOOLEAN, status : {200, 500}]
InsertOutcomes == [committed : BOOLEAN, status : {202, 500}]

-----------------------------------------------------------------------------
(* Environment *)

(* The program is attached to the interface only while the collector runs. *)
Count(f) ==
  /\ Running
  /\ counted[f] < MaxCounted
  /\ counted' = [counted EXCEPT ![f] = @ + 1]
  /\ UNCHANGED <<clock, collector, batches, outcome, server>>

Tick ==
  /\ clock < MaxClock
  /\ clock' = clock + 1
  /\ tick' = IF Running THEN Ticker ELSE tick
  /\ UNCHANGED <<counted, apc, cancelled, drained, bucketStart, end, final, runs,
                 batches, outcome, server>>

-----------------------------------------------------------------------------
(* The collector *)

(* The program is loaded with empty maps, and Run begins. *)
Start ==
  /\ apc = "down"
  /\ runs < MaxRuns
  /\ runs' = runs + 1
  /\ apc' = "select"
  /\ bucketStart' = clock
  /\ drained' = counted
  /\ UNCHANGED <<clock, counted, cancelled, tick, end, final, batches, outcome, server>>

(* The two cases of the select; with both ready either may be taken. *)
ReceiveTick ==
  /\ apc = "select"
  /\ tick # 0
  /\ end' = tick
  /\ tick' = 0
  /\ apc' = "drain"
  /\ UNCHANGED <<clock, counted, cancelled, drained, bucketStart, final, runs,
                 batches, outcome, server>>

ReceiveDone ==
  /\ apc = "select"
  /\ cancelled
  /\ end' = clock
  /\ final' = TRUE
  /\ apc' = "drain"
  /\ UNCHANGED <<clock, counted, cancelled, tick, drained, bucketStart, runs,
                 batches, outcome, server>>

(* After a flush the loop goes on, after the last one Run returns. *)
EndFlushReturns == apc' = "returned"
EndFlush == apc' = IF final THEN "returned" ELSE "select"

DrainFails ==
  /\ apc = "drain"
  /\ EndFlush
  /\ drained' = BaselineAfterError
  /\ UNCHANGED <<clock, counted, cancelled, tick, bucketStart, end, final, runs,
                 batches, outcome, server>>

(* A batch is posted even if it has no records. *)
DrainAndPost ==
  /\ apc = "drain"
  /\ Len(batches) < MaxBatches
  /\ batches' = Append(batches,
       [run |-> runs, start |-> bucketStart, end |-> end,
        from |-> [f \in PublicFlows |-> drained[f]],
        upto |-> [f \in PublicFlows |-> counted[f]]])
  /\ drained' = Baseline
  /\ outcome' = Append(outcome, "in_flight")
  /\ handler' = Append(handler, "posted")
  /\ reply' = Append(reply, 0)
  /\ apc' = "send"
  /\ UNCHANGED <<clock, counted, cancelled, tick, bucketStart, end, final, runs, recent, stored>>

(* Send returns: with the answer, or with an error when the connection     *)
(* breaks or the client's timeout expires.  Either way the batch is done   *)
(* with.                                                                   *)
SendReturns(result) ==
  /\ apc = "send"
  /\ outcome' = [outcome EXCEPT ![Len(batches)] = result]
  /\ bucketStart' = NextStart
  /\ EndFlush
  /\ UNCHANGED <<clock, counted, cancelled, tick, drained, end, final, runs, batches, server>>

AnsweredAtOnce == SendReturns("accepted")
Answered ==
  /\ apc = "send"
  /\ \/ reply[Len(batches)] = 202 /\ SendReturns("accepted")
     \/ reply[Len(batches)] = 500 /\ SendReturns("refused")

GiveUp == SendReturns("unanswered")

Signal ==
  /\ Running
  /\ ~cancelled
  /\ cancelled' = TRUE
  /\ UNCHANGED <<clock, counted, apc, tick, drained, bucketStart, end, final, runs,
                 batches, outcome, server>>

(* After the cancellation main returns, which ends the process wherever    *)
(* the aggregator is.                                                      *)
Exit ==
  /\ cancelled
  /\ apc' = "down"
  /\ cancelled' = FALSE
  /\ tick' = 0
  /\ final' = FALSE
  /\ outcome' = IF apc = "send" THEN [outcome EXCEPT ![Len(batches)] = "abandoned"] ELSE outcome
  /\ UNCHANGED <<clock, counted, drained, bucketStart, end, runs, batches, server>>

-----------------------------------------------------------------------------
(* The handler of batch b *)

At(b, place) == b \in DOMAIN batches /\ handler[b] = place

(* The request arrives, maybe after its sender gave up on it.  The lookup  *)
(* of the agent fails, or the credential is found in order.                *)
VerifyAnswersFirst(b) ==
  /\ At(b, "posted")
  /\ handler' = [handler EXCEPT ![b] = "push"]
  /\ reply' = [reply EXCEPT ![b] = 202]
  /\ UNCHANGED <<clock, counted, collector, batches, outcome, recent, stored>>
Verify(b) ==
  /\ At(b, "posted")
  /\ \/ /\ handler' = [handler EXCEPT ![b] = "done"]
        /\ reply' = [reply EXCEPT ![b] = 500]
     \/ /\ handler' = [handler EXCEPT ![b] = "push"]
        /\ UNCHANGED reply
  /\ UNCHANGED <<clock, counted, collector, batches, outcome, recent, stored>>

Push(b) ==
  /\ At(b, "push")
  /\ recent' = Append(recent, b)
  /\ handler' = [handler EXCEPT ![b] = "insert"]
  /\ UNCHANGED <<clock, counted, collector, batches, outcome, reply, stored>>

Insert(b) ==
  /\ At(b, "insert")
  /\ \E o \in InsertOutcomes :
       /\ stored' = IF o.committed THEN Append(stored, b) ELSE stored
       /\ reply' = [reply EXCEPT ![b] = o.status]
  /\ handler' = [handler EXCEPT ![b] = "done"]
  /\ UNCHANGED <<clock, counted, collector, batches, outcome, recent>>

-----------------------------------------------------------------------------

Collector ==
  \/ Start \/ ReceiveTick \/ ReceiveDone \/ DrainFails \/ DrainAndPost
  \/ Answered \/ GiveUp \/ Signal \/ Exit

Handler(b) == Verify(b) \/ Push(b) \/ Insert(b)

Next ==
  \/ \E f \in Flows : Count(f)
  \/ Tick
  \/ Collector
  \/ \E b \in DOMAIN batches : Handler(b)

Spec == Init /\ [][Next]_vars

(***************************************************************************)
(* The aggregator's goroutine is scheduled, the client's timeout expires,  *)
(* and a process that was told to stop ends.  Nothing is assumed of the    *)
(* network and the control plane.                                          *)
(***************************************************************************)
Fairness ==
  /\ WF_vars(ReceiveTick \/ ReceiveDone)
  /\ WF_vars(DrainFails \/ DrainAndPost)
  /\ WF_vars(Answered \/ GiveUp)
  /\ WF_vars(Exit)

FairSpec == Spec /\ Fairness

-----------------------------------------------------------------------------
(* Properties *)

Counts == [PublicFlows -> Nat]

Batch == [run : Nat, start : Nat, end : Nat, from : Counts, upto : Counts]

(* Types; there is one outcome, handler and reply per batch. *)
TypeOK ==
  /\ clock \in Nat
  /\ counted \in [Flows -> Nat]
  /\ apc \in {"down", "select", "drain", "send", "returned"}
  /\ cancelled \in BOOLEAN /\ final \in BOOLEAN
  /\ {tick, bucketStart, end, runs} \subseteq Nat
  /\ drained \in [Flows -> Nat]
  /\ batches \in Seq(Batch)
  /\ outcome \in Seq({"in_flight", "accepted", "refused", "unanswered", "abandoned"})
  /\ handler \in Seq({"posted", "push", "insert", "done"})
  /\ reply \in Seq({0, 202, 500})
  /\ Len(outcome) = Len(batches) /\ Len(handler) = Len(batches) /\ Len(reply) = Len(batches)
  /\ recent \in Seq(DOMAIN batches) /\ stored \in Seq(DOMAIN batches)

(* No unit of traffic is reported twice: no two batches - of one run of    *)
(* the collector or of different ones - report the same unit, no batch     *)
(* reports a unit that was not counted, and none is shown or stored twice. *)
AtMostOnce ==
  /\ \A i, j \in DOMAIN batches : \A f \in PublicFlows :
       i < j => batches[i].upto[f] <= batches[j].from[f]
  /\ \A i \in DOMAIN batches : \A f \in PublicFlows :
       batches[i].from[f] <= batches[i].upto[f] /\ batches[i].upto[f] <= counted[f]
  /\ \A s \in {recent, stored} : \A i, j \in DOMAIN s : s[i] = s[j] => i = j

(* While it runs, the collector skips no traffic, whatever drains and      *)
(* sends fail: a batch reports from where the one before it stopped, and   *)
(* the next will report from where the last one stopped.                   *)
NoTrafficSkipped ==
  \A i \in DOMAIN batches : \A f \in PublicFlows :
    LET next == IF i = Len(batches) THEN [run |-> runs, from |-> drained] ELSE batches[i + 1]
    IN  next.run = batches[i].run => next.from[f] = batches[i].upto[f]

(* The buckets of a run tile the time: none ends before it starts, and     *)
(* each starts where the one before it ended, although a tick that came    *)
(* during a slow send is served late and carries the time it fired at.     *)
BucketsTile ==
  \A i \in DOMAIN batches :
    /\ batches[i].start <= batches[i].end /\ batches[i].end <= clock
    /\ i > 1 /\ batches[i - 1].run = batches[i].run => batches[i].start = batches[i - 1].end

(* The recent flows and the table show an agent's batches in the order it  *)
(* sent them, except that a batch whose sender stopped waiting for it may  *)
(* come late.                                                              *)
OutOfOrderOnlyIfGivenUp ==
  \A s \in {recent, stored} : \A i, j \in DOMAIN s :
    i < j /\ s[j] < s[i] => outcome[s[j]] \in {"unanswered", "abandoned"}

(* A batch the collector knows to be accepted is among the recent flows,   *)
(* and a stored one was shown there first.                                 *)
AcceptedIsShown ==
  \A b \in DOMAIN batches :
    outcome[b] = "accepted" \/ (\E i \in DOMAIN stored : stored[i] = b)
      => \E i \in DOMAIN recent : recent[i] = b

(* The aggregator never gets stuck behind a control plane that does not    *)
(* answer: a tick that fired is served, or the process ends.               *)
TicksAreServed == tick # 0 ~> tick = 0
=============================================================================
