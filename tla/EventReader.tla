---------------------------- MODULE EventReader -----------------------------
(***************************************************************************)
(* The life of a Monitor (ebpf/ebpf.go): NewMonitor acquires what it needs *)
(* piece by piece, the goroutine readEvents carries connection events from *)
(* the kernel's ring buffer to the event channel, and Close gives          *)
(* everything back, possibly called while the goroutine runs.  Sending on  *)
(* a closed channel panics, also in a select with a default, and so does   *)
(* closing a closed one.                                                   *)
(*                                                                         *)
(* Events are numbered in the order the kernel submits them.               *)
(***************************************************************************)
EXTENDS Integers, Sequences

CONSTANTS
  RingSlots, \* events the ring buffer has room for
  ChanCap,   \* the capacity of eventChan
  Closers,   \* goroutines that call Close
  MaxEvents  \* bound: events submitted

ASSUME SizeAssumption == RingSlots \in Nat \ {0} /\ ChanCap \in Nat /\ MaxEvents \in Nat

VARIABLES
  ring,      \* events submitted and not yet read
  submitted, \* number of events submitted
  eventChan, \* events in the channel
  received,  \* events its user has received
  open,      \* what is held and not closed
  npc,       \* NewMonitor: "load", "iface", "attach", "reader", "ready" or "failed"
  rpc,       \* readEvents: "none", "select", "read", "send", "done" or "panic"
  event,     \* the event it holds, 0 if none
  cpc,       \* per caller of Close, where it is
  dropped    \* history: the events that found the ring or the channel full

vars == <<ring, submitted, eventChan, received, open, npc, rpc, event, cpc, dropped>>

Init ==
  /\ ring = << >> /\ submitted = 0
  /\ eventChan = << >> /\ received = << >>
  /\ open = {} /\ npc = "load"
  /\ rpc = "none" /\ event = 0
  /\ cpc = [c \in Closers |-> "call"]
  /\ dropped = {}

-----------------------------------------------------------------------------
(* The kernel program and the user of the channel *)

(* bpf_ringbuf_reserve fails when there is no room.  The program runs      *)
(* while it is linked, and so before there is a reader.                    *)
Submit ==
  /\ "link" \in open
  /\ submitted < MaxEvents
  /\ submitted' = submitted + 1
  /\ IF Len(ring) < RingSlots
       THEN ring' = Append(ring, submitted') /\ UNCHANGED dropped
       ELSE dropped' = dropped \cup {submitted'} /\ UNCHANGED ring
  /\ UNCHANGED <<eventChan, received, open, npc, rpc, event, cpc>>

Receive ==
  /\ eventChan # << >>
  /\ received' = Append(received, Head(eventChan))
  /\ eventChan' = Tail(eventChan)
  /\ UNCHANGED <<ring, submitted, open, npc, rpc, event, cpc, dropped>>

-----------------------------------------------------------------------------
(* NewMonitor.  Here and below, an operator named after a mistake is a     *)
(* variant of the one it precedes; no behaviour uses it.                   *)

(* What a failing step gives back before it returns its error. *)
ReleasedWithoutLink(step) == {"objs"}
Released(step) == IF step = "reader" THEN {"link", "objs"} ELSE {"objs"}

(* A step acquires something, or fails: loading the objects, finding the   *)
(* interface, linking the program to it - at ingress, or else at egress -  *)
(* and opening a reader of the ring buffer, after which nothing fails and  *)
(* readEvents is started.                                                  *)
Acquire(step, next, what) ==
  /\ npc = step
  /\ \/ npc' = next /\ open' = open \cup what
     \/ npc' = "failed" /\ open' = open \ Released(step)
  /\ rpc' = IF npc' = "ready" THEN "select" ELSE rpc
  /\ UNCHANGED <<ring, submitted, eventChan, received, event, cpc, dropped>>

NewMonitor ==
  \/ Acquire("load", "iface", {"objs"})
  \/ Acquire("iface", "attach", {})
  \/ Acquire("attach", "reader", {"link"})
  \/ Acquire("reader", "ready", {"ringbuf", "stopChan", "eventChan"})

-----------------------------------------------------------------------------
(* readEvents *)

Select ==
  /\ rpc = "select"
  /\ rpc' = IF "stopChan" \in open THEN "read" ELSE "done"
  /\ UNCHANGED <<ring, submitted, eventChan, received, open, npc, event, cpc, dropped>>

(* Read blocks until there is an event or the reader is closed, which      *)
(* makes it fail with ErrClosed.                                           *)
AfterClosedRetry == "read"
AfterClosed == "done"

Read ==
  /\ rpc = "read"
  /\ IF "ringbuf" \notin open
       THEN rpc' = AfterClosed /\ UNCHANGED <<ring, event>>
       ELSE /\ ring # << >>
            /\ event' = Head(ring)
            /\ ring' = Tail(ring)
            /\ rpc' = "send"
  /\ UNCHANGED <<submitted, eventChan, received, open, npc, cpc, dropped>>

(* Of an open reader Read may also fail; the error is only logged.  A      *)
(* record too short to be an event never comes: the program reserves the   *)
(* whole struct.                                                           *)
ReadFails ==
  /\ rpc = "read"
  /\ "ringbuf" \in open
  /\ rpc' = "select"
  /\ UNCHANGED <<ring, submitted, eventChan, received, open, npc, event, cpc, dropped>>

(* An event that finds the channel full is dropped. *)
TrySendUnbounded(e) == eventChan' = Append(eventChan, e) /\ UNCHANGED dropped
TrySendBlocking(e) ==
  /\ Len(eventChan) < ChanCap
  /\ eventChan' = Append(eventChan, e) /\ UNCHANGED dropped
TrySend(e) ==
  IF Len(eventChan) < ChanCap
    THEN eventChan' = Append(eventChan, e) /\ UNCHANGED dropped
    ELSE dropped' = dropped \cup {e} /\ UNCHANGED eventChan

(* The goroutine tries once.  A break in the select of a loop that tries   *)
(* again would leave the select, not the loop.                             *)
AfterSendAgain == UNCHANGED <<rpc, event>>
AfterSend == rpc' = "select" /\ event' = 0

Send ==
  /\ rpc = "send"
  /\ IF "eventChan" \notin open
       THEN rpc' = "panic" /\ UNCHANGED <<eventChan, event, dropped>>
       ELSE TrySend(event) /\ AfterSend
  /\ UNCHANGED <<ring, submitted, received, open, npc, cpc>>

-----------------------------------------------------------------------------
(* Close *)

CloseOrder == <<"stopChan", "ringbuf", "link", "objs", "eventChan">>

(* Closing the reader, the link or the objects twice is harmless, and an   *)
(* error is only logged; the channels are not protected.                   *)
CloseStep(c, i) ==
  LET what == CloseOrder[i] IN
  /\ npc = "ready"
  /\ cpc[c] = IF i = 1 THEN "call" ELSE CloseOrder[i - 1]
  /\ IF what \in {"stopChan", "eventChan"} \ open
       THEN cpc' = [cpc EXCEPT ![c] = "panic"] /\ UNCHANGED open
       ELSE cpc' = [cpc EXCEPT ![c] = what] /\ open' = open \ {what}
  /\ UNCHANGED <<ring, submitted, eventChan, received, npc, rpc, event, dropped>>

Close(c) == \E i \in DOMAIN CloseOrder : CloseStep(c, i)

-----------------------------------------------------------------------------

readEvents == Select \/ Read \/ ReadFails \/ Send

(* A panic ends the whole process. *)
Alive == rpc # "panic" /\ \A c \in Closers : cpc[c] # "panic"

Next ==
  Alive /\ (NewMonitor \/ Submit \/ Receive \/ readEvents \/ \E c \in Closers : Close(c))

(* The goroutines that can run do: NewMonitor returns, and a Close that    *)
(* was begun ends.  Nothing obliges anyone to receive events or to call    *)
(* Close, and a read may fail for ever.                                    *)
Fairness ==
  /\ WF_vars(Alive /\ NewMonitor)
  /\ WF_vars(Alive /\ readEvents)
  /\ \A c \in Closers : WF_vars(Alive /\ cpc[c] # "call" /\ Close(c))

Spec == Init /\ [][Next]_vars /\ Fairness

-----------------------------------------------------------------------------
(* Properties *)

Stages == {"load", "iface", "attach", "reader", "ready", "failed"}

(* The types of the variables. *)
TypeOK ==
  /\ Len(ring) <= RingSlots /\ Len(eventChan) <= ChanCap
  /\ submitted \in 0 .. MaxEvents
  /\ open \subseteq {CloseOrder[i] : i \in DOMAIN CloseOrder}
  /\ npc \in Stages
  /\ rpc \in {"none", "select", "read", "send", "done", "panic"} /\ (rpc # "none" <=> npc = "ready")
  /\ event \in 0 .. MaxEvents /\ (rpc = "send" => event # 0)
  /\ event # 0 => rpc \in {"send", "panic"}
  /\ dropped \subseteq 1 .. submitted
  /\ \A c \in Closers : cpc[c] \in {"call", "panic"} \cup {CloseOrder[i] : i \in DOMAIN CloseOrder}

(* Events that arrive do so once and in the order of their submission, and *)
(* none is lost on its way, also not by a failed read or a Close: every    *)
(* event that was submitted is received, in the channel, in the            *)
(* goroutine's hands or in the ring, or it found one of the two full.      *)
EventsInOrder ==
  LET way == received \o eventChan \o (IF event = 0 THEN << >> ELSE <<event>>) \o ring IN
    /\ \A i, j \in DOMAIN way : i < j => way[i] < way[j]
    /\ \A n \in 1 .. submitted : n \in dropped \/ \E i \in DOMAIN way : way[i] = n

(* A start that failed and a Close that came to its end leave nothing      *)
(* behind, whichever step failed and whoever else was closing: above all,  *)
(* no program stays linked to the interface.                               *)
NothingLeftOpen ==
  npc = "failed" \/ (\E c \in Closers : cpc[c] = "eventChan") => open = {}

Closing == \E c \in Closers : cpc[c] # "call"

(* Although nobody need receive events - the collector never does - the    *)
(* ring buffer does not stay full: the kernel program always gets room for *)
(* new events, until the monitor is closed or has failed to start.  This   *)
(* takes reads that do not fail for ever.                                  *)
RingDoesNotStayFull ==
  <>[][~ReadFails]_vars =>
    (Len(ring) = RingSlots ~> Len(ring) < RingSlots \/ Closing \/ npc = "failed")

(* A Close that was begun ends the goroutine, or one of them panics.       *)
CloseEndsReader == Closing ~> rpc = "done" \/ ~Alive
=============================================================================
