------------------------- MODULE EventReaderProofs --------------------------
(***************************************************************************)
(* Proofs about EventReader: the types of its variables, that events come  *)
(* in order and that none is lost on its way, and that nothing is left     *)
(* open by a start that failed or by a Close that ended.  For the last it  *)
(* takes to know what NewMonitor holds at each of its stages, that nobody  *)
(* closes before it has returned, and that whatever a Close has passed is  *)
(* closed and, since nothing is opened any more, stays so.                 *)
(***************************************************************************)
EXTENDS EventReader, TLAPS

Things == {"stopChan", "ringbuf", "link", "objs", "eventChan"}

(* What is held while NewMonitor is at a stage. *)
HeldAt(stage) ==
  IF stage \in {"load", "failed"} THEN {}
  ELSE IF stage \in {"iface", "attach"} THEN {"objs"}
  ELSE {"objs", "link"}

Types ==
  /\ ring \in Seq(Int) /\ Len(ring) <= RingSlots
  /\ eventChan \in Seq(Int) /\ Len(eventChan) <= ChanCap
  /\ submitted \in 0 .. MaxEvents
  /\ open \subseteq Things
  /\ npc \in Stages
  /\ rpc \in {"none", "select", "read", "send", "done", "panic"} /\ (rpc # "none" <=> npc = "ready")
  /\ event \in 0 .. MaxEvents /\ (rpc = "send" => event # 0)
  /\ event # 0 => rpc \in {"send", "panic"}
  /\ dropped \subseteq 1 .. submitted
  /\ cpc \in [Closers -> {"call", "panic"} \cup Things]

(* The events in the ring and the one in the goroutine's hands are real.   *)
RingRight == (\A i \in 1 .. Len(ring) : ring[i] \in 1 .. submitted) /\ event <= submitted

(* Before the monitor is ready nobody closes it, and it holds what its     *)
(* stage says.                                                             *)
StartRight ==
  npc # "ready" => open = HeldAt(npc) /\ \A c \in Closers : cpc[c] = "call"

(* Whatever a Close has passed is closed. *)
CloseRight ==
  \A c \in Closers, i, j \in 1 .. 5 :
    j <= i /\ cpc[c] = CloseOrder[i] => CloseOrder[j] \notin open

IInv == Types /\ RingRight /\ StartRight /\ CloseRight

LEMMA Order == DOMAIN CloseOrder = 1 .. 5 /\ \A i \in 1 .. 5 : CloseOrder[i] \in Things
  BY DEF CloseOrder, Things

LEMMA OrderHasAll == Things = {CloseOrder[i] : i \in DOMAIN CloseOrder}
  BY DEF CloseOrder, Things

(* The five are different. *)
LEMMA OrderIsOneToOne ==
  /\ \A i, j \in 1 .. 5 : CloseOrder[i] = CloseOrder[j] => i = j
  /\ \A i \in 1 .. 5 : CloseOrder[i] \notin {"call", "panic"}
  BY DEF CloseOrder

LEMMA HeadTail ==
  ASSUME NEW s \in Seq(Int), s # << >>
  PROVE  /\ Len(s) \in Nat \ {0} /\ Head(s) = s[1]
         /\ Tail(s) \in Seq(Int) /\ Len(Tail(s)) = Len(s) - 1
         /\ \A i \in 1 .. Len(Tail(s)) : Tail(s)[i] = s[i + 1] /\ i + 1 \in 1 .. Len(s)
  OBVIOUS

LEMMA StartHolds == Init => IInv
  BY SizeAssumption, OrderIsOneToOne
     DEF Init, IInv, Types, RingRight, StartRight, CloseRight, HeldAt, Stages

LEMMA StepHolds == IInv /\ [Next]_vars => IInv'
<1> SUFFICES ASSUME IInv, [Next]_vars PROVE IInv'
  OBVIOUS
<1> USE SizeAssumption
<1>1. CASE Submit
  <2>1. /\ submitted \in Nat /\ submitted' = submitted + 1 /\ submitted' \in 0 .. MaxEvents
        /\ UNCHANGED <<eventChan, received, open, npc, rpc, event, cpc>>
    BY <1>1 DEF Submit, IInv, Types
  <2>2. dropped' \subseteq 1 .. submitted'
    <3>1. dropped \subseteq 1 .. submitted /\ dropped' \subseteq dropped \cup {submitted'}
      BY <1>1 DEF Submit, IInv, Types
    <3>2. QED
      BY <2>1, <3>1
  <2>3. /\ ring' \in Seq(Int) /\ Len(ring') <= RingSlots
        /\ \A i \in 1 .. Len(ring') : ring'[i] \in 1 .. submitted'
    <3>1. /\ ring \in Seq(Int) /\ Len(ring) \in Nat /\ Len(ring) <= RingSlots
          /\ \A i \in 1 .. Len(ring) : ring[i] \in 1 .. submitted'
      BY <2>1 DEF IInv, Types, RingRight
    <3>2. CASE ring' = ring
      BY <3>1, <3>2
    <3>3. CASE Len(ring) < RingSlots /\ ring' = Append(ring, submitted')
      BY <2>1, <3>1, <3>3
    <3>4. QED
      BY <1>1, <3>2, <3>3 DEF Submit
  <2>4. Types'
    BY <2>1, <2>2, <2>3 DEF IInv, Types
  <2>5. RingRight'
    BY <2>1, <2>3 DEF IInv, RingRight, Types
  <2>6. StartRight' /\ CloseRight'
    BY <2>1 DEF IInv, StartRight, CloseRight
  <2>7. QED
    BY <2>4, <2>5, <2>6 DEF IInv
<1>2. CASE Receive
  BY <1>2 DEF Receive, IInv, Types, RingRight, StartRight, CloseRight, Stages
<1>3. CASE NewMonitor
  <2>1. ASSUME NEW step \in {"load", "iface", "attach", "reader"},
               NEW next \in {"iface", "attach", "reader", "ready"},
               NEW what \in SUBSET Things, Acquire(step, next, what),
               next = "iface" => step = "load" /\ what = {"objs"},
               next = "attach" => step = "iface" /\ what = {},
               next = "reader" => step = "attach" /\ what = {"link"},
               next = "ready" => step = "reader"
        PROVE  IInv'
    <3>1. open' \subseteq Things /\ npc' \in Stages
      BY <2>1 DEF Acquire, IInv, Types, Stages
    <3>2. Types'
      BY <2>1, <3>1 DEF Acquire, IInv, Types
    <3>3. RingRight'
      BY <2>1 DEF Acquire, IInv, RingRight
    <3>4. \A c \in Closers : cpc[c] = "call"
      BY <2>1 DEF Acquire, IInv, StartRight
    <3>5. npc' # "ready" => open' = HeldAt(npc')
      BY <2>1 DEF Acquire, IInv, StartRight, HeldAt, Released
    <3>6. StartRight' /\ CloseRight'
      BY <2>1, <3>4, <3>5, OrderIsOneToOne DEF Acquire, StartRight, CloseRight
    <3>7. QED
      BY <3>2, <3>3, <3>6 DEF IInv
  <2>2. QED
    BY <1>3, <2>1 DEF NewMonitor, Things
<1>4. CASE readEvents
  <2>1. CASE Select
    BY <2>1 DEF Select, IInv, Types, RingRight, StartRight, CloseRight, Stages
  <2>2. CASE Read
    <3>1. npc = "ready"
      BY <2>2 DEF Read, IInv, Types
    <3>2. CASE "ringbuf" \notin open
      BY <2>2, <3>1, <3>2 DEF Read, AfterClosed, IInv, Types, RingRight, StartRight, CloseRight
    <3>3. CASE "ringbuf" \in open
      <4>0. /\ ring \in Seq(Int) /\ ring # << >> /\ Head(ring) \in 1 .. submitted
            /\ Tail(ring) \in Seq(Int) /\ Len(Tail(ring)) = Len(ring) - 1
            /\ \A i \in 1 .. Len(Tail(ring)) : Tail(ring)[i] \in 1 .. submitted
        BY <2>2, <3>3, HeadTail DEF Read, IInv, Types, RingRight
      <4>1. Types'
        <5>1. ring' \in Seq(Int) /\ Len(ring') <= RingSlots
          <6>1. ring' = Tail(ring)
            BY <2>2, <3>3 DEF Read
          <6>2. Len(ring) <= RingSlots /\ Len(ring) \in Nat
            BY <4>0 DEF IInv, Types
          <6>3. Len(ring) - 1 <= RingSlots
            BY <6>2
          <6>4. QED
            BY <4>0, <6>1, <6>3
        <5>2. event' \in 1 .. MaxEvents /\ rpc' = "send"
          <6>1. event' = Head(ring) /\ rpc' = "send"
            BY <2>2, <3>3 DEF Read
          <6>2. submitted \in Nat /\ submitted <= MaxEvents
            BY DEF IInv, Types
          <6>3. QED
            BY <4>0, <6>1, <6>2
        <5>3. UNCHANGED <<submitted, eventChan, open, npc, cpc, dropped>>
          BY <2>2 DEF Read
        <5>4. QED
          BY <3>1, <5>1, <5>2, <5>3 DEF IInv, Types
      <4>2. RingRight'
        <5>1. /\ ring' = Tail(ring) /\ event' = Head(ring) /\ submitted' = submitted
          BY <2>2, <3>3 DEF Read
        <5>2. submitted \in Nat
          BY DEF IInv, Types
        <5>3. QED
          BY <4>0, <5>1, <5>2 DEF RingRight
      <4>3. StartRight' /\ CloseRight'
        BY <2>2 DEF Read, IInv, StartRight, CloseRight
      <4>4. QED
        BY <4>1, <4>2, <4>3 DEF IInv
    <3>4. QED
      BY <3>2, <3>3
  <2>3. CASE Send
    <3>1. npc = "ready" /\ event \in Int
      BY <2>3 DEF Send, IInv, Types
    <3>2. eventChan' \in Seq(Int) /\ Len(eventChan') <= ChanCap
      <4>1. eventChan \in Seq(Int) /\ Len(eventChan) <= ChanCap
        BY DEF IInv, Types
      <4>2. Append(eventChan, event) \in Seq(Int) /\ Len(Append(eventChan, event)) = Len(eventChan) + 1
        BY <3>1, <4>1
      <4>3. CASE eventChan' = eventChan
        BY <4>1, <4>3
      <4>4. CASE Len(eventChan) < ChanCap /\ eventChan' = Append(eventChan, event)
        BY <4>1, <4>2, <4>4
      <4>5. QED
        BY <2>3, <4>3, <4>4 DEF Send, TrySend
    <3>3. dropped' \subseteq 1 .. submitted
      <4>1. event \in 1 .. submitted
        BY <2>3 DEF Send, IInv, Types, RingRight
      <4>2. QED
        BY <2>3, <4>1 DEF Send, TrySend, IInv, Types
    <3>4. UNCHANGED <<ring, submitted, open, npc, cpc>>
      BY <2>3 DEF Send
    <3>5. \/ rpc' = "panic" /\ event' = event
          \/ rpc' = "select" /\ event' = 0
      BY <2>3 DEF Send, AfterSend
    <3>6. QED
      BY <3>1, <3>2, <3>3, <3>4, <3>5
         DEF IInv, Types, RingRight, StartRight, CloseRight
  <2>4. CASE ReadFails
    BY <2>4 DEF ReadFails, IInv, Types, RingRight, StartRight, CloseRight
  <2>5. QED
    BY <1>4, <2>1, <2>2, <2>3, <2>4 DEF readEvents
<1>5. ASSUME NEW c \in Closers, NEW i \in 1 .. 5, CloseStep(c, i) PROVE IInv'
  <2>1. open' \subseteq open /\ npc = "ready" /\ npc' = npc
    BY <1>5 DEF CloseStep
  <2>2. \/ cpc' = [cpc EXCEPT ![c] = "panic"]
        \/ cpc' = [cpc EXCEPT ![c] = CloseOrder[i]] /\ CloseOrder[i] \notin open'
    BY <1>5 DEF CloseStep
  <2>3. Types' /\ RingRight' /\ StartRight'
    BY <1>5, <2>1, <2>2, Order DEF CloseStep, IInv, Types, RingRight, StartRight
  <2>4. i > 1 => cpc[c] = CloseOrder[i - 1]
    BY <1>5 DEF CloseStep
  <2>5. \A j \in 1 .. 5 : j < i => CloseOrder[j] \notin open
    BY <2>4 DEF IInv, CloseRight
  <2>6. ASSUME NEW d \in Closers, NEW k \in 1 .. 5, NEW j \in 1 .. 5,
               j <= k, cpc'[d] = CloseOrder[k]
        PROVE  CloseOrder[j] \notin open'
    <3>1. CASE cpc'[d] = cpc[d]
      BY <2>1, <2>6, <3>1 DEF IInv, CloseRight
    <3>2. CASE cpc'[d] # cpc[d]
      <4>1. cpc'[d] = CloseOrder[i] /\ CloseOrder[i] \notin open'
        BY <2>2, <2>6, <3>2, OrderIsOneToOne DEF IInv, Types
      <4>2. k = i
        BY <2>6, <4>1, OrderIsOneToOne
      <4>3. QED
        BY <2>1, <2>5, <2>6, <4>1, <4>2
    <3>3. QED
      BY <3>1, <3>2
  <2>7. QED
    BY <2>3, <2>6 DEF IInv, CloseRight
<1>6. CASE UNCHANGED vars
  BY <1>6 DEF vars, IInv, Types, RingRight, StartRight, CloseRight
<1>7. QED
  BY <1>1, <1>2, <1>3, <1>4, <1>5, <1>6, Order DEF Next, Close

(* The inductive invariant holds throughout. *)
THEOREM InvariantHolds == Spec => []IInv
<1>1. QED
  BY StartHolds, StepHolds, PTL DEF Spec

(* The types of the variables. *)
THEOREM TypeCorrect == Spec => []TypeOK
<1>1. IInv => TypeOK
  BY OrderHasAll DEF IInv, Types, TypeOK, Things
<1>2. QED
  BY <1>1, InvariantHolds, PTL

(* A start that failed and a Close that came to its end leave nothing      *)
(* behind: no program stays linked to the interface.                       *)
THEOREM NothingStaysOpen == Spec => []NothingLeftOpen
<1>1. ASSUME IInv, npc = "failed" PROVE open = {}
  BY <1>1 DEF IInv, StartRight, HeldAt
<1>2. ASSUME IInv, NEW c \in Closers, cpc[c] = "eventChan" PROVE open = {}
  <2>1. cpc[c] = CloseOrder[5]
    BY <1>2 DEF CloseOrder
  <2>2. \A j \in 1 .. 5 : CloseOrder[j] \notin open
    BY <1>2, <2>1 DEF IInv, CloseRight
  <2>3. \A x \in Things : x \notin open
    BY <2>2, Order, OrderHasAll
  <2>4. QED
    BY <1>2, <2>3 DEF IInv, Types
<1>3. IInv => NothingLeftOpen
  BY <1>1, <1>2 DEF NothingLeftOpen
<1>4. QED
  BY <1>3, InvariantHolds, PTL
-----------------------------------------------------------------------------
(* The order of the events.  Wherever they are - received, in the channel, *)
(* in the goroutine's hands or in the ring buffer - each place is in order *)
(* and comes before the next, and the latest submitted comes last.         *)

Ordered(s) == \A i, j \in 1 .. Len(s) : i < j => s[i] < s[j]
Before(s, t) == \A i \in 1 .. Len(s), j \in 1 .. Len(t) : s[i] < t[j]
UpTo(s, n) == \A i \in 1 .. Len(s) : s[i] <= n

Held == IF event = 0 THEN << >> ELSE <<event>>

OrderInv ==
  /\ received \in Seq(Int)
  /\ Ordered(received) /\ Ordered(eventChan) /\ Ordered(ring)
  /\ Before(received, eventChan) /\ Before(received, ring) /\ Before(eventChan, ring)
  /\ event # 0 => /\ UpTo(received, event - 1) /\ UpTo(eventChan, event - 1)
                  /\ Before(<<event>>, ring) /\ event <= submitted
  /\ UpTo(received, submitted) /\ UpTo(eventChan, submitted) /\ UpTo(ring, submitted)

LEMMA OrderedConcat ==
  ASSUME NEW s \in Seq(Int), NEW t \in Seq(Int), Ordered(s), Ordered(t), Before(s, t)
  PROVE  s \o t \in Seq(Int) /\ Ordered(s \o t)
<1>1. /\ s \o t \in Seq(Int) /\ Len(s \o t) = Len(s) + Len(t)
      /\ \A i \in 1 .. Len(s) + Len(t) :
           (s \o t)[i] = IF i <= Len(s) THEN s[i] ELSE t[i - Len(s)]
  OBVIOUS
<1>2. ASSUME NEW i \in 1 .. Len(s) + Len(t), NEW j \in 1 .. Len(s) + Len(t), i < j
      PROVE  (s \o t)[i] < (s \o t)[j]
  <2>1. CASE j <= Len(s)
    BY <1>1, <1>2, <2>1 DEF Ordered
  <2>2. CASE Len(s) < i
    <3>1. i - Len(s) \in 1 .. Len(t) /\ j - Len(s) \in 1 .. Len(t)
      BY <1>2, <2>2
    <3>2. (s \o t)[i] = t[i - Len(s)] /\ (s \o t)[j] = t[j - Len(s)]
      BY <1>1, <1>2, <2>2
    <3>3. i - Len(s) < j - Len(s)
      BY <1>2
    <3>4. QED
      BY <3>1, <3>2, <3>3 DEF Ordered
  <2>3. CASE i <= Len(s) /\ Len(s) < j
    <3>1. i \in 1 .. Len(s) /\ j - Len(s) \in 1 .. Len(t)
      BY <1>2, <2>3
    <3>2. QED
      BY <1>1, <2>3, <3>1 DEF Before
  <2>4. QED
    BY <1>2, <2>1, <2>2, <2>3
<1>3. QED
  BY <1>1, <1>2 DEF Ordered

LEMMA BeforeConcat ==
  ASSUME NEW s \in Seq(Int), NEW t \in Seq(Int), NEW u \in Seq(Int), Before(s, u), Before(t, u)
  PROVE  Before(s \o t, u)
<1>1. /\ Len(s \o t) = Len(s) + Len(t)
      /\ \A i \in 1 .. Len(s) + Len(t) :
           (s \o t)[i] = IF i <= Len(s) THEN s[i] ELSE t[i - Len(s)]
  OBVIOUS
<1>2. ASSUME NEW i \in 1 .. Len(s) + Len(t), NEW j \in 1 .. Len(u) PROVE (s \o t)[i] < u[j]
  <2>1. CASE i <= Len(s)
    BY <1>1, <2>1 DEF Before
  <2>2. CASE Len(s) < i
    <3>1. i - Len(s) \in 1 .. Len(t)
      BY <2>2
    <3>2. (s \o t)[i] = t[i - Len(s)]
      BY <1>1, <2>2
    <3>3. QED
      BY <3>1, <3>2 DEF Before
  <2>3. QED
    BY <2>1, <2>2
<1>3. QED
  BY <1>1, <1>2 DEF Before

LEMMA AppendOrdered ==
  ASSUME NEW s \in Seq(Int), NEW n \in Int, Ordered(s), UpTo(s, n - 1)
  PROVE  /\ Append(s, n) \in Seq(Int) /\ Ordered(Append(s, n)) /\ UpTo(Append(s, n), n)
         /\ \A t \in Seq(Int) : Before(t, s) /\ UpTo(t, n - 1) => Before(t, Append(s, n))
         /\ \A u \in Seq(Int) : Before(s, u) /\ Before(<<n>>, u) => Before(Append(s, n), u)
<1>1. /\ Append(s, n) \in Seq(Int) /\ Len(Append(s, n)) = Len(s) + 1 /\ Len(s) \in Nat
      /\ \A i \in 1 .. Len(s) + 1 : Append(s, n)[i] = IF i = Len(s) + 1 THEN n ELSE s[i]
      /\ \A i \in 1 .. Len(s) : s[i] \in Int
  OBVIOUS
<1>2. Ordered(Append(s, n)) /\ UpTo(Append(s, n), n)
  <2>1. \A i \in 1 .. Len(s) : s[i] < n
    BY <1>1 DEF UpTo
  <2>2. QED
    BY <1>1, <2>1 DEF Ordered, UpTo
<1>3. ASSUME NEW t \in Seq(Int), Before(t, s), UpTo(t, n - 1) PROVE Before(t, Append(s, n))
  <2>1. \A i \in 1 .. Len(t) : t[i] \in Int /\ t[i] < n
    BY <1>3 DEF UpTo
  <2>2. QED
    BY <1>1, <1>3, <2>1 DEF Before
<1>4. ASSUME NEW u \in Seq(Int), Before(s, u), Before(<<n>>, u) PROVE Before(Append(s, n), u)
  <2>1. \A j \in 1 .. Len(u) : n < u[j]
    BY <1>4 DEF Before
  <2>2. QED
    BY <1>1, <1>4, <2>1 DEF Before
<1>5. QED
  BY <1>1, <1>2, <1>3, <1>4

LEMMA UpToChain ==
  ASSUME NEW s \in Seq(Int), NEW m \in Int, NEW n \in Int, UpTo(s, m), m <= n
  PROVE  UpTo(s, n)
<1>1. \A i \in 1 .. Len(s) : s[i] \in Int /\ s[i] <= m
  BY DEF UpTo
<1> QED BY <1>1 DEF UpTo

LEMMA OrderStarts == Init => OrderInv
  BY DEF Init, OrderInv, Ordered, Before, UpTo

LEMMA OrderStepHolds == IInv /\ OrderInv /\ [Next]_vars => OrderInv'
<1> SUFFICES ASSUME IInv, OrderInv, [Next]_vars PROVE OrderInv'
  OBVIOUS
<1>0. /\ ring \in Seq(Int) /\ eventChan \in Seq(Int) /\ received \in Seq(Int)
      /\ submitted \in Nat /\ event \in Nat
      /\ (rpc = "send" => event # 0) /\ (event # 0 => rpc \in {"send", "panic"})
  BY SizeAssumption DEF IInv, Types, OrderInv
<1>1. CASE Submit
  <2>1. /\ submitted' = submitted + 1 /\ submitted' \in Int
        /\ UNCHANGED <<received, eventChan, event>>
    BY <1>0, <1>1 DEF Submit
  <2>2. /\ UpTo(received, submitted' - 1) /\ UpTo(eventChan, submitted' - 1)
        /\ UpTo(ring, submitted' - 1)
    BY <1>0, <2>1 DEF OrderInv
  <2>3. /\ UpTo(received, submitted') /\ UpTo(eventChan, submitted') /\ UpTo(ring, submitted')
        /\ event # 0 => event <= submitted' /\ UpTo(<<event>>, submitted' - 1)
    <3>1. submitted \in Int /\ submitted <= submitted'
      BY <1>0, <2>1
    <3>2. UpTo(received, submitted) /\ UpTo(eventChan, submitted) /\ UpTo(ring, submitted)
      BY DEF OrderInv
    <3>3. UpTo(received, submitted') /\ UpTo(eventChan, submitted') /\ UpTo(ring, submitted')
      BY <1>0, <2>1, <3>1, <3>2, UpToChain
    <3>4. event # 0 => event <= submitted
      BY DEF OrderInv
    <3>5. event # 0 => event <= submitted' /\ UpTo(<<event>>, submitted' - 1)
      BY <1>0, <2>1, <3>4 DEF UpTo
    <3> QED BY <3>3, <3>5
  <2>4. CASE ring' = ring
    BY <2>1, <2>3, <2>4 DEF OrderInv
  <2>5. CASE ring' = Append(ring, submitted')
    <3>1. /\ Ordered(ring') /\ UpTo(ring', submitted')
          /\ Before(received, ring') /\ Before(eventChan, ring')
      BY <1>0, <2>1, <2>2, <2>5, AppendOrdered DEF OrderInv
    <3>2. event # 0 => Before(<<event>>, ring')
      <4>1. <<event>> \in Seq(Int)
        BY <1>0
      <4>2. QED
        BY <1>0, <2>1, <2>2, <2>3, <2>5, <4>1, AppendOrdered DEF OrderInv
    <3>3. QED
      BY <2>1, <2>3, <3>1, <3>2 DEF OrderInv
  <2>6. QED
    BY <1>1, <2>1, <2>4, <2>5 DEF Submit
<1>2. CASE Receive
  <2>1. /\ eventChan # << >> /\ received' = Append(received, Head(eventChan))
        /\ eventChan' = Tail(eventChan) /\ UNCHANGED <<ring, submitted, event>>
    BY <1>2 DEF Receive
  <2>2. /\ Head(eventChan) \in Int /\ Head(eventChan) = eventChan[1] /\ 1 \in 1 .. Len(eventChan)
        /\ Tail(eventChan) \in Seq(Int)
        /\ \A i \in 1 .. Len(Tail(eventChan)) :
             Tail(eventChan)[i] = eventChan[i + 1] /\ i + 1 \in 1 .. Len(eventChan)
    BY <1>0, <2>1, HeadTail
  <2>3. /\ Ordered(eventChan') /\ Before(eventChan', ring) /\ UpTo(eventChan', submitted)
        /\ Before(received, eventChan') /\ Before(<<Head(eventChan)>>, eventChan')
        /\ event # 0 => UpTo(eventChan', event - 1)
    <3>1. Ordered(eventChan') /\ Before(<<Head(eventChan)>>, eventChan')
      BY <1>0, <2>1, <2>2 DEF OrderInv, Ordered, Before
    <3>2. Before(eventChan', ring) /\ Before(received, eventChan')
      BY <2>1, <2>2 DEF OrderInv, Before
    <3>3. UpTo(eventChan', submitted) /\ (event # 0 => UpTo(eventChan', event - 1))
      BY <2>1, <2>2 DEF OrderInv, UpTo
    <3> QED BY <3>1, <3>2, <3>3
  <2>4. /\ UpTo(received, Head(eventChan) - 1) /\ Before(<<Head(eventChan)>>, ring)
        /\ Head(eventChan) <= submitted
        /\ event # 0 => Head(eventChan) <= event - 1
    <3> PICK h \in Int : h = Head(eventChan) /\ h = eventChan[1] /\ 1 \in 1 .. Len(eventChan)
      BY <2>2
    <3>1. \A i \in 1 .. Len(received) : received[i] \in Int /\ received[i] < h
      BY <1>0 DEF OrderInv, Before
    <3>2. UpTo(received, h - 1)
      BY <3>1 DEF UpTo
    <3>3. \A j \in 1 .. Len(ring) : h < ring[j]
      BY DEF OrderInv, Before
    <3>4. Before(<<h>>, ring)
      BY <3>3 DEF Before
    <3>5. h <= submitted /\ (event # 0 => h <= event - 1)
      BY DEF OrderInv, UpTo
    <3> QED BY <3>2, <3>4, <3>5
  <2>5. /\ received' \in Seq(Int) /\ Ordered(received') /\ UpTo(received', Head(eventChan))
        /\ Before(received', ring) /\ Before(received', eventChan')
    BY <1>0, <2>1, <2>2, <2>3, <2>4, AppendOrdered DEF OrderInv
  <2>6. UpTo(received', submitted) /\ (event # 0 => UpTo(received', event - 1))
    <3> PICK h \in Int : h = Head(eventChan)
      BY <2>2
    <3>1. h <= submitted /\ (event # 0 => h <= event - 1) /\ UpTo(received', h)
      BY <2>4, <2>5
    <3>2. submitted \in Int /\ event - 1 \in Int /\ received' \in Seq(Int)
      BY <1>0, <2>5
    <3> QED BY <3>1, <3>2, UpToChain
  <2>7. QED
    BY <2>1, <2>3, <2>5, <2>6 DEF OrderInv
<1>3. CASE Read /\ "ringbuf" \in open
  <2>1. /\ ring # << >> /\ event = 0 /\ event' = Head(ring) /\ ring' = Tail(ring)
        /\ UNCHANGED <<submitted, eventChan, received>>
    BY <1>0, <1>3 DEF Read
  <2>2. /\ Head(ring) \in Int /\ Head(ring) = ring[1] /\ 1 \in 1 .. Len(ring)
        /\ Tail(ring) \in Seq(Int)
        /\ \A i \in 1 .. Len(Tail(ring)) :
             Tail(ring)[i] = ring[i + 1] /\ i + 1 \in 1 .. Len(ring)
    BY <1>0, <2>1, HeadTail
  <2>3. /\ Ordered(ring') /\ UpTo(ring', submitted)
        /\ Before(received, ring') /\ Before(eventChan, ring')
    BY <1>0, <2>1, <2>2 DEF OrderInv, Ordered, Before, UpTo
  <2>4. /\ UpTo(received, event' - 1) /\ UpTo(eventChan, event' - 1)
        /\ Before(<<event'>>, ring') /\ event' <= submitted
    <3>1. event' \in Int /\ event' = ring[1]
      BY <2>1, <2>2
    <3>2. /\ \A i \in 1 .. Len(received) : received[i] \in Int /\ received[i] < event'
          /\ \A i \in 1 .. Len(eventChan) : eventChan[i] \in Int /\ eventChan[i] < event'
      BY <1>0, <2>2, <3>1 DEF OrderInv, Before
    <3>3. UpTo(received, event' - 1) /\ UpTo(eventChan, event' - 1)
      BY <3>1, <3>2 DEF UpTo
    <3>4. Before(<<event'>>, ring')
      BY <1>0, <2>1, <2>2, <3>1 DEF OrderInv, Ordered, Before
    <3>5. event' <= submitted
      BY <2>2, <3>1 DEF OrderInv, UpTo
    <3> QED BY <3>3, <3>4, <3>5
  <2>5. QED
    BY <2>1, <2>3, <2>4 DEF OrderInv
<1>4. CASE Send /\ "eventChan" \in open
  <2>1. event # 0 /\ event' = 0 /\ UNCHANGED <<ring, submitted, received>>
    BY <1>0, <1>4 DEF Send, AfterSend
  <2>2. CASE eventChan' = eventChan
    BY <2>1, <2>2 DEF OrderInv
  <2>3. CASE eventChan' = Append(eventChan, event)
    <3>1. /\ Ordered(eventChan') /\ UpTo(eventChan', event)
          /\ Before(received, eventChan') /\ Before(eventChan', ring)
      BY <1>0, <2>1, <2>3, AppendOrdered DEF OrderInv
    <3>2. UpTo(eventChan', submitted)
      <4>1. event <= submitted /\ eventChan' \in Seq(Int)
        BY <1>0, <2>1, <2>3 DEF OrderInv
      <4>2. QED
        BY <1>0, <3>1, <4>1, UpToChain
    <3>3. QED
      BY <2>1, <3>1, <3>2 DEF OrderInv
  <2>4. QED
    BY <1>4, <2>2, <2>3 DEF Send, TrySend
<1>5. CASE UNCHANGED <<ring, submitted, eventChan, received, event>>
  BY <1>5 DEF OrderInv
<1>6. QED
  <2>1. ASSUME \/ NewMonitor \/ Select \/ ReadFails \/ (Read /\ "ringbuf" \notin open)
               \/ (Send /\ "eventChan" \notin open)
               \/ \E c \in Closers : Close(c)
               \/ UNCHANGED vars
        PROVE  UNCHANGED <<ring, submitted, eventChan, received, event>>
    BY <2>1 DEF NewMonitor, Acquire, Select, Read, ReadFails, Send, Close, CloseStep, vars
  <2>2. CASE Read \/ Send
    BY <1>3, <1>4, <1>5, <2>1, <2>2
  <2>3. CASE NewMonitor \/ Select \/ ReadFails \/ (\E c \in Closers : Close(c)) \/ UNCHANGED vars
    BY <1>5, <2>1, <2>3
  <2>4. QED
    BY <1>1, <1>2, <2>2, <2>3 DEF Next, readEvents

-----------------------------------------------------------------------------
(* That none is lost: each event that was submitted is at one of the four  *)
(* places or was dropped because the ring or the channel was full.         *)

In(s, n) == \E i \in 1 .. Len(s) : s[i] = n

Somewhere(n) ==
  n \in dropped \/ In(received, n) \/ In(eventChan, n) \/ n = event \/ In(ring, n)

NoneLost == \A n \in 1 .. submitted : Somewhere(n)

LEMMA InAppend ==
  ASSUME NEW s \in Seq(Int), NEW e \in Int, NEW n, In(s, n) \/ n = e
  PROVE  In(Append(s, e), n)
<1>1. /\ Len(Append(s, e)) = Len(s) + 1 /\ Len(s) \in Nat
      /\ \A i \in 1 .. Len(s) + 1 : Append(s, e)[i] = IF i = Len(s) + 1 THEN e ELSE s[i]
  OBVIOUS
<1>2. CASE In(s, n)
  <2>1. PICK i \in 1 .. Len(s) : s[i] = n
    BY <1>2 DEF In
  <2>2. i \in 1 .. Len(s) + 1 /\ i # Len(s) + 1
    BY <1>1
  <2>3. QED
    BY <1>1, <2>1, <2>2 DEF In
<1>3. CASE n = e
  <2>1. Len(s) + 1 \in 1 .. Len(s) + 1
    BY <1>1
  <2>2. QED
    BY <1>1, <1>3, <2>1 DEF In
<1>4. QED
  BY <1>2, <1>3

LEMMA InTail ==
  ASSUME NEW s \in Seq(Int), NEW n, In(s, n)
  PROVE  s # << >> /\ (n = Head(s) \/ In(Tail(s), n))
<1>1. PICK i \in 1 .. Len(s) : s[i] = n
  BY DEF In
<1>2. s # << >>
  BY <1>1
<1>3. /\ Len(s) \in Nat /\ Head(s) = s[1] /\ Len(Tail(s)) = Len(s) - 1
      /\ \A j \in 1 .. Len(Tail(s)) : Tail(s)[j] = s[j + 1]
  BY <1>2, HeadTail
<1>4. CASE i # 1
  <2>1. i - 1 \in 1 .. Len(Tail(s)) /\ (i - 1) + 1 = i
    BY <1>3, <1>4
  <2>2. Tail(s)[i - 1] = n
    BY <1>1, <1>3, <2>1
  <2>3. QED
    BY <1>2, <2>1, <2>2 DEF In
<1>5. QED
  BY <1>1, <1>2, <1>3, <1>4

LEMMA InConcat ==
  ASSUME NEW s \in Seq(Int), NEW t \in Seq(Int), NEW n, In(s, n) \/ In(t, n)
  PROVE  In(s \o t, n)
<1>1. /\ Len(s \o t) = Len(s) + Len(t) /\ Len(s) \in Nat /\ Len(t) \in Nat
      /\ \A i \in 1 .. Len(s) + Len(t) :
           (s \o t)[i] = IF i <= Len(s) THEN s[i] ELSE t[i - Len(s)]
  OBVIOUS
<1>2. CASE In(s, n)
  <2>1. PICK i \in 1 .. Len(s) : s[i] = n
    BY <1>2 DEF In
  <2>2. i \in 1 .. Len(s) + Len(t) /\ i <= Len(s)
    BY <1>1
  <2>3. QED
    BY <1>1, <2>1, <2>2 DEF In
<1>3. CASE In(t, n)
  <2>1. PICK i \in 1 .. Len(t) : t[i] = n
    BY <1>3 DEF In
  <2>2. /\ Len(s) + i \in 1 .. Len(s) + Len(t) /\ ~(Len(s) + i <= Len(s))
        /\ (Len(s) + i) - Len(s) = i
    BY <1>1
  <2>3. (s \o t)[Len(s) + i] = n
    BY <1>1, <2>1, <2>2
  <2>4. QED
    BY <1>1, <2>2, <2>3 DEF In
<1>4. QED
  BY <1>2, <1>3

LEMMA NoneLostStepHolds == IInv /\ OrderInv /\ NoneLost /\ [Next]_vars => NoneLost'
<1> SUFFICES ASSUME IInv, OrderInv, NoneLost, [Next]_vars, NEW n \in 1 .. submitted'
             PROVE  Somewhere(n)'
  BY DEF NoneLost
<1>0. /\ ring \in Seq(Int) /\ eventChan \in Seq(Int) /\ received \in Seq(Int)
      /\ submitted \in Nat /\ event \in Nat
      /\ event # 0 => rpc \in {"send", "panic"}
      /\ n \in 1 .. submitted => Somewhere(n) /\ n # 0
  BY SizeAssumption DEF IInv, Types, OrderInv, NoneLost
<1>1. CASE Submit
  <2>1. submitted' = submitted + 1 /\ UNCHANGED <<received, eventChan, event>>
    BY <1>1 DEF Submit
  <2>2. CASE n = submitted'
    <3>1. submitted' \in Int /\ In(Append(ring, submitted'), n)
      BY <1>0, <2>1, <2>2, InAppend
    <3>2. n \in dropped' \/ In(ring, n)'
      BY <1>1, <2>2, <3>1 DEF Submit, In
    <3>3. QED
      BY <3>2 DEF Somewhere
  <2>3. CASE n # submitted'
    <3>1. n \in 1 .. submitted
      BY <1>0, <2>1, <2>3
    <3>2. dropped \subseteq dropped' /\ (In(ring, n) => In(ring, n)')
      <4>1. In(ring, n) => In(Append(ring, submitted'), n)
        BY <1>0, <2>1, InAppend
      <4>2. QED
        BY <1>1, <4>1 DEF Submit, In
    <3>3. QED
      BY <1>0, <2>1, <3>1, <3>2 DEF Somewhere
  <2>4. QED
    BY <2>2, <2>3
<1>2. CASE Receive
  <2>1. /\ eventChan # << >> /\ received' = Append(received, Head(eventChan))
        /\ eventChan' = Tail(eventChan) /\ UNCHANGED <<ring, submitted, event, dropped>>
    BY <1>2 DEF Receive
  <2>2. Head(eventChan) \in Int
    <3>1. 1 \in 1 .. Len(eventChan) /\ Head(eventChan) = eventChan[1]
      BY <1>0, <2>1, HeadTail
    <3>2. QED
      BY <1>0, <3>1
  <2>3. In(received, n) \/ n = Head(eventChan) => In(received, n)'
    BY <1>0, <2>1, <2>2, InAppend
  <2>4. In(eventChan, n) => n = Head(eventChan) \/ In(eventChan, n)'
    BY <1>0, <2>1, InTail
  <2>5. QED
    BY <1>0, <2>1, <2>3, <2>4 DEF Somewhere
<1>3. CASE Read /\ "ringbuf" \in open
  <2>1. /\ event = 0 /\ event' = Head(ring) /\ ring' = Tail(ring)
        /\ UNCHANGED <<submitted, eventChan, received, dropped>>
    BY <1>0, <1>3 DEF Read
  <2>2. In(ring, n) => n = event' \/ In(ring, n)'
    BY <1>0, <2>1, InTail
  <2>3. QED
    BY <1>0, <2>1, <2>2 DEF Somewhere
<1>4. CASE Send /\ "eventChan" \in open
  <2>1. UNCHANGED <<ring, submitted, received>>
    BY <1>4 DEF Send
  <2>2. \/ eventChan' = Append(eventChan, event) /\ UNCHANGED dropped
        \/ dropped' = dropped \cup {event} /\ UNCHANGED eventChan
    BY <1>4 DEF Send, TrySend
  <2>3. n = event \/ In(eventChan, n) => n \in dropped' \/ In(eventChan, n)'
    <3>1. n = event \/ In(eventChan, n) => In(Append(eventChan, event), n)
      BY <1>0, InAppend
    <3>2. QED
      BY <2>2, <3>1 DEF In
  <2>4. QED
    BY <1>0, <2>1, <2>2, <2>3 DEF Somewhere
<1>5. CASE UNCHANGED <<ring, submitted, eventChan, received, event, dropped>>
  BY <1>0, <1>5 DEF Somewhere
<1>6. QED
  <2>1. ASSUME \/ NewMonitor \/ Select \/ ReadFails \/ (Read /\ "ringbuf" \notin open)
               \/ (Send /\ "eventChan" \notin open)
               \/ \E c \in Closers : Close(c)
               \/ UNCHANGED vars
        PROVE  UNCHANGED <<ring, submitted, eventChan, received, event, dropped>>
    BY <2>1 DEF NewMonitor, Acquire, Select, Read, ReadFails, Send, Close, CloseStep, vars
  <2>2. CASE Read \/ Send
    BY <1>3, <1>4, <1>5, <2>1, <2>2
  <2>3. CASE NewMonitor \/ Select \/ ReadFails \/ (\E c \in Closers : Close(c)) \/ UNCHANGED vars
    BY <1>5, <2>1, <2>3
  <2>4. QED
    BY <1>1, <1>2, <2>2, <2>3 DEF Next, readEvents

(* The places are in order one by one and one after the other: they are in *)
(* order put together, and what is at one of them is on the way.           *)
LEMMA WayOrdered == IInv /\ OrderInv /\ NoneLost => EventsInOrder
<1> SUFFICES ASSUME IInv, OrderInv, NoneLost PROVE EventsInOrder
  OBVIOUS
<1>1. /\ ring \in Seq(Int) /\ eventChan \in Seq(Int) /\ received \in Seq(Int)
      /\ Held \in Seq(Int) /\ event \in Nat
  BY SizeAssumption DEF IInv, Types, OrderInv, Held
<1>2. Ordered(Held) /\ Before(received, Held) /\ Before(eventChan, Held) /\ Before(Held, ring)
  BY <1>1 DEF OrderInv, Held, Ordered, Before, UpTo
<1>3. received \o eventChan \in Seq(Int) /\ Ordered(received \o eventChan)
  BY <1>1, OrderedConcat DEF OrderInv
<1>4. Before(received \o eventChan, Held) /\ Before(received \o eventChan, ring)
  BY <1>1, <1>2, BeforeConcat DEF OrderInv
<1>5. received \o eventChan \o Held \in Seq(Int) /\ Ordered(received \o eventChan \o Held)
  BY <1>1, <1>2, <1>3, <1>4, OrderedConcat
<1>6. Before(received \o eventChan \o Held, ring)
  BY <1>1, <1>2, <1>3, <1>4, BeforeConcat
<1>7. /\ received \o eventChan \o Held \o ring \in Seq(Int)
      /\ Ordered(received \o eventChan \o Held \o ring)
  BY <1>1, <1>5, <1>6, OrderedConcat DEF OrderInv
<1>8. QED
  <2> DEFINE way == received \o eventChan \o Held \o ring
  <2>1. way \in Seq(Int) /\ Ordered(way)
    BY <1>7
  <2>2. DOMAIN way = 1 .. Len(way)
    BY <2>1
  <2>3. \A i, j \in DOMAIN way : i < j => way[i] < way[j]
    BY <2>1, <2>2 DEF Ordered
  <2>4. ASSUME NEW n \in 1 .. submitted PROVE n \in dropped \/ \E i \in DOMAIN way : way[i] = n
    <3>1. Somewhere(n)
      BY DEF NoneLost
    <3>2. event = n => In(Held, n)
      BY DEF In, Held
    <3>3. In(received, n) \/ In(eventChan, n) => In(received \o eventChan, n)
      BY <1>1, InConcat
    <3>4. In(received \o eventChan, n) \/ In(Held, n) => In(received \o eventChan \o Held, n)
      BY <1>1, <1>3, InConcat
    <3>5. In(received \o eventChan \o Held, n) \/ In(ring, n) => In(way, n)
      BY <1>1, <1>5, InConcat
    <3>6. In(way, n) => \E i \in DOMAIN way : way[i] = n
      BY <2>2 DEF In
    <3> HIDE DEF way
    <3>7. QED
      BY <3>1, <3>2, <3>3, <3>4, <3>5, <3>6 DEF Somewhere
  <2>5. QED
    BY <2>3, <2>4 DEF EventsInOrder, Held

(* Events that arrive do so once and in the order of their submission, and *)
(* an event is lost only when it finds the ring buffer or the channel full.*)
THEOREM OrderKept == Spec => []EventsInOrder
<1>1. Init /\ [][Next]_vars /\ []IInv => []OrderInv
  BY OrderStarts, OrderStepHolds, PTL
<1>2. Init => NoneLost
  BY DEF Init, NoneLost
<1>3. Init /\ [][Next]_vars /\ []IInv /\ []OrderInv => []NoneLost
  BY <1>2, NoneLostStepHolds, PTL
<1>4. QED
  BY <1>1, <1>3, WayOrdered, InvariantHolds, PTL DEF Spec
=============================================================================
