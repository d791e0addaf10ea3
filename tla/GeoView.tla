------------------------------ MODULE GeoView -------------------------------
(***************************************************************************)
(* The control plane between the posts of the collectors and the views of  *)
(* its users: batches are given a place on the map through a shared cache  *)
(* (geoip.go), kept in the buffer of recent flows and stored (ingest.go,   *)
(* store.go), while viewers read the buffer at once (RealTimeGeoView) or   *)
(* the table in three queries (GeoViewByWindow, api.go).                   *)
(*                                                                         *)
(* The buffer is the one RecentFlows specifies and RingBuffer implements.  *)
(* Bytes are summed wherever packets are and are left out; refused         *)
(* requests (method, window, agent id) touch nothing and are left out too. *)
(***************************************************************************)
EXTENDS Integers, Sequences, FiniteSets, SequencesExt

CONSTANTS
  Handlers,  \* one per batch that is posted
  Viewers,   \* one per request for a view
  Posts,     \* the batches a collector may post: [agent, records]
  PlaceOf,   \* the database of places: a function from addresses
  Nowhere,   \* the place of an address it does not know
  CacheSize, \* 4096
  Capacity,  \* of the buffer of recent flows
  TopSizes,  \* the lengths of top lists asked for
  Windows,   \* the lengths of windows asked for
  MaxClock   \* bound: last value of the clock

ASSUME SizeAssumption == CacheSize \in Nat \ {0} /\ Capacity \in Nat \ {0} /\ MaxClock \in Nat
ASSUME AskedAssumption == TopSizes \subseteq Nat \ {0} /\ Windows \subseteq Nat \ {0}
ASSUME PostsAssumption ==
  \A p \in Posts : p.records \in Seq([address : DOMAIN PlaceOf, direction : {"ingress", "egress"},
                                     packets : Nat, timestamp : Int])

VARIABLES
  clock,
  cache,   \* what the LRU cache holds, the most recently used entry first
  handler, \* per post, where its handler is and what it has
  flows,   \* the rows of the table, in the order they were committed
  recent,  \* the buffer of recent flows
  view,    \* per viewer, the snapshot it took
  viewer,  \* per viewer, where its request is
  answer   \* per viewer, the parts of the answer it has

vars == <<clock, cache, handler, flows, recent, view, viewer, answer>>
bufferVars == <<recent, view>>
ingestVars == <<cache, handler, flows>>
viewVars == <<viewer, answer>>

Addresses == DOMAIN PlaceOf
Agents == {p.agent : p \in Posts}
FlowRecords == UNION {ToSet(p.records) : p \in Posts}
Enriched == [agent : Agents, record : FlowRecords, place : {PlaceOf[a] : a \in Addresses} \cup {Nowhere}]

Buffer == INSTANCE RecentFlows WITH Readers <- Viewers, Batches <- Seq(Enriched)

NoPost == [agent |-> "none", records |-> << >>]
NoAnswer == [points |-> << >>, top |-> << >>, summary |-> [flows |-> 0, packets |-> 0, addresses |-> 0]]
Idle == [at |-> "idle", agent |-> "none", start |-> 0, top |-> 0, seen |-> 0]

Init ==
  /\ clock = 0
  /\ cache = << >>
  /\ handler = [h \in Handlers |-> [at |-> "idle", post |-> NoPost, enriched |-> << >>]]
  /\ flows = << >>
  /\ Buffer!Init
  /\ viewer = [v \in Viewers |-> Idle]
  /\ answer = [v \in Viewers |-> NoAnswer]

-----------------------------------------------------------------------------
(* The cache of places.  Here and below, an operator named after a mistake *)
(* is a variant of the one it precedes; no behaviour uses it.              *)

Least(a, b) == IF a < b THEN a ELSE b

Cached(a) == \E i \in DOMAIN cache : cache[i].address = a
PositionOf(a) == CHOOSE i \in DOMAIN cache : cache[i].address = a
CachedPlace(a) == cache[PositionOf(a)].place

Others(a) == IF Cached(a) THEN RemoveAt(cache, PositionOf(a)) ELSE cache

(* An entry that is used or added goes to the front; the one at the end    *)
(* gives way.  A place that was not found is cached as well.               *)
UsedUnbounded(a, place) == <<[address |-> a, place |-> place]>> \o Others(a)
Used(a, place) ==
  <<[address |-> a, place |-> place]>> \o SubSeq(Others(a), 1, Least(Len(Others(a)), CacheSize - 1))

-----------------------------------------------------------------------------
(* The ingest handler *)

At(h, where) == handler[h].at = where

(* A batch with a valid credential arrives. *)
Post(h, p) ==
  /\ At(h, "idle")
  /\ handler' = [handler EXCEPT ![h] = [at |-> IF p.records = << >> THEN "push" ELSE "get",
                                        post |-> p, enriched |-> << >>]]
  /\ UNCHANGED <<clock, cache, flows, bufferVars, viewVars>>

(* The record Enrich has reached. *)
Current(h) == handler[h].post.records[Len(handler[h].enriched) + 1]

Locate(h, place) ==
  LET all == Append(handler[h].enriched,
                    [agent |-> handler[h].post.agent, record |-> Current(h), place |-> place])
  IN handler' = [handler EXCEPT ![h].enriched = all,
                   ![h].at = IF Len(all) = Len(handler[h].post.records) THEN "push" ELSE "get"]

(* A hit is the end of it; after a miss other handlers may run before the  *)
(* result of the lookup is cached.                                         *)
Get(h) ==
  /\ At(h, "get")
  /\ IF Cached(Current(h).address)
       THEN /\ cache' = Used(Current(h).address, CachedPlace(Current(h).address))
            /\ Locate(h, CachedPlace(Current(h).address))
       ELSE /\ handler' = [handler EXCEPT ![h].at = "add"]
            /\ UNCHANGED cache
  /\ UNCHANGED <<clock, flows, bufferVars, viewVars>>

KeyToAddFirst(h) == handler[h].post.records[1].address
KeyToAdd(h) == Current(h).address

Add(h) ==
  /\ At(h, "add")
  /\ cache' = Used(KeyToAdd(h), PlaceOf[Current(h).address])
  /\ Locate(h, PlaceOf[Current(h).address])
  /\ UNCHANGED <<clock, flows, bufferVars, viewVars>>

Push(h) ==
  /\ At(h, "push")
  /\ Buffer!Add(handler[h].enriched)
  /\ handler' = [handler EXCEPT ![h].at = "insert"]
  /\ UNCHANGED <<clock, cache, flows, viewVars>>

(* The rows of a batch are one transaction.  Its commit is not looked at,  *)
(* so either answer may be given to a batch that is stored and to one that *)
(* is not.                                                                 *)
InsertBatch(h) ==
  /\ At(h, "insert")
  /\ \E committed \in BOOLEAN, status \in {"accepted", "failed"} :
       /\ flows' = IF committed THEN flows \o handler[h].enriched ELSE flows
       /\ handler' = [handler EXCEPT ![h].at = status]
  /\ UNCHANGED <<clock, cache, bufferVars, viewVars>>

-----------------------------------------------------------------------------
(* Totals and top lists of rows: a sequence of them, or some of the table, *)
(* each under its number there.                                            *)

Packets(rows) == SumFunction([i \in DOMAIN rows |-> rows[i].record.packets])

Totals(rows) == [flows |-> Cardinality(DOMAIN rows), packets |-> Packets(rows),
                 addresses |-> Cardinality({r.record.address : r \in ToSet(rows)})]

(* The possible results of sorting the members of a set by descending      *)
(* weight, which leaves the order of equal ones open, and keeping n.       *)
Ranked(S, weight, n) ==
  {SubSeq(s, 1, n) : s \in {t \in SetToSeqs(S) :
                             \A i, j \in DOMAIN t : i < j => weight[t[i]] >= weight[t[j]]}}

Point(r) == [address |-> r.record.address, direction |-> r.record.direction,
             place |-> r.place, packets |-> r.record.packets]
Points(rows) == [i \in DOMAIN rows |-> Point(rows[i])]

(* The points of the view of the moment name neither address nor direction. *)
LivePoint(r) == [place |-> r.place, packets |-> r.record.packets]

-----------------------------------------------------------------------------
(* The view of the moment: one snapshot, everything else computed from it  *)

realTimeTopN(rows, n) ==
  {[i \in DOMAIN s |-> LivePoint(rows[s[i]])] :
     s \in Ranked(DOMAIN rows, [i \in DOMAIN rows |-> rows[i].record.packets], Least(n, Len(rows)))}

RealTimeGeoView(v, n) ==
  /\ viewer[v] = Idle
  /\ Buffer!Look(v)
  /\ viewer' = [viewer EXCEPT ![v] = [at |-> "live", agent |-> "none", start |-> 0, top |-> n, seen |-> 0]]
  /\ \E top \in realTimeTopN(view'[v], n) :
       answer' = [answer EXCEPT ![v] = [points |-> [i \in DOMAIN view'[v] |-> LivePoint(view'[v][i])],
                                        top |-> top, summary |-> Totals(view'[v])]]
  /\ UNCHANGED <<clock, ingestVars>>

-----------------------------------------------------------------------------
(* The view of a window: its start is computed once, nothing bounds its    *)
(* end, and between the queries batches may be committed                   *)

(* "seen" is history: how many rows were committed when the request came.  *)
GeoViewByWindow(v, agent, d, n) ==
  /\ viewer[v] = Idle
  /\ viewer' = [viewer EXCEPT ![v] = [at |-> "points", agent |-> agent, start |-> clock - d,
                                      top |-> n, seen |-> Len(flows)]]
  /\ UNCHANGED <<clock, ingestVars, bufferVars, answer>>

InWindowOfNow(v) ==
  Restrict(flows, {i \in DOMAIN flows : /\ flows[i].agent = viewer[v].agent
                                        /\ flows[i].record.timestamp >= clock})
InWindow(v) ==
  Restrict(flows, {i \in DOMAIN flows : /\ flows[i].agent = viewer[v].agent
                                        /\ flows[i].record.timestamp > viewer[v].start})

PointsOrderTopN(v) ==
  Points(Restrict(flows, {i \in DOMAIN InWindow(v) :
                            Cardinality({j \in DOMAIN InWindow(v) : j <= i}) <= viewer[v].top}))
PointsOrder(v) == Points(InWindow(v))

(* The order of the points, by timestamp, is left out. *)
QueryFlowsSince(v) ==
  /\ viewer[v].at = "points"
  /\ answer' = [answer EXCEPT ![v].points = PointsOrder(v)]
  /\ viewer' = [viewer EXCEPT ![v].at = "top"]
  /\ UNCHANGED <<clock, ingestVars, bufferVars>>

Group(r) == [address |-> r.record.address, direction |-> r.record.direction]
Grouped(rows, g) == Restrict(rows, {i \in DOMAIN rows : Group(rows[i]) = g})

(* GROUP BY remote_addr, direction.  The places of a group are equal as    *)
(* long as the database of places is, so their maximum is any of them.     *)
Totalled(rows, g) == [address |-> g.address, direction |-> g.direction,
                      place |-> (CHOOSE r \in ToSet(Grouped(rows, g)) : TRUE).place,
                      packets |-> Packets(Grouped(rows, g))]

TopLists(rows, n) ==
  LET groups == {Group(r) : r \in ToSet(rows)} IN
  {[i \in DOMAIN s |-> Totalled(rows, s[i])] :
     s \in Ranked(groups, [g \in groups |-> Packets(Grouped(rows, g))],
                  Least(n, Cardinality(groups)))}

QueryTopNFlows(v) ==
  /\ viewer[v].at = "top"
  /\ \E top \in TopLists(InWindow(v), viewer[v].top) : answer' = [answer EXCEPT ![v].top = top]
  /\ viewer' = [viewer EXCEPT ![v].at = "summary"]
  /\ UNCHANGED <<clock, ingestVars, bufferVars>>

AggregateSummary(v) ==
  /\ viewer[v].at = "summary"
  /\ answer' = [answer EXCEPT ![v].summary = Totals(InWindow(v))]
  /\ viewer' = [viewer EXCEPT ![v].at = "window"]
  /\ UNCHANGED <<clock, ingestVars, bufferVars>>

(* A query that fails ends the request; what was read is not sent. *)
QueryFails(v) ==
  /\ viewer[v].at \in {"points", "top", "summary"}
  /\ viewer' = [viewer EXCEPT ![v].at = "failed"]
  /\ answer' = [answer EXCEPT ![v] = NoAnswer]
  /\ UNCHANGED <<clock, ingestVars, bufferVars>>

Tick ==
  /\ clock < MaxClock
  /\ clock' = clock + 1
  /\ UNCHANGED <<ingestVars, bufferVars, viewVars>>

-----------------------------------------------------------------------------

Ingest(h) ==
  \/ \E p \in Posts : Post(h, p)
  \/ Get(h) \/ Add(h) \/ Push(h) \/ InsertBatch(h)

View(v) ==
  \/ \E n \in TopSizes : RealTimeGeoView(v, n)
  \/ \E agent \in Agents, d \in Windows, n \in TopSizes : GeoViewByWindow(v, agent, d, n)
  \/ QueryFlowsSince(v) \/ QueryTopNFlows(v) \/ AggregateSummary(v) \/ QueryFails(v)

Next ==
  \/ \E h \in Handlers : Ingest(h)
  \/ \E v \in Viewers : View(v)
  \/ Tick

Spec == Init /\ [][Next]_vars

-----------------------------------------------------------------------------
(* Properties *)

Rows == ToSet(flows) \cup ToSet(recent) \cup UNION {ToSet(handler[h].enriched) : h \in Handlers}

PlaceType == {PlaceOf[a] : a \in Addresses}
PointType ==
  [address : Addresses, direction : {"ingress", "egress"}, place : PlaceType, packets : Nat]
LivePointType == [place : PlaceType, packets : Nat]

(* The types of the variables; the cache never grows past its size and     *)
(* never holds an address twice, whichever handlers add it at once.        *)
TypeOK ==
  /\ clock \in 0 .. MaxClock
  /\ Len(cache) <= CacheSize
  /\ \A i, j \in DOMAIN cache : cache[i].address = cache[j].address => i = j
  /\ Rows \subseteq Enriched
  /\ Len(recent) <= Capacity
  /\ \A h \in Handlers :
       handler[h].at \in {"idle", "get", "add", "push", "insert", "accepted", "failed"}
  /\ \A v \in Viewers :
       /\ viewer[v].at \in {"idle", "points", "top", "summary", "window", "live", "failed"}
       /\ ToSet(answer[v].points) \cup ToSet(answer[v].top)
            \subseteq IF viewer[v].at = "live" THEN LivePointType ELSE PointType

(* Sharing and evicting cached places changes nothing: every record is     *)
(* shown and stored at the place of its own address, in the order of its   *)
(* batch.                                                                  *)
EnrichmentIsTransparent ==
  /\ \A r \in Rows : r.place = PlaceOf[r.record.address]
  /\ \A h \in Handlers : LET e == handler[h].enriched IN
       [i \in DOMAIN e |-> e[i].record] = SubSeq(handler[h].post.records, 1, Len(e))

PointPackets(points) == SumFunction([i \in DOMAIN points |-> points[i].packets])
SameGroup(p, q) == p.address = q.address /\ p.direction = q.direction
OfGroup(points, p) == Restrict(points, {i \in DOMAIN points : SameGroup(points[i], p)})

(* The three queries of a window see three states of the table, but each   *)
(* sees what the ones before it saw: the totals of an answer cover its top *)
(* list, both cover its points, and a point whose address and direction    *)
(* the top list leaves out carries no more than anything on it.            *)
WindowPartsAgree(v) ==
  LET a == answer[v] IN
  /\ Cardinality(DOMAIN a.points) <= a.summary.flows
  /\ PointPackets(a.points) <= a.summary.packets
  /\ PointPackets(a.top) <= a.summary.packets
  /\ Cardinality({p.address : p \in ToSet(a.points) \cup ToSet(a.top)}) <= a.summary.addresses
  /\ \A p \in ToSet(a.points) :
       IF \E q \in ToSet(a.top) : SameGroup(p, q)
         THEN \A q \in ToSet(a.top) :
                SameGroup(p, q) => PointPackets(OfGroup(a.points, p)) <= q.packets
         ELSE /\ Len(a.top) = viewer[v].top
              /\ \A q \in ToSet(a.top) : PointPackets(OfGroup(a.points, p)) <= q.packets

(* The view of the moment ranks flows and does not group them: its top     *)
(* list is made of the heaviest of its points, its totals of all.          *)
LivePartsAgree(v) ==
  LET a == answer[v] IN
  /\ Cardinality(DOMAIN a.points) = a.summary.flows
  /\ PointPackets(a.points) = a.summary.packets
  /\ ToSet(a.top) \subseteq ToSet(a.points)
  /\ \A p \in ToSet(a.points) \ ToSet(a.top) :
       Len(a.top) = viewer[v].top /\ \A q \in ToSet(a.top) : p.packets <= q.packets

(* Points, top list and totals of one answer fit each other, whatever is   *)
(* posted meanwhile.                                                       *)
PartsAgree ==
  \A v \in Viewers : /\ viewer[v].at = "window" => WindowPartsAgree(v)
                     /\ viewer[v].at = "live" => LivePartsAgree(v)

(* A window that is asked for after a batch was committed shows each of    *)
(* its records that is younger than the start of the window, however many  *)
(* they are and whatever is committed meanwhile.                           *)
CommittedIsShown ==
  \A v \in Viewers : viewer[v].at = "window" =>
    \A i \in 1 .. viewer[v].seen :
      flows[i].agent = viewer[v].agent /\ flows[i].record.timestamp > viewer[v].start
        => Point(flows[i]) \in ToSet(answer[v].points)
=============================================================================
