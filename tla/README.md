# GeoNET: a verification project

GeoNET counts the traffic of a host with a kernel program, reports it every ten
seconds to a control plane, and shows it on a map. This directory holds TLA+
models of that path, TLC configurations that check them on small instances, and
proofs that the TLA+ proof system checks for every value of the constants.
Paths below are relative to `src/backend/`; `collector` stands for
`traffic-collector` and `cp` for `control-plane`.

## The system

    frames -> kernel program -> flow_map --Drain--> source -> aggregator -> exporter
                    |                                                          |
                    +-> events ring -> readEvents -> eventChan            POST /ingest
                                                                               |
       viewers <- Snapshot <- recent flows <- Push <- enrich <- handleIngest <-+
       viewers <- queries  <- flows table  <- InsertBatch <----------+

| component | code | state | operations |
|---|---|---|---|
| kernel program | `collector/internal/ebpf/tc-monitor.c` | maps `flow_map`, `handshake_map`, `events` shared by all CPUs | `tc_monitor`, once per frame |
| map readers | `collector/internal/ebpf/ebpf.go` | `Monitor`: objects, link, ring reader, `eventChan`, `stopChan` | `NewMonitor`, `GetAllFlows`, `CleanExpiredFlows`, `DeleteFlow`, `readEvents`, `Close` |
| capture source | `collector/internal/capture/ebpf.go` | `previous`, the last reading | `Drain` |
| aggregator | `collector/internal/aggregator` | `bucketStart`, the ticker | `Run`, `flush` |
| exporter | `collector/internal/export/export.go` | credential, HTTP client | `Send` |
| collector start and stop | `collector/main.go` | process | load or enroll, run, exit on a signal |
| enrollment | `collector/internal/export/enroll.go`, `cp/internal/ingest/enroll.go` | credential file; table `agents` | `LoadCredential`, `Enroll`, `SaveCredential`; `handleEnroll` |
| ingest | `cp/internal/ingest/ingest.go` | one goroutine per request | `handleIngest` |
| geo enrichment | `cp/internal/geoip` | LRU cache | `Enrich` |
| recent flows | `cp/internal/recent` | array, indices, RWMutex | `Push`, `Snapshot` |
| store | `cp/internal/store` | PostgreSQL: `flows`, `agents`, `user_auth` | inserts and queries |
| sessions | `cp/internal/api/auth.go`, `session.go`, `argon2id.go` | `user_auth` row | `Login`, `Logout`, `WithAuth`, `CreateUser`, `Me` |
| geo views | `cp/internal/api/api.go` | none of their own | `RealTimeGeoView`, `GeoViewByWindow` |

`cp/main.go` and `cp/internal/api/sse.go` are empty: the handlers exist and
nothing starts them yet. The models take each handler as what it is written to
be, a goroutine per request.

What is hard about it, and what makes each component correct:

* **Kernel program.** It runs on all CPUs at once, increments through pointers
  into a shared map without atomics, and meets full maps. Counts must never be
  invented, and those of a flow that one CPU takes must be exact whatever the
  others do; a round trip is measured once and from the first SYN.
* **Drain.** It reads entry by entry while the counters move, may fail half-way,
  and turns cumulative counters into differences. What it hands on must add up
  and count nothing twice, also when flows are deleted and return.
* **Aggregator, exporter, ingest.** Requests and answers get lost; a client that
  gives up leaves a handler running; ticks wait during slow sends; a signal ends
  the process in mid-flush. Traffic must be reported at most once, none may be
  skipped while the collector runs, buckets must tile the time.
* **Enrollment.** Crashes between the insert, the answer, the truncation and the
  write. A collector must never run under a credential nobody knows.
* **Recent flows.** Writers overwrite what readers copy. A view must be the
  latest records of one moment.
* **Monitor.** A start that fails half-way must give back what it holds. Nobody
  receives from the event channel, and `Close` runs beside its sender.
* **Geo enrichment and views.** Handlers share a cache between their misses and
  their additions; a windowed view puts three queries of a growing table
  together. Records must lie at their own place, and the parts of one answer
  must fit each other.
* **Sessions.** One row per account and no transaction around the statements of
  a request: logins race logins and logouts, answers get lost, accounts are
  switched off in between. A session that ended must stay ended, and nobody but
  its user may begin or end one.
* **Password hashes.** What is written must be what is read.

`PROJECT.json` lists these hazards line by line with the properties that cover
them, and says of the uncovered ones why.

## Modules

| module | models | runs |
|---|---|---|
| `RingBuffer` | the recent flows buffer | `ring_buffer` |
| `RecentFlows` | what that buffer promises: an atomic store of the last records | (refined by `RingBuffer`) |
| `RingBufferProofs` | theorems about `RingBuffer` | |
| `TcMonitor` | the kernel program | `tc_monitor` |
| `TcMonitorProofs` | theorems about `TcMonitor`, for any steering of flows to CPUs | |
| `FlowDrain` | `TcMonitor` with the drain of its map | two findings |
| `FlowExpiry` | `FlowDrain` with deletions | `flow_expiry` |
| `FlowDrainProofs` | theorems about `FlowDrain` and `FlowExpiry` | |
| `EventReader` | `NewMonitor`, `readEvents` and `Close` | `event_reader` |
| `EventReaderProofs` | theorems about `EventReader` | |
| `Pipeline` | aggregator, exporter, ingest handlers | `pipeline` |
| `PipelineProofs` | theorems about `Pipeline` | |
| `Enrollment` | credential file and `handleEnroll` | `enrollment` |
| `EnrollmentProofs` | theorems about `Enrollment` | |
| `GeoView` | enrichment, the flows table and the geo views, over `RecentFlows` | `geo_view` |
| `GeoViewProofs` | theorems about `GeoView` | |
| `PasswordHash` | encoding, parsing and verification of password hashes (pure) | one finding |
| `Sessions` | the handlers of `auth.go` over `user_auth` | `sessions`, one finding |
| `SessionsProofs` | theorems about `Sessions` | |
| `MC...` | constants for TLC, symmetry of map elements, requests and the like | |

Every model keeps the order of the code's steps at the granularity at which
others can interfere, and abstracts data to what the properties read. `map` in
`PROJECT.json` gives the lines of every definition. Operators named after a
mistake (`NextHeadUnwrapped`, `BaselineKept`, ...) are never used by a
behaviour; they are what one of the following operators would be with a
plausible bug, and serve to see that the properties notice.

### RingBuffer

Fields keep their names; `log` is the history of everything written. A call of
`Push` is `Push` (call), `Announce` and `Lock`, `WriteRecord` per record,
`Unlock`; `Snapshot` is `Snapshot`, `RLock`, `CopyElement` per element,
`RUnlock`. The lock is the condition of `Lock`/`RLock`, so a wrong lock would let
the loops overlap. `sync.RWMutex` takes a writer in two stages: it excludes other
writers and holds back new readers (`Announce`), then waits for the readers that
are inside (`Lock`). Without the first stage two viewers could keep a writer out
for ever.
`tail` is unbounded as in the code (a Go `int` of 64 bits does not overflow in
practice).

### TcMonitor

Every access to shared memory is a step: lookup, insertion, event, the load and
the store of each increment, the handshake lookup and deletion. Elements of
`flow_map` (`Slots`) are apart from keys because a deleted element of a
preallocated BPF map is reused while a CPU may still hold its pointer. UDP and
ICMP run the same steps as TCP without the flag tests. One step each are the
pair `latency_sum`/`latency_count` (nobody reads one against the other) and the
state store with the following handshake deletion. Events carry what userspace
gets. `Steer` says which CPUs take the frames of a key: hashing receive queues
send a flow to one of them, and nothing in the code asks for it, so that it is
any function from keys to sets of CPUs. `Alone` are the keys of one CPU, `Joined`
the flows whose two directions are on one. `U64`, `U32` and `NsPerUs` are constants, so that wrap-around happens at
small values. Non-IPv4, truncated and other frames touch no map and do not
occur in the model.

### FlowDrain and FlowExpiry

`FlowDrain` adds to `TcMonitor` the iteration of `GetAllFlows` (`BeginDrain`,
`Visit` per entry, `EntryFails`) and the computation of `Drain` (`FinishDrain`,
which touches nothing shared). Copying one entry out of the map is one step.
The runs that are expected to pass give the C and Go value types one size;
`entries_decode` gives them the sizes they are declared with, and fails: with
those, every drain fails as soon as a flow exists, and everything downstream of
the source gets nothing. `FlowExpiry` adds `CleanExpiredFlows` and `DeleteFlow`,
which nothing calls, and is apart for that reason: its behaviours without a
deletion are those of the deployed collector, so what its run shows holds of
both. Only deletions can send the iterator of a drain back to the start, so only
there it may give up (`IterationAborts`). `deleted` remembers the flows that
were ever removed: for the others differences add up to the counters and the
drains catch up.

### EventReader

`open` is what is held and not closed. `NewMonitor` acquires in the order of the
code, any step may fail, and `Released` is what a failing step closes before it
returns. The kernel program runs from the moment it is linked, before there is a
reader. Events are numbers in submission order, and `dropped` remembers those
that found the ring or the channel full. A read that fails is tried again
(`ReadFails`), any number of times. An event shorter than the struct, which
`readEvents` would skip, never comes: the program reserves the whole. `Close` closes in its order, by
several callers; closing a channel twice or sending on a closed one panics, and
a panic stops the process.

### Pipeline

Units of traffic are numbered per flow, so a batch is, per flow, an interval
`from .. upto` of units, and time is counted in ticks. `Drain` is one step here:
`FlowDrain` shows that its differences add up although it reads piecemeal.
`ReceiveTick`/`ReceiveDone` are the two cases of the `select`, `DrainFails` and
`DrainAndPost` the two outcomes of the drain, `Answered` and `GiveUp` the ways
`Send` returns. `Signal` and `Exit` are `main`: it does not wait for the
aggregator. Each batch has a handler (`Verify`, `Push`, `Insert`) that runs to
its end whether or not its client waits. The credential is in order, as
`Enrollment` shows; the answers 401, 400 and 500 for other reasons are the
failing branch of `Verify`, and mean the same to the collector. Enrichment
changes no count. `InsertOutcomes` says which commit results go with which
status.

### Enrollment

A credential is the number of the request that made it. The file is absent,
torn (truncated, not decodable) or holds a credential; `disk` is what has been
written back of it, since the code never syncs. Collector crashes, host crashes
and handlers whose client gave up happen at every step. A collector that cannot
decode the file stops, and stays stopped: this is modelled, and no property
denies it. A host crash that takes the file resets the history of identities
(`ran`): the collector then legitimately enrolls as another agent.

### GeoView

A post with a valid credential (`Post`) is enriched record by record. A hit is
one step; after a miss (`Get`) and before the addition (`Add`) other handlers may
run. `cache` lists the entries by recency, as the LRU library keeps them, and
evicts at `CacheSize`. Then `Push` puts the batch into the buffer, through the
action `Add` of `RecentFlows`, which `RingBuffer` is shown to implement; and
`InsertBatch` commits it or not, in either case with either answer.
`RealTimeGeoView` is one step, for it computes everything from one snapshot;
sorting may leave equal flows in any order (`Ranked`). `GeoViewByWindow` fixes
the start of its window and then queries three times, a step each; its `End` is
told to the client and used by no query. The database of places is a constant
function; `Nowhere` is the place of addresses it does not know. The order of
points, by timestamp, and bytes, which are summed wherever packets are, are left
out, and so are requests refused before they read anything.

### PasswordHash and Sessions

`PasswordHash` works on the parts of an encoded hash between its `$`. A part is
a sequence of tokens, so that "the base64 text of the salt, and a comma" is
something the parser does not decode. `WellFormed` is what the parser takes,
`Formatted` what `HashPass` makes.

In `Sessions` every SQL statement is a step, and so is the arrival of an answer
at its browser. `Login` up to its token reads only the lookup, so that it is one
step; `SetUserSession` follows, with the `WHERE is_active` of its statement, and
`SetCookie`, or nothing if the answer is lost. A request behind `WithAuth` leaves
the browser with the cookie it has then (`AskMe`, `AskLogout`, `AskCreateUser`),
`GetUserBySession` looks the session up, and `Me`, `Logout` and `CreateUser` act
on the account and role that were found, which other requests may have changed.
A statement may commit and its answer be lost. `SetActive` is the operator:
nothing in `src/` changes `is_active`. `src/` does not define the table either,
and its statements do not fit each other: what one calls `session_expiration` the
others call `session_expires`, and `CreateUser` inserts the integer `1` for an
`is_active` that is compared with `true` elsewhere. `OneColumn` and `OneIsTrue`
say whether the table makes up for it (by a generated column, say, and a cast).
The run `sessions` gives them TRUE, to check what the statements are written to
do; `session_found` gives them FALSE, and shows that the lookup then finds
nothing; the theorems hold for either. `logins` and `ended` are history: what
each token was made for, and which ones were a session that has ended.

## Runs

Sizes are chosen for the interesting cases to happen, and no larger.

| run | instance | shows |
|---|---|---|
| `ring_buffer` | 2 pushers, 2 viewers, capacity 2, 4 records, batches of 0, 1 and 3 | types, `SnapshotIsWindow`, refinement of `RecentFlows`, every call returns; a batch exceeds the capacity and the buffer wraps twice |
| `tc_monitor` | 2 CPUs, 5 frames out of SYN, SYN-ACK, ACK, FIN-ACK on one of them and of a query on both, room for 2 of the 3 flows, 1 handshake, ring of 1 | no counter exceeds the frames handled, and those of the steered flow are exact; one sample per SYN, from the first SYN, never wrapped; events follow insertions |
| `flow_expiry` | 1 CPU, 2 frames of a flow of the host and a transit flow, 2 elements, 2 clock values, deletions and failing reads anywhere | nothing is handed on twice, also when elements are reused; differences telescope across interleaved and failed drains; everything is handed on in the end |
| `event_reader` | ring and channel of 2, 5 events, 2 calls of `Close`, a start that fails anywhere, reads that fail | nothing left open, order, nothing lost but to a full ring or channel, no lasting back-pressure, the goroutine ends |
| `pipeline` | 3 ticks, 2 units, 2 batches, 2 runs of the collector | at most once, nothing skipped, buckets tile, order; ticks are served whatever the control plane does |
| `enrollment` | 2 hosts, 3 collectors, 3 requests | identity properties under crashes |
| `geo_view` | 2 posts out of 4 (one of three records with a repeated address, one empty), 3 addresses, a cache of 2, a buffer of 3, 1 viewer, top lists of 1 and 2 | the cache shows through nowhere; the three parts of a window fit each other and show what was committed; top lists lead |
| `sessions` | 2 browsers, 2 requests at a time, 3 logins and 2 other requests, an administrator, an account that is switched off and on and one that is created, sessions of one tick | ended sessions stay ended; passwords, activity and ownership behind every session; accounts are kept |

Two handlers and a cache of two are enough for an address to be missed by both,
added twice, evicted and looked up again; one viewer is enough because viewers
only read. Two requests at a time are every pair of handlers racing on one row;
three logins give an account two sessions that replace each other and another
account its own. Two frames and a deletion are a flow that is read, grows and is
read again, and one that is deleted and returns. `flow_expiry` has an element
for each flow: once the map is full, further flows are not counted at all, so
nothing can be said of handing them on. In `tc_monitor` the map fills up with
the second flow: two CPUs can miss and insert one flow while it has room, and
the third flow finds it full.

Deadlock checking is off where the bounds (frames, events, batches, requests,
the clock) or a panic end the behaviour; it is on for the ring buffer, where
someone can always continue. The runs with liveness properties use no symmetry.

`CountsExact` is about flows that one CPU takes, `SampledOnceFromFirstSyn` and
`LatencyWithinUptime` about those of which it takes both directions: the code has
no other protection, and steering of receive queues is what gives it that one.
`flow_expiry` has one CPU, and so have the claims about counts beside deletions
(`DeltasTelescope`, `NoDoubleCount`): with several a CPU may write through a
pointer into an element that belongs to another flow by then. `counter_reset`
shows what breaks when two CPUs count one flow.

### Disagreements found

Each run below is expected to end in a violation of one property that states
what a comment says.

| run | says | does |
|---|---|---|
| `counter_reset` | `capture/ebpf.go:56` a lower counter is a reset | a stale store of another CPU lowers it, and the whole counter is exported again |
| `entries_decode` | `ebpf.go:33` the Go type matches the C struct | 44 against 50 bytes |
| `hashes_parse` | `argon2id.go:75` the fourth part of a hash is "salt base64" | `HashPass` writes a comma after it (`argon2id.go:44`), which the decoder rejects: no account made by `CreateUser` can log in |
| `session_found` | `auth.go:232` `WithAuth` verifies the session cookie and gives new context | the lookup asks for `session_expiration` (`users.go:106`), the statements write `session_expires` (`users.go:77`, `90`): no cookie is ever accepted |

Smaller ones are in the models, or were met while writing them, without a run of
their own:

* `types.go:43` says that a connection event is sent when a connection is
  established; the kernel program sends it for the first frame of a flow, a SYN
  included, in state `NEW` (`InitialState`).
* `tc-monitor.c:173` and `208` say that SYN and SYN-ACK are tracked for measuring
  round trips. A SYN-ACK that is the first frame of its flow, as in a normal
  handshake, is not looked at: nothing is measured until it is sent again, and
  the entry of its SYN stays. `SampledOnceFromFirstSyn` and `LatencyWithinUptime`
  say what the samples there are must be, and nothing of how many there are.
* `ebpf.go:71` says that the program is attached to egress; ingress is tried
  first, and egress only when that fails.
* `ebpf.go:227` says that `CleanExpiredFlows` removes flows without traffic; it
  removes what its scan found, traffic that came since included (`Scan`,
  `DeleteExpired`).
* `ebpf.go:288` closes the event channel while `readEvents` may be sending, and
  a second `Close` panics (`CloseEndsReader` admits both).
* `GetMapStats` reads the values of `handshake_map` as flow statistics.
* `users.go:65` inserts the integer `1` into `is_active`, which `users.go:78` and
  `107` compare with `true`; PostgreSQL casts the one to the other only when told
  to (`OneIsTrue`). `users.go:49` looks a UUID up as a username; `auth.go:41` names
  the username `string` in JSON.
* A login whose account is deactivated after the lookup is answered 204 with a
  cookie that leads nowhere, and an account that is activated again gets its
  session back, since nothing clears it (`SetUserSession`, `SetActive`).
* The top list of the moment ranks single flows, that of a window the flows of an
  address and direction together; the window of the moment is the timestamps of
  the first and the last record pushed, which need not be in order.

## Fairness

* `RingBuffer`: Go runs runnable goroutines, so steps under a lock are weakly
  fair, and so is `Lock`, behind which no new reader gets in. `Announce` and
  `RLock` are strongly fair: the writers' mutex is handed on in the end, and
  `Unlock` admits the readers that waited. Nobody has to call anything.
* `FlowExpiry`: a CPU finishes its frame, the ticker keeps draining, a drain runs
  to its end (weak fairness). System calls may fail any number of times but not
  for ever (`<>[][~EntryFails]_vars`): an assumption about the kernel, without
  which nothing need ever be handed on. Frames need not arrive, and nothing need be
  deleted.
* `EventReader`: `NewMonitor`, `readEvents` and a `Close` that was begun are
  scheduled; nobody need receive or close. Reads of the ring may fail any number
  of times; `RingDoesNotStayFull` alone supposes that they do not fail for ever
  (`<>[][~ReadFails]_vars`), for otherwise nothing leaves the ring. A `Close` ends
  the goroutine all the same, since it looks at `stopChan` before every read.
* `Pipeline`: the aggregator's goroutine is scheduled, the HTTP client's
  ten-second timeout expires, a process told to stop ends. Nothing is assumed of
  the network or the control plane.

`GeoView` and `Sessions` have safety properties only: their handlers wait for
nothing but the database, and each of them simply ends.

## Proofs

`tlapm` checks every leaf of the following, for every value of the constants:
any number of flows, CPUs, collectors, handlers, batches, accounts, browsers and
steps.

| module | theorems | strengthening |
|---|---|---|
| `RingBufferProofs` | `TypeOK`, `SnapshotIsWindow`, `ImplementsRecentFlows` | `Counters`, `ArrayIsWindow`, `LocksExclude`, `CopiesArePrefixes`, `WaitingIsWhole` |
| `TcMonitorProofs` | `TypeOK`, `NoOvercount`, `EventsFollowInsertion` | `Held`, `Injective`, `LoadedBelow`, `Announced` |
| | `CountsExact`, `SampledOnceFromFirstSyn`, `LatencyWithinUptime` | `Missed`, `LoadedExact`, `Uncounted`; `SynWaits`, `SamplesWithin`, `SamplesBehind`, `SynPending`; `SynsPast`, `SampleSmall` |
| `FlowDrainProofs` | without deletions: `DrainTypeOK`; given `FlowsSteered`: `NoDoubleCount`, `LowerReadingMeansReset` | `IterationRight`, `ReadAgain`, `ReadingsGrow`, `Telescoped` |
| | with deletions: `DrainTypeOK`; given `OneCpu`: `DeltasTelescope`, `NoDoubleCount` | `IterationShape`, `LoadedCurrent`, `StillHeld`, `KeptReadingsGrow`, `Accounted` |
| `PipelineProofs` | `TypeOK`, `AtMostOnce`, `NoTrafficSkipped`, `BucketsTile`, `OutOfOrderOnlyIfGivenUp`, `AcceptedIsShown` | `Intervals`, `Clocks`, `Handled`, `Sending` |
| `EnrollmentProofs` | `TypeOK`, `CredentialsAreKnown`, `NoSharedIdentity`, `StableIdentity`, `RunningIsSaved` | `Known`, `OneHolder`, `LoneFiles` |
| `EventReaderProofs` | `TypeOK`, `EventsInOrder`, `NothingLeftOpen` | `StartRight`, `CloseRight`, `OrderInv`, `NoneLost` |
| `SessionsProofs` | `TypeOK`, `SessionsNeedPassword`, `EndedSessionsStayEnded`, `OthersCannotEndSession`, `AccountsAreKept` | `RowRight`, `LoginRight`, `SeedRight`, `RequestRight`, `FreshRight` |
| `GeoViewProofs` | `TypeOK`, `EnrichmentIsTransparent`, `CommittedIsShown`, `PartsAgree` | `PlacesKnown`, `AnswersExplained` |

Each module defines an inductive invariant (`IInv`, or a name of its own where
there is more than one), proves that the initial states satisfy it and that
every step keeps it (one step of the proof per action), and draws the theorems
from it. None of the properties is inductive by itself:

* A viewer that copies the next element says nothing about it unless one knows
  what the array holds (`ArrayIsWindow`, which needs head, tail and size to
  follow from the number of records: `Counters`), and that what was copied
  before is still the current window (`CopiesArePrefixes`), because no writer
  is inside (`LocksExclude`). The arithmetic modulo the capacity is in lemmas.
* The buffer implements the atomic one. A batch takes effect there when its
  `Push` gets the lock (`LockAdds`, for which it must still be whole:
  `WaitingIsWhole`), and a snapshot when its viewer leaves it. In between, what
  is written and what the lock holder has still to write are together one
  sequence, which does not change as records go from one to the other; and
  forgetting the old records early, as the ring does, leaves the same last ones
  as forgetting them late (`LastOfConcat`).
* A store puts into a counter what was loaded earlier plus one. It stays below
  the tally because the loaded value was (`LoadedBelow`, and tallies only
  grow), and because the pointer still is the element of the frame's flow
  (`Held`) and of no other (`Injective`). Both hold of the kernel program
  alone, which removes no flow; `FlowExpiry` shows what deletions do. An event
  is sent after the insertion was tried, and `Announced` remembers how it went.
* A CPU that has a flow to itself (`Steered`: the frame a CPU has is one of its
  own) loaded what the flow has handled (`LoadedExact`), the flow a lookup of it
  missed is still missing at its insertion (`Missed`), and one that is not in the
  map has handled nothing or the map is full for good (`Uncounted`): the counters
  are exact, whatever other CPUs insert and count in between. A sample needs a SYN that waits (`SynWaits`), of which
  there are no more than were tracked (`SamplesWithin`); its frame is counted
  already (`SamplesBehind`); and a waiting SYN is older than the frame that
  meets it (`SynsPast`), so that the unsigned difference does not wrap.
* The drain only reads, so its behaviours are behaviours of the kernel program
  (`ProgramUndisturbed`) and what is proved of that holds beside it. A reading
  lies between the one before and the tallies (`ReadingsGrow`), a flow that was
  read is read again (`ReadAgain`), and so what was handed on is the last reading
  (`Telescoped`). This is the deployed collector.
* With deletions a pointer may be that of an element which is nobody's any more,
  though with one CPU of no other flow (`StillHeld`), and what was loaded is
  still what is there (`LoadedCurrent`). Readings of a flow that was never
  deleted grow as before (`KeptReadingsGrow`). One that was deleted comes back
  with a counter from zero, and the next drain may take that for growth or for
  a reset. `Accounted` covers both: either all that was handed on had been
  counted before the present element, or the present counter went on from the
  last reading, which is then all of this element that was handed on. The same
  must hold of the reading a drain has taken and not yet compared (`WillFit`),
  since flows may go and return between its reading and its end.
* The next batch reports from the source's baseline, which no batch reaches
  past (`Intervals`). That buckets tile although ticks wait needs the order of
  bucket, flush, tick and clock (`Clocks`). What is shown and stored follows
  the place of every handler (`Handled`), and that only a last batch is waited
  for (`Sending`) shows that whoever comes late was given up on.
* A credential passes through an answer, a collector's memory, the file and the
  disk, from which a crash may bring it back. All these places hold credentials
  of the table (`Known`), and of one host per credential (`OneHolder`). A
  collector with its host to itself can tell the file's content at each of its
  steps (`LoneFiles`).
* That a failed start leaves nothing open needs what each stage of `NewMonitor`
  holds (`StartRight`); that a finished `Close` does, that whatever a `Close` has
  passed is closed and stays so, because nothing is opened any more
  (`CloseRight`). Events are in order because they are in every place they pass,
  and every place comes before the next (`OrderInv`); none is lost because each
  step takes it from one place to the next, or drops it (`NoneLost`).
* Whether a session is the right one is known by three parties: the row
  (`RowRight` ties its token to a login of that account and to its expiry), the
  history of logins (`LoginRight`, `SeedRight`: a login matched the hash of its
  account, which only its password does) and the requests (`RequestRight`: a
  request that is past `WithAuth` runs as the account its token was made for).
  A session that ended does not return because each token is stored at most once:
  one that is about to be stored has never been, and no other request stores it
  (`FreshRight`). The action properties about rows then follow from one lemma on
  who writes them (`RowWritten`).
* Whatever handlers evict and add between each other's misses and additions,
  the cache holds, and every record on its way carries, the place the database
  has for its address (`PlacesKnown`).
* Each part of an answer was computed from a prefix of the table: rows are only
  added at its end. The prefix is no shorter than the table was when the request
  came, and does not shrink from one query to the next (`AnswersExplained`). The
  rest is about sums and rankings, for every table. `SumFunction` adds in an
  order of the library's choosing; that the order does not matter, and that sums
  grow with their set, split over two sets and over groups (`SumStep`,
  `SumMonotone`, `SumUnion`, `SumOfGroups`), is proved first. It is an induction
  over finite sets, made out of the fact that a set of naturals has a least
  member (`LeastNumber`, `SubsetInduction`). A point that is missing from a top
  list was outranked when the list was made (`RankedProperties`,
  `PartsOfPrefixes`).

Assumptions, all of them named in the modules that declare the constants, and
evaluated by TLC in the runs: `CapacityAssumption`, `BatchAssumption`
(`RingBuffer`); `PacketsAssumption`, `SentinelAssumption`, `FiniteAssumption`,
`WidthAssumption`, `SteerAssumption` (`TcMonitor`); `FlowsAssumption` (`Pipeline`); `HostAssumption`
(`Enrollment`); `SizeAssumption` (`EventReader`); `NamesAssumption`,
`PasswordAssumption`, `NewUsersAssumption`, `BoundsAssumption`,
`SchemaAssumption` (`Sessions`);
`SizeAssumption`, `AskedAssumption`, `PostsAssumption` (`GeoView`). They say that
capacities are positive, sets finite, records of their types and timeouts
numbers. `FlowsSteered` (each flow goes to one CPU) and `OneCpu` (there are no
two) are hypotheses of single theorems, not assumptions: the modules are about
any number of CPUs and any steering. `OneCpu` is only for theorems beside
deletions.
The bounds of the runs (`MaxPackets`, `MaxClock`, `MaxBatches`, ...) are
arbitrary numbers in the proofs.

With these, every safety property that a passing run checks is also proved.
Model-checked only are the liveness properties (`CallsReturn`, `CatchesUp`,
`TicksAreServed`, `RingDoesNotStayFull`, `CloseEndsReader`), for liveness and
`ENABLED` are beyond this prover. So are the induction theorems of its library,
which take an operator; where an induction over data is needed, for the sums of
`GeoView`, it is made from a least counterexample instead. `PasswordHash` is
pure and has a run that fails by design, and no theorem.

## Not modelled

* Generated bindings and the loader, which open and close an object file;
  `cp/main.go` and `sse.go`, which are empty.
* `GetMapStats` and `LookupByUUID`: they change nothing and nothing calls them.
* Strength of passwords, tokens and hashes: tokens are distinct, hashes
  injective.
* A crash of the control plane is a handler that stops for good (no step is
  forced); its loss of the recent flows, which are memory, is not modelled.
* The database is its committed effects; `pgx`, `cilium/ebpf`, the kernel's maps
  and `sync.RWMutex` are modelled from how the code uses them and marked
  external in `map`.

## Plan

Done, in this order: ring buffer and its proofs; kernel program; drain and
expiry; pipeline; enrollment; event reader; proofs about kernel program, pipeline
and enrollment; geo enrichment and views; password hashes and sessions; proofs
about sessions, the monitor's start, events and close, and, for flows that are
steered, about the kernel program's counters and latencies and about the drain; proofs that the ring buffer implements `RecentFlows`, about
drains beside deletions, and about enrichment and the geo views.

Next:

1. An abstract specification of at-most-once reporting that `Pipeline` is proved
   to refine.
2. `Pipeline` over `RecentFlows` in place of its sequence `recent`.
