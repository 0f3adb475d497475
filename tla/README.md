# EqualInk: TLA+ models, model checking and proofs

EqualInk is a Go server for collaborative documents.  Browsers send Yjs diffs
over WebSockets; the server relays each diff to the other people in the
document, appends it to an update log in Postgres, counts it for analytics, and
merges the log into the stored document in the background.

This directory models the parts of the server that have behaviour over time:
the connection hub and who may read it, the update log and its compactor, what
a joining browser gets from both, the contribution counters and the report made
of them, task assignment, and the bridge between several servers.  Paths below are relative to `src/`.

## 1. The system

The repository does not build as it is: `auth`, `api.NewServer`,
`appSync.Session`, `Validator`, `task.Service`, `Hub.OnlineUsers`,
`Tracker.ForceFlush`, `Store.GetContributions` and a few more are used and not
defined, and `document.StartCompactor` is defined twice.  What is missing is
modelled from its calls and comments and marked external; of the two
compactors the one with a body (`document/store.go:191`) is modelled.

| Component | State | Operations | Hard parts |
|---|---|---|---|
| Hub (`hub/hub.go`, `hub/client.go`) | `clients` map by user, three channels, one `Send` channel per connection | `Run`: register, unregister, broadcast, evict slow consumers; `OnlineInDoc` | select order, channels closed twice or sent on after close, full buffers, the map read by other goroutines |
| Connections (`api/ws_handler.go`, `ws/*.go`) | two goroutines and a socket each | upgrade, join, read, clean up; write, ping | goroutines that end in any order, blocking sends, ignored errors |
| Sync handler (`sync/handler.go`) | none of its own | `HandleUpdate`, `OnJoin`, `AssignTask` | a diff takes two roads, and either may be slow or lose it |
| Document store (`document/store.go`, `model.go`) | `updates` and `documents` tables | `AppendUpdate`, `LoadBlob`, `SnapshotState`, `StartCompactor` | READ COMMITTED transactions, two compactors, crashes |
| Tracker (`analytics/tracker.go`) | `buffer`, the flusher's snapshot | `Record`, `RecordActiveTime`, flush, `GetSnapshot` | the map swap against writers and readers |
| Report (`analytics/report.go`, `api/rest_handler.go:141`, `:200`) | none | two reads, merge, sort | reads at different times; index bounds |
| Shutdown (`cmd/server.go`) | its progress | HTTP shutdown, final flush, close pool | what outlives the HTTP server |
| Tasks (`sync/handler.go:110`, `document/store.go:137`, `model.go:142`, `config/db.go:64`) | `tasks` table, the connection pool | create with permission hook, reload, tell | check, then insert; ignored errors; a bounded pool; lost answers |
| Pub/sub (`pubsub/redis.go`) | subscription | publish, relay | echo to the publisher, loss, repeated and late publishes |
| Auth, the rest of config, PDF pages, tests | | | not modelled, see section 8 |

How they interact.  A `ReadPump` calls `HandleUpdate`, which starts an
`AppendUpdate` goroutine (Store), offers a message to `Hub.Broadcast` (Hub) and
calls `Tracker.Record` (Tracker).  `Hub.Run` alone reads the three channels and
writes to the clients' `Send` channels, which the `WritePump`s drain.
`GetAnalytics` reads the contributions table, the tracker's buffer and the
hub's map.  The hub and the log share no variable but meet in a joining
browser, which `Sync` models on top of `Hub`; the counters, the tasks and the
bridge touch the others only through messages that their modules carry.

What makes each correct: the hub neither panics nor cuts somebody off, and
delivers each author's diffs in order, at most once and only within the
document; the log's marks and the blob agree and blobs only grow; a
browser lacks a diff only for a reason that can be named; edits are counted
once; the report shows no more than was done, and is sorted; tasks go to people with access and
answers about them are true; a bridged diff arrives in order and a bounded
number of times.

## 2. Modules

| Module | Models |
|---|---|
| `Room` | abstract: best-effort, at-most-once, per-source ordered delivery within a document |
| `Hub` | hub, clients, handler and writer goroutines, sockets |
| `MCHub` | instances for TLC, liveness, a documented claim about the hub |
| `HubProofs` | proofs about `Hub` |
| `UpdateLog` | abstract: pending updates move to the end of the document, each once, atomically |
| `Store` | update rows, blobs, `SnapshotState` statement by statement, compactors, crashes |
| `MCStore`, `StoreProofs` | instances, liveness, a documented claim; proofs |
| `Sync` | `HandleUpdate` and `OnJoin` on top of `Hub` and `UpdateLog` |
| `MCSync`, `SyncProofs` | instance; proofs, on top of `HubProofs` |
| `Presence` | `OnlineInDoc` ranging over the map while `Run` changes it |
| `MCPresence`, `PresenceProofs` | instances, a documented claim; proofs |
| `Tracker` | counters, flusher, table, analytics and export requests, shutdown, restart |
| `MCTracker`, `TrackerProofs` | instance, liveness; proofs |
| `Report` | `MergeWithLive`: the exchange sort, one step per loop iteration, on every result of the merge |
| `MCReport`, `ReportProofs` | instance; proofs |
| `Tasks` | `AssignTask`, `CreateTask`, `BeforeCreate`, the pool, failures |
| `MCTasks`, `TasksProofs` | instances, a documented claim; proofs |
| `PubSub` | several servers, `Publish`, `Subscribe`, Redis between them |
| `MCPubSub`, `PubSubProofs` | instance; proofs |

Operators named "Mutant of ..." are variants of the action above or below them
with a plausible mistake; each shows that a property can fail.

### Hub

Channels are sequences with a capacity (`RegisterCap` and so on: 64, 64, 512
and 256 in the code, parameters here).  A connection is an element of `Conn`
with a fixed user and document; a second tab or a reconnect is another element
with the same user.  `handler[c]` follows the HTTP goroutine: `new` (not
upgraded), `joining` (registered, before `OnJoin`), `reading` (ReadPump),
`leaving` and `closing` (the two halves of its deferred cleanup), `done`, and
`leaked` (see below).  `writer[c]` follows the WritePump.  One action per step
that touches something shared:

| Action | Code |
|---|---|
| `HubRegister`, `HubUnregister`, `HubBroadcast` | the three cases of `Run`, `hub.go:62-108`; select takes any ready one |
| `Upgrade`, `OnJoin` | `ws_handler.go:70-95` |
| `ReadFrame`, `ReadError`, `SendUnregister`, `CloseConn` | `read_pump.go:41-82` with `HandleUpdate` |
| `WriteFrame`, `WriterReturns` | `write_pump.go:19-34` |
| `AssignTask` | `handler.go:110-147`, from the stored task on |
| `Disconnect` | the browser or the network |

One broadcast pass over the map is one step: only the hub closes or fills these
channels meanwhile, and writers only drain them.  A frame that arrived before a
socket broke may still be read.  A send on a closed channel in `OnJoin`
panics, `net/http` recovers it, and the handler is gone before its cleanup
exists: `leaked`.  A panic on the hub goroutine ends the process: `panicked`
disables everything.  Payloads are pairs of a source and a number; contents are
opaque to the server.

`overlapped` is a history variable: it becomes true when a user's connection
is upgraded while the server still holds an earlier one of that user.

### Store

`row[u]` is the life of one update: not arrived, being inserted, lost, pending,
compacted.  `stamp` ranks `created_at`, taken when the goroutine runs.  Blobs
are sequences of updates, as `SnapshotState` concatenates payloads.  A
compactor is `idle` between ticks, in a `pass` over `todo`, or inside a
transaction: `blobRead`, `batched`, `written`.  Postgres runs it at READ
COMMITTED, the default that nothing overrides: each statement reads what is
committed, the UPDATE of the document holds the row lock until commit, and
nothing of the transaction is visible before.  `Abort` is any failing
statement, `Crash` the death and restart of a server.  `Broken` holds documents
that exist for the update log and not for `First(&doc)`, the soft-deleted ones.

### Sync

`Sync` EXTENDS `Hub` and uses its actions unchanged: `Accept` is `Upgrade`,
`FinishJoin` is `OnJoin`, `Handle` is `ReadFrame`, `Route` is `HubBroadcast`,
and `Rest` is what remains.  It adds the log as an instance of `UpdateLog`, the
specification that `Store` is shown to implement: `Persist` is the insert that
`HandleUpdate` started in a goroutine, at any later time or never, `Compact` a
committed compaction.  `LoadBlob` is the query inside `OnJoin`; the send that
follows is `FinishJoin`, and everything else may happen between.  If the query
fails nothing is sent.  `before`, `missed` and `dropped` are history variables.

### Presence

A Go map write is several steps for an unsynchronised reader.  `Change` begins
one (the hub is in `writing`: the runtime has marked the map), `Delete` or
`MakeRoom` makes it visible, and for an insertion `StoreValue` stores the
client pointer, until when a reader finds a key with a nil pointer.  A
reconnect stores over an existing entry.  A call of `OnlineInDoc` takes a key
at a time: those present from beginning to end once (`must`), those inserted
meanwhile perhaps (`may`).  A range that meets a write throws, which ends the
process, or misses the mark, after which anything may come of the call
(`torn`: nothing is claimed of it).  A nil pointer panics and `net/http` aborts
the request (`aborted`).  That is the least one can say of a data race, and the
properties are about the calls that return.  The semantics of the map are the
Go runtime's, not this repository's, and are marked external.

### Tracker

The mutex makes every tracker method one step.  `snapshot` is the part of the
flusher's map that is not visited yet, so an empty one means the flusher waits
for its ticker.  `stored` is the table summed per user, what `GetContributions`
(not in the repository) is said to return.

Two functions write to it.  `SaveFn` is injected into the flusher by a program
that is not in the repository; `Columns` says which counters it stores, all of
them in the run, and the theorems hold for any.  `SaveContribution`
(`store.go:156-167`) is what the shutdown calls (`server.go:84`), and by its
comment what the flusher was meant to be given; it binds 0 and 0 and has no
active seconds, so it adds nothing to the table whatever it is given, which is
`Columns = {}` if the flusher is given it too.  Whether edits are lost is
therefore not asked of the table but of `saved`, a history variable: everything
a save was given and returned no error for.  Its steps do not depend on what the
save stores.

A request is `idle`, `asked` (its handler runs) or `read` (it has the table).
`ReadHistorical` is the table read of both requests.  `GetAnalytics` gives up
when it fails; `ExportPDF` (`rest_handler.go:200`) ignores the error and goes on
with no rows.  New requests come only while the server is up; those in progress
go on during the shutdown, which waits for them 15 s at most
(`server.go:71-76`), and find the pool closed after `CloseDB`.

`phase` follows `GracefulServer`.  Hijacked WebSocket connections are outside
`http.Server.Shutdown`, so `Record` and the flusher run until the exit.  When
the process ends, in order (`Exit`) or not (`Crash`), `Die` empties the buffer,
the flusher's snapshot and the final flush's map, and ends the requests; `Start`
is the next process.  Two history variables say why an edit may be missing:
`failed`, a save failed in the open database or the process crashed, and `late`,
the edits that were not in the buffer when a shutdown's `ForceFlush` took it,
because they were recorded afterwards or the flusher goroutine, for which
nobody waits, had them in its snapshot.

### Report

The merge (`report.go:56-83`) is not stepped: it is a function of its inputs,
`Merged`, and the initial states are all its results, for any rows, any counters
and any order of the Go map.  The steps are the iterations of the sort's two
loops (`report.go:86-94`).

### Tasks

`step[r]` follows the handler goroutine of a request through gorm's `Create`:
BEGIN, the hook's count, INSERT, COMMIT, then the reload and the event.  `pool`
is the set of requests that hold a database connection.  Two things are not
visible in the Go code and decide what happens.  Postgres refuses everything
after a failed statement until the transaction ends (`refused`), so a failing
count, which the hook ignores, still fails the request.  And `assignee_id` is a
`uuid`, of which `""` is no value: the count of an empty assignee fails, and so
does the INSERT of a task that the hook has just downgraded.  `Change` is the
other requests' adding and removing members, `Crash` the death of the process.
`access` and `unsure` are history variables.

### PubSub

Nothing in `src/` calls `Publish` or `Subscribe`; the model wires them as
`redis.go:58-66` and the data-flow chart say.  `HandleUpdate` is therefore two
named parts: `BroadcastLocally`, the broadcast of `handler.go:52-61`, and
`ThenPublish`, the call that the comment on `Publish` describes and `handler.go`
does not contain.  The insert and the count of `handler.go:50` and `:64` touch
neither a hub nor Redis; they are in `Sync` and `Tracker`.  After it the
ReadPump is inside `Publish`; an unanswered PUBLISH is repeated (go-redis does
that by default), and Redis may carry out the first one too, later.
`channel[s]` is what Redis has sent server `s`; `Relay` is an iteration of
`Subscribe`'s loop; `Lose` a subscription that was down, an overflowing client
buffer or a message that cannot be unmarshalled.

Each hub is reduced to its map, its queue and its fan-out.  `Register` and
`Unregister` are the two cases of `Run` (`hub.go:64-81`), with the map's key
being the user: a new connection replaces the user's former one on that server,
and an unregistration removes whichever connection of the user is in the map,
and may come before the registration.  `Route` evicts at any send.  The panic
that `hub_panic` shows is not repeated here.  A connection is `registered` from
the moment the hub takes it and `gone` from when the hub drops it.  `missed[c]`
is a history variable: what the hub routed before it knew `c`.

## 3. Runs

All passing runs are exhaustive for their instance.

| Run | Instance | Shows |
|---|---|---|
| `hub_tabs` | alice with a connection in each of two documents and one frame, bob posting a task event in one of them, all capacities 1, fairness | `TypeOK`, `HubDiscipline`, `PanicNeedsOverlap`, `NoDeafConnection`, `RefinesRoom`, `EveryConnectionEnds`, `QueuedIsDelivered` |
| `sync` | alice editing twice, bob joining, all capacities 1 | `SyncTypeOK`, `GapsAreExplained` |
| `store_one` | one server, two documents and a broken one, four updates, one failing transaction, one crash, fairness | `TypeOK`, `CompactedIsMerged`, `NeverMergedTwice`, `RefinesUpdateLog`, `BlobOnlyGrows`, `EveryUpdateMerged` |
| `tracker` | two users (two edits, one edit, one second of active time), one request, shutdowns, restarts, any number of crashes and failing saves, a flusher whose `SaveFn` stores what it is given, fairness | `TypeOK`, `EditsAccounted`, `ReportNeverOvercounts`, `EveryEditSaved` |
| `report_sort` | three users, up to three bytes in each source | `TypeOK`, `RanksFinal`, `SortedWhenDone`, `ListsEveryoneOnce` |
| `presence` | three users, two documents, one call, six changes of the map | `TypeOK`, `ListedIsBounded`, `CountedOnce`, `AbortNeedsChurn` |
| `tasks` | two requests for alice and one for nobody, a pool of two, bounded membership changes and failures, fairness | `TypeOK`, `AssigneeHadAccess`, `OnlyStoredTasksAreTold`, `AnswersAreTrue`, `EveryRequestAnswered` |
| `pubsub` | two servers, two diffs of alice, bob reading on her server and carol on the other, joining and leaving at any time, one unanswered PUBLISH | `TypeOK`, `OnlyToOthersOnTheDocument`, `CopiesAreBounded`, `BridgeKeepsOrder`, `EchoesComeSecond` |

The runs that TLC is meant to refute are in section 4.

What the properties say:

- `HubDiscipline`: as long as no user's connections overlap, a user has one
  live connection, each connection is at most once in a channel, and nothing
  closed is in the registry or on the way into it.
- `PanicNeedsOverlap`: only overlap makes the hub panic; eviction, full
  buffers and disconnections alone never do.
- `NoDeafConnection`: without overlap, a connection that is still read is
  registered, about to be, or being ended.
- `RefinesRoom`: what browsers receive is a behaviour of `Room`.  Each source
  sends one message in this instance, so it shows that delivery is within the
  document and at most once; order between several messages of one source is
  what the theorem adds (section 7).
- `EveryConnectionEnds`: whichever begins it, the hub closing the channel, the
  reader returning or the socket breaking, the end of a connection completes:
  both goroutines return and nothing of it is queued.  A `leaked` handler counts
  as ended: its goroutine is over, its socket is not closed.  The property names
  one exception, `Stuck`: the hub has filled `Send` while the handler is in
  `OnJoin` (`ws_handler.go:87`), which waits for a writer that is started after
  it, and the socket is gone.  That handler stays until another message for the
  connection evicts it, and if none comes, for ever.
- `QueuedIsDelivered`: a message the hub has taken in reaches every healthy
  connection it is meant for, or that connection is cut off.  What was dropped
  on the way into the hub is not in it.
- `GapsAreExplained`: while the server lives, a healthy browser has every diff
  of its document, in what it was sent on joining or live, with three exceptions:
  the diff found the `Broadcast` buffer full; it was routed before the hub
  registered the browser and not merged when it connected; or it was routed
  before that, and the query of `OnJoin` failed, after which the handler goes on
  without history (`ws_handler.go:87-89`).  Reading the document before
  registering would add another, and the mutant does.
- `CompactedIsMerged`: a row is marked exactly if its payload is in the blob of
  its own document.  `BlobOnlyGrows`: what one joiner was sent is a prefix of
  what later ones are sent.  `RefinesUpdateLog`: commits are the only visible
  steps.
- `NeverMergedTwice`: a payload gets into a blob once, whatever fails.  The run
  has one compactor; the theorem `NoDoubleMerge` is for any number of them,
  because the blob is read before the pending rows: whatever was committed to it
  before the first read is marked before the second, and a lost race loses
  updates instead, as `store_two` shows.
- `EveryUpdateMerged`: another document's errors do not stop the pass.
- `EditsAccounted`: no edit is given to a save twice, or given and still in
  memory; and each is given to one or in memory, unless a save failed, a process
  crashed, or a shutdown did not find it (`late`).  `EveryEditSaved`: with the
  same exceptions each is saved in the end, whatever requests are in progress.
  What is in `late` is lost by a shutdown in which nothing fails (section 4).
- `ReportNeverOvercounts`: a report shows at most what was done.  It is an upper
  bound and says nothing of what a report leaves out (section 4).
- `RanksFinal`: the loop invariant of the sort.
- `ListedIsBounded`: a call that returns names only people who were on the
  document at some moment of the call, and everybody who was all the time.
  `CountedOnce`: it counts nobody twice who did not leave and come back
  meanwhile.  `AbortNeedsChurn`: a request meets a nil client only if somebody
  came or went during it; replacing a connection by a newer one never shows a
  nil.  It is a map write all the same, and the range may throw over it
  (`presence_throw`).
- `AssigneeHadAccess`: a stored task that names an assignee names the one asked
  for, who had access at some moment of the request.  What becomes of the task
  of somebody without access is the subject of `tasks_unassigned`.  `OnlyStoredTasksAreTold`,
  `AnswersAreTrue`: the event and the answer agree with the table, except after
  a COMMIT whose answer was lost.  `EveryRequestAnswered`: the pool cannot
  deadlock, because the hook queries on its transaction's connection and the
  reload waits for one without holding one.
- `OnlyToOthersOnTheDocument`, `CopiesAreBounded`: echo and retry neither send
  people their own diffs nor multiply without end: one copy per PUBLISH asked
  for, and one more on the author's server.  `BridgeKeepsOrder`: on other
  servers an author's diffs are in order and at most once unless a PUBLISH of
  theirs went unanswered.  `EchoesComeSecond`: at home, a diff first arrives
  after a newer one only if the local buffer was full when it was handled, or if
  the reader was not registered yet when its hub first routed it: a reader that
  registers between a diff and its echo gets the next diff live and then the
  echo.

## 4. What the code does differently from its documentation

Each of these is a run that TLC refutes.

| Run | Claim | What happens |
|---|---|---|
| `hub_panic` | "It runs forever until the process exits" (`hub.go:59`) | alice opens a second connection; the hub closes the first one's channel; the first one ends and unregisters; the map is looked up by user, so the second is deleted and the first one's channel is closed again: panic |
| `presence_throw` | "Safe here because this is only called from REST handlers" (`hub.go:115`), "ONLY Hub.Run() reads or writes the clients map" (`hub.go:38`) | the range statement meets a write of the hub's: `concurrent map iteration and map write`, which ends the process |
| `store_two` | "CompactedAt == nil means not yet merged into blob" (`model.go:81`) | two compactors read the same blob; the second to commit overwrites the first one's batch, whose rows stay marked |
| `tasks_unassigned` | "If not, task is marked Status = "unassigned" instead of erroring" (`model.go:119-120`), "Don't error — degrade gracefully so offline op still persists" (`model.go:153`), "task becomes unassigned" (`store.go:136`) | the hook sets the assignee to `""`, which is no `uuid`; the INSERT is refused, the request answered 500 and nothing stored |

More divergences are visible in the modules and have no run of their own:

- `select` may take `Unregister` before `Register` of the same connection,
  which then stays in the registry although it is over (`hub.go:37`, "single
  source of truth"), until its user connects again or its buffer is full.
- A joiner is sent the blob without the logged updates that are not compacted
  yet (`store.go:59`, "all confirmed edits"); `GapsAreExplained` says which
  diffs that can cost it.
- A report omits the window the flusher has swapped out and not written
  (`ReadLive`; `report.go:8` speaks of a complete picture), and an exported one
  everything stored if the query fails (`ReadHistorical`).
- Edits recorded after the final flush, or in the flusher's hands when it begins,
  are lost at exit (`server.go:79`, "so no data is lost on deploy"): these are
  what `EditsAccounted` calls `late`, and it says that there are no others.
- `SaveContribution` is said "to accumulate multiple flush windows into daily
  totals" (`store.go:153-155`) and adds zeros (`store.go:166`); the final flush
  of every shutdown calls it (`SaveContribution` in `Tracker`).
- The active time of a window without edits is dropped (`FlushOne`;
  `tracker.go:119`).
- A handler whose socket breaks while `OnJoin` is blocked on a full channel may
  stay for ever (`Stuck` in `MCHub`).
- An event that was dropped is not received "on reconnect via Yjs sync"
  (`handler.go:130`): nothing replays it.
- `handler.go:21` gives the broadcast buffer as 256, it is 512; the data-flow
  chart shows a `pubsub.Publish` that `HandleUpdate` does not make.

`hub_panic` and `store_two` are the limits of what is proved: the theorems
about the hub are for users without overlapping connections, the exactness of
the marks for one compactor.

## 5. Bounds

Every bound is a constant: `MaxFrames` (frames per connection), `MaxTasks`,
channel capacities, `MaxCrashes`, `MaxAborts`, `MaxEdits`, `MaxSecs`,
`MaxBytes`, `MaxChanges` (map writes in `Presence`, membership changes in
`Tasks`), `MaxOpen` (the pool), `MaxFailures`, `MaxTimeouts`.  Capacity 1 makes every full-buffer branch happen with two
messages: the second offer to `Broadcast` is dropped, the second send to a
client evicts it, the second unregister blocks.  Two connections of one user
are what eviction and overlap need; one peer is what a sender and a receiver
need.  Two updates of one document and one of another give batches of none, one
and two, several passes, and an insert between any two statements; a crash and
a failure at each statement happen within bound one, and the proofs do not use
the bounds.  Two edits suffice for one in the table and one in memory at once.  Six map
changes let three users come, go and come back during one call.  A pool of two
for three requests makes one wait, and with two connections held both holders
would wait for ever if they needed another.  In `Tasks` one assignee who gains
and loses access is enough for every outcome of the hook.  Two diffs and one
retry give a late copy behind a newer diff, and an echo behind it; bob, carol
and alice herself are the reader at home, the one away and the author.  Own
devices elsewhere and other documents, the remaining ways to stand to an author,
are left to the theorem `OnlyOthersReceive`, as a fourth connection is too many
states.

Deadlock is checked where the system cannot stop (`store_*`, `tracker`); the
other instances end when everything bounded has happened, or when the hub has
panicked or the process died.  Symmetry is used only in `report_sort` and
`presence`, which have no liveness.

## 6. Fairness

Weak fairness throughout, for what Go or Postgres guarantees: the hub's three
cases (the hub never blocks, and select is random among ready cases, so none
starves), a handler that is not blocked on a full channel, cleanup steps,
writers, a read on a broken socket (the read deadline), the compactor (ticker,
and a database that answers), the flusher, and the final flush, which visits its
whole map before the pool is closed.  No fairness for browsers,
disconnections, requests, failures or crashes.  A failing transaction or a
crash is bounded in `EveryUpdateMerged`, since a database that always fails
merges nothing.  In `Tasks` the steps of a request are fair: the database
answers, with an error if need be, and `database/sql` serves waiting requests in
turn.  A `CloseConn` after the send to `Unregister` and a failing
ping are fair because timeouts make them happen.

## 7. Proofs

TLAPS checks every theorem for all values of the constants that satisfy the
named assumption of the module (maps of the right type, positive capacities, a
finite set of updates or users).

Every invariant, action property and refinement of a passing run is a theorem;
what remains with TLC is listed at the end of this section.

`HubProofs`, discipline: `TypeCorrect`; `DisciplineHolds`,
`NoPanicWithoutOverlap`, `NobodyDeaf`.  `PanicNeedsOverlap` is not inductive: to
know that an unregister closes an open channel one needs that the entry found is
the connection's own, hence that the user holds only one connection, and that
the connection is not queued twice.  `HubDiscipline` says that and is inductive
with `TypeOK`; each action has a lemma.  Two facts about channels (what an
append and a tail do to membership and to duplicates) carry most of it.

`HubProofs`, delivery: `ImplementsRoom`, the refinement, needs nothing of the
discipline and holds with overlapping connections, leaks and panics.  Under the
mapping a `WriteFrame` is a `Receive` or the `ReceiveBlob`, a handled frame and
a posted task event are a `Post`, and everything else a stutter.  That a
received payload is newer than what the browser holds of its source is a
statement about three queues: `Delivery` says that every payload in
`Hub.Broadcast` was taken in from its source and that those of one source are in
order (`QueueOK`); and that for every connection the socket's history, the
`Send` channel and the broadcast buffer, in this sequence, are in order for each
source, meant for this connection, and hold the document at most once
(`LineOK`).  A routing step moves the head of one queue to the end of the next,
which keeps the whole in order; dropping at any point does too.

`StoreProofs`: `TypeCorrect` and, for any number of servers, `NoDoubleMerge`.
Its invariant says of every transaction in progress that its base has no
duplicates, its batch has none and is disjoint from the base, and that whatever
is in a base or a blob is compacted or in the batch being committed.
With the assumption `OneServer`, `MarksAreExact`, `BlobGrows` and
`ImplementsUpdateLog`: then the base of the running transaction is still the
blob, and its batch still pending, when it commits.  Under the mapping `pending
<- {u : row[u] = "pending"}`, `merged <- blob`, a commit is a `Merge`, a
successful insert a `Log`, and every other step a stutter.

`SyncProofs`: `SyncImplementsHub` says that a step of `Sync` is, for the
variables of `Hub`, a step of `Hub` or none, so the theorems about `Hub` hold of
`Sync`, and `Delivery` can be used there.  `GapsExplained` is then about the two
roads a diff can take.  Each is one conjunct of the invariant `RoadsMeet`.  The
document's: what a joiner was sent contains what was merged when it connected
(`LoadsEnough`, because `LoadBlob` comes after `Accept` and blobs only grow).
The live one: for a connection that is open or still may be (`Watching`), each
diff of another user in the document is in the broadcast buffer, or was dropped
on the way into it, or was routed before the connection was registered, or is in
its channel or on its socket (`Tracked`).  A connection that is not upgraded has
left no trace in the hub (`Fresh`).  The property is about living servers: a hub
that panics in the middle of a pass has taken the message out of the buffer and
given it to nobody, and the proof does not go through without that conjunct of
`Established`.

`PresenceProofs`: `TypeCorrect`, `ListIsBounded`, `CountsOnce`,
`AbortsNeedChurn`, for any number of concurrent calls.  `RunOK` says
what operation the hub is in, and that only the entry it is storing into can be
without a client.  `CallOK` says of every call that whatever the hub does to the
map during it is recorded in one of two places: a user who was there from the
start is listed, being visited, or still in `must` or `may`; and a user who
comes or goes is in `churned` before the range can notice, so a second visit, a
place found empty and a nil client are always over somebody in `churned`.

`TrackerProofs`: `TypeCorrect`, `EditsConserved`, `ReportsAreBelow`.
Conservation is inductive cell by cell (`Balanced`): each step moves a number of
edits between buffer, snapshot, final flush, `saved` and `late`.  The exit is
the step that needs a stronger invariant: it throws the memory away, so once
the buffer has been drained what is still in buffer and snapshot must already
be in `late`, and the final flush's map must be empty when the pool is closed,
which `TypeOK` says.  No hypothesis on `Columns` is needed, since `saved` counts
what a save is given.  A report is below what was recorded because the table,
at most `saved`, only grows: what the request read of it is still there when it
reads the counters (`HistoryHolds`).

`ReportProofs`: `TypeCorrect`, `RanksAreFinal` (the loop invariant, inductive
with the types), `ReportIsSorted` from it, and `NobodyMissing`, where an
exchange is a permutation of the indices.

`TasksProofs`: `TypeCorrect`, `AssigneesHadAccess`, `EventsAreTrue`,
`ClientsCanTrust`, from one invariant that says of every step of a request what
its task, its row and its answer can be (`Progress`), and that whoever is a
member during a request is in its `access`.  The pool is finite by induction,
so its bound needs no assumption on the set of requests.

`PubSubProofs`: `TypeCorrect`, `OnlyOthersReceive`, `BridgeHasNoLoop`,
`BridgeIsOrdered`, `EchoesAreSecond`.  A diff reaches a browser by one road:
the Redis channel of the browser's server, that server's broadcast queue, the
browser's inbox.  `Honest` says that whatever is on a road is a diff that was
handled, under its author and document.  The other invariants are about the
three stretches of a road as if they were one sequence:
- `RoadInOrder`: the diffs that come from other servers are in order along the
  whole road, unless one of them was published more than once, and the diff
  being published will keep that order when it joins.
- `RoadClosed`: on the author's own server, whatever is in the queue or the
  inbox has each earlier diff of its author ahead of it, or that one was
  dropped, or routed before the connection was registered; and every diff for
  which neither is true is somewhere on the road.  A registration starts with
  what is in the queue at that moment (`MapRoad`).  This is what makes an echo
  come second.
- `RoadCounted`: copies on the road, late copies in Redis's hands and the
  PUBLISH not yet carried out are together at most what was asked for, and one
  more at home.
The lemmas say once what an append, a move of the head from one stretch to the
next, and a loss do to order and to counts.  No assumption bounds the number of
servers, browsers, diffs or retries.

Only model-checked: the liveness properties `EveryConnectionEnds`,
`QueuedIsDelivered`, `EveryUpdateMerged`, `EveryRequestAnswered` and
`EveryEditSaved`, because fairness and ENABLED are outside what TLAPS does; and
the four refuted claims, which are counterexamples.  Where a theorem has a
hypothesis beyond the module's assumption it is one that TLC shows to be
needed: `OneServer` (`store_two`), no overlap (`hub_panic`).

## 8. Not modelled

Authentication (not in the repository; a refused request never starts a
connection), reading the environment and migrating the schema (once, before
anything else runs), PDF pages and `wkhtmltopdf` (pure I/O), JSON and SQL text,
payload contents and Yjs merging (the code concatenates), percentages (floating
point), read limits and deadlines as times (they are the nondeterminism of
`ReadError` and `WriterReturns`), cascading deletes.  `CompleteTask`,
`GetTasks`, `AccountabilityScore`, `OnlineUsers`, login and membership handlers
call functions that are not in the repository.  `TotalConnections` is a single
unsynchronised read of the map's length, which the health endpoint reports
(`rest_handler.go:60`) and on which nothing depends.  A `DB_MAX_OPEN` of 0 or less,
which `database/sql` takes for no limit, is outside `MaxOpen`.  The unique index
that `SaveContribution`'s upsert needs exists in the SQL migration and not in
the model that `AutoMigrate` uses; on an auto-migrated database every save
fails, one of the outcomes of `Save`.  When the pool closes at shutdown, inserts
and compactions in progress fail or are rolled back, which `Store` and `Sync`
contain as failures; no module orders them against the shutdown.

## 9. Plan

Done: `Hub`/`Room`, `Store`/`UpdateLog`, `Tracker`, `Report`, `Sync`,
`Presence`, `Tasks`, `PubSub` with their instances, and proofs of all their
safety properties.  What is left:

1. What several compactors still guarantee: a bound on what `store_two` loses
   (only what was committed between another transaction's two reads), as an
   invariant for any number of servers.
2. `Sync` over `Store` instead of `UpdateLog`, by composing
   `ImplementsUpdateLog` with `GapsExplained`: the log's part of `Sync` as a
   behaviour of the specification that `Store` implements.
3. Conservation of active time in `Tracker`, with the window that the flusher
   drops as an explicit term.
