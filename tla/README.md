# Verification of valkey-wasm

valkey-wasm is Valkey compiled to a WebAssembly reactor. It has no process, thread or
socket of its own: a Node program (`bridge/valkey-server.ts`) owns the TCP sockets and
calls into the wasm instance for one pass of the event loop at a time. These modules model
that arrangement, the client I/O it drives, and the parts of Valkey behind it in which what
one client does reaches another: blocking commands, transactions, client-side caching and
the hash table under the key space. TLC checks them, and TLAPS proves the safety properties
of the reactor, of the output buffers, of the server's lifecycle, of blocking commands, of
transactions, of client-side caching and of the hash table.

Paths below are relative to the repository (`src/networking.c` stands for
`src/src/networking.c`).

## The system

| Part | State | Operations | Interacts with |
|---|---|---|---|
| Bridge, sockets (`bridge/valkey-server.ts`) | `nextFd`, `socks` (chunks, `eof`, `backpressured`), `listeners` (pending queue), `stepScheduled` | socket events `data`, `end`, `close`, `error`, `drain`; `host.accept/read/write/close/poll`; `scheduleStep`, `step`, interval | called by the socket shim, calls `rk_step` |
| Bridge, lifecycle | `instance`, `listeners`, `timer`, `closed` | `start()`, `stop()`, `host.listen` | the caller, `net.Server` |
| Reactor exports (`src/wasi/reactor.c`) | none | `rk_boot`, `rk_step`, `rk_next_timeout_ms` | bridge to event loop |
| Socket shim, poll backend (`src/wasi/sock_shim.c`, `ae_wasi.c`, `host.h`) | `errno`, port table | libc socket calls over host imports; `aeApiPoll` | connections to bridge |
| Event loop (`src/ae.c`) | `events[]` masks, `fired[]` | one pass: before-sleep, poll, fired events, time events | handlers |
| Connections (`src/socket.c`) | connection state, handlers | accept, read, write, set handlers, close | event loop, shim |
| Client I/O (`src/networking.c`) | `server.clients`, query and output buffers, `clients_pending_write`, `clients_to_close`, flags | accept, read and execute, reply, write, free, kill | everything above |
| Blocking (`src/blocked.c`, `timeout.c`, `t_list.c`, `t_stream.c`) | `blocking_keys`, `blocking_keys_unblock_on_nokey`, `ready_keys`, `unblocked_clients`, `postponed_clients`, the timeout table, each client's `bstate` | blocking commands, `signalKeyAsReady`, `handleClientsBlockedOnKeys`, timeouts, CLIENT UNBLOCK, CLIENT PAUSE | writes, `beforeSleep`, client I/O |
| Transactions (`src/multi.c`) | `watched_keys` of a database and of a client, the queue, `dirty_cas`, `dirty_exec` | WATCH, MULTI, EXEC, DISCARD, `touchWatchedKey`, `touchAllWatchedKeysInDb` | every write, expiry, eviction, FLUSHDB, SWAPDB |
| Client-side caching (`src/tracking.c`) | tracking table, prefix table, `tracking_pending_keys`, `pending_push_messages`, flags | CLIENT TRACKING, `trackingRememberKeys`, `trackingInvalidateKey`, table limit, broadcast in `beforeSleep` | `call()`, writes, expiry, eviction |
| Hash table (`src/hashtable.c`) | two tables of bucket chains, `rehash_idx`, `pause_rehash`, iterators | add, find, pop, resize, rehash step, scan, iterate | the key space, expiry, every big collection |
| Other commands and data (`db.c`, `expire.c`, `evict.c`, `pubsub.c`, `t_*.c`, ...) | the key space | commands | all of the above, by what they signal |

What is hard here:

* *Two schedulers.* Node decides when a pass runs, the event loop what it does. A pass is
  atomic for JavaScript, yet events, microtasks and the interval interleave freely between
  passes, and what a pass leaves behind waits until somebody schedules another.
* *Deferred effects.* A reply is queued in one pass and written in the next; a client is
  marked in one place and freed in another; a fired event may name a client that has been
  freed since.
* *Two tables of sockets.* The bridge and the server each keep their own, and a close on
  either side reaches the other later.
* *Backpressure, half-close, reset*: node buffers writes, so "written" and "sent" differ.
* *A bookmark by address* into output buffers that are resized, trimmed, prefixed and
  recycled between two writes.
* *Asynchronous start, synchronous stop.*
* *The same fact in several tables*: who waits for a key, who watches it, who cached it, are
  recorded per key and per client, with counters and flags beside them, and changed while
  one of the lists is being walked.
* *Commands that run again*: a blocked command is executed from the start once its key is
  ready, may block again, and then has to be where it was.
* *Time without events*: a key is past its expire time before anybody deletes it.
* *Messages inside replies*: an invalidation has to come after the reply that carries the
  copy it invalidates.
* *Walks over a structure that is reorganised meanwhile*: scans across resizes, iterators
  across deletions.

The hazards, each at its line and with the properties aimed at it, are in `PROJECT.json`.

## Modules

| Module | Models | Used by |
|---|---|---|
| `Reactor` | bridge sockets, shim, poll backend, one pass of the event loop, client I/O | `MCReactor`, `ReactorProofs` |
| `ReplyStream` | abstract: what the peer of a connection may observe | `Reactor` (refinement) |
| `OutputBuffer` | one client's output buffers and its write bookmark, byte by byte | `MCOutputBuffer`, `OutputBufferProofs` |
| `Lifecycle` | `start()` and `stop()` of `ValkeyServer` | `MCLifecycle`, `LifecycleProofs` |
| `BlockedClients` | blocking commands, ready keys, timeouts, pauses | `MCBlockedClients`, `BlockedClientsProofs` |
| `WatchedKeys` | transactions and WATCH, with what expires, evicts and replaces keys | `MCWatchedKeys`, `WatchedKeysProofs` |
| `Tracking` | client-side caching, and the caches of the clients | `MCTracking`, `TrackingProofs` |
| `HashTable` | the hash table, its scan and its safe iterator | `MCHashTable`, `HashTableProofs` |
| `ReactorProofs`, `ReactorRefinement`, `OutputBufferProofs`, `LifecycleProofs`, `BlockedClientsProofs`, `WatchedKeysProofs`, `TrackingProofs`, `HashTableProofs` | theorems | |
| `MC*` | TLC instances; the `.cfg` files give the constants | |

### Reactor

Connections are numbered in the order in which the bridge sees them; the fd of connection
`c` is `FdBase + c`, because `allocFd()` only counts up. Bytes are abstracted to whole
requests and replies, and a chain of buffers to the running totals between them:
`sent >= arrived >= read >= replied >= written >= kern`. `arrived - read` is what the
record's chunks hold, `read - replied` the query buffer, `replied - written` the output
buffers, `written - kern` node's stream.

`pc` says where the thread is. At `"idle"` JavaScript runs: the socket handlers
(`OnConnection`, `OnData`, `OnEnd`, `OnClose`, `OnError`, `OnDrain`), the network and the
peers. `Microtask` and `Timer` begin a pass, which then goes through

    "writes"  WritePending per node, WritesDone     handleClientsWithPendingWrites
    "frees"   FreeAsync per node, Poll              freeClientsInAsyncFreeQueue, aeApiPoll
    "files"   Accept, AcceptDone, FileRead, FileWrite, FilesDone    aeProcessEvents
    "exec"    ExecCommand, ExecKill, BeforeNextClient    readQueryFromClient

one action per loop iteration, so that each handler finds the state the earlier ones left.
The two intrusive lists count the nodes per client: a double link or a double unlink shows.
A command is an ordinary one, QUIT (`close_after_reply`) or CLIENT KILL of any set of
clients. Peers may half-close or go away at any time.

### OutputBuffer

Refines the step "write what is unsent" of `Reactor` to bytes: the static buffer `c->buf`,
the list `c->reply` of plain and encoded blocks, the placeholder of a deferred length, the
scatter into an iovec with its three limits, and `io_last_written`. Addresses are modelled,
since the bookmark is one. A buffer's content is the sequence of iovec entries it expands
to; a bulk string reference is three entries of one byte. Chunk headers take no room and
the allocator returns the size it was asked for. The host may
take any part of a write, as `host.h` allows; the bridge takes all of it. The loops of
`writevToClient()` are recursive functions: `Gathering(bs)[i]` is the iovec after the first
`i` buffers, `AddEntries(g, iov)[i]` after the first `i` entries of one of them, and
`Upto(meta)[i]` the sum over which `saveLastWrittenBuf()` counts down.

### Lifecycle

The k-th call of `start()` makes server, listener, instance and interval number `k`. A pass
is reduced to what matters here: it drops clients whose peer left and accepts connections
pending at the instance's own listener. `BindFails` only marks the server as failed: the
bridge logs the error, and `start()` resolves all the same.

### BlockedClients

A list is its length; a stream its length, whether its group exists, and the number of
entries after the group's last ID. XGROUP CREATE and SETID may put that ID anywhere, XADD
appends behind it, and a group read takes everything up to the end (no COUNT). `quiet` is
history: what is there was brought by one of the two commands that signal nothing, `setKey()`
over another value or XGROUP SETID. An operator takes the server and returns it changed, in
the order of the C function it is named after; the loops that run other clients' commands
between two steps are actions, with `loop` saying where each of them is:

    "input"      Arrive, ProcessInput, InputDone        readQueryFromClient
    "unit"       Lpush, Set, Xadd, ..., UnitEnd         another client's commands
    handling     HandleBatch, HandleKey, HandleClient   handleClientsBlockedOnKeys
    "timeouts"   Timeout, TimeoutsDone                  handleBlockedClientsTimeout
    "unblocked"  NextUnblocked, UnblockedDone           processUnblockedClients

A unit stands for a command, a transaction or a script: clients are served after it. The end
of a pause is `ClientUnpause` and then one `UnblockPostponed` per postponed client, the loop of
`unblockPostponedClients()`; until it is through (`Resuming`) nothing else runs. `left`
is a deadline counted in ticks from now. `owed` and `order` are history: the commands taken
up less the replies given, and the order in which clients blocked.

### WatchedKeys

A key is absent, live, or dead: past its expire time and not yet reclaimed. `Lapse` is the
moment between, which no code runs at. `watchers` and `before` are the list of a key: its
members and their order, which decides what `touchWatchedKey()` reaches. EXEC takes one
step per queued command. `changed` is history: clients one of whose watched keys was written,
deleted, lapsed, or was replaced since they watched it; `missed` those of them which the
`break` in `touchWatchedKey()` passed over.

### Tracking

`view[c]` is what the client has in its cache once it has read everything it was sent; a copy
turns stale when its key changes. A reply counts when it is complete, so that an
invalidation written into the middle of it would be undone by it. The client follows the
documented protocol: it caches what its mode lets it, drops everything when tracking is
turned on or off or its redirection breaks, and with NOLOOP drops what it writes itself.
Which keys exist is left open: any key may expire or be evicted at any time the code allows.

### HashTable

A chain is a sequence of buckets with positions, so that conversion to a chained bucket, the
pruning of the last one and the filling of holes are what the code does; the metadata bits
and the memory prefetching are left out. `ht.pause` counts as `pause_rehash` does:
`IterNextEmpty` is the first `hashtableNext()` of a safe iterator on a table without buckets,
which pauses and does not resume, and `MaxLeaks` bounds how often that happens. `due` of a
scan and of an iterator is history: the entries that have been there since it began and have
not been returned. Loops of the code that a proof goes through are recursive functions over
the number of rounds (`InOrder`, `FillHoles`, `MoveChain`), and `rev()` is one over the
number of bits.

## Runs

| Run | Configuration | Shows |
|---|---|---|
| `reactor` | 2 connections, 2 requests and 1; 1 accept per pass, 2 requests per read, 1 reply per writev, highWaterMark 1 | the safety properties, QUIT flushes, refinement of `ReplyStream`; answers, reaping and QUIT under fairness, with backpressure and `drain` |
| `output` | 4 addresses (symmetric), 9 bytes, blocks of 4, 2 iovec entries, partial writes | the byte stream, every branch of the buffers; the bookmark survives trims, moves, prefixing, reuse |
| `lifecycle` | 1 start, 3 connections | stop() is complete, connections are served |
| `blocked` | 2 clients (symmetric), 2 keys, 2 elements; streams at the key that is read; a timed pop from both keys, a move between them, a timed group read | tables agree, no lost wake-up, one answer per command, places kept |
| `blocked_live` | 2 clients, 1 key, timed pop and group read | timed waits end, pipelines resume |
| `watch` | 2 clients (symmetric), 1 key in each of 2 databases, queues of 1 | optimistic locking, no spurious abort |
| `tracking` | 2 clients, 2 keys, room for 1 in the table, transactions of 2 commands; five sets of options | every stale copy is announced |
| `hashtable` | 3 entries that share a bucket in tables of 1 or 2, 2 per bucket, tables up to 4 buckets, all policies, 1 leaked pause | entries findable, scan and iterator complete |

The bounds are chosen so that most limits of the code are exceeded by one: more replies than
one writev, more connections than one accept loop, more bytes than a block, more entries than
an iovec, more keys than the tracking table, more colliding entries than a bucket. Two
clients are what a race of one with another takes (CLIENT KILL against a fired event, a pop
against a group read of the same key, a writer against a watcher, one watcher behind
another). Two keys are what a client that waits for several takes, and a BLMOVE that makes
the other key ready. A table of one, two and four buckets is what a resize within a resize
and a shrink that is turned back take; the fill limits of `MCHashTable.cfg` make all of them
happen with three entries, and `ScanWhileIterating = FALSE` keeps a scan and an iterator from
overlapping (each overlaps with everything else). With one leaked pause an iterator runs at a
pause count of 1, where it compacts the chains it has finished, and of 2, where it does not.
Two limits are not reached in a run: `maxclients` (two connections have two slots; the
theorems about `Reactor` hold for any limit) and `setsize` (all fds fit, as liveness needs;
see `PolledOnlyIfFits`). The proofs lift `Reactor`, `OutputBuffer`, `BlockedClients`,
`WatchedKeys`, `Tracking` and `HashTable` to any number of all of them.

`CHECK_DEADLOCK FALSE` is said where the model really may stop: `OutputBuffer` at its byte
bound, `Lifecycle` after `stop()`, and `BlockedClients`, where the bounds on elements and
pipelines can leave two blocked clients with nothing to happen to them.

Runs that are expected to fail show a disagreement between the code and its own documents:

| Run | What the code does | What is said |
|---|---|---|
| `lifecycle_restart` | after `stop()` and `start()` connections are taken and never served | `usage.md:34`: resolves once the server is live |
| `watch_touch` | a client that watched an already expired key, brought back by SWAPDB, makes `touchWatchedKey()` leave its loop: clients behind it commit although the key was written | `multi.c:459`: the next EXEC will fail |
| `tracking_noloop` | a NOLOOP client is not told of evictions that happen during its own commands and keeps a stale copy | `tracking.c:401`: keys changed by the client itself; `tracking.c:369-372` |
| `hashtable_pause` | a safe iteration of a table without buckets pauses rehashing and never resumes it: `hashtableCleanupIterator()` tells by the index whether the iterator has begun, and the index is still -1 | `hashtable.c:2351-2353`: safe iterators don't keep rehashing paused |

Other things the models show, which no run is spent on:

* fds are never handed out twice, so that after `setsize - 4096` connections in all a new
  client is accepted and kept but never polled: `createClient()` ignores that
  `aeCreateFileEvent()` refused the fd. `host.h:13` says that "every fd has to fit under the
  loop setsize" and nothing makes it so. `PolledOnlyIfFits` proves it for every `setsize`; the
  liveness properties hold of connections whose fd fits, which all do in the run.
* The reply to a command is written by the pass after the one that ran it, and nothing but
  the interval guarantees one: without its fairness `RequestsAnswered` fails.
* `host.write()` refuses a peer that only half-closed, and `socket.destroy()` after QUIT
  drops what node's stream still holds. `QuitFlushesToHost` ends at the host's door.
* `stop()` during `start()` releases nothing of what `start()` makes afterwards; it is the
  hypothesis `Overlap = FALSE` of `StopIsComplete`.
* A list stored over another value (`SORT ... STORE`) wakes no pop that waits for the key,
  and XGROUP SETID to an ID before entries of the stream wakes no XREADGROUP that waits for
  them: the exception `quiet` of `NoLostWakeup`.
* A client that waits for several keys is served in the order of the ready keys, not in that
  of blocking; `KeepsItsPlace` is about each key's queue.
* SWAPDB sends no invalidations: the exception `swapdb` of `Coherent`.
* A safe iterator can return an entry twice if its caller inserts into the full bucket it
  has just finished; `IterComplete` says "at least once". A scan callback that inserts during
  a shrink can turn the tables round under the scan.

## Fairness

`LiveSpec` of `Reactor` assumes that a pass runs to its end and that a queued microtask runs
(one uninterrupted run of the JavaScript thread, weak fairness), that the interval fires
(weak fairness; `setInterval`), and that socket events which keep being ready between passes
are delivered (strong fairness over the events together: node's loop polls sockets in every
turn, but a pass disables the events again and again). Peers are not assumed to do anything.
`Lifecycle` assumes the microtask and the intervals.

`LiveSpec` of `BlockedClients` assumes that code which has begun goes on (weak fairness of
`Handle \/ Run`: one C call stack), that the event loop keeps coming back to `beforeSleep`
(strong fairness, as other clients' input is processed in between; the interval of the bridge
provides it), and that time passes (strong fairness of `Tick`, for the same reason). Nobody is
assumed to push, to unpause or to send anything.

## Proofs

All theorems hold for every value of the constants under the module's `ASSUME`, which asks
only for natural numbers, for limits of at least one and, where clients or entries are
counted, for finitely many of them. `HashTable` also asks that a table resized for `n`
entries holds them within the soft fill limit, that this limit is not above the hard one
(`FillAssumption`, true of the constants of `hashtable.c`), and that the bound `MaxExp` is
large enough for the sizes asked for.

* `Invariance`: `Spec => []IndInv`. `NoStrandedReplies` is not inductive by itself. That a
  client in `clients_pending_write` has its flag set needs `ListsMatchFlags`; that a handler
  runs for a live client needs `HandlerHasClient`; that a loop's remaining nodes are still
  linked needs `TodoLinked`; and that a client which is not polled has nothing unread, and
  that a new connection is new, need `Unread` and `Numbering`, which rest on fds being handed
  out in order. `IndInv` is their conjunction with `TypeOK`, `ReplyPipeline`,
  `NoIdleWriteHandler` and `SocketsOwned`. One lemma per action shows that it is preserved;
  `WriteOutcome`, `FreeOutcome`, `UnlinkOutcome` and `AddReplyOutcome` state once what the
  shared operators do.
* `TypeCorrect`, `OutputNeverStranded`, `PipelineInOrder`, `NoDanglingClients`,
  `EventsReachClients`, `NoLeakedSockets` follow from it.
* `AdmissionControl`: only `Accept` adds a client, and one at a time.
* `PolledOnlyIfFits`: a client is polled if and only if its fd is below `SetSize`, for any
  `SetSize`. Only `Accept` decides it and no later step changes it.
* `QuitAfterFlush` assumes `FdsFit` (`FdBase + MaxConns < SetSize`), which nothing in the code
  enforces: a client whose write handler cannot be installed is closed with replies unsent.
* `Refinement`: `Reactor` implements `ReplyStream`. `kern` is `answered`; a write, a kernel
  step, a close of one or several connections map to one abstract step, all else stutters.
* `OutputBufferProofs`: `TypeCorrect`, `StreamInOrder`, `BookmarkStaysValid`,
  `NothingIsDropped`, `WritesMakeProgress`, for any addresses, any sizes of the buffers, any
  limits of `writev()` and any number of bytes. `WireInOrder` says nothing of what is still
  to be written, and `NothingDropped` nothing of the time a header is deferred, so neither is
  inductive. `Inv` has four parts: `BufInv` for the static buffer, `ListInv` for the blocks
  (content and `used` agree, addresses differ, a placeholder exists exactly while a header is
  deferred), `MarkInv` (the bookmark names the first buffer with content and ends inside it)
  and `StreamInv`: the content of all buffers, with the deferred header where its placeholder
  stands, is the interval of byte numbers from behind what the wire has and the bookmark does
  not skip up to `added`. A trim, a move or a prefix keeps the content, a reply makes the
  interval longer, a write makes it shorter by what the wire gains; the last rests on
  `Gathering` and `Upto` describing the same interval, whichever limit ends the loop. What the
  recursive functions and `FlattenSeq` compute is proved by induction over the natural
  numbers: the library's induction theorems cannot be instantiated here, so
  `NatSetInduction` is derived from the well-foundedness of `<` for a set instead of a
  predicate.
* `LifecycleProofs`: `TypeCorrect` holds for all callers.
  `StopIsComplete`: with callers that await their calls (`Overlap = FALSE`) `stop()` is
  complete, however often the server is restarted. The invariant `Tracked` says that what
  is alive is in the tables `stop()` goes through, and that at most one `start()` is under
  way.

* `WatchedKeysProofs`: `TypeCorrect`, `WatchTablesAgree`, `OptimisticLocking`,
  `DirtyForAReason`, `QueueSurvivesExec`, for any clients, keys, databases and commands.
  `CommitsUnchanged` speaks of the moment EXEC runs and is far from inductive. The invariant
  `Good` says how a change is known at every moment before: `ChangeDetected` (a changed
  client is dirty, was passed over, or watches a key that is dead and was live when it was
  watched, which `isWatchedKeyExpired()` will find), `LapsedIsChange` (the converse for such
  keys), `StaleIsDead` (a watch flagged as taken on an expired key is of a dead key, or its
  client is dirty), `DirtyIsChange`, and `Agree` for the two tables; `Running` says what holds of the
  client whose queue is being executed. One lemma per operator of the module (`Touch`,
  `TouchAll`, `Delete`, `UnwatchAllKeys`, ...) shows that it keeps `Good` of the server it is
  given, and each action is a composition of them.

* `BlockedClientsProofs`: `TypeCorrect`, `TablesInStep`, `NoWakeupLost`, `OneAnswer`,
  `PlacesKept`, for any finite set of clients and any keys, commands, timeouts and bounds.
  None of the properties is inductive alone. `NoLostWakeup`, with its exception for the two
  commands that signal nothing, rests on the early returns of
  `signalKeyAsReadyLogic()` being right, thus on the counts (`Counted`) and on the lists per
  key being the inverse of the clients' sets of keys (`Linked`); a count that goes down for
  a client has to have counted it, which is what the fields of a client say of one another
  (`Own`: the flags, the deadline and its entry in the timeout table, the reply owed, the
  command and the keys it waits for). `KeepsItsPlace` (`Ranked`) would break if a pop that is
  woken blocked again, behind those that came after it: it does not, because the key that
  wakes it has a list by then and a pop looks at the keys it waits for (`Rerun`). `Walk` says
  where `handleClientsBlockedOnKeys()` is: the clients it is still to visit wait for its key,
  so that none of them has been freed or served since. `Good(S, x, Q, k0, T)` states all this of a
  server `S`, except for the client `x` whose command is being executed, with the keys `Q` of
  the batch and the clients `T` still to be visited for `k0`. One lemma per operator
  (`Signal`, `DbAdd`, `DbDelete`, `SetKey`, `Release`, `UnblockClient`, `BlockForKeys`,
  `Exec`, `UnblockOnKey`, ...) shows what it does to `Good`, and each action is a composition
  of them.

* `TrackingProofs`: `TypeCorrect`, `CachesCoherent`, `TableRemembers`, `NothingLeftPending`,
  for any clients, keys, prefixes, table size and length of transactions. `Coherent` is not
  inductive: the change that turns a copy stale has to find the client, through the table
  (`Remembered`) or, for a broadcasting client, through a prefix that covers the key. `Safe`
  says all three of one client and one key. `Idle` says that between commands no message is
  queued and no reply is under way, so that a message queued for later is always still sent;
  `Silent` that a client which does not track has neither options nor copies, so that turning
  tracking on starts from nothing. `Signalled` states once what a change of a key does
  (`trackingInvalidateKey`, with and without a running command); the lemmas about writes,
  expiry, eviction, the table limit and FLUSHDB cite it.

* `HashTableProofs`: `TypeCorrect`, `EntriesFindable`, `ScanIsComplete`,
  `IterationIsComplete`, for any finite set of entries, any hashes, any size of a bucket, any
  fill limits and sizes under the assumptions, and with a scan and an iterator that overlap or
  not. `ScanComplete` and `IterComplete` speak of the end only. `Inv` says what holds before.
  `Good`: both tables have the chains their exponents say, each entry is in the chain of its
  hash and once in it, none is in both tables, and the chains below `rehash_idx` are empty.
  `ScanInv`: the entries a scan still owes have a reversed hash that is not below the reversed
  cursor. No resize changes a hash, so nothing but a call of the scan can break it, and
  `NextCursor` and `Expansion` go past exactly the reversed hashes of the chains visited, in
  a small table, a large one, or one of each. `IterInv`: the entries an iterator still owes
  are at later places than its own, in the order of table, index and slot. It is kept because
  rehashing is paused while an iterator has begun, at a count of 1 or, where earlier pauses
  have leaked, above it, and what still happens then moves no entry
  to an earlier place (`Keeps`): an insertion into a full bucket moves the last entry to a new
  bucket behind it, a deletion leaves a hole, a shrink is not turned back, and
  `CompactBucketChain`, which fills holes from the end, runs only on the chain the iterator
  has finished. One lemma per operator says what
  it does to `Good`, to the entries and to their places; below them are the lemmas on
  chains, on powers of two and on reversed words. As in `OutputBufferProofs`, inductions use
  `NatSetInduction`.

Only model-checked: the liveness properties, as the prover does not handle fairness. Every
invariant of a passing run is also a theorem (`StopReleases` with callers that await their
calls: of overlapping calls it is false and not claimed).

## Not modelled

* RESP parsing and the commands' effects on data; output buffer limits (none are set for
  normal clients) and client eviction.
* A trap inside `rk_step()`, which `step()` catches and survives: what it leaves half done
  is not defined by the source.
* Of blocking: XREAD without a group, WAIT, module clients, and the scan of the waiting
  clients after FLUSHALL and SWAPDB. BZPOPMIN and its relatives take the path of BLPOP. Of
  streams: XDEL, XTRIM and XCLAIM, COUNT, and a group's last ID beyond the last entry.
* Of accepting: the text `-ERR max number of clients reached` that `acceptCommonHandler()`
  tries to write before it closes a connection (`networking.c:1888`).
* Of the output buffers: more than one deferred length at a time (XREAD nests them,
  `t_stream.c:2381`).
* Of transactions: propagation to replicas and AOF, memory accounting.
* Of tracking: delivery to RESP2 clients through pub/sub; CLIENT TRACKING and CLIENT KILL
  queued in a transaction (they come between commands here). A command waits until the table
  is within its limit, where `trackingLimitUsedSlots()` gives up after a bounded effort
  (`tracking.c:523-546`); the properties do not rest on the limit being kept.
* Of the hash table: two-phase insertion and pop, random sampling, defragmentation, instant
  rehashing (`hashtable.c:805-809`), unsafe iterators, two iterators at a time (a pause count
  above 1 is reached by leaks only), scan callbacks that insert; `kvstore.c` above it.
* Pub/sub, scripting, functions, ACL.
* Value encodings and the commands on them (listpack, quicklist, rax, the `t_*.c` files,
  bitmaps, HyperLogLog, geo): sequential code over bytes, out of the reach of a model that is
  shorter than the code.
* Replication, cluster, sentinel, persistence, io threads, bio, TLS and RDMA: inactive in
  the wasm build (`rk_boot` turns persistence off, `fork()` and `connect()` fail, threads
  are stubs). Modules: there is no `dlopen()`. Together with the two preceding items and the
  command line tools these are most of the repository's lines, which is why the modules map
  only a small share of them.
* Vendored code (`src/deps`), the tests and the build.

## Plan

1. Core I/O: `Reactor`, `ReplyStream`, `Lifecycle`, `OutputBuffer`, proofs of `Reactor` and
   `Lifecycle`. Done.
2. `BlockedClients`, `WatchedKeys`, `Tracking`, `HashTable`; proofs of `WatchedKeys`. Done.
3. Proofs of `Tracking`, of `BlockedClients`, of `OutputBuffer`, of `HashTable` and of
   `Lifecycle`'s type invariant. Done.
4. Further modules: the subscription tables of `pubsub.c`; consumer groups' pending entries;
   the chunk loop of `host.read` on bytes, composed with `Reactor`'s counts.
