# Verification of log-processor

TLA+ models of log-processor's pipeline, its receivers, its run-time control and its
import, checked with TLC on small instances, and theorems about them proved with TLAPS
for every value of the constants. File names are relative to `src/internal/`.

## 1. The system

log-processor receives log lines, parses them and stores them in MySQL.

```
TCP / UDP / HTTP receivers, import
        | Submit(line) bool
        v
   Processor ---- input queue full ----> DiskOverflowQueue (overflow.queue, overflow.offset)
   inputChan <---- overflowDrainer ------------+
        | workers parse
   outputChan
        | batchProcessor
        v
   AsyncStorage.SaveBatch --> buffer channel --> writeLoop --> MySQLStorage

   API server: POST /api/config, start / stop / restart of the receivers, metrics,
               import of a file (parsed and saved past the pipeline), delete, clear
   main:       makes the components; on a signal stops receivers, processor, storage
```

### Inventory

| Component | State | Operations | What is hard | What makes it correct |
|---|---|---|---|---|
| `DiskOverflowQueue` (processor/overflow_queue.go) | queue file, offset file, `readOffset`, `pending`, counters, all under `q.mu` | `New`, `SetMaxDiskMB`, `Enqueue`, `Drain`, `compactFile`, `Clear`, `Stats` | a crash between two system calls, torn writes, failing writes, a stale offset | no line is passed over; order; bounded file; `pending` is right |
| `AsyncStorage` (storage/async_storage.go) | `buffer` channel, batch, `ctx`, `clearCh`, counters | `SaveBatch`, `Save`, `writeLoop`, `flush`, `Clear`, `Close` | senders against Close, Clear against a full buffer, a failing flush | every entry once, in order; counters add up; everybody returns |
| `Processor` (processor/processor.go) | input, output and stop channels, workers, batch, configuration, `stopped`, `ctx` | `Start`, `Submit`, `UpdateConfig`, `ClearPendingData`, `Stop`, four kinds of goroutines | scaling under load, overflow, shutdown | an accepted line is in one place; lines arrive; the worker count is the configured one; Stop ends all |
| `MySQLStorage` (storage/mysql_storage.go) | table, retention, `db` | `SaveBatch` (one transaction), `Query`, `Delete`, `Clear`, hourly `cleanup`, `UpdateConfig`, `Close` | cleanup against a change of retention | all or nothing per batch; only expired rows go |
| Receivers (receiver/receiver.go) | per `Manager` its receivers and `wg`; listeners, contexts, `connLimiter`, `requestCount` | `Start`, `Stop` of the manager and of each receiver, `acceptLoop`, `handleConnection`, `handleLogs`, `checkRateLimit` | Stop before the goroutine of Start has its socket; connections that outlive Stop; the HTTP server Stop does not find | after Stop nothing listens, tokens are given back, late lines are bounded, Stop returns |
| Configuration (config/config.go) | one `Config` under a lock, `config.json` | `Update`, `Get`, `SaveToFile`, `LoadFromFile`, normalisation | read, merge, store and save without a lock over them; slices shared between copies | file = stored; nothing lost or wiped; normalised |
| HTTP API (server/server.go, helpers.go) | `runtimeMu`, `receiver`, `receiverRunning`, `importProgress`, `./temp` | `updateConfig`, `startReceiver`, `stopReceiver`, `restartReceivers`, `getMetrics`, `importLogsFast`, `deleteLog`, `clearLogs`, benchmark | concurrent requests; a lock held over a blocking Stop; imports of one file name | what runs follows what is stored; requests return; reports and progress are right |
| Parser (parser/*.go) | configuration | `ParseWithFormat`, `DetectFormat`, `inferFieldName` | numbers that look alike | a line of the documented layout gets its field names |
| Exporter, models, web front end, scripts, examples | none the server depends on | formatting, user interface, load generators | - | - |
| `main` (cmd/server/main.go) | the first `Manager` | wiring; shutdown: receivers, then processor, then storage, 10 s in all | the API replaces the manager and goes on during the shutdown; timeouts that overlap | what it reports as stopped is stopped |

The hazards, each at its line with the properties that would catch it, are in
`PROJECT.json`.

## 2. Modules

| Module | Models | Extends / instantiates |
|---|---|---|
| `SpillCells` | contents of the queue file: lines as runs of cells, reading and decoding | - |
| `SpillLog` | abstract specification of the overflow queue: a log with one reader | `SpillCells` |
| `OverflowQueue` | `DiskOverflowQueue` with its two files and a crash at every step | `SpillCells`; `Abstract == INSTANCE SpillLog` |
| `DataLemmas` | lemmas about sequences without repetition, least numbers and sums over a set | TLAPS library |
| `OverflowQueue_proofs` | theorems about `OverflowQueue` | `OverflowQueue`, `DataLemmas` |
| `AsyncStorage` | buffer, senders, `writeLoop`, `Clear`, `Close` | - |
| `AsyncStorage_proofs` | its inductive invariant and what follows from it | `AsyncStorage`, `DataLemmas` |
| `Processor` | queues, workers, batcher, drainer, `UpdateConfig`, `ClearPendingData`, `Stop` | - |
| `Processor_proofs` | its inductive invariant and what follows from it | `Processor`, `DataLemmas` |
| `Receivers` | managers, TCP, UDP and HTTP receivers, connections, requests to `/logs` | - |
| `Receivers_proofs` | lemmas about `Receivers`, for whatever composes it | `Receivers`, TLAPS library |
| `Server` | the API's run-time control, the stored configuration, `config.json`, main's shutdown | composes `Receivers` |
| `Server_proofs` | the inductive invariant of `Server` and what follows from it | `Server`, `Receivers_proofs` |
| `Config_proofs` | theorems about updates, the file and the run time | `Server_proofs` |
| `LineFormat` | format detection, field inference and which lines parse, as operators | - |
| `MySQLStorage` | the logs table, saving, deleting, the hourly cleanup | - |
| `Import` | `importLogsFast` with `./temp` and the progress | composes `MySQLStorage`; `LineFormat` |
| `Import_proofs` | theorems about field inference, the cleanup, the imports and their progress | `Import`, `DataLemmas` |
| `MC...` | instances for TLC | the module they are named after |

A definition named `D_How` is the form a plausible mistake would give to `D`. The
model does not use it; `PROJECT.json` says which property each one violates.

### OverflowQueue

*State.* `file`, `offsetFile` and `tmp` are the disk; `readOffset`, `pending`,
`stats` and `maxBytes` the fields of the struct. A cell stands for a piece of an
encoded line, the last one of a line for its newline, so that an offset can fall
inside a line and a write can stop inside one. `pc` is the next step of the method
that holds `q.mu`: there is at most one, since every method locks it from its first
to its last statement. `log`, `sent`, `cleared` and `faults` (how many faults, and of which
kinds, have happened) are history.

*Actions.* `Enqueue` makes one system call that changes anything and is one action
(`EnqueueStored`, `EnqueueFull`, `EnqueueFails`). `Drain` is `DrainBegin`, one of
`SkipLine`, `SubmitLine`, `RefuseLine` per line, `DrainEnds`, the save of the
offset and `Account` (lines 223-236). `compactFile` is `CompactTruncate`, or
`CompactCopy` and `CompactRename`, and again a save. `saveOffset` is two steps
because `os.WriteFile` truncates before it writes. `Restart` may happen at any
step: the process stops, and `New` runs on what is on disk.

*Crash model.* The process stops; the machine does not. What a completed system
call wrote is there after the restart (the code calls `Sync` for the temporary file
only). Another process editing the files is not modelled; `FileInv` shows that the
branch of `Drain` for a file that is shorter than `readOffset` (lines 175-180) is
then never taken, but it is in the model.

*Abstraction.* Decoding is modelled by what it does: a whole line gives its text, an
empty one is skipped, anything else is skipped or gives text nobody wrote (glued
pieces may happen to be valid base64). Counters that are only reported are in
`stats`; `Stats` itself only reads.

### AsyncStorage

*State.* The channel (`buffer`, `closed`), the context (`cancelled`), the counters,
the rows of the database, and for each goroutine its next step and its locals:
senders (`sender`, `todo`), `writeLoop` (`loop`, `batch`, `back`, `discarded`), one
caller of `Clear` and one of `Close`.

*Actions.* A channel operation, a critical section of `as.mu` and a call of the
database are one step each. A sender that finds no case of its select ready parks;
a parked goroutine is woken by the first case that becomes ready, so `cancel()`
reaches it before `close()` does, whereas a sender that only now arrives at the
select finds both cases ready. That difference decides which senders can panic.
The database is external: it stores a batch or returns an error.

### Processor

*State.* The channels (`input`, `output`, `stops`), the lines of the overflow queue
(`spill`), the settings, and the goroutines: one `Submit` per line (`caller`), the
workers (numbers of waiting ones, before and after they have seen the context done,
and the lines held by the others), `batchProcessor`, `overflowDrainer`, concurrent
`UpdateConfig` calls, `Stop` and `ClearPendingData`. Workers are interchangeable, so
they are counted, not named.

*Actions.* One per channel operation and per critical section of `p.mu` or of the
overflow queue's `q.mu`. Receiving and parsing a line is one step, since parsing only
reads the parser. The top of the loops of `batchProcessor` and `overflowDrainer`
reads the configuration at the end of the previous round, so what the select uses
may be as stale as in the code. `NewProcessor` may fail to open the overflow queue
and then leaves `OverflowEnabled` set.

*Abstraction.* `ProcessorStats` is only reported and left out, as are `SetParser` and
ticker intervals (a tick may come whenever the select waits). The overflow queue is
used at the level of `SpillLog`: whole lines, each read once and in order, as long as
the process lives; `OverflowQueue` shows that the code provides that.

### Receivers

*State.* Each restart makes a new `Manager`, so managers have numbers (`made` of them so
far) and everything else is per manager: its kinds and phase (`mgr`), and per kind the
receiver and the goroutine Start spawned for it (`rx`: the goroutine's next step in
`loop`, its context in `cancelled`, the listener, connection or server in `sock`).
`tokens` is `connLimiter`, `hits` is `requestCount`, `session` the TCP connections and
HTTP requests in progress, `stopper` the calls of `Manager.Stop`. `missed` and `late` are
history: a Stop came before there was a socket to close; lines handed over after a Stop.

*Actions.* `StartManager` returns with all loops at `"begin"`: opening the sockets
(`Create`, `Listen`, `ListenFails`) is a step of each goroutine. `BeginStop`,
`StopReceiver` for each kind in the order of `m.receivers` and `StopReturns` are
`Manager.Stop`; `wg.Wait` is the guard of the last. A stop of TCP or UDP sets the context
and closes what is stored; of HTTP, `Shutdown`, if there is a server. A listener opened
after its receiver was stopped stays open until its manager is garbage (`Collect`; never
for the first, which `main` refers to). `Connect`, `ConnTop`, `ConnLine`, `ConnEnds` are
`handleConnection`, which no wait group covers; `Receive`, `SendLine`, `Answer` are
`handleLogs` with its refusals in the order of the code; `Minute` is the window of
`checkRateLimit`.

*Abstraction.* A line is only the fact that one is handed over. All configurations use one
port per kind. Another program on the port is not modelled. `Receive` needs the server's socket
open: a request read from a connection that was accepted before `Shutdown` is left out.

### Server

*State.* `holder` is who holds `runtimeMu`; `running` and `current` are
`receiverRunning` and `s.receiver`; `req` the requests on their goroutines, with the
payload and the two copies (`old`, `new`) of `updateConfig`; `config`, `file` and `runtime`
are what is stored, what is in `config.json`, and what parser and processor (`parser`,
`workers`) and storage (`retention`) were last given. `LoadFromFile` normalises in memory and
writes nothing back, so `file` starts with what main loaded and `config` with its normal form;
that there may be no config.json before the first save is left out. `phase` is main. Of each
configuration section there is a field that some handler tells apart. `history` says, among
other things, whether the last save succeeded.

*Actions.* `updateConfig` is `BeginUpdate` (first `Get`), `Merge` (second `Get` and the
merge; a section of the wrong type ends it), `Store` (`config.Update` with its
normalisation), `Save` or `SaveFails` (which ends the request), `Apply`, `ApplyStorage`, and, for changed receivers,
`RestartStopped` or `LockAndStop` and `UnlockStopped`, between which the lock is held while
the receivers stop. The start, stop and metrics requests are `Call` followed by `Start`,
`LockAndStop`/`UnlockStopped` or `AnswerAtOnce`. `Shutdown` stops the manager main made,
without the lock; `ShutdownGoesOn` is what follows its return.

### LineFormat, MySQLStorage and Import

*LineFormat* sees a line as what the regular expressions find in it (`LogLine`), and defines
`DetectFormat` (the first test that holds), `isFormatCompatible`, `inferFieldName` and which
lines parse. There is no state. A line that is JSON but no object does not parse; the one such
line that does in the code, `null`, is left out, and so is the trimming before detection.

*MySQLStorage.* `rows` is the table, an entry its age in hours and whether the table takes
it (`fits`). `retention` is the `retention_hours` of the configuration; the storage is given
`RetentionHours`, its normal form, in which zero is the default.
`cleaner` is `cleanup` between copying the retention under the lock and
deleting without it. MySQL is external: a transaction happens as a whole or fails.

*Import.* `temp` maps the file names in `./temp` to `inode`s, as the file system does:
uploads of one name share the inode, a deferred remove takes away whoever's file has the
name, and a file once opened stays readable. `imp` is each request's place and locals,
`progress` what a client polls. `Valid` is the places of a file that hold neither a blank line nor
a comment, `EntryOf` the entry made of one of them. `Begin`, `UploadCreates`, `UploadWrites`, `Scan`, `Reopen`,
one of `ReadIgnored`, `ReadDropped`, `ReadAccepted` per line, `Save` for each batch,
`ReadEnds`, `Report`; each step that can fail has its `...Fails`. `StoreLive` is the
pipeline saving its own entries meanwhile. `shared` is history: another import of the
same name was in progress at some time.

## 3. Runs

| Run | Constants | Checks |
|---|---|---|
| `OverflowQueue` | lines of 2 and 3 cells, limits 5 or 7 cells, batch 2, 3 calls, 2 faults out of restart, torn write, failing offset save, I/O error | `IInv`, `CrashSafe`, `ImplementsSpillLog`, `CompactionKeepsUnread`, `PendingExact`, `SpaceReclaimed`, `DamageBounded`, `ReaderCatchesUp` |
| `OverflowQueue_replay` | restarts | `NoReplay`, violated |
| `OverflowQueue_failed_save` | restarts and failing saves, no `Clear` | `FailedWriteLosesNothing`, violated |
| `AsyncStorage` | 2 senders with 2 and 1 entries, buffer 1, batch 2, 1 clear | `TypeOK`, `EveryEntryOnce`, `OrderKept`, `BacklogNeverHidden`, `BufferedExact`, `DroppedExact`, `ClearReachesAll`, `CloseFlushes`, `SendersReturn`, `MemoryEmpties`, `ClearReturns` |
| `AsyncStorage_closed` | the same | `NoSendOnClosed`, violated |
| `Processor` | queues of 1, overflow of 1, 1 slot for stop signals; either 2 lines with 1 worker, batches of 2, and a clear or an update that switches overflow on or off; or 1 or 3 workers, batches of 1, with 2 concurrent updates or 1 update and 1 line | `TypeOK`, `EveryLineOnce`, `WorkersMatchConfig`, `AcceptedArrive`, `WorkersSettle`, `StopCompletes` |
| `Processor_clear` | 2 lines, one worker with overflow or two without, 1 clear | `ClearDropsBacklog`, violated |
| `Server` | 2 requests on 2 goroutines out of updates (port and receivers; token, with zero workers and retention, which are normalised; one with an invalid section), start, stop, metrics; 3 managers; 1 session, 1 connection allowed | `TypeOK`, `RunningAgrees`, `StoppedIsQuiet`, `LateLines`, `FileMatchesStored`, `UpdatesCompose`, `RuntimeFollows`, `SilentMeansMissed`, `RequestsReturn` |
| `Server_shutdown` | 1 update | `ShutdownStopsReceivers`, violated |
| `Import` | 2 imports of 4 possible files under 2 names, up to 4 lines, limit 3, batch 2, 1 live entry, retentions 2 and 0, which stands for the default of 1 | `TypeOK`, `EveryLineCounted`, `ImportedExact`, `StandardLayout`, `ProgressMonotone`, `RetentionRespected` |
| `Import_claims` | the same, no live entry | `ImportedIsOwn`, violated |
| `Import_retention` | the same, 1 import and no live entry | `ZeroNeverCleans`, violated |

*Why the bounds are enough.* The two lines of the overflow queue have different
lengths, so that a stale offset can point into a line; three calls and two faults
allow a torn write followed by a good one, a compaction and a crash in it. Several properties of
the overflow queue are asked for only until a fault they do not bear has happened
(`Without`), so each of them meets every fault it bears. A limit of 5
cells fills up with two lines. Queues and buffers of one slot make every sender meet
a full queue; batches of two entries out of three make both a full and a ticked flush
happen. `CompactBelow` is 2 instead of 100, so that both outcomes of the test occur.
`StopCap` is 1 instead of 1024, so that `UpdateConfig` meets a full `workerStopChan`.
In `Processor` two updates may each start or stop two workers, which is more signals than
the slot holds. An instance keeps to one of its two sets of
configurations, and submits and updates come in the order of their numbers (`Few`), since
they are alike.
Two requests to the API are enough to overlap, to overtake each other between storing, saving
and applying, and to meet in the lock; three managers are as many as two requests can make.
One connection or HTTP request reaches the limit and outlives its manager. The files of
`Import` hold comments, lines that are detected and not parsed, lines the table refuses,
both extremes of the seven-field layout, exactly as many valid lines as the limit (with a
comment besides) and one more than that, so that a batch fills up and another is flushed
part full. The imports are interchangeable (`SYMMETRY`; the run has no liveness property).

Deadlock checking is off: with the calls used up, or a goroutine panicked, the
system may really stop.

*What the violated runs show.*

- `NoReplay`: `Drain` saves the offset after the whole batch (line 218). A process
  that stops before reads the lines again. The comment at line 33 and the README of the
  program promise that a restart does not replay.
- `FailedWriteLosesNothing`: the save after a compaction (line 344) may fail
  unnoticed. The old offset is then kept; once the compacted file has grown past it, a
  restart resumes there and skips lines.
- `NoSendOnClosed`: `Close` closes the buffer directly after `cancel()`. A sender that
  comes to its select later may pick the send, which panics.
- `ClearDropsBacklog`: a line held by a worker, or in the batch, survives
  `ClearPendingData`.
- `ShutdownStopsReceivers`: `shutdown` calls `Stop` of the manager main made (main.go:182).
  After an update of the receivers, or a stop and a start, that is no longer the one that
  runs: the replacing receivers serve on while processor and storage are stopped.
- `ImportedIsOwn`: an import that wrote nothing reports by how much the table has grown since
  its scan (server.go:1591-1593), so that one whose lines are all dropped claims what another
  import stored meanwhile. The comment at line 1589 says that this request's own count is used
  to exclude precisely that.
- `ZeroNeverCleans`: README.md:200 says that a `retention_hours` of 0 never cleans.
  `normalizeStorageConfig` (config.go:336-338) turns 0 into the default of 168 hours, the storage is
  never given 0, and the cleanup deletes rows.

*Where properties are weaker than one might expect*, because the code is:

- `FileMatchesStored` speaks of the time after a successful save, with no request between
  storing and saving and no failed save since: until then the file is as the operator wrote it.
- `RuntimeFollows` and `UpdatesCompose` hold for updates that do not overlap, and
  `RuntimeFollows` only if no save failed. Of two overlapping updates one can be lost, and an
  update after a failed save compares with what was stored and not applied.
- `RequestsReturn` has an exception (`Hung`): an HTTP receiver stopped before it made its
  server serves on, and its manager's Stop waits for it with `runtimeMu` held, so that every
  later start, stop, restart and metrics request waits too.
- `SilentMeansMissed`: a receiver may fail to listen, which is logged only; that happens
  only after an earlier stop that came too early.
- `EveryLineCounted` says the limit is reported for a file of exactly `max_lines` lines too
  (server.go:1470), which then ends as partial though nothing was cut off.
- `ImportedExact` speaks of imports that parsed a line; for the others `ImportedIsOwn` is
  refuted. Entries the table refuses count as imported.
- `RetentionRespected` lets a cleanup use any retention that was in force while it ran: one raised
  after it was copied comes too late for that cleanup.
- `CloseFlushes` speaks of a `Close` that did not time out; one that did returns with entries
  still in the buffer or the batch.
- "Stored" in `AsyncStorage` means that the database was handed the batch:
  `MySQLStorage.SaveBatch` commits without the entries that fail, and returns nil.

*Met while modelling, without a run of their own*: `Get`
(config.go:209) says it returns a copy, which shares the lists; a JSON line without
a time is stored with the zero time and removed by the next cleanup; the default storage type
`sqlite` cannot be started; the timer that forgets an import's progress after two minutes
also hits a later import of the same id.

`ClearReturns` is restricted to the time before a shutdown. A `Clear` that was accepted
before `Close` closes the buffer never leaves its discard loop (lines 152-167):
receiving from a closed channel always succeeds, so the default case is not reached.

## 4. Fairness

- *OverflowQueue*: weak fairness of a method that has begun, and of `Drain` being
  called (`overflowDrainer` has a ticker). Strong fairness of `SubmitLine`: the input
  queue may be full for any one attempt, but the workers go on emptying it. Nothing
  forces calls of `Enqueue` or faults.
- *AsyncStorage*: weak fairness per goroutine while nothing has panicked. Nobody has to
  call `SaveBatch`, `Save`, `Clear` or `Close`.
- *Processor*: weak fairness per goroutine (the workers as a whole). `overflowDrainer`
  needs strong fairness of its exit: its select chooses at random between the ticker and
  `ctx.Done`, and would otherwise be allowed to pick the ticker for ever. Nothing
  forces `Submit`, `UpdateConfig`, `Stop` or `ClearPendingData`; parsing may always
  succeed. `Few`, the bound of the run, keeps only such calls from beginning, so it takes
  nothing from what fairness asks.
- *Server*: weak fairness of each request's next step, of each call of `Manager.Stop`, of each
  receiver's goroutine, and of main's shutdown once it has begun: all are goroutines that can
  run. Clients, API users and signals need not do anything; a read without a deadline may
  block for ever. `RequestsReturn` is the liveness property.
- *Import*: no liveness property, no fairness. That an import ends is a matter of a finite
  file.

## 5. Proofs

Every invariant and every action property of the passing runs that speaks of safety is proved, from
the named assumptions on the constants (`SpillCellsAssumption`, `OverflowQueueAssumption`,
`AsyncStorageAssumption`, `ProcessorAssumption`, `ReceiversAssumption`, `ServerAssumption`,
`MySQLAssumption`, `ImportAssumption`) and, for three theorems about the overflow queue, one more
that is named below. The runs show the same properties on small instances.

`DataLemmas` has what the proofs share. The theorems of the library on induction take an operator as
a parameter, which the provers cannot instantiate; `LeastNumber` (a set of naturals that is not empty
has a least member, from the library's theorem on well-founded relations) takes their place: the
least counterexample to a stated set is led to a contradiction. With it `SumExists` and `SumSolves`
find that the recursive function behind `SumFunction` exists, and `SumUpdate` that changing one
value moves the sum by the difference.

### The overflow queue

`OverflowQueue_proofs` holds for every set of lines, every size, limit, batch and bound:

| Theorem | Property | Faults it bears |
|---|---|---|
| `TypeCorrect` | `TypeOK`; `pending` never becomes negative | all |
| `InvariantHolds`, `CrashSafety` | `IInv`, `CrashSafe` | until an offset save has failed |
| `Refinement` | `ImplementsSpillLog` | until an offset save has failed |
| `CompactionSafety` | `CompactionKeepsUnread` | until an offset save has failed |
| `PendingIsExact` | `PendingExact` | until both a write was torn and the process restarted |
| `DamageStaysBounded` | `DamageBounded` | until both an offset save has failed and the process restarted |
| `SpaceIsReclaimed` | `SpaceReclaimed` | until a restart or an I/O error |
| `OnlyFailedSavesLose` | `FailedWriteLosesNothing` | assumes no failing offset saves |
| `OnlyRestartsReplay` | `NoReplay` | assumes no restarts and no torn writes |

The properties themselves speak of the faults that have happened, so all but the last two theorems
hold whatever faults may occur. The last two say how far the claims reach that the runs
`OverflowQueue_failed_save` and `OverflowQueue_replay` refute. The restrictions are needed: `New` counts a torn line as
one line, so `pending` is one too high after a torn write and a restart; a restart in a compaction, or a
copy that fails, leaves a long consumed prefix until a later `Drain`; a restart after a failed save
may pass over lines (with these faults TLC finds `PendingExact`, `SpaceReclaimed` and `DamageBounded`
violated). `DamageStaysBounded` also assumes that no line is empty: every receiver
drops empty lines before `Submit`, and `Drain` would skip one.

*The invariant.* `CrashSafe` (a restart resumes at or before the reader's place) is not
inductive: whether it survives the rename of a compacted file depends on what held when
the compaction began. `IInv` adds

- `FileInv`: the file is the end of the log, and `readOffset` lies in it;
- `OffsetInv`: the offset file is exact while no method is under way, lags behind during
  `Drain`, and is 0 between the two halves of a save;
- `CompactInv`: a compaction starts only when less is unread than was consumed. After the
  rename the new file is therefore shorter than the stored offset, which `New` takes for
  stale, and starts from 0. `CompactDue_AtHalf` (`>=` instead of `>`) breaks
  precisely this.

`NextIInv` goes through the actions one by one. `StepSimulation` maps each step to a step
of `SpillLog` or a stutter: the reader's place is `head`, and `FileAndLogAgree` and
`SameCells` carry what `Drain` reads in the file over to the log. `CompactionStep` reads
off `IInv` that the copy is the unread part, and that a restart within a compaction resumes
where the reader was.

*Beyond `IInv`.* `Position` is the part of it that no fault breaks. `Counted` adds the value that
`pending` is to have while a `Drain` is under way, which settles it last, and `EndsWhole` that
only a write that stops short leaves the file without a final newline; together they give `PendingExact`.
`DamageInv` states the bound for every place up to the reader's, since a restart takes the reader back
to an earlier one, and that the reader, the offset that `New` would take and the start of the file
are places where a line starts. `WholeSegment` is its core: what is read from such a place to the next newline
is one whole line, unless a torn one is in it. `EachOnce` compares the texts handed
downstream with the lines the reader is past.

### The asynchronous storage

For any set of senders, any buffer, batch and number of clears, `InvariantHolds`
gives `TypesHold`, `EveryEntryIsOnce`, `OrderIsKept`, `BacklogIsSeen`, `BufferedIsExact`,
`DroppedIsExact`, `ClearReaches` and `CloseIsFlushed`, one for each safety property of the run
`AsyncStorage`. The invariant adds to the properties

- `Places`: what each goroutine's next step implies for the others; in particular `writeLoop` ends
  only on a closed and empty channel, and discards just while a `Clear` waits for it;
- `Numbered`: what a sender has still to send are the last entries it made, so what it sends next
  is new and comes after all it sent before;
- `Flow`: every entry sent is in the database, the batch, the buffer or gone; each of the
  three is in order for each sender, and so is each against the next. Order and uniqueness need each other:
  an entry that goes from one place to the next is put behind what is there.

### The processor

For any lines, queues, configurations, concurrent updates and clears, `InvariantHolds` gives
`TypesHold`, `EveryLineIsOnce` and `WorkersAreMatched`. `OneEach` is `EveryLineOnce` with the places apart
(two queues, the overflow, the batch, the workers, the lines gone) and no line in one of them twice;
`Shutdown` ties `stopped` and the context to the steps of `Stop`, so that no worker leaves on the context's account
while `WorkersMatchConfig` is still asked for. That property is inductive beside them: each step of an `UpdateConfig`
moves its own summand and the workers, the signals or the configuration by the same number.

### The server and its receivers

For any number of requests, managers, connections, receivers' clients and updates, from
`ReceiversAssumption` and `ServerAssumption` alone (the assumption on payloads says that what
they set has the type of its field):

- `ControlInvariant`: `Spec => []Control`, and from it `TypeCorrect`, `StopQuiets`,
  `LateLinesBounded`, `RunningTrue` and `FailsOnlyWhenMissed`, for the properties `TypeOK`,
  `StoppedIsQuiet`, `LateLines`, `RunningAgrees` and `SilentMeansMissed` of the run `Server`;
- `FileFollows`, `UpdatesComposeAlways`, `RuntimeFollowsAlways` (`Config_proofs`), for
  `FileMatchesStored`, `UpdatesCompose` and `RuntimeFollows`.

*The invariant.* None of the five is inductive. `RInv` (`Receivers_proofs`) is what the
receivers keep up by themselves: a stopped receiver's open socket was missed by its Stop, a
loop that ended was told to, a connection that reads has handed over nothing late. `Lock`
ties the holder of `runtimeMu` to the stage of exactly one request and to the Stop of the
current manager. `Settled` and `Phases` say that loops may run only in the current manager,
and only until its stop is over. `SilentMeansMissed` needs `Settled`: a receiver that finds its
port taken belongs to the current manager, so the socket is one of an earlier manager, whose
loops are over, and was therefore missed.

`ReceiversFrame` states what a step of the receivers leaves alone, so that `Server_proofs` goes
into no receiver action again. Each action of a request has a lemma with its effects
(`StoreFacts`, ...), used by the control and by the configuration proofs. `Steps` divides the
steps into those of an update before its lock and those beside the updates (`Aside`);
`Composed` follows the one update in progress from its copies to the stored configuration, and
`Catching` says which of its two copies each component was last given.

### The imports

For any files, names, limits, batches and number of requests (`Import_proofs`):

- `RetentionKept`: `Spec => RetentionRespected`, from `CleanerInv`: a cleanup about to delete
  uses a retention that was in force during it;
- `StandardLayoutNamed`: `NamedByPlace` for every sequence of fields, and `LayoutIsStandard` for
  whatever line an import reads;
- `InvariantHolds`, and from it `TypesHold`, `EveryLineIsCounted` and `ImportedIsExact`;
- `ProgressIsMonotone`, for the action property `ProgressMonotone`.

*The invariant.* `Owned` says that an inode in use has one name, and that no more inodes are in use than
requests have made theirs; so `SaveUploadedFile` finds a free one, and two names never share a file.
`Mine` is the rest of the file system as one request sees it: nobody else runs with its name, its name is its
inode, and the file holds what it uploaded. Without another import of that name, `Counted` says that the lines
parsed and dropped so far are as many as there are lines with text up to the place it has
read, not over the limit. The places are sets, so that one more line adds one member or none,
and no induction over the file is needed. `Record` is what holds of one request whatever the
others do. For the progress, `Shown` relates the percentage a client sees to the count it is computed
from.

### Only model-checked

- Liveness: `ReaderCatchesUp`, `SendersReturn`, `MemoryEmpties`, `ClearReturns`, `AcceptedArrive`,
  `StopCompletes`, `WorkersSettle`, `RequestsReturn`. Fairness and `ENABLED` are beyond the prover.
- The claims the code does not keep, each refuted by its run: `NoSendOnClosed`, `ClearDropsBacklog`,
  `ShutdownStopsReceivers`, `ImportedIsOwn`, `ZeroNeverCleans`, and, under the faults of their
  runs, `NoReplay` and `FailedWriteLosesNothing`.

## 6. Not modelled

- Dead code: `importLogs` (no route reaches it), `FileWatcherReceiver` and `FileImporter` (never
  made), `ParserPool`, `parseWithRegex`.
- The benchmark, statistics, alerts, metrics' contents, the exporter and all formatting: they read,
  and write only what a user looks at.
- The progress of an import being forgotten after two minutes, and being shown every 500 lines.
- Configuration fields that are lists (aliased by `Get`); a crash while `config.json` is written.
- `main` reading config.json or falling back to defaults; a missing file.
- main's limit of ten seconds, the composition of processor and storage under the shutdown.
- `ProcessorStats`, `SetParser`, ticker intervals; queries, which only read; regular expressions
  and the values `setField` and `parseTime` store.
- MySQL, the operating system and the Go runtime are taken at their word.
- The web front end, models, scripts and examples keep no state the server depends on.

## 7. Plan

Done: `OverflowQueue` with its abstract specification; `AsyncStorage`, `Processor`, `Receivers`, `Server`,
`LineFormat`, `MySQLStorage`, `Import`; the proofs of all their safety properties.

Left, in this order:

1. An abstract specification of `Processor`, a bag of accepted lines that a worker takes, and the proof that
   the processor implements it while it runs; `Flow` and `OneEach` are the invariants that need.
2. An abstract specification of `AsyncStorage`, one sequence per sender, of which `OrderKept` and
   `EveryEntryOnce` are consequences.
3. `Shutdown`: `Processor` and `AsyncStorage` composed under main's order and timeouts. Property: an
   orderly stop in time leaves accepted lines only where a restart finds them.

Runs stay small: two or three actors of each kind, queues of one or two slots, at most two faults.
