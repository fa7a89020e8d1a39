# dbtrail: a TLA+ verification project

dbtrail reads the row changes of a MySQL, MariaDB or PostgreSQL server over the
replication protocol, keeps them in an index database (`binlog_events`), moves
old partitions to Parquet archives, folds the changes into Parquet snapshots of
the tables, and answers questions from all of them. This directory holds TLA+
models of the parts whose correctness depends on the order in which steps,
failures and restarts happen, the TLC runs that check them on small instances,
and TLAPS proofs of the properties that matter most.

To check it: `tlc -config <cfg> <module>` for each entry of `runs` in
`PROJECT.json`, and `tlapm <module>.tla` for `WriterProofs`, `CaptureProofs`,
`PositionProofs`, `DeliveryProofs`, `RotationProofs`, `RotationRowProofs` and
`ResumeProofs`. `PROJECT.json` also maps every definition to the lines it models.
A proof module takes two to seven minutes alone on one machine; several at a time
may run into the provers' time limits.

## 1. The system

### Parts, state, operations

| Part | Where | State it keeps | Operations that change it |
|---|---|---|---|
| Stream parser | `internal/parser/stream.go`, `parser.go`, `txnend.go` | GTID and rows of the transaction being read, last committed GTID, "after a rotate" flag | one handler per binlog event; reconnects of the syncer below it |
| Stream loop | `internal/streamrun/streamrun.go` | `streamState`: position, safe position, GTID set, dedup floor, caught-up marker | event, tick, cap timer, cancellation |
| Writer | `internal/indexer/txnbatch.go`, `txn.go`, `indexer.go` | batch, complete prefix, open index transaction | `Add`, `End`, `CommitComplete`, `OnCap`, `Discard`, `Close` |
| Checkpoint | table `stream_state` | one row | `saveCheckpoint`, gap stamps, reset |
| Start of a run | `streamrun.go`, `gtid_renumbered.go`, `position_file_identity.go`, `cleanupwait.go` | resolved start, loss stamps | resolve, detect a gap or a renumbering, wait for an earlier cleanup, dedup-on-resume |
| Rotation | `internal/rotation`, `internal/archive` | partitions of `binlog_events`, `archive_state`, local and S3 files | archive, upload, recount, drop, add partitions, prune |
| PostgreSQL capture | `internal/pgcapture`, `internal/pgstreamrun` | slot position, LSN checkpoint | decode, batch, checkpoint, acknowledge |
| Snapshots and their refresh | `internal/baseline`, `reconstruct`, `keyidx`, `baselineintegrity`, `consoleapp` | snapshot directories, markers, manifests | dump, convert, refresh, publish, prune |
| Copy mirror | `internal/copymirror` | local mirror of S3 snapshots | sync, publish, prune |
| Console | `internal/console`, `consoleapp` | servers, monitors, jobs, capture lock | start and stop capture, schedule, alert |
| BYOS agent | `internal/agent`, `byos`, `buffer` | buffer, send queue, connection | insert, evict, send, reconnect |
| Readers | `internal/query`, `parquetquery`, `recovery`, `cascade*`, `shim`, `pgshim`, `readrouter`, `sqlsandbox`, `mcptools`, `views`, `verify`, `icebergexport` | mostly none; queues, caches, cursors | read-only on the index; Iceberg export keeps a cursor |
| Support | `config`, `cliutil`, `observe`, `telemetry`, `status`, `doctor`, `metadata`, ... | configuration, counters | not concurrent with capture's state |

`components` in `PROJECT.json` lists every package with its status.

### How they interact

The parser runs in a goroutine and hands events over a channel to the stream
loop. The loop is one goroutine: a `select` over cancellation, a ticker, the
writer's cap timer and the channel. It owns the writer and the stream state.
The index server is shared: capture inserts into it, the next run's cleanup
deletes from it, rotation drops partitions of it, readers read it at any
moment. The checkpoint row ties two runs together: what it claims decides what
the next run asks the source for, and its dedup floor bounds what the next
run's cleanup may delete. The console or another supervisor starts a run again
after it ended.

### What is hard in it

* Index rows and the checkpoint are written in separate statements, and every
  statement may fail, or fail on the client and still be carried out.
* The ticker fires between any two events, inside a transaction too.
* A restart replays from the checkpoint; what was written after it must be
  deleted first, all of it and nothing else.
* The process may lose its capture lock while it has rows in hand.
* Rotation counts, archives and drops while capture and cleanups write.
* After a reconnect the source may send a transaction again.
* Between two runs the source may purge, renumber, rename or lose its log, or be
  replaced by a replica, and a DELETE of a dead run may still be executing.
* PostgreSQL sends no DDL, resends from the slot's confirmed position, and keeps
  the slot in another database than the checkpoint.

`hazards` in `PROJECT.json` lists these at the lines where they bite, with the
properties that would catch them going wrong, or why none does.

### What makes it correct

No change is lost: a checkpoint claims only what is committed in the index.
No change is doubled: a cleanup finds every row that will be sent again. It
deletes nothing else: history of earlier captures stays. Readers see a source
transaction whole or not at all. A stamp "caught up" means what it says. A
process that knows it lost the lock writes no row and begins no checkpoint. And
capture makes progress: after the last failure every change gets into the index. Between the source and the loop
each row is handed over once, in order, under its own coordinates. Rotation
drops only what is archived, leaves a partition whose upload is due, tells
readers of every drop, and never looks healthy while it makes no progress. A
start skips a change only with the loss on record, and deletes only rows that
come again (with one exception, section 3). PostgreSQL's rows carry the shape they were written under, and a
schema change is recorded once, inside the bracket it is reported with.

## 2. The modules

| Module | Models |
|---|---|
| `TxnBatcher` | the writer of `internal/indexer/txnbatch.go` and the table it writes |
| `Capture` | the stream loop, checkpoints, stop, lost lock, crash, restart and dedup-on-resume of `internal/streamrun/streamrun.go`, over `TxnBatcher` |
| `MC_Capture` | small binary logs and an earlier capture's rows for TLC |
| `StreamParser` | one run of the stream parser of `internal/parser/stream.go`, with reconnects below it |
| `MC_StreamParser` | binary logs as they are on the wire |
| `Rotation` | cycles of `Perform` in `internal/rotation/rotation.go`, while capture writes |
| `MC_Rotation` | options of the loop and of the command, and rows |
| `ResumeStart` | how a MySQL capture starts: choice of a start, gap and renumbering detection, loss record, wait for an earlier cleanup, cleanup, start checkpoint |
| `PgInference` | schema changes inferred from the PostgreSQL stream (`ddlinfer.go`, `pgshapes.go`), as operators |
| `PgCapture` | PostgreSQL capturer, loop, checkpoint, slot, reset and baseline, over `TxnBatcher` and `PgInference` |
| `MC_PgCapture` | write-ahead logs |
| `Delivery` | what any capture promises: the abstract specification `Capture` and `PgCapture` implement |
| `WriterProofs` | what every method of the writer keeps and promises |
| `CaptureProofs` | the inductive invariant of both modes and its consequences |
| `PositionProofs` | position mode: nothing lost, nothing doubled |
| `DeliveryProofs` | position mode implements `Delivery` |
| `RotationProofs` | types, drops on record, uploads that hold, healthy cycles |
| `RotationRowProofs` | the loop loses no row |
| `ResumeProofs` | a start that looked runs beside no earlier cleanup |

### TxnBatcher

A writer state is a record with the fields of the code's `TxnBatcher` (`batch`,
`done`, `inTxn`, `splits`, and `open`/`txn` for `tx`), the committed rows of
`binlog_events`, its AUTO_INCREMENT counter and `FirstIDOfLastBatch`. A method
maps a state to the set of states it may leave: success, failure, or failure on
the client of a write that the server carried out (`Ambiguous`; the code says a
timed out COMMIT is ambiguous). `Then` is "and if that returned no error". The
time cap may have passed whenever an index transaction is open, so `OnCap`
chooses. A row is its place in the log; statement counts, metrics and stamps
are left out.

### Capture

`Log` is the source's binary log as the parser hands it over: GTID, row, commit
and DDL events with coordinates, several rows possibly at the same coordinates.
Coordinates are one order over all files; 0 is the empty file name.

| Code | Model |
|---|---|
| `case ev := <-events` | `Read`: position tracking (`Tracked`), then `OnGTID`, `OnCommit`, `OnDDL` or `OnRow` |
| `case <-ticker.C` | `Tick`: `CommitComplete`; then, as a step of its own, `Save`: it succeeds, fails, or fails after it landed. Between the two (`st.saving`) the loop serves no other case (`Selecting`) |
| `case <-w.CapC()` | `CapTimer` |
| `EventCaughtUp` | `CaughtUp` |
| `stop()` on cancellation or a closed channel | `Stop`: discard, or keep what a DDL already claimed, then a last checkpoint |
| `ErrStopWithoutFlush` | `LoseLock`, in another goroutine and so also between `Tick` and `Save`; after it the writer's `Stopped` hook fails every write |
| an error of a write | `Continue`/`Abort`: the run ends, the open index transaction is rolled back |
| end of the process at any moment | `Crash`, also between the two passes of a cleanup |
| first start | `StartFresh`: fresh dedup floor, start checkpoint |
| resume | `ResumePosition`; `ResumeGTID` then `DeleteStragglers` (two statements in the code, two steps here) |

`torn` and `spared` are history variables: transactions a cap made visible in
parts, and rows a cleanup without a file name left in place. Nothing reads them
but the properties.

A handler of the loop is one step, except the ticker's. The lock may be lost
inside one, too. Before a write's check the loss fails that write, which is the
error the write may have anyway; after the check, while the INSERT or COMMIT is
under way, the write goes through, which is the step followed by `LoseLock`.
Inside `stop` nothing more is seen of it, since the run is over.

Left out: counters, timestamps and metrics; the schema hook of a DDL; the
source's server identity; `--reset`, gap detection and renumbering, which are
`ResumeStart`'s. Assumed, as the code does: one writer at a time per index, and
no statement of a dead run takes effect after the next run's cleanup looked
(`ResumeStart` follows what happens when one does).

### Delivery

Three variables: the changes readers see (`indexed`), the changes a restart
would not ask for again or the source may discard (`claimed`), and whether a
loss is on record (`excused`). `Index` and `Forget` change the first, `Claim`
the second, over indexed changes only and never back, and `RecordLoss` ends the
promise. `Capture` maps `claimed` to what the checkpoint row claims, `PgCapture`
to what the checkpoint or the slot's confirmed position does; both runs check
`ImplementsDelivery`, and `DeliveryProofs` proves it of position mode.

### StreamParser

`Log` is the binary log as it is on the wire: GTID events, rows, terminators,
DDL, rotates, each with its true end offset and length. `p` holds the locals of
`Run` and the events it sent; the handlers map it to itself, one per case of
`handleEvent`, after the wraparound guard (`Placed`) and the skip filter
(`Dropped`). `Deliver` is one turn of `Run`'s loop, `Return` its end by
cancellation or by the client. `Reconnect` is the client library, which is
external: by GTID set it resumes at the last GTID event it read, by position
after the last event it read, and the source starts with an artificial rotate.
A header holds an offset modulo `Width`, which stands for 2^32.

Left out: heartbeats (they need a clock), statement text, connection ids and
commit times, filters beyond "captured or not", and the correction of positions
MariaDB leaves at zero.

### Rotation

Partitions `1 .. Expired` are past retention, `Expired + 1` is everything later.
Partial functions stand for the partitions there are (`live`), staged files,
S3 objects and rows of `archive_state`; `below` is the mark in
`partition_history`.

| Code | Model |
|---|---|
| `Perform` up to its first partition | `StartCycle`, with the options of the loop or of a command |
| `ArchivePartition`, or a verified file under `--retry` | `ArchivePartition` |
| the upsert of `archive_state` | `RecordArchive`; it leaves an earlier upload recorded (`Upserted`) |
| upload and `s3_uploaded_at` | `Upload`, `MarkUploaded` |
| pending upload, count, `MarkPartitionsDropped` | `CheckBeforeDrop` |
| an attempt of `alterBinlogEvents`, and `stillSafe` before the next | `DropPartition`, `Recount` |
| `discardStaleArchive` | `DiscardStaleArchive` |
| the staged file removed after a drop | `PruneLocal` |
| `Perform` without an archive directory | `FilterToDrop`, `DropAll` |
| end of the process | `Crash`, perhaps with the staging directory |

Every step may fail. The ALTER needs the table, so it waits for capture's open
index transaction and may give up. Capture is what rotation can see of it:
`Insert` into an open transaction, `Commit`, with or without a checkpoint, and
`Cleanup`, a resume that deletes and reads again. A row of an hour that is
already dropped lands in the oldest partition there is. `late` is a history
variable: rows that came between the last count and the drop.

Left out: the sidecar file, which is best effort; future partitions and the
choice of the window, whose failure ends a cycle as `Ended` allows; a cycle the
upgrade guard keeps from dropping; several sources on one index; two cycles at
the same time.

### ResumeStart

A change is a whole transaction with a number; a binary log file has a name
(base and number), an identity and its changes. The source commits, rotates and
purges while a start is under way, and between two runs it may break: RESET,
another `log_bin` name, a lost last change, a replica that takes over. `run`
holds the locals of `oneRun` and the phase it is in:

| Code | Phase: action |
|---|---|
| `resolveStart` | `down`: `StartFresh` (no checkpoint, or `--reset`), `StartResume` |
| reading the source's position, then its GTID set | `StartFresh`, then `discover`: `Discover` |
| `classifyResetDiscard` | `classify` |
| `detectGTIDRenumbering` | `renumber` |
| `detectGTIDGap`, `detectPositionGap` | `gap` |
| `probeBinlogFileIdentity` | `probe` |
| `persistGapAutoAdvance`: the stamp, then the checkpoint | `stamp`: `Stamp`; `advance`: `SaveAdvance` |
| `awaitEarlierCleanup` | `await` |
| `deleteEventsSinceCheckpoint` | `cleanup`: `Cleanup`; `CrashInCleanup` leaves the DELETE executing as `orphan`, `OrphanEnds` is its end |
| `StartSync`, the first checkpoint | `sync`: `StartSync`; `first`: `SaveStart` |
| streaming | `stream`: `Read`, `OpenFile`, `Tick` |

A `Crash` may come in every phase. File names are compared the way the code and
its SQL do: by length, then as text. Numbers are written in base `Radix` with
`Width` digits or more; with base 2 and one digit, files 3 and 4 are "11" and
"100", which is the step from `binlog.999999` to `binlog.1000000` in small.
The source takes no step in phases whose run steps do not read it
(`SourceActs`): those commute.

The dedup floor is a lower bound, as in the code: a run carries the saved one
until `noteDedupFloor` takes the first id of its last batch, and since batches
are cut anywhere, `Read` leaves any of these (`Floors`). Only a start without a
checkpoint, or on a numbering found to have started over, takes a fresh one.

`since`, `ep`, `moved` and `excused` are history variables, and so is the `ep`
of a row, the source's numbering it was read under. `moved` says files
were purged since the run looked, which no check can see. `excused` marks the
limits `docs/streaming.md` names: a position resume that has no file identity to
compare after a break, a purge advance after a reset, a GTID numbering that grew
back over the checkpoint, a `--reset` that compares coordinates only, and a late
cleanup that took newer rows. It also marks what `resume_floor` shows: a GTID
cleanup that took rows of an earlier numbering (`OldNumbering`).

Left out: MariaDB's GTID detectors; `--start-file` and `--start-gtid`, and a
switch of mode; checkpoints without a floor, from versions before 0.83; files
past 4 GiB; a source that breaks under a running stream; two files created in
the same second; the missing-row arm of the stamp; the second DELETE of a GTID
cleanup as an orphan.

### PgCapture and PgInference

The log is a sequence of DDL, row, TRUNCATE and commit steps with the commit LSN
of their transaction. Capturer and loop are two goroutines with a channel
between them. `sess` is the capturer's session, `loop` the locals of
`streamLoopPG`, `saved` the row of `stream_state`, `snaps` and `changes` the
tables `schema_snapshots` and `schema_changes`.

| Code | Model |
|---|---|
| `receiveLoop`, `Decode`, and a Relation message's comparison | `Receive` (`DecodeChange`, `DecodeCommit`, `Describe`) |
| `sendStandby` | `Standby`: reports what the loop acknowledged |
| the loop's cases | `Take` (commit, row, TRUNCATE, inferred change, relation), `CapTimer`, `Tick`, `Stop`, `PollHealth` |
| `ensureSlot`, `persistSlotLostPG` | `Start`, `StartRefused` |
| `bintrail-pg reset` | `DropSlot`, then `ClearCheckpoint` |
| `EnsureSlotExists` of a baseline | `EnsureSlotExists` |
| the source and its slot | `Commits`, `LoseSlot` |

`PgInference` has one operator per function of `ddlinfer.go`: shapes of a table
in stream order, the version in effect at a position, releases of a name, the
bracket of a change, and the test that a resend was recorded (`recorded`).

Left out: shapes stored without an OID; commit times read from the catalog and
tables added to the publication (`ddlinstant.go`); `--start-lsn`; a standby
message during shutdown. Commit times are taken to grow with LSNs.

## 3. The runs

| Run | Shows |
|---|---|
| `capture_position` | Position mode over a CREATE TABLE ... SELECT of one row, a one-row transaction in the next file, and a transaction of five rows past the row cap of 4 whose first event has two rows. Eleven properties hold |
| `capture_gtid` | GTID mode over a one-row transaction, a DDL, and in the next file a transaction of a batch and a half. Four properties hold |
| `gtid_create_select` | Expected violation of `ClaimedIsIndexed` |
| `parser` | Three sources with reconnects anywhere. By GTID set over two files: transactions with an XID or a COMMIT, a GRANT that nothing closes before a file switch, a DDL. By position over transactions with and without a GTID. By GTID set over a file that outgrows a header's position. Seven properties hold |
| `rotation_loop` | The built-in loop over two expired hours with a crash and rows that arrive late. Four properties hold |
| `rotation_mixed` | Loop and command in turns, with and without a bucket, and a resume of capture that deletes rows: `DropsAreRecorded` and `PendingUploadHolds` hold |
| `rotation_stale_upload` | Expected violation of `NoRowLostUnlessLate` |
| `resume_start` | Two crashes around one break of the source, with purges, with and without GTIDs: `LossOnRecord`, `OrphanSparesResumed` and `CleanupReturns` hold. In GTID mode `CleanupReturns` leaves out rows of an earlier numbering, and `LossOnRecord` the states after a cleanup took some |
| `resume_live` | The same, and a start with `--reset`: `EventuallySettled` holds |
| `resume_floor` | Expected violation of `CleanupLosesNothing` |
| `pg_capture` | Five write-ahead logs: rows and a TRUNCATE past the caps, one ALTER, two ALTERs in a transaction, a name handed from one table to another, a RENAME and a DROP. Eight properties hold |
| `pg_recreate` | Expected violation of `CheckpointComplete` |

Each property of a passing run has a mutant in `PROJECT.json`: a plausible bug
with which TLC finds that property violated. Nothing is symmetric: events,
changes, partitions and LSNs have an order.

### Bounds

* Capture: `BatchSize = 2`, the smallest size with a partial batch, and
  `MaxRuns = 3`: two failures, stops or crashes at any place, so also a crash of
  a run that was itself a resume. The logs have every kind of event, a partial
  and a full batch, an index transaction that is opened, split and committed, a
  file change, and rows of an earlier capture at the same coordinates; more of
  the same adds no new case.
* Parser: two reconnects are enough for a re-send of a re-send; the GTID sources
  have more, since they are cheap. `Width = 32` stands for 2^32, and the file
  that wraps has 42 bytes.
* Rotation: two expired hours are enough for a row to be misfiled from one into
  the other, two attempts of the ALTER for a recount between them, one crash for
  a cycle that starts from every state another can leave.
* Starts: three changes, one before the checkpoint, one after it and one the
  break concerns; four files, so a checkpoint's file can be purged, recreated
  and followed, and their names get longer once; one break; two crashes, so the
  start after a break can itself be cut between the stamp and the checkpoint, or
  in its cleanup. `resume_live` has one crash and three files, since liveness
  costs more, and one `--reset`.
* PostgreSQL: a channel of one event, so the capturer runs ahead of the loop and
  is held up by it; three runs for the first two logs and two for the others;
  the slot may be lost or reset in the logs `MayLose`, and a run may come up
  without inference in the log `MayBlind`.

`CHECK_DEADLOCK FALSE` is set where the system may stop: a parser that returned,
a rotation with nothing left to do, a PostgreSQL capture whose slot is lost or
whose last run ended.

### Fairness

* Capture (`EventuallyIndexed`): strong fairness of `Read`, weak fairness of
  `Tick`, `Save` and `Start`. Go's `select` chooses among the ready cases at
  random, so an event that is ready again and again is taken even though ticks
  come in between; the ticker keeps firing, a checkpoint under way is finished,
  and the supervisor starts capture again. Nothing is assumed of failures except that there are
  finitely many (`MaxRuns`); the last run neither stops nor fails, which is what
  "eventually" can mean.
* Parser (`EverythingSent`): weak fairness of `Deliver`, since `Run` asks for
  the next event as long as it runs.
* Rotation (`EventuallyDropped`): weak fairness of the cycle's steps and of
  capture's commits (the loop's ticker, the writer's time cap), and of the
  outside that no kind of step fails every time it is tried: strong fairness of
  each step's success. The loop cannot promise more: with a bucket that is gone
  for ever it keeps the partitions, which is what `HealthyMeansDropped` makes it
  report.
* Starts (`EventuallySettled`): weak fairness of a supervisor's resume, of the
  steps of a run, of reading, of the move to the next file, of the first start,
  and of the end of a DELETE. No fairness of the source and none of `--reset`.
  A GTID checkpoint with an empty set, against a source that has purged, is
  refused until someone resets it (`Refused`), and is excepted.
* PostgreSQL (`EventuallyCheckpointed`): weak fairness of the source's commits,
  of the two goroutines (`Receive` and `Standby`, `Take` and `Tick`; the last of
  each is a ticker), of the loop's end once the capturer has returned, and of
  `Start`; stated for a slot that is kept.

### The disagreements

* `gtid_create_select`. The GTID of a CREATE TABLE ... SELECT is claimed at its
  DDL, before its rows. `stop` knows about this (`ddlClaimed`), a crash after a
  tick does not.
* `rotation_stale_upload`. A partition that is archived again keeps the record
  of its first upload, so with `--retry`, which the loop always sets, the new
  file is not uploaded and then pruned. The run loses the staging directory; a
  command without `--retry` that archives again in between comes to the same.
* `pg_recreate`. A baseline makes a missing slot whatever the checkpoint says.
  The next start then finds a slot and resumes, where without the baseline it
  refuses, and what lies between is captured by no one.
* `resume_floor`. A GTID resume does not take a failover, or a new `log_bin`
  name, for a renumbering, and carries the saved floor on
  (`streamrun.go:3168`). Rows the GTID set claims may lie at or above that
  floor. After a checkpoint in the new numbering, the cleanup of the next resume
  compares their file names with a file of the new numbering and deletes those
  that sort after it. The source never sends them again and nothing is recorded:
  the comments at `streamrun.go:453` ("a floor that is too low only widens the
  range") and `streamrun.go:3029` hold only within one numbering. TLC reports
  the trace with a new name; the one with a failover has the same steps.

Three more are not runs of their own:

* The lost lock. A checkpoint asks whether the lock is lost before it commits its
  rows (`txnbatch.go:187`) and not again before `saveCheckpoint`
  (`streamrun.go:1962`), so a process that learns of the loss in between still
  writes its position. The comments at `streamrun.go:1875` ("neither the pending
  batch nor the position") and `txnbatch.go:37` ("must write nothing after it
  knows") say otherwise. `LostLockStopsWrites` therefore allows that one save
  and nothing else. What it saves is covered by rows that are committed, so by
  itself it claims nothing false; beside another process that already captures,
  it may set the checkpoint back or overwrite it, which is outside the model's
  one writer at a time.
* Inferred PostgreSQL changes. `decoder.go:139` ("the redelivered Relation
  writes a duplicate row") and `pgstreamrun.go:561` ("re-delivers and re-records
  it") describe an earlier design. The code recognises a change it already
  recorded, as `docs/postgres.md:987` says ("a change already recorded is not
  recorded again"), and `RecordedOnce` shows that it does.
* Earlier cleanups. `streamrun.go:3060` says "Both branches look first for a
  cleanup an earlier run left executing", and `docs/CHANGELOG.md:3634` "A start
  now waits for a cleanup an earlier run left running". A start with `--reset`,
  and the branch for an advance past purged GTIDs (`streamrun.go:3110`), do not
  look, and the DELETE of the dead run takes rows of the new one:
  `OrphanSparesNewRows` is violated with `MaxDiscards = 1`.
  `OrphanSparesResumed` shows that the starts that look are safe.

### Limits the passing runs are stated around

* GTID mode, a quiet resume. It resolves to a set and no coordinates, so its
  state starts with an empty file; a tick before the first event saves that, and
  the cleanup after the next crash does nothing. `spared` shows that this is the
  only way a row is doubled: `NoDuplicateUnlessSpared`.
* GTID mode, between the two statements of a cleanup, which each commit on
  their own: a transaction is visible in part, so `capture_gtid` checks
  `WholeTransactionsWhileRunning`.
* The parser, by GTID set: the DDL clears the GTID in flight, so when a CREATE
  TABLE ... SELECT is cut after some of its rows and sent again, neither
  comparison in `beginTxn` knows it. The source that has such a transaction is
  read by position.
* The parser, by position: a reconnect just before a file outgrows the position
  in a header resets what the wraparound guard compares with (`stream.go:509`),
  so the file that wraps is read by GTID set, where the client goes back to the
  start of the transaction.
* Rotation, a row committed between the last count and the drop: the count
  before the first attempt of the ALTER is not repeated once it has the table.
  `NoRowLostUnlessLate` shows that nothing else is lost.
* Rotation compares numbers of rows (`rotation.go:758`). A resume of capture
  deletes rows too, and other rows, misfiled from an hour dropped before, can
  make the numbers equal. `MaxCleanups = 1` in `MC_rotation_loop.cfg` shows it.
* Rotation, a drop-only cycle takes a row of `archive_state` for an archive of
  all that is in the partition (`partitionArchived`), so `NoRowLostUnlessLate`
  is checked for cycles that archive.
* Starts, a second RESET. After a restart on a new numbering saved an empty
  GTID set, a crash and another RESET lose changes with no stamp: an empty set
  is never taken for a renumbering (`classifyMySQLRenumbering`).
  `MaxBreaks = 2` in `MC_resume_start.cfg` shows it for GTID sources
  (`docs/streaming.md:354` names the limit); by position it passes.
* PostgreSQL, after a run without inference described a new table, the next run
  only learns its shape (`docs/postgres.md`, from line 975). `lowFor` takes the
  last change of a name, not of a table, as a bound (`ddlinfer.go:515`).

## 4. The proofs

| Theorem | Statement |
|---|---|
| `TypeCorrect` | `Spec => []TypeOK` of `Capture` |
| `OldHistorySafe` | `Spec => []OldHistoryKept`, both modes |
| `LostLockSafe` | `Spec => LostLockStopsWrites`, both modes |
| `PositionLosesNothing` | position mode: `Spec => []ClaimedIsIndexed` |
| `PositionIndexesOnce` | position mode: `Spec => []NoDuplicate` |
| `PositionFloorSound` | position mode: `Spec => []FloorBelowUnclaimed` |
| `PositionImplementsDelivery` | position mode: `Spec => ImplementsDelivery` |
| `RotationTypes` | `Spec => []TypeOK` of `Rotation` |
| `RotationRecordsDrops` | `Spec => []DropsAreRecorded` |
| `RotationHealthyMeansDropped` | `Spec => []HealthyMeansDropped` |
| `RotationHoldsPending` | `Spec => PendingUploadHolds` |
| `LoopLosesNoRow` | `Steady => (Spec => []NoRowLostUnlessLate)` |
| `ResumeWaitsForCleanup` | `Spec => []OrphanSparesResumed` |

### Capture

The theorems hold for every log, batch size, row cap, old history and number of
runs that meet `BatcherAssumption` and `CaptureAssumption`: sizes are positive,
events lie in order without overlap (rows of one event share its coordinates),
the old history is finite, and a position-mode start has coordinates.

The argument has three layers. `WriterProofs` shows that every method of the
writer makes `Progress`: its state stays `Good`, the table only grows, with ids
at or above the counter (`Grown`), rows are in log order (`Ordered`), and what
was held stays held and what was durable stays durable. `CaptureProofs` lifts
this to the inductive invariant `Core` of both modes: types, a good writer, and
every floor above all old ids, which is why no cleanup can reach old history.
`SaveInv`, a second invariant beside it, says that while a checkpoint is between
its commit and its save no complete row waits in the batch; `LostLockSafe` and
the proofs of the save rest on it.
`PositionProofs` adds `PosInv`: the checkpoint lies between events (`Cut`), all
before it is indexed, and its floor is at or below every row after it
(`Finds`); while a run is alive the same holds of the safe position with
"durable" for "indexed" (`RunInv`), and everything read is still held. None of
the three properties is inductive alone: that a cleanup finds every row needs
the floor, the floor is sound only because ids grow in log order, and the order
survives a resume only because the cleanup removed all later rows.
`DeliveryProofs` uses the same invariant, and `Ahead` (a run's safe position
is never behind the checkpoint), to map every step to a step of `Delivery` or to
a stutter.

### Rotation

The theorems hold for every number of partitions, rows and attempts, every set
of options and any number of crashes, under `RotationAssumption`: a bucket
implies an archive directory. `CycleOK` says what a cycle knows at each program
counter. To it are added `MarkInv` (what is about to be dropped is already below
the mark), `HoldInv` (and has no upload due) and `HealthInv` (a cycle with
nothing deferred has every expired partition still on its list). They are needed
because check and drop are two steps, with capture and failures in between.

`LoopLosesNoRow` assumes `Steady`: every cycle archives and retries uploads, as
the loop does, the staging directory survives a restart, and capture does not
delete. The first of these is a choice of options; without either of the other
two the property is false, which `rotation_stale_upload` and the limit on row
counts above show. `CopiesInv` says that archives of partitions still in the
table hold no row the table has not, and a recorded upload is of the file that
is there; `StageInv`, that at the drop the counted rows are the file's. The step
from equal numbers to equal sets of rows is the inclusion in `CopiesInv`.

### Starts

`OrphanInv`: a run that passed the wait, and whose look succeeded, has no
earlier cleanup beside it. It is inductive because the only step that leaves a
cleanup behind ends the run.

The inductive invariants `Core`, `PosInv` and `RowInv` were checked with TLC on
the instances of the runs before they were proved.

### Only model-checked

GTID mode beyond `Core`; `WholeTransactions` and `CaughtUpIsIndexed`; the
parser; `LossOnRecord` and `CleanupReturns`; all of PostgreSQL capture; and
liveness, which the prover does not handle.

## 5. Not modelled

`components` in `PROJECT.json` gives the reason for every package. In short:

* Snapshots and their refresh, the copy mirror, the console's monitors and jobs,
  the agent's buffer and send queue and the Iceberg cursor have state that
  several actors change. They would be the next modules. None of the
  modules here depends on them: they read the index and write elsewhere, except
  that the console starts and stops capture, which is in `Capture` and
  `ResumeStart` as stops, crashes and starts at any moment.
* Of the parts that are modelled: heartbeats and future partitions, which need a
  clock; two rotation cycles at once; MariaDB's variants of the detectors;
  the others are named at each module above.
* Rendering, SQL text generation, wire protocols, HTTP handlers, telemetry and
  configuration keep no shared state that steps of several actors change; type
  conversions of column values are data the properties do not tell apart.
* Readers (`query`, `recovery`, the shims) do not change the index. What they
  rely on is stated as properties of it: whole transactions, no duplicates,
  drops on record, shapes of rows.
