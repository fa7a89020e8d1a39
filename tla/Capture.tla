------------------------------ MODULE Capture ------------------------------
(***************************************************************************)
(* MySQL capture: the stream loop (streamLoop), the writer it feeds        *)
(* (TxnBatcher), the checkpoint row stream_state, and what a restart does  *)
(* before it reads again (dedup-on-resume), in internal/streamrun.         *)
(*                                                                         *)
(* The source's binary log is the constant Log, already parsed: a sequence *)
(* of events in binlog order, several of which may sit at the same         *)
(* coordinates (the rows of one ROWS_EVENT).  An event is a record         *)
(*   type   "gtid", "row", "commit" or "ddl"                               *)
(*   txn    the source transaction it belongs to                           *)
(*   file   the binlog file                                                *)
(*   start, end   its coordinates; one order over all files                *)
(*   gtid   the event carries its transaction's GTID                       *)
(* Coordinate 0 stands for the empty file name, 1 for the coordinates of a *)
(* first start.  A transaction never spans two files.  CREATE TABLE ...    *)
(* SELECT is a "ddl" event followed by rows and a "commit" that carry no   *)
(* GTID.                                                                   *)
(*                                                                         *)
(* One run of capture is the only writer of its index.  A write of a run   *)
(* that died has landed, or never will, when the next run's cleanup looks. *)
(***************************************************************************)
EXTENDS TxnBatcher, FiniteSetsExt

CONSTANTS
    Log,       \* the parsed binary log
    Mode,      \* "position" or "gtid"
    StartCoords, \* coordinates of a first start: {1}, or 0 when not known
    OldRows,   \* rows of an earlier capture already in the index
    MaxRuns    \* bound: starts of capture, so MaxRuns - 1 failures or stops

Items == 1 .. Len(Log)
Txns  == {Log[i].txn : i \in Items}
Coords == {Log[i].end : i \in Items} \cup {0, 1}

ASSUME CaptureAssumption ==
    /\ Mode \in {"position", "gtid"}
    /\ MaxRuns \in Nat \ {0}
    /\ StartCoords \subseteq {0, 1}
    /\ Mode = "position" => 0 \notin StartCoords
    /\ Log \in Seq([type : {"gtid", "row", "commit", "ddl"}, txn : Nat, file : Nat,
                     start : Nat \ {0}, end : Nat, gtid : BOOLEAN])
    /\ \A i \in Items : Log[i].start < Log[i].end
    /\ \A i, j \in Items : i < j =>
          \/ Log[i].end < Log[j].start
          \/ Log[i].end = Log[j].start /\ Log[i].file = Log[j].file
          \/ /\ Log[i].start = Log[j].start /\ Log[i].end = Log[j].end
             /\ Log[i].type = "row" /\ Log[j].type = "row"
    /\ OldRows \subseteq [id : Nat \ {0}, item : Items]
    /\ IsFiniteSet(OldRows)

VARIABLES
    phase,   \* "down", "stragglers" (between the two cleanup passes), "run"
    runs,    \* starts of capture so far
    w,       \* the writer and the index table
    st,      \* streamState of the run: pos, safe, gset, floor, claimed, caught,
             \* and saving: checkpoint has committed the rows, its save is next
    rd,      \* the last event of Log the loop took
    since,   \* GTID set the source was asked to continue from
    saved,   \* the stream_state row
    torn,    \* transactions a cap made visible in parts (history)
    spared   \* rows a cleanup without a file name left in place (history)

vars == <<phase, runs, w, st, rd, since, saved, torn, spared>>

Row == [id : Nat, item : Items]
RowItems == {i \in Items : Log[i].type = "row"}
RowsOf == [t \in Txns |-> {i \in RowItems : Log[i].txn = t}]
Visible == {r.item : r \in w.rows \ OldRows}

Writer ==
    [batch : Seq(Items), done : Nat, inTxn : BOOLEAN, open : BOOLEAN,
     txn : SUBSET Row, splits : Nat, stopped : BOOLEAN, first : Nat,
     rows : SUBSET Row, next : Nat, err : BOOLEAN]

StreamState ==
    [pos : Coords, safe : Coords, gset : SUBSET Txns, floor : Nat,
     claimed : BOOLEAN, caught : 0 .. Len(Log), saving : BOOLEAN]

SavedState ==
    [exists : BOOLEAN, pos : Coords, gset : SUBSET Txns, floor : Nat,
     caught : 0 .. Len(Log)]

(***************************************************************************)
(* The in-memory stream state of a process that is not running, and the    *)
(* state a run starts with: both coordinates are the resolved start.       *)
(***************************************************************************)
Started(pos, gset, floor) ==
    [pos |-> pos, safe |-> pos, gset |-> gset, floor |-> floor,
     claimed |-> FALSE, caught |-> 0, saving |-> FALSE]

Idle == Started(0, {}, 0)

Down(x) ==
    /\ phase' = "down"
    /\ w' = NewTxnBatcher(x.rows, x.next)
    /\ st' = Idle /\ rd' = 0 /\ since' = {}

(***************************************************************************)
(* streamLoop returned an error: the open index transaction is rolled back *)
(* and no checkpoint is written.                                           *)
(***************************************************************************)
Abort(x) == runs < MaxRuns /\ Down(x) /\ UNCHANGED saved

\* The loop is at its select.
Selecting == phase = "run" /\ ~st.saving
-----------------------------------------------------------------------------
(***************************************************************************)
(* Checkpoints.                                                            *)
(***************************************************************************)
checkpointPosition(s) == IF Mode = "position" THEN s.safe ELSE s.pos

\* Mutated: every event is a resume point.
isPositionCheckpointBoundary_Any(i) == TRUE

isPositionCheckpointBoundary(i) == Log[i].type \in {"commit", "ddl"}

noteDedupFloor(s, id) == [s EXCEPT !.floor = IF id > @ THEN id ELSE @]

Checkpoint(s) ==
    [exists |-> TRUE, pos |-> checkpointPosition(s), gset |-> s.gset,
     floor |-> s.floor,
     caught |-> IF s.caught = 0 THEN saved.caught ELSE s.caught]

\* saveCheckpoint: a failure is only a warning, and may hide a write.
SaveSucceeded == saved' = Checkpoint(st) /\ st' = [st EXCEPT !.caught = 0, !.saving = FALSE]
SaveFailed    == saved' \in {saved, Checkpoint(st)} /\ st' = [st EXCEPT !.saving = FALSE]

\* Mutated: a tick with less than a full batch does nothing.
Tick_FullBatchOnly ==
    /\ Selecting
    /\ IF w.done < BatchSize THEN UNCHANGED vars
       ELSE \E x \in CommitComplete(w) :
               /\ ~x.err /\ w' = x /\ st' = [st EXCEPT !.saving = TRUE]
               /\ UNCHANGED <<phase, runs, rd, since, saved, torn, spared>>

\* The checkpoint ticker: checkpoint commits the complete rows.  The Stopped
\* hook is asked there and not again, and the lock may be lost, in another
\* goroutine, before the save.
Tick ==
    /\ Selecting
    /\ UNCHANGED <<runs, torn, spared>>
    /\ \E x \in CommitComplete(w) :
          IF x.err THEN Abort(x)
          ELSE /\ w' = x /\ st' = [st EXCEPT !.saving = TRUE]
               /\ UNCHANGED <<phase, rd, since, saved>>

\* The rest of checkpoint; the loop does nothing else before it.
Save ==
    /\ phase = "run" /\ st.saving
    /\ SaveSucceeded \/ SaveFailed
    /\ UNCHANGED <<phase, runs, w, rd, since, torn, spared>>
-----------------------------------------------------------------------------
(***************************************************************************)
(* Events.                                                                 *)
(***************************************************************************)
\* Mutated: the floor is raised at every event.
Tracked_FloorEveryEvent(i) ==
    LET e == noteDedupFloor([st EXCEPT !.pos = Log[i].end], w.first)
    IN  IF isPositionCheckpointBoundary(i) THEN [e EXCEPT !.safe = Log[i].end] ELSE e

\* The position tracking every event does.
Tracked(i) ==
    LET e == [st EXCEPT !.pos = Log[i].end]
        b == [e EXCEPT !.safe = Log[i].end]
    IN  IF ~isPositionCheckpointBoundary(i) THEN e
        ELSE IF Mode = "position" THEN noteDedupFloor(b, w.first) ELSE b

advanceGTID(s, i, first) ==
    IF ~Log[i].gtid \/ Mode = "position" THEN s
    ELSE noteDedupFloor([s EXCEPT !.gset = @ \cup {Log[i].txn}], first)

Continue(x, s, i) ==
    /\ torn' = IF x.splits > 0 THEN torn \cup {Log[i].txn} ELSE torn
    /\ IF x.err THEN Abort(x)
       ELSE w' = x /\ st' = s /\ rd' = i /\ UNCHANGED <<phase, since, saved>>

\* Mutated: the GTID joins the set when its transaction begins.
OnGTID_Claims(i) ==
    /\ Log[i].type = "gtid"
    /\ Continue(w, [advanceGTID(Tracked(i), i, w.first) EXCEPT !.claimed = FALSE], i)

OnGTID(i) ==
    /\ Log[i].type = "gtid"
    /\ Continue(w, [Tracked(i) EXCEPT !.claimed = FALSE], i)

OnCommit(i) ==
    /\ Log[i].type = "commit"
    /\ \E x \in End(w) :
          Continue(x, [advanceGTID(Tracked(i), i, w.first) EXCEPT !.claimed = FALSE], i)

OnDDL(i) ==
    /\ Log[i].type = "ddl"
    /\ \E x \in Then(End(w), CommitComplete) :
          Continue(x, [advanceGTID(Tracked(i), i, x.first) EXCEPT
                          !.claimed = Mode = "gtid" /\ Log[i].gtid], i)

OnRow(i) ==
    /\ Log[i].type = "row"
    /\ \E x \in Add(w, i) : Continue(x, Tracked(i), i)

\* The source sends, in order, what the start point left out.
Sent(i) == Mode = "position" \/ Log[i].txn \notin since

Read ==
    /\ Selecting
    /\ UNCHANGED <<runs, spared>>
    /\ \E i \in Items :
          /\ i > rd /\ Sent(i)
          /\ \A j \in rd + 1 .. i - 1 : ~Sent(j)
          /\ OnGTID(i) \/ OnCommit(i) \/ OnDDL(i) \/ OnRow(i)

\* Mutated: the marker is taken inside a transaction too.
CaughtUp_InTxn ==
    /\ Selecting /\ rd > 0
    /\ st' = [st EXCEPT !.caught = rd]
    /\ UNCHANGED <<phase, runs, w, rd, since, saved, torn, spared>>

\* The parser's caught-up marker; inside a transaction it is ignored.
CaughtUp ==
    /\ Selecting /\ ~w.inTxn /\ rd > 0
    /\ st' = [st EXCEPT !.caught = rd]
    /\ UNCHANGED <<phase, runs, w, rd, since, saved, torn, spared>>

\* The cap timer of the open index transaction.
CapTimer ==
    /\ Selecting /\ w.open
    /\ UNCHANGED <<runs, spared>>
    /\ \E x \in Split(w) : Continue(x, st, rd)
-----------------------------------------------------------------------------
(***************************************************************************)
(* The end of a run.                                                       *)
(***************************************************************************)
\* Mutated: a stop keeps what was read of the open transaction.
Settled_Kept == IF w.inTxn THEN End(w) ELSE {w}

\* Cancellation, or the parser closed the channel (an error of the parser,
\* or a re-sent cut transaction): stop.
Settled ==
    IF ~w.inTxn THEN {w}
    ELSE IF st.claimed THEN End(w)
    ELSE {Discard(w)}

Stop ==
    /\ Selecting /\ runs < MaxRuns
    /\ UNCHANGED <<runs, torn, spared>>
    /\ \/ w.stopped /\ Down(w) /\ UNCHANGED saved
       \/ /\ ~w.stopped
          /\ \E x \in Then(Settled, CommitComplete) :
                /\ Down(x)
                /\ saved' \in IF x.err THEN {saved} ELSE {saved, Checkpoint(st)}

\* The process learns, in another goroutine, that it lost its capture lock.
\* An INSERT or COMMIT whose check came before is one step with the check; a
\* loss between two writes of one handler ends it as an error of the second.
LoseLock ==
    /\ phase = "run" /\ runs < MaxRuns /\ ~w.stopped
    /\ w' = [w EXCEPT !.stopped = TRUE]
    /\ UNCHANGED <<phase, runs, st, rd, since, saved, torn, spared>>

Crash ==
    /\ phase # "down" /\ runs < MaxRuns
    /\ Down(w)
    /\ UNCHANGED <<runs, saved, torn, spared>>
-----------------------------------------------------------------------------
(***************************************************************************)
(* The start of a run.                                                     *)
(***************************************************************************)
freshDedupFloor == 1 + Max({r.id : r \in w.rows} \cup {0})

\* No checkpoint: start where the source's binlog now is (coordinate 1), and
\* write the start point before any event is read.  In GTID mode the
\* coordinates are not known after --start-gtid or a failed read.
StartFresh ==
    /\ phase = "down" /\ ~saved.exists /\ runs < MaxRuns
    /\ \E p \in StartCoords :
          /\ st' = Started(p, {}, freshDedupFloor)
          /\ saved' = [exists |-> TRUE, pos |-> p, gset |-> {},
                       floor |-> freshDedupFloor, caught |-> 0]
    /\ phase' = "run" /\ runs' = runs + 1 /\ rd' = 0 /\ since' = {}
    /\ UNCHANGED <<w, torn, spared>>

\* Mutated: the cleanup is not bounded by the floor.
AboveFloor_Ignored(r) == TRUE

AboveFloor(r) == saved.floor = 0 \/ r.id >= saved.floor

FileOf(p) == CHOOSE f \in {Log[i].file : i \in Items} :
    \E i \in Items : Log[i].file = f /\ Log[i].start <= p /\ p <= Log[i].end

\* Mutated: a row that starts at the checkpoint is kept.
SinceCheckpoint_After ==
    IF saved.pos = 0 THEN {}
    ELSE {r \in w.rows : Log[r.item].start > saved.pos /\ AboveFloor(r)}

\* Mutated: rows of later files are kept.
SinceCheckpoint_SameFile ==
    {r \in w.rows : /\ Log[r.item].start >= saved.pos /\ AboveFloor(r)
                    /\ Log[r.item].file = FileOf(saved.pos)}

\* Mutated: the cleanup starts at the file of the checkpoint, not its position.
SinceCheckpoint_WholeFile ==
    {r \in w.rows : Log[r.item].file >= FileOf(saved.pos) /\ AboveFloor(r)}

\* deleteEventsSinceCheckpoint.
SinceCheckpoint ==
    IF saved.pos = 0 THEN {}
    ELSE {r \in w.rows : Log[r.item].start >= saved.pos /\ AboveFloor(r)}

\* The second pass of deleteEventsSinceCheckpointGTID.
Stragglers ==
    {r \in w.rows : /\ Log[r.item].file = FileOf(saved.pos)
                    /\ Log[r.item].gtid
                    /\ AboveFloor(r)}

StragglerTxns ==
    {Log[r.item].txn : r \in {q \in Stragglers : Log[q.item].start < saved.pos}}
        \ saved.gset

OpenAtCheckpoint ==
    IF saved.pos = 0 THEN {}
    ELSE {r \in Stragglers : Log[r.item].txn \in StragglerTxns}

Kept(gone) ==
    /\ w' = NewTxnBatcher(w.rows \ gone, w.next)
    /\ torn' = {t \in torn : \E r \in w.rows \ (gone \cup OldRows) : Log[r.item].txn = t}

ReadTo(p) == Max({i \in Items : Log[i].end <= p} \cup {0})

ResumePosition ==
    /\ phase = "down" /\ saved.exists /\ runs < MaxRuns /\ Mode = "position"
    /\ Kept(SinceCheckpoint)
    /\ st' = Started(saved.pos, saved.gset, saved.floor)
    /\ rd' = ReadTo(saved.pos)
    /\ phase' = "run" /\ runs' = runs + 1
    /\ UNCHANGED <<since, saved, spared>>

ResumeGTID ==
    /\ phase = "down" /\ saved.exists /\ runs < MaxRuns /\ Mode = "gtid"
    /\ Kept(SinceCheckpoint)
    /\ spared' = IF saved.pos # 0 THEN spared
                 ELSE spared \cup {i \in Visible : Log[i].txn \notin saved.gset}
    /\ phase' = "stragglers" /\ runs' = runs + 1
    /\ UNCHANGED <<st, rd, since, saved>>

\* A GTID resume resolves its start to a set and no coordinates.
DeleteStragglers ==
    /\ phase = "stragglers"
    /\ Kept(OpenAtCheckpoint)
    /\ st' = Started(0, saved.gset, saved.floor)
    /\ since' = saved.gset
    /\ phase' = "run"
    /\ UNCHANGED <<runs, rd, saved, spared>>
-----------------------------------------------------------------------------
Init ==
    /\ phase = "down" /\ runs = 0
    /\ w = NewTxnBatcher(OldRows, 1 + Max({r.id : r \in OldRows} \cup {0}))
    /\ st = Idle /\ rd = 0 /\ since = {}
    /\ saved = [exists |-> FALSE, pos |-> 0, gset |-> {}, floor |-> 0, caught |-> 0]
    /\ torn = {} /\ spared = {}

Start == StartFresh \/ ResumePosition \/ ResumeGTID \/ DeleteStragglers

Next ==
    \/ Read \/ Tick \/ Save \/ CaughtUp \/ CapTimer
    \/ Stop \/ LoseLock \/ Crash
    \/ Start

Spec == Init /\ [][Next]_vars

(***************************************************************************)
(* The loop's select takes one of its ready cases at random, so a ready    *)
(* event is not passed over for ever by ticks; the ticker keeps firing, a  *)
(* checkpoint goes on to its save, and the supervisor starts capture       *)
(* again.  Nothing is assumed of failures.                                 *)
(***************************************************************************)
Fairness == SF_vars(Read) /\ WF_vars(Tick) /\ WF_vars(Save) /\ WF_vars(Start)

FairSpec == Spec /\ Fairness
-----------------------------------------------------------------------------
(***************************************************************************)
(* Properties.                                                             *)
(***************************************************************************)
\* The variables hold what the code's fields can hold; the complete part of
\* the batch never reaches past its end (TxnBatcher.done).
TypeOK ==
    /\ phase \in {"down", "stragglers", "run"}
    /\ runs \in 0 .. MaxRuns
    /\ w \in Writer /\ w.done <= Len(w.batch)
    /\ st \in StreamState
    /\ rd \in 0 .. Len(Log)
    /\ since \in SUBSET Txns
    /\ saved \in SavedState
    /\ torn \in SUBSET Txns
    /\ spared \in SUBSET Items

\* What the checkpoint says capture already has: in position mode all before
\* its coordinates, in GTID mode the transactions of its set.
Claimed(i) ==
    IF Mode = "position" THEN Log[i].end <= saved.pos ELSE Log[i].txn \in saved.gset

\* The durable checkpoint never claims a row that is not committed in
\* binlog_events: a resume continues after what is claimed, so such a row
\* would be lost (checkpoint, advanceGTID, checkpointPosition).
ClaimedIsIndexed == \A i \in RowItems : Claimed(i) => i \in Visible

\* What a capture promises of the index and its claims.
Promise == INSTANCE Delivery WITH
    Changes <- Items, indexed <- Visible,
    claimed <- {i \in RowItems : Claimed(i)}, excused <- FALSE

\* Capture implements Delivery: a checkpoint claims only what is indexed and
\* never gives a claim up, and a cleanup on restart deletes only rows that
\* the checkpoint does not claim, so they are read again (checkpoint,
\* deleteEventsSinceCheckpoint, deleteEventsSinceCheckpointGTID).
ImplementsDelivery == Promise!Spec

\* No event is in the index twice, whatever crashes, failed writes that
\* landed and restarts came between (dedup-on-resume).
NoDuplicate ==
    \A r, q \in w.rows \ OldRows : r.item = q.item => r.id = q.id

\* The same for GTID mode, whose cleanup does nothing when the checkpoint
\* names no file: only rows such a cleanup left in place are ever doubled.
NoDuplicateUnlessSpared ==
    \A r, q \in w.rows \ OldRows : r.item = q.item => r.id = q.id \/ r.item \in spared

\* The dedup floor of the checkpoint is a lower bound on the event_id of
\* every row the next cleanup has to find, written before or after it
\* (noteDedupFloor, FirstIDOfLastBatch).
FloorBelowUnclaimed ==
    saved.exists => \A r \in (w.rows \ OldRows) \cup w.txn :
        Claimed(r.item) \/ r.item \in spared \/ r.id >= saved.floor

\* A cleanup never deletes a row an earlier capture wrote, even one at
\* coordinates or with a GTID that this capture uses again (freshDedupFloor).
OldHistoryKept == OldRows \subseteq w.rows

\* The open index transaction holds rows of the transaction being read and
\* of no other, so committing it publishes nothing that is not complete
\* (the comment of TxnBatcher.batch: whenever tx != nil, done == 0).
OnlyOpenTxnUncommitted ==
    w.open => w.done = 0 /\ \A r \in w.txn : Log[r.item].txn = Log[rd].txn

\* A reader of binlog_events sees a source transaction whole or not at all,
\* unless the row or time cap split it; a stop inside a transaction and a
\* write that failed on the client included (TxnBatcher, stop).
WholeTransactions ==
    LET seen == Visible
    IN  \A t \in Txns : t \in torn \/ RowsOf[t] \cap seen \in {{}, RowsOf[t]}

\* In GTID mode the two passes of the cleanup delete one transaction in two
\* statements; while capture runs its readers see whole transactions.
WholeTransactionsWhileRunning == phase = "run" => WholeTransactions

\* caught_up_at is stamped only when every change the source had made by
\* then is committed in the index (EventCaughtUp, saveCheckpoint).
CaughtUpIsIndexed == {i \in RowItems : i <= saved.caught} \subseteq Visible

\* Once the process knows it lost its capture lock it commits no row, begins
\* no checkpoint, and moves stream_state at most once: by the save of a
\* checkpoint that asked the Stopped hook before the loss (the Stopped hook,
\* ErrStopWithoutFlush, checkpoint).
LostLockStopsWrites ==
    [][w.stopped => /\ w'.rows = w.rows
                    /\ saved' = saved \/ st.saving
                    /\ st'.saving => st.saving]_vars

\* Every row of the binary log ends up in the index and stays there, however
\* the bounded number of failures, stops and restarts falls.
EventuallyIndexed == <>[](RowItems \subseteq Visible)
=============================================================================
