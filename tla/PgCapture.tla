----------------------------- MODULE PgCapture -----------------------------
(***************************************************************************)
(* PostgreSQL capture: the replication slot and the capturer that reads    *)
(* from it (internal/pgcapture), the stream loop that writes and           *)
(* acknowledges (internal/pgstreamrun), the checkpoint row stream_state,   *)
(* and the two commands that touch the slot beside it: bintrail-pg reset   *)
(* and bintrail-pg baseline.                                               *)
(*                                                                         *)
(* The write-ahead log of the source is wal, one of Wals: steps            *)
(*   op    "ddl", "row", "trunc" or "commit"                               *)
(*   lsn   the commit LSN of its transaction: 1, 2, ...                    *)
(*   oid, name, cols   of a ddl: the shape it gives the table (name Gone:  *)
(*                     the table is dropped); steps at lsn 0 come before   *)
(*                     everything                                          *)
(* of which the transactions up to avail have committed.                   *)
(*                                                                         *)
(* The capturer is one goroutine, the loop another; chan is the channel    *)
(* between them.                                                           *)
(***************************************************************************)
EXTENDS TxnBatcher, PgInference

CONSTANTS
    Wals,        \* the logs to try, a sequence of logs
    ChanCap,     \* bound: events in the channel when the capturer adds more
    MaxRuns,     \* bound: starts of capture, for each log
    MayBlind,    \* the logs in which a start may fail to read what inference
                 \* needs
    MayLose,     \* bound: the logs in which the slot is lost, dropped or reset
    MayRecreate  \* a baseline may be taken while a checkpoint has no slot

ASSUME PgCaptureAssumption ==
    /\ ChanCap \in Nat \ {0} /\ MaxRuns \in [DOMAIN Wals -> Nat \ {0}]
    /\ MayBlind \subseteq DOMAIN Wals /\ MayLose \subseteq DOMAIN Wals /\ MayRecreate \in BOOLEAN
    /\ Gone \notin Scope
    /\ \A n \in DOMAIN Wals : \A i \in DOMAIN Wals[n] : LET l == Wals[n] IN
          /\ l[i].op \in {"ddl", "row", "trunc", "commit"}
          /\ l[i].lsn \in Nat
          /\ i > 1 => l[i - 1].lsn <= l[i].lsn
          /\ l[i].op = "commit" <=> l[i].lsn > 0 /\ (i = Len(l) \/ l[i + 1].lsn > l[i].lsn)

VARIABLES
    log,      \* which of Wals this is
    avail,    \* the last committed transaction
    slot,     \* the replication slot: st "none", "ok" or "lost"; conf, the
              \* confirmed position; made, the position it was created at
    phase,    \* "down", "run", "drain" (the capturer has returned)
    runs,     \* starts of capture so far
    sess,     \* the capturer: pos, from, desc, inf, on, start, acked
    chan,     \* events from the capturer to the loop
    w,        \* the writer and binlog_events
    loop,     \* the loop: last (lastCommitLSN), snap (snapshotByTable), emitted
    saved,    \* the stream_state row: row, lsn, lost (gap_lost_at is set)
    snaps,    \* schema_snapshots, one shape each, in order of snapshot id
    changes,  \* schema_changes in order: inferred rows and TRUNCATE markers
    origin    \* where capture of this index began, and the slots made, up to 2 (history)

vars == <<log, avail, slot, phase, runs, sess, chan, w, loop, saved, snaps, changes, origin>>

source == <<log, avail>>
index  == <<saved, snaps, changes>>

-----------------------------------------------------------------------------
(***************************************************************************)
(* The source.                                                             *)
(***************************************************************************)
wal    == Wals[log]
Steps  == DOMAIN wal
Tables(l) == {l[i].oid : i \in {j \in DOMAIN l : l[j].op # "commit"}}
OIDs   == Tables(wal)
EndLSN == wal[Len(wal)].lsn

\* The shape logical decoding gives a change: the one in effect at that step.
ShapeIn(l, o, i) ==
    LET D == {j \in 1 .. i : l[j].op = "ddl" /\ l[j].oid = o}
    IN  IF D = {} THEN [name |-> Gone, cols |-> 0]
        ELSE [name |-> l[Max(D)].name, cols |-> l[Max(D)].cols]

Shapes == [n \in DOMAIN Wals |-> [o \in Tables(Wals[n]) |-> [i \in DOMAIN Wals[n] |->
              ShapeIn(Wals[n], o, i)]]]

Shape(o, i) == Shapes[log][o][i]

\* queryRelationFacts and publicationOIDs: the catalog as it is now.
Catalog == [o \in OIDs |-> Shape(o, Max({i \in Steps : wal[i].lsn <= avail})).name]

Commits ==
    /\ avail < EndLSN /\ avail' = avail + 1
    /\ UNCHANGED <<log, slot, phase, runs, sess, chan, w, loop, index, origin>>

\* max_slot_wal_keep_size is exceeded: the slot's WAL is removed.
LoseSlot ==
    /\ log \in MayLose /\ slot.st = "ok" /\ slot' = [slot EXCEPT !.st = "lost"]
    /\ UNCHANGED <<source, phase, runs, sess, chan, w, loop, index, origin>>

-----------------------------------------------------------------------------
(***************************************************************************)
(* The capturer.                                                           *)
(***************************************************************************)
Streaming == phase = "run" /\ slot.st = "ok"

Undescribed == [name |-> Gone, cols |-> 0]

IdleSession == [pos |-> 0, from |-> 0, desc |-> << >>, inf |-> << >>, on |-> FALSE,
                start |-> {}, acked |-> 0]
IdleLoop == [last |-> 0, snap |-> [n \in Scope |-> 0], emitted |-> << >>]

\* The rows of the index, as lastIndexedChange reads them.
IndexedRows == {[name |-> Shape(wal[r.item.step].oid, r.item.step).name,
                 lsn  |-> wal[r.item.step].lsn] : r \in w.rows}

\* Mutated: the shape is stored before the change it shows.
Describe_ShapeFirst(o, sh, lsn) ==
    IF sess.desc[o] = sh THEN {[s |-> sess.inf, out |-> << >>]}
    ELSE {[s |-> d.s, out |-> Only(sh.name \in Scope,
                [type |-> "rel", oid |-> o, name |-> sh.name, cols |-> sh.cols,
                 seen |-> lsn, blind |-> ~sess.on]) \o d.out] :
          d \in IF sess.on
                THEN observe(sess.inf, [oid |-> o, name |-> sh.name, cols |-> sh.cols], lsn,
                             [start |-> sess.start, live |-> Catalog, indexed |-> IndexedRows])
                ELSE {[s |-> sess.inf, out |-> << >>]}}

\* Decode of a Relation message: what inference finds, in the order it must
\* be written, and then the shape.
Describe(o, sh, lsn) ==
    IF sess.desc[o] = sh THEN {[s |-> sess.inf, out |-> << >>]}
    ELSE {[s |-> d.s, out |-> d.out \o Only(sh.name \in Scope,
                [type |-> "rel", oid |-> o, name |-> sh.name, cols |-> sh.cols,
                 seen |-> lsn, blind |-> ~sess.on])] :
          d \in IF sess.on
                THEN observe(sess.inf, [oid |-> o, name |-> sh.name, cols |-> sh.cols], lsn,
                             [start |-> sess.start, live |-> Catalog, indexed |-> IndexedRows])
                ELSE {[s |-> sess.inf, out |-> << >>]}}

\* A change: its table's description when the session has not sent it, then
\* the row, or the marker of a TRUNCATE, when the table is captured.
DecodeChange(i) ==
    LET o  == wal[i].oid
        sh == Shape(o, i)
        inScope == sh.name \in Scope
    IN  /\ wal[i].op \in {"row", "trunc"}
        /\ \E d \in Describe(o, sh, wal[i].lsn) :
              /\ chan' = chan \o d.out \o Only(inScope,
                    [type |-> wal[i].op, step |-> i, name |-> sh.name])
              /\ sess' = [sess EXCEPT
                    !.pos = i, !.desc[o] = sh,
                    !.inf = IF inScope /\ wal[i].op = "row"
                            THEN noteChange(d.s, o, wal[i].lsn) ELSE d.s]

DecodeCommit(i) ==
    /\ wal[i].op = "commit"
    /\ chan' = Append(chan, [type |-> "commit", lsn |-> wal[i].lsn])
    /\ sess' = [sess EXCEPT !.pos = i]

\* The next message PostgreSQL sends.
Sent(i) == wal[i].op # "ddl" /\ wal[i].lsn >= sess.from /\ wal[i].lsn <= avail

Receive ==
    /\ Streaming /\ Len(chan) < ChanCap
    /\ \E i \in Steps :
          /\ i > sess.pos /\ Sent(i) /\ \A j \in sess.pos + 1 .. i - 1 : ~Sent(j)
          /\ DecodeChange(i) \/ DecodeCommit(i)
    /\ UNCHANGED <<source, slot, phase, runs, w, loop, index, origin>>

\* Mutated: the received position is reported.
sendStandby_Received == IF sess.pos = 0 THEN sess.acked ELSE wal[sess.pos].lsn

\* sendStandby reports the position the loop acknowledged, never the
\* received one.
sendStandby == sess.acked

Standby ==
    /\ Streaming /\ slot.conf < sendStandby
    /\ slot' = [slot EXCEPT !.conf = sendStandby]
    /\ UNCHANGED <<source, phase, runs, sess, chan, w, loop, index, origin>>

\* The capturer returns (a network or decode error, the slot lost while
\* streaming): its goroutine closes the channel and the loop drains it.
CapturerReturns ==
    /\ phase = "run" /\ phase' = "drain"
    /\ runs < MaxRuns[log] \/ slot.st # "ok"
    /\ UNCHANGED <<source, slot, runs, sess, chan, w, loop, index, origin>>

-----------------------------------------------------------------------------
(***************************************************************************)
(* The loop.                                                               *)
(***************************************************************************)
\* Nothing here reads the ids of the index: they are forgotten after a call.
Unnumbered(rows) == {[id |-> 0, item |-> r.item] : r \in rows}

Writer(x) ==
    w' = [x EXCEPT !.rows = Unnumbered(@), !.txn = Unnumbered(@), !.next = 1, !.first = 0]

\* Mutated: the channel outlives the run.
Down_KeepsChannel(x) ==
    /\ phase' = "down" /\ sess' = IdleSession /\ chan' = chan /\ loop' = IdleLoop
    /\ w' = NewTxnBatcher(Unnumbered(x.rows), 1)

Down(x) ==
    /\ phase' = "down" /\ sess' = IdleSession /\ chan' = << >> /\ loop' = IdleLoop
    /\ w' = NewTxnBatcher(Unnumbered(x.rows), 1)

\* streamLoopPG returned an error.
Abort(x) == runs < MaxRuns[log] /\ Down(x)

InLoop == phase \in {"run", "drain"}

Consumed == chan' = Tail(chan)

Continue(x, l) ==
    IF x.err THEN Abort(x)
    ELSE Writer(x) /\ loop' = l /\ Consumed /\ UNCHANGED <<phase, sess>>

\* A write of its own statement: done, or failed with or without landing.
Writes(landed, l) ==
    \/ landed /\ Continue(w, l)
    \/ landed /\ Abort(w)
    \/ UNCHANGED index /\ Abort(w)

TakeCommit(e) ==
    /\ e.type = "commit"
    /\ \E x \in End(w) : Continue(x, [loop EXCEPT !.last = e.lsn, !.emitted = << >>])
    /\ UNCHANGED index

TakeRow(e) ==
    /\ e.type = "row"
    /\ \E x \in Add(w, [step |-> e.step, ver |-> loop.snap[e.name]]) : Continue(x, loop)
    /\ UNCHANGED index

InsertSchemaChange(c) == changes' = Append(changes, c) /\ UNCHANGED <<saved, snaps>>

\* Mutated: a marker that cannot be written is only logged.
TakeTruncate_Logged(e) ==
    /\ e.type = "trunc"
    /\ Continue(w, loop)
    /\ \/ InsertSchemaChange([kind |-> "truncate", oid |-> wal[e.step].oid,
                              name |-> e.name, low |-> 0, lsn |-> wal[e.step].lsn])
       \/ UNCHANGED index

TakeTruncate(e) ==
    /\ e.type = "trunc"
    /\ Writes(InsertSchemaChange([kind |-> "truncate", oid |-> wal[e.step].oid,
                                  name |-> e.name, low |-> 0, lsn |-> wal[e.step].lsn]), loop)

\* An inferred change that a resend delivers again is not written again.
TakeInferred(e) ==
    LET l == [loop EXCEPT !.emitted = Append(@, counterKey(e))]
    IN  /\ e.type = "ddl"
        /\ IF recorded(changes, e, loop.emitted)
           THEN Continue(w, l) /\ UNCHANGED index
           ELSE Writes(InsertSchemaChange([kind |-> e.kind, oid |-> e.oid, name |-> e.name,
                                           low |-> e.low, lsn |-> e.lsn]), l)

WritePGSnapshot(e) ==
    /\ snaps' = Append(snaps, [oid |-> e.oid, name |-> e.name, cols |-> e.cols,
                               seen |-> e.seen, blind |-> e.blind])
    /\ UNCHANGED <<saved, changes>>

\* Mutated: a table's first snapshot of the run stamps all its rows.
TakeRelation_First(e) ==
    /\ e.type = "rel"
    /\ Writes(WritePGSnapshot(e), IF loop.snap[e.name] # 0 THEN loop
                                  ELSE [loop EXCEPT !.snap[e.name] = Len(snaps) + 1])

TakeRelation(e) ==
    /\ e.type = "rel"
    /\ Writes(WritePGSnapshot(e), [loop EXCEPT !.snap[e.name] = Len(snaps) + 1])

Take ==
    /\ InLoop /\ chan # << >>
    /\ LET e == Head(chan)
       IN  TakeCommit(e) \/ TakeRow(e) \/ TakeTruncate(e) \/ TakeInferred(e) \/ TakeRelation(e)
    /\ UNCHANGED <<source, slot, runs, origin>>

\* The cap timer of the open index transaction.
CapTimer ==
    /\ InLoop /\ w.open
    /\ \E x \in Split(w) :
          IF x.err THEN Abort(x)
          ELSE Writer(x) /\ UNCHANGED <<phase, sess, chan, loop>>
    /\ UNCHANGED <<source, slot, runs, index, origin>>

\* Mutated: the whole row is replaced.
saveCheckpointPG_Replace(lsn) ==
    /\ saved' = [row |-> TRUE, lsn |-> lsn, lost |-> FALSE]
    /\ UNCHANGED <<snaps, changes>>

saveCheckpointPG(lsn) ==
    /\ saved' = [saved EXCEPT !.row = TRUE, !.lsn = lsn]
    /\ UNCHANGED <<snaps, changes>>

AckCommitted(lsn) == [sess EXCEPT !.acked = Max({@, lsn})]

\* Mutated: a tick with nothing to commit does nothing.
Tick_IfPending ==
    /\ InLoop /\ w.done > 0 /\ UNCHANGED <<source, slot, runs, origin>>
    /\ \E x \in CommitComplete(w) :
          \/ x.err /\ Abort(x) /\ UNCHANGED index
          \/ /\ ~x.err /\ loop.last # 0 /\ saveCheckpointPG(loop.last)
             /\ Writer(x) /\ sess' = AckCommitted(loop.last)
             /\ UNCHANGED <<phase, chan, loop>>

\* The checkpoint ticker: commit, save, acknowledge, in this order.
Tick ==
    /\ InLoop /\ UNCHANGED <<source, slot, runs, origin>>
    /\ \E x \in CommitComplete(w) :
          \/ x.err /\ Abort(x) /\ UNCHANGED index
          \/ /\ ~x.err /\ loop.last = 0
             /\ Writer(x) /\ UNCHANGED <<phase, sess, chan, loop, index>>
          \/ /\ ~x.err /\ loop.last # 0 /\ saveCheckpointPG(loop.last)
             /\ Writer(x) /\ sess' = AckCommitted(loop.last)
             /\ UNCHANGED <<phase, chan, loop>>
          \/ /\ ~x.err /\ loop.last # 0 /\ Abort(x)
             /\ saveCheckpointPG(loop.last) \/ UNCHANGED index

Settled == IF w.inTxn THEN {Discard(w)} ELSE {w}

\* stop: on cancellation, or when the drained channel closes.  A failed last
\* checkpoint is only logged.
Stop ==
    /\ \/ phase = "run" /\ runs < MaxRuns[log]
       \/ phase = "drain" /\ chan = << >>
    /\ \E x \in Then(Settled, CommitComplete) :
          /\ Down(x)
          /\ \/ UNCHANGED index
             \/ ~x.err /\ loop.last # 0 /\ saveCheckpointPG(loop.last)
    /\ UNCHANGED <<source, slot, runs, origin>>

\* saveSourceHealth seeds the row before the first checkpoint does.
PollHealth ==
    /\ InLoop /\ ~saved.row /\ saved' = [saved EXCEPT !.row = TRUE]
    /\ UNCHANGED <<source, slot, phase, runs, sess, chan, w, loop, snaps, changes, origin>>

Crash ==
    /\ InLoop /\ runs < MaxRuns[log] /\ Down(w)
    /\ UNCHANGED <<source, slot, runs, index, origin>>

-----------------------------------------------------------------------------
(***************************************************************************)
(* The start of a run.                                                     *)
(***************************************************************************)
\* loadStreamStatePG: a row without a position is a first run.
Resumes == saved.row /\ saved.lsn # 0

\* Mutated: a missing slot is always created.
Refused_LostOnly == slot.st = "lost"

\* ensureSlot: ErrSlotLost, ErrSlotMissingOnResume.
Refused == slot.st = "lost" \/ (slot.st = "none" /\ Resumes)

\* The start fails, and the loss is stamped if that write succeeds
\* (persistSlotLostPG).
StartRefused ==
    /\ phase = "down" /\ runs < MaxRuns[log] /\ Refused
    /\ runs' = runs + 1
    /\ saved' \in {saved, [saved EXCEPT !.row = TRUE, !.lost = TRUE]}
    /\ UNCHANGED <<source, slot, phase, sess, chan, w, loop, snaps, changes, origin>>

CreateSlot == [st |-> "ok", conf |-> avail, made |-> avail]

\* A first capture begins at its new slot; nothing before it was promised.
Began == [lsn |-> IF Resumes THEN origin.lsn ELSE avail, slots |-> Min({2, origin.slots + 1})]

\* START_REPLICATION: the stream begins at the requested position or, when
\* that is later, at the confirmed one.  Both are the LSN of a commit record,
\* and the transaction of that record is sent again.
ResentFrom(sl, startLSN) == Max({sl.made + 1, sl.conf, startLSN})

Begin(sl, startLSN) ==
    \E on \in IF log \in MayBlind THEN BOOLEAN ELSE {TRUE} :
        /\ sess' = [pos |-> 0, from |-> ResentFrom(sl, startLSN), desc |-> [o \in OIDs |-> Undescribed],
                    inf |-> IF on THEN newInferState(snaps, changes, sl.conf) ELSE << >>,
                    on |-> on, start |-> {o \in OIDs : Catalog[o] # Gone},
                    acked |-> startLSN]
        /\ phase' = "run" /\ runs' = runs + 1

Start ==
    /\ phase = "down" /\ runs < MaxRuns[log] /\ ~Refused
    /\ \/ slot.st = "ok" /\ Begin(slot, saved.lsn) /\ UNCHANGED <<slot, origin>>
       \/ /\ slot.st = "none" /\ slot' = CreateSlot /\ origin' = Began
          /\ Begin(CreateSlot, avail)
    /\ UNCHANGED <<source, chan, w, loop, index>>

-----------------------------------------------------------------------------
(***************************************************************************)
(* The commands beside capture.                                            *)
(***************************************************************************)
\* reset drops the slot first (PostgreSQL refuses while it streams)...
DropSlot ==
    /\ log \in MayLose /\ phase = "down" /\ slot.st # "none"
    /\ slot' = [st |-> "none", conf |-> 0, made |-> 0]
    /\ UNCHANGED <<source, phase, runs, sess, chan, w, loop, index, origin>>

\* ...and then clears the checkpoint, in one statement with the record of
\* what it discards.  With --index-only this is all it does.
clearCheckpoint == [saved EXCEPT !.lsn = 0, !.lost = @ \/ saved.lsn # 0]

ClearCheckpoint ==
    /\ log \in MayLose /\ saved.row /\ saved.lsn # 0 /\ saved' = clearCheckpoint
    /\ UNCHANGED <<source, slot, phase, runs, sess, chan, w, loop, snaps, changes, origin>>

\* The baseline makes sure that the slot exists before its snapshot.
EnsureSlotExists ==
    /\ slot.st = "none" /\ (Resumes => MayRecreate)
    /\ slot' = CreateSlot /\ origin' = Began
    /\ UNCHANGED <<source, phase, runs, sess, chan, w, loop, index>>
-----------------------------------------------------------------------------
Init ==
    /\ log \in DOMAIN Wals /\ avail = 0
    /\ slot = [st |-> "none", conf |-> 0, made |-> 0]
    /\ phase = "down" /\ runs = 0
    /\ sess = IdleSession /\ chan = << >> /\ loop = IdleLoop
    /\ w = NewTxnBatcher({}, 1)
    /\ saved = [row |-> FALSE, lsn |-> 0, lost |-> FALSE]
    /\ snaps = << >> /\ changes = << >>
    /\ origin = [lsn |-> 0, slots |-> 0]

Next ==
    \/ Commits \/ LoseSlot
    \/ Receive \/ Standby \/ CapturerReturns
    \/ Take \/ CapTimer \/ Tick \/ Stop \/ PollHealth \/ Crash
    \/ Start \/ StartRefused
    \/ DropSlot \/ ClearCheckpoint \/ EnsureSlotExists

Spec == Init /\ [][Next]_vars


(***************************************************************************)
(* The source keeps committing, the two goroutines keep running, a         *)
(* checkpoint is taken on every tick, and the supervisor starts capture    *)
(* again.  Nothing is assumed of failures or of operators.                 *)
(***************************************************************************)
Fairness ==
    /\ WF_vars(Commits) /\ WF_vars(Receive) /\ WF_vars(Standby)
    /\ WF_vars(Take) /\ WF_vars(Tick)
    /\ WF_vars(Stop /\ phase = "drain") /\ WF_vars(Start)

FairSpec == Spec /\ Fairness
-----------------------------------------------------------------------------
(***************************************************************************)
(* Properties.                                                             *)
(***************************************************************************)
Visible  == {r.item.step : r \in w.rows}
RowSteps == {i \in Steps : wal[i].op = "row" /\ Shape(wal[i].oid, i).name \in Scope}
Upto(p)  == {i \in RowSteps : wal[i].lsn <= p}

\* What the code's fields can hold, and: the channel is empty and nothing is
\* pending while capture is down.
TypeOK ==
    /\ log \in DOMAIN Wals /\ avail \in 0 .. EndLSN /\ origin.lsn \in 0 .. EndLSN
    /\ slot \in [st : {"none", "ok", "lost"}, conf : 0 .. EndLSN, made : 0 .. EndLSN]
    /\ phase \in {"down", "run", "drain"} /\ runs \in 0 .. MaxRuns[log]
    /\ saved \in [row : BOOLEAN, lsn : 0 .. EndLSN, lost : BOOLEAN]
    /\ sess.acked \in 0 .. EndLSN /\ loop.last \in 0 .. EndLSN
    /\ phase = "down" => chan = << >> /\ w.batch = << >> /\ ~w.open

\* A checkpoint that was saved stands for all rows since capture began: none
\* before it was skipped without a loss on record.  The comment of ensureSlot
\* promises it for a slot that is gone (slot.go: "silently creating a fresh
\* slot from a new ConsistentPoint would SKIP that data").
CheckpointComplete ==
    saved.lost \/ {i \in Upto(saved.lsn) : wal[i].lsn > origin.lsn} \subseteq Visible

\* What a capture promises of the index and its claims: claimed are the rows
\* up to the checkpoint or the position of the slot.
Promise == INSTANCE Delivery WITH
    Changes <- Nat, indexed <- Visible, excused <- saved.lost,
    claimed <- {i \in Upto(Max({saved.lsn, slot.conf})) : wal[i].lsn > origin.lsn}

\* PgCapture implements Delivery: the checkpoint and the slot move on only
\* over rows that are indexed and never move back, unless the loss is on
\* record (Tick, Standby, Start, DropSlot, clearCheckpoint).
ImplementsDelivery == Promise!Spec

SlotKept == slot.st # "lost" /\ origin.slots <= 1 /\ (slot.st = "none" => origin.slots = 0)

\* While the slot is kept and no reset discards the checkpoint, the
\* checkpoint and the slot reach the end of the log, so the source keeps no
\* WAL for ever, however the bounded number of failures and restarts falls
\* (streamLoopPG, receiveLoop, sendStandby).
EventuallyCheckpointed == [](SlotKept /\ ~saved.lost) =>
    <>(slot.conf = EndLSN /\ (saved.lsn = EndLSN \/ slot.made = EndLSN))

\* Every indexed row is stamped with a stored snapshot of the shape the row
\* was written under, also when its table's name moved to another table in
\* between (snapshotByTable; WritePGSnapshot before the row).
RowsHaveTheirShape ==
    \A r \in w.rows :
        LET o == wal[r.item.step].oid
        IN  /\ r.item.ver \in DOMAIN snaps
            /\ snaps[r.item.ver].oid = o
            /\ [name |-> snaps[r.item.ver].name, cols |-> snaps[r.item.ver].cols]
                  = Shape(o, r.item.step)

(***************************************************************************)
(* What a log shows of the source's schema changes after a position: the   *)
(* first change of a table under other columns, and the first sign that a  *)
(* table no longer has its name: its own next change, or the first change  *)
(* of a new table that has it.                                             *)
(***************************************************************************)
ChangesOf(l, o, p) ==
    {i \in DOMAIN l : l[i].op \in {"row", "trunc"} /\ l[i].oid = o /\ l[i].lsn > p}

Before(l, o, i, p) == {j \in ChangesOf(l, o, p) : j < i}

LastShape(l, o, i, p) == ShapeIn(l, o, Max(Before(l, o, i, p)))

SignOfGone(l, o, i, p) ==
    /\ Before(l, o, i, p) # {}
    /\ ShapeIn(l, o, i).name # LastShape(l, o, i, p).name
    /\ \/ i \in ChangesOf(l, o, p)
       \/ \E q \in Tables(l) \ {o} :
             /\ i \in ChangesOf(l, q, p) /\ Before(l, q, i, p) = {}
             /\ ShapeIn(l, q, i).name = LastShape(l, o, i, p).name

ShowsIn(l, fam, o, p) ==
    {i \in DOMAIN l :
        CASE fam = "create" -> i \in ChangesOf(l, o, p) /\ Before(l, o, i, p) = {}
          [] fam = "alter"  -> /\ i \in ChangesOf(l, o, p) /\ Before(l, o, i, p) # {}
                               /\ LastShape(l, o, i, p).cols # ShapeIn(l, o, i).cols
          [] fam = "gone"   -> /\ SignOfGone(l, o, i, p)
                               /\ \A k \in Max(Before(l, o, i, p)) + 1 .. i - 1 :
                                     ~SignOfGone(l, o, k, p)}

\* The DDL of table o that its sign at step i stands for.
DDLBehind(l, fam, o, i, p) ==
    {d \in Max(Before(l, o, i, p)) .. i :
        /\ l[d].op = "ddl" /\ l[d].oid = o
        /\ \/ fam = "alter" /\ l[d].cols # ShapeIn(l, o, d - 1).cols
           \/ fam = "gone" /\ l[d].name # ShapeIn(l, o, d - 1).name}

Families == {"alter", "gone", "create"}

Shown == [n \in DOMAIN Wals |-> LET l == Wals[n] IN
            [fam \in Families, o \in Tables(l), p \in 0 .. l[Len(l)].lsn |->
                ShowsIn(l, fam, o, p)]]

\* Signs of the changes of captured tables, each with the commits of its DDL.
Signs == [n \in DOMAIN Wals |-> LET l == Wals[n] IN
            [fam \in {"alter", "gone"}, o \in Tables(l), p \in 0 .. l[Len(l)].lsn |->
                {[step |-> i, last |-> Max(Before(l, o, i, p)),
                  ddl |-> {l[d].lsn : d \in DDLBehind(l, fam, o, i, p)}] :
                    i \in {j \in Shown[n][fam, o, p] : LastShape(l, o, j, p).name \in Scope}}]]

RecordedRows(fam, o) == {k \in DOMAIN changes : changes[k].oid = o /\ family(changes[k].kind) = fam}

\* A schema change that a restart delivers again is not recorded again, and
\* no change is recorded that did not happen: up to any position there are
\* never more records of a kind than the stream shows changes, as long as
\* the slot is not replaced and no run was without inference
\* (inferState.observe, inferredCounter.recorded).
RecordedOnce ==
    (origin.slots <= 1 /\ \A k \in DOMAIN snaps : ~snaps[k].blind) =>
    \A fam \in Families, o \in OIDs, p \in {changes[k].lsn : k \in DOMAIN changes} :
        Cardinality({k \in RecordedRows(fam, o) : changes[k].lsn <= p})
          <= Cardinality({i \in Shown[log][fam, o, 0] : wal[i].lsn <= p})

\* A run that compares shapes stored the shape of the change at step i, as
\* seen in one of the transactions from p to q.
Described(i, p, q) == \E k \in DOMAIN snaps :
    /\ ~snaps[k].blind /\ snaps[k].seen \in p .. q /\ snaps[k].oid = wal[i].oid
    /\ [name |-> snaps[k].name, cols |-> snaps[k].cols] = Shape(wal[i].oid, i)

\* The sign and the shape before it were seen by runs that compare shapes,
\* and the checkpoint is past it.
Compared(sign) ==
    /\ wal[sign.step].lsn <= saved.lsn
    /\ Described(sign.step, wal[sign.step].lsn, EndLSN)
    /\ Described(sign.last, 0, wal[sign.last].lsn)

\* Every schema change the stream has shown lies inside the bracket of a
\* recorded row of its table, and none is lost to a crash between the writes
\* of the change, of the new shape and of the checkpoint, or to a run that
\* could not compare: reconstruct refuses by these brackets
\* (inferState.observe, lowFor; the order of Decode's events).
ChangesBracketed ==
    saved.lost \/
    \A fam \in {"alter", "gone"}, o \in OIDs :
        \A sign \in Signs[log][fam, o, origin.lsn] : Compared(sign) =>
            \A d \in sign.ddl : \E k \in RecordedRows(fam, o) :
                changes[k].low <= d /\ d <= changes[k].lsn

\* A TRUNCATE leaves its marker before the checkpoint passes it.
TruncatesRecorded ==
    saved.lost \/
    \A i \in Steps : (/\ wal[i].op = "trunc" /\ Shape(wal[i].oid, i).name \in Scope
                      /\ origin.lsn < wal[i].lsn /\ wal[i].lsn <= saved.lsn) =>
        \E k \in DOMAIN changes : /\ changes[k].kind = "truncate" /\ changes[k].lsn = wal[i].lsn
                                 /\ changes[k].oid = wal[i].oid

\* The loss record is never taken back by a later checkpoint, health poll or
\* reset (saveCheckpointPG, saveSourceHealth and clearCheckpoint leave
\* gap_lost_at in place).  Only an operator who acknowledges the loss in the
\* console clears it, which is no step of capture and is left out.
LossStays == [][saved.lost => saved'.lost]_vars
=============================================================================
