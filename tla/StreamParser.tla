---------------------------- MODULE StreamParser ----------------------------
(***************************************************************************)
(* The stream parser (StreamParser.Run in internal/parser/stream.go): one  *)
(* run over the binary log a source sends, with the connection to the      *)
(* source lost and made again behind the parser's back.                    *)
(*                                                                         *)
(* The constant Sources lists sources: a binary log, how the client        *)
(* resumes, and how often it may.  A behaviour is a run against one.  A    *)
(* log is a sequence of events as they are on the wire.  An event is a     *)
(* record                                                                  *)
(*   type   "gtid"    GTID_EVENT, MariaDB's GTID event, the anonymous one  *)
(*          "tagged"  MySQL 8.4's tagged GTID event                        *)
(*          "row"     one row of a ROWS_EVENT                              *)
(*          "xid"     XID_EVENT                                            *)
(*          "end"     QUERY COMMIT, ROLLBACK or XA ..., XA_PREPARE         *)
(*          "ddl"     a QUERY parseDDL takes                               *)
(*          "other"   any other QUERY: BEGIN, GRANT, ...                   *)
(*          "rotate"  the rotate at the end of a file                      *)
(*          "fake"    the artificial rotate at the start of the next       *)
(*   txn    the transaction (binlog group) it belongs to, 0 for a rotate   *)
(*   gtid   the GTID of a "gtid" event, 0 when anonymous, and of no other  *)
(*   file   the file it is in; of a rotate, the file it names              *)
(*   end, size   its true end offset in the file, and its length           *)
(*   captured    a "row" that the filters and the resolver let through     *)
(*                                                                         *)
(* The client library reads ahead of the parser, but what it delivers      *)
(* depends on nothing the parser does, so here the parser takes an event   *)
(* as the client reads it.  A compressed transaction arrives in one piece; *)
(* here its events arrive one by one, which only adds places for a cut.    *)
(***************************************************************************)
EXTENDS Integers, Sequences, SequencesExt

CONSTANTS
    Sources,   \* a sequence of [log, auto, reconnects]
    Width      \* number of positions a header can hold: 2^32

EventTypes == {"gtid", "tagged", "row", "xid", "end", "ddl", "other", "rotate", "fake"}

ASSUME StreamAssumption ==
    /\ Width \in Nat \ {0}
    /\ Sources \in Seq([auto : BOOLEAN, reconnects : Nat,
                        log : Seq([type : EventTypes, txn : Nat, gtid : Nat, file : Nat,
                                   end : Nat, size : Nat, captured : BOOLEAN])])

VARIABLES
    src,     \* the source of this run
    p,       \* the locals of Run, and what it sent on its channel
    at,      \* the next event of Log the source sends
    resume,  \* where the source starts to send after a reconnect
    cuts     \* reconnects so far

vars == <<src, p, at, resume, cuts>>

Log == Sources[src].log
AutoPosition == Sources[src].auto         \* by GTID set (GTID mode), or by position
MaxReconnects == Sources[src].reconnects  \* bound: reconnects in one run
Items == 1 .. Len(Log)

Sent == [type : {"gtid", "row", "commit", "ddl"}, gtid : Nat, item : Items,
         file : Nat, end : Nat, schema : 0 .. Len(Log)]

\* status: "run", or why Run returned.
Locals ==
    [file : Nat, gtid : Nat, lastLogPos : Nat, committed : Nat, ddlTxn : Nat,
     afterRotate : BOOLEAN, skip : BOOLEAN, txnRows : Nat, schema : 0 .. Len(Log),
     status : {"run", "resent", "wrapped", "hook", "ended"}, out : Seq(Sent)]

Running == p.status = "run"
-----------------------------------------------------------------------------
(***************************************************************************)
(* What the handlers share.  Each maps the locals to the locals after it.  *)
(***************************************************************************)
\* The position in a header: 32 bits, whatever the true offset is.
LogPos(i) == Log[i].end % Width

send(s, type, i, pos) ==
    [s EXCEPT !.out = Append(@, [type |-> type, gtid |-> s.gtid, item |-> i,
                                 file |-> s.file, end |-> pos, schema |-> s.schema]),
              !.txnRows = IF type = "row" THEN @ + 1 ELSE @]

emitCommit(s, i, pos) ==
    IF s.gtid = 0 THEN s
    ELSE [send(s, "commit", i, pos) EXCEPT !.committed = s.gtid, !.gtid = 0]

\* Mutated: the commit of a transaction without a GTID is not sent.
endTxn_GTIDOnly(s, i) == emitCommit(s, i, LogPos(i))

endTxn(s, i) ==
    IF s.gtid # 0 THEN emitCommit(s, i, LogPos(i)) ELSE send(s, "commit", i, LogPos(i))

\* Mutated: the end of the transaction before is the end of this event.
PrevEnd_OwnEnd(i) == LogPos(i)

\* Where a GTID event starts: the end of the transaction before it.
PrevEnd(i) == IF LogPos(i) >= Log[i].size THEN LogPos(i) - Log[i].size ELSE LogPos(i)

\* Mutated: a pending transaction sent again counts as ended.
SentAgain_Never(s, i) == FALSE

\* The transaction still waiting for its commit is sent again.
SentAgain(s, i) == s.afterRotate /\ s.gtid # 0 /\ s.gtid = Log[i].gtid

\* The transaction that starts was already seen to commit.
IsResend(s, i) == s.afterRotate /\ Log[i].gtid # 0 /\ Log[i].gtid = s.committed

\* Mutated: a pending transaction is not committed at the next GTID.
beginTxn_NoFallback(s, i) ==
    IF SentAgain(s, i) /\ s.txnRows > 0
    THEN [s EXCEPT !.status = "resent"]
    ELSE [s EXCEPT !.gtid = Log[i].gtid, !.skip = IsResend(s, i),
                   !.afterRotate = FALSE, !.ddlTxn = 0, !.txnRows = 0]

\* Mutated: a cut transaction is read again though some of its rows were sent.
beginTxn_CutIgnored(s, i) ==
    LET c == emitCommit(IF SentAgain(s, i) THEN [s EXCEPT !.gtid = 0] ELSE s,
                        i, PrevEnd(i))
    IN  [c EXCEPT !.gtid = Log[i].gtid, !.skip = IsResend(c, i),
                  !.afterRotate = FALSE, !.ddlTxn = 0, !.txnRows = 0]

beginTxn(s, i) ==
    LET c == emitCommit(IF SentAgain(s, i) THEN [s EXCEPT !.gtid = 0] ELSE s,
                        i, PrevEnd(i))
    IN  IF SentAgain(s, i) /\ s.txnRows > 0
        THEN [s EXCEPT !.status = "resent"]
        ELSE [c EXCEPT !.gtid = Log[i].gtid, !.skip = IsResend(c, i),
                       !.afterRotate = FALSE, !.ddlTxn = 0, !.txnRows = 0]
-----------------------------------------------------------------------------
(***************************************************************************)
(* handleEvent.                                                            *)
(***************************************************************************)
IsRotate(i) == Log[i].type \in {"rotate", "fake"}

\* Mutated: the position may go back within a file.
Placed_Unguarded(s, i) == [s EXCEPT !.lastLogPos = LogPos(i)]

\* The wraparound guard, before anything else is done with the event.
Placed(s, i) ==
    IF IsRotate(i) THEN [s EXCEPT !.lastLogPos = 0]
    ELSE IF LogPos(i) # 0 /\ LogPos(i) < s.lastLogPos
    THEN [s EXCEPT !.status = "wrapped"]
    ELSE [s EXCEPT !.lastLogPos = IF LogPos(i) > @ THEN LogPos(i) ELSE @]

\* Events of a re-sent committed transaction are dropped.
Dropped(s, i) == s.skip /\ Log[i].type \notin {"rotate", "fake", "gtid", "tagged"}

OnRotate(s, i) ==
    /\ IsRotate(i)
    /\ p' = IF Log[i].type = "rotate" THEN [s EXCEPT !.file = Log[i].file]
            ELSE [s EXCEPT !.file = Log[i].file, !.skip = FALSE, !.afterRotate = TRUE]

OnGTID(s, i) ==
    /\ Log[i].type = "gtid"
    /\ LET b == beginTxn(s, i)
       IN  p' = IF b.status # "run" THEN b
                ELSE IF b.skip THEN [b EXCEPT !.gtid = 0]
                ELSE IF b.gtid = 0 THEN b
                ELSE send(b, "gtid", i, LogPos(i))

OnTagged(s, i) == Log[i].type = "tagged" /\ p' = [s EXCEPT !.skip = FALSE]

\* Mutated: a row is taken only under a GTID.
OnRow_GTIDOnly(s, i) ==
    /\ Log[i].type = "row"
    /\ p' = IF Log[i].captured /\ s.gtid # 0 THEN send(s, "row", i, LogPos(i)) ELSE s

OnRow(s, i) ==
    /\ Log[i].type = "row"
    /\ p' = IF Log[i].captured THEN send(s, "row", i, LogPos(i)) ELSE s

\* Mutated: the hook runs after the DDL event was sent, and may fail then.
OnDDL_SendFirst(s, i) ==
    /\ Log[i].type = "ddl"
    /\ LET sent == [send(s, "ddl", i, LogPos(i)) EXCEPT !.ddlTxn = s.gtid, !.gtid = 0]
       IN  p' \in {[sent EXCEPT !.status = "hook"], [sent EXCEPT !.schema = i]}

\* The hook takes a schema snapshot; when it fails the DDL is not sent.
OnDDL(s, i) ==
    /\ Log[i].type = "ddl"
    /\ \/ p' = [s EXCEPT !.status = "hook"]
       \/ p' = [send([s EXCEPT !.schema = i], "ddl", i, LogPos(i)) EXCEPT
                   !.ddlTxn = s.gtid, !.gtid = 0]

OnXID(s, i) ==
    /\ Log[i].type = "xid"
    /\ p' = endTxn(IF s.gtid = 0 /\ s.ddlTxn # 0
                   THEN [s EXCEPT !.committed = s.ddlTxn, !.ddlTxn = 0] ELSE s, i)

OnEnd(s, i) == Log[i].type = "end" /\ p' = endTxn(s, i)

OnOther(s, i) == Log[i].type = "other" /\ p' = s

handleEvent(i) ==
    LET s == Placed(p, i)
    IN  IF s.status # "run" \/ Dropped(s, i) THEN p' = s
        ELSE \/ OnRotate(s, i) \/ OnGTID(s, i) \/ OnTagged(s, i) \/ OnRow(s, i)
             \/ OnDDL(s, i) \/ OnXID(s, i) \/ OnEnd(s, i) \/ OnOther(s, i)
-----------------------------------------------------------------------------
(***************************************************************************)
(* The source and the client library.  By GTID set, the client resumes     *)
(* from the set it held before the last GTID event it read, so the source  *)
(* sends from that event; by position, from after the last event it read.  *)
(***************************************************************************)
Deliver ==
    /\ Running /\ at \in Items
    /\ handleEvent(at)
    /\ at' = at + 1
    /\ resume' = IF ~AutoPosition THEN at + 1
                 ELSE IF Log[at].type = "gtid" THEN at ELSE resume
    /\ UNCHANGED <<src, cuts>>

FileAt(i) == IF Log[i].type = "rotate" THEN Log[i - 1].file ELSE Log[i].file

\* The source starts over with an artificial rotate to the file it sends.
Reconnect ==
    /\ Running /\ cuts < MaxReconnects /\ resume \in Items
    /\ cuts' = cuts + 1 /\ at' = resume
    /\ p' = [p EXCEPT !.file = FileAt(resume), !.lastLogPos = 0,
                      !.skip = FALSE, !.afterRotate = TRUE]
    /\ UNCHANGED <<src, resume>>

\* Cancellation, or the client gave up or could not decode: Run returns.
Return ==
    /\ Running
    /\ p' = [p EXCEPT !.status = "ended"]
    /\ UNCHANGED <<src, at, resume, cuts>>

Init ==
    /\ src \in DOMAIN Sources
    /\ p = [file |-> Log[1].file, gtid |-> 0, lastLogPos |-> 0, committed |-> 0, ddlTxn |-> 0,
            afterRotate |-> TRUE, skip |-> FALSE, txnRows |-> 0, schema |-> 0,
            status |-> "run", out |-> << >>]
    /\ at = 1 /\ resume = 1 /\ cuts = 0

Next == Deliver \/ Reconnect \/ Return

Spec == Init /\ [][Next]_vars

\* The source sends what it has, and GetEvent returns it.
FairSpec == Spec /\ WF_vars(Deliver)
-----------------------------------------------------------------------------
(***************************************************************************)
(* Properties.                                                             *)
(***************************************************************************)
\* The locals of Run have their types.
TypeOK ==
    /\ src \in DOMAIN Sources
    /\ p \in Locals
    /\ at \in 1 .. Len(Log) + 1 /\ resume \in 1 .. Len(Log) + 1
    /\ cuts \in 0 .. MaxReconnects

CapturedRows == SelectSeq([i \in Items |-> i], LAMBDA i : Log[i].type = "row" /\ Log[i].captured)
SentRows == SelectSeq(p.out, LAMBDA e : e.type = "row")
RowsOf(t) == {i \in Items : Log[i].txn = t /\ Log[i].type = "row" /\ Log[i].captured}
GTIDs == {Log[i].gtid : i \in Items} \ {0}
TxnOf(g) == Log[CHOOSE i \in Items : Log[i].gtid = g].txn

\* Whatever reconnects come, the rows that reach capture are the rows of the
\* binary log, in its order, with none left out and none sent twice (the
\* re-send guard: skipTxn, ResentCutTransactionError).
RowsOnceInOrder ==
    /\ Len(SentRows) <= Len(CapturedRows)
    /\ \A k \in 1 .. Len(SentRows) : SentRows[k].item = CapturedRows[k]

\* A GTID is committed at most once, after every row of its transaction, and
\* no row that carries it comes later: the consumer adds the GTID to the set
\* it resumes from (emitCommit, beginTxn).
CommitClosesTransaction ==
    \A k \in 1 .. Len(p.out) : p.out[k].type = "commit" /\ p.out[k].gtid # 0 =>
        /\ RowsOf(TxnOf(p.out[k].gtid)) \subseteq {p.out[j].item : j \in 1 .. k - 1}
        /\ \A j \in k + 1 .. Len(p.out) :
              p.out[j].type \in {"row", "commit"} => p.out[j].gtid # p.out[k].gtid

\* A position-mode resume starts at the end a commit names: no transaction of
\* the log lies on both sides of it (endTxn, prevEnd in beginTxn).
ResumePointIsBoundary ==
    ~AutoPosition => \A k \in 1 .. Len(p.out) : p.out[k].type = "commit" =>
        \A i, j \in Items :
           /\ Log[i].file = p.out[k].file /\ Log[j].file = p.out[k].file
           /\ Log[i].txn = Log[j].txn /\ Log[i].txn # 0
           /\ Log[i].end <= p.out[k].end
           => Log[j].end <= p.out[k].end

\* The position of a row or DDL that is sent is its true offset, although a
\* header holds it modulo Width: past that the stream stops instead
\* (PositionWraparoundError).
TruePositions ==
    \A k \in 1 .. Len(p.out) : p.out[k].type \in {"row", "ddl"} =>
        p.out[k].end = Log[p.out[k].item].end

\* A row is decoded with the schema of the last DDL before it, and the DDL is
\* sent only when that schema was taken, so a restart after a failed hook
\* reads the DDL again (SetSyncDDLHook).
SchemaIsCurrent ==
    \A k \in 1 .. Len(p.out) : p.out[k].type \in {"row", "ddl"} =>
        \A i \in 1 .. p.out[k].item : Log[i].type = "ddl" => i <= p.out[k].schema

\* Unless Run returned, every captured row is sent, and every GTID whose
\* transaction another one follows is committed, those without an XID too:
\* otherwise the set keeps a hole that later reads as a purged gap.
CommittedGTIDs == {p.out[k].gtid : k \in {j \in 1 .. Len(p.out) : p.out[j].type \in {"commit", "ddl"}}}
FollowedGTIDs == {g \in GTIDs : \E i \in Items : Log[i].gtid > g}

EverythingSent ==
    <>(~Running \/ (Len(SentRows) = Len(CapturedRows) /\ FollowedGTIDs \subseteq CommittedGTIDs))

\* Every terminator gets a resume point, with or without a GTID: in position
\* mode the consumer has no other (endTxn).
EveryEndAnnounced ==
    Running => \A i \in 1 .. at - 1 : Log[i].type \in {"xid", "end"} =>
        \E k \in 1 .. Len(p.out) : p.out[k].type = "commit" /\ p.out[k].item = i
=============================================================================
