----------------------------- MODULE TxnBatcher -----------------------------
(***************************************************************************)
(* The writer of captured rows (internal/indexer/txnbatch.go) and the      *)
(* index table it writes to.                                               *)
(*                                                                         *)
(* The writer is used from one goroutine and each of its methods may end   *)
(* in several ways: a write succeeds, fails, or fails on the client while  *)
(* the index server carried it out.  A method is therefore an operator     *)
(* from a writer state to the SET of states it may leave, and a caller     *)
(* picks one of them.  A state with err = TRUE is a returned error.        *)
(*                                                                         *)
(* A writer state is a record:                                             *)
(*   batch    rows read and not yet written                                *)
(*   done     batch[1..done] belong to transactions whose end has arrived  *)
(*   inTxn    rows arrived since the last End                              *)
(*   open     an index transaction is open (the code's tx # nil)           *)
(*   txn      the rows written in it, not committed                        *)
(*   splits   parts the transaction being read was committed in so far     *)
(*   stopped  the Stopped hook returns an error                            *)
(*   first    FirstIDOfLastBatch of this run's Indexer, 0 before the first *)
(*   rows     the committed rows of binlog_events, [id, item]              *)
(*   next     the AUTO_INCREMENT counter of binlog_events                  *)
(*   err      the method returned an error                                 *)
(***************************************************************************)
EXTENDS Integers, Sequences, FiniteSets

CONSTANTS
    BatchSize,   \* rows of one INSERT statement (Indexer.BatchSize)
    MaxTxnRows   \* row cap of an open index transaction (DefaultMaxTxnRows)

ASSUME BatcherAssumption ==
    /\ BatchSize \in Nat \ {0}
    /\ MaxTxnRows \in Nat \ {0}

(***************************************************************************)
(* A new writer of a run (NewTxnBatcher) over a table and its counter.     *)
(***************************************************************************)
NewTxnBatcher(rows, next) ==
    [batch |-> << >>, done |-> 0, inTxn |-> FALSE, open |-> FALSE,
     txn |-> {}, splits |-> 0, stopped |-> FALSE, first |-> 0,
     rows |-> rows, next |-> next, err |-> FALSE]

(***************************************************************************)
(* Sequencing of two calls: the second runs only when the first returned   *)
(* no error.                                                               *)
(***************************************************************************)
Then(S, Op(_)) == UNION {IF w.err THEN {w} ELSE Op(w) : w \in S}

Failed(w) == [w EXCEPT !.err = TRUE]

(***************************************************************************)
(* writeChunks: the rows of s get the next ids, at most BatchSize rows per *)
(* statement.  FirstIDOfLastBatch is the first id of the last statement.   *)
(***************************************************************************)
Numbered(w, s) == {[id |-> w.next + k - 1, item |-> s[k]] : k \in 1 .. Len(s)}

LastChunk(n) == ((n - 1) \div BatchSize) * BatchSize

writeChunks(w, s) ==
    [w EXCEPT !.next = @ + Len(s), !.first = w.next + LastChunk(Len(s))]

(***************************************************************************)
(* A write that returned an error.  The ids are used up either way.  lost: *)
(* the rows that are in the table if the server carried it out after the   *)
(* client gave up.                                                         *)
(***************************************************************************)
Ambiguous(w, n, lost) ==
    {Failed([w EXCEPT !.next = @ + n, !.rows = r]) : r \in {w.rows, w.rows \cup lost}}

(***************************************************************************)
(* CommitComplete: the rows of complete transactions become visible, all   *)
(* at once: one INSERT when they fit, an index transaction of their own    *)
(* when they do not.                                                       *)
(***************************************************************************)
\* Mutated: the complete part is not reset after it was written.
CommitComplete_KeepsDone(w) ==
    LET complete == SubSeq(w.batch, 1, w.done)
    IN  IF w.stopped THEN {Failed(w)}
        ELSE IF w.done = 0 THEN {w}
        ELSE {[writeChunks(w, complete) EXCEPT
                  !.rows  = @ \cup Numbered(w, complete),
                  !.batch = SubSeq(@, w.done + 1, Len(@))]}

\* Mutated: the Stopped hook is asked only when there is something to write.
CommitComplete_StopLate(w) ==
    LET complete == SubSeq(w.batch, 1, w.done)
    IN  IF w.done = 0 THEN {w}
        ELSE IF w.stopped THEN {Failed(w)}
        ELSE {[writeChunks(w, complete) EXCEPT
                  !.rows  = @ \cup Numbered(w, complete),
                  !.batch = SubSeq(@, w.done + 1, Len(@)),
                  !.done  = 0]}

CommitComplete(w) ==
    LET complete == SubSeq(w.batch, 1, w.done)
        written  == Numbered(w, complete)
    IN  IF w.stopped THEN {Failed(w)}
        ELSE IF w.done = 0 THEN {w}
        ELSE {[writeChunks(w, complete) EXCEPT
                  !.rows  = @ \cup written,
                  !.batch = SubSeq(@, w.done + 1, Len(@)),
                  !.done  = 0]}
             \cup Ambiguous(w, w.done, written)

(***************************************************************************)
(* spill: the rows of the open transaction go into its index transaction,  *)
(* uncommitted.  A failed INSERT leaves it open; Close rolls it back.      *)
(***************************************************************************)
spill(w) ==
    IF w.stopped THEN {Failed(w)}
    ELSE IF w.batch = << >> THEN {w}
    ELSE {[writeChunks(w, w.batch) EXCEPT
              !.open  = TRUE,
              !.txn   = @ \cup Numbered(w, w.batch),
              !.batch = << >>],
          Failed([w EXCEPT !.next = @ + Len(w.batch)])}

(***************************************************************************)
(* commitTx: spill, then COMMIT.  The index transaction is spent whether   *)
(* or not COMMIT returned an error, and an error may hide a commit.        *)
(***************************************************************************)
clearTx(w) == [w EXCEPT !.open = FALSE, !.txn = {}]

CommitOpen(w) ==
    IF ~w.open THEN {w}
    ELSE {[clearTx(w) EXCEPT !.rows = @ \cup w.txn]}
         \cup Ambiguous(clearTx(w), 0, w.txn)

commitTx(w) == Then(spill(w), CommitOpen)

(***************************************************************************)
(* OnCap: past the row cap, or past the time cap (which may have passed    *)
(* whenever an index transaction is open), the part read so far commits.   *)
(* A failed COMMIT may have landed, so it counts as a split too: the error *)
(* ends the run, and nothing reads splits after it.                        *)
(***************************************************************************)
Split(w) == {[x EXCEPT !.splits = @ + 1] : x \in commitTx(w)}

OnCap(w) ==
    IF ~w.open THEN {w}
    ELSE IF Cardinality(w.txn) >= MaxTxnRows THEN Split(w)
    ELSE {w} \cup Split(w)

(***************************************************************************)
(* Add: one row of the transaction being read.  When it fills a batch on   *)
(* its own, what came before it is committed first, so that the index      *)
(* transaction it moves into holds nothing else.                           *)
(***************************************************************************)
\* Mutated: the complete rows go into the open index transaction too.
Spilled_Mixed(w) ==
    IF Len(w.batch) - w.done >= BatchSize
    THEN {[x EXCEPT !.done = 0] : x \in spill(w)}
    ELSE {w}

Spilled(w) ==
    IF Len(w.batch) - w.done >= BatchSize
    THEN Then(CommitComplete(w), spill)
    ELSE {w}

Add(w, item) ==
    Then(Spilled([w EXCEPT !.inTxn = TRUE, !.batch = Append(@, item)]), OnCap)

(***************************************************************************)
(* End: the transaction being read ended.                                  *)
(***************************************************************************)
Completed(w) == [w EXCEPT !.done = Len(w.batch)]

End(w) ==
    LET e == [w EXCEPT !.inTxn = FALSE, !.splits = 0]
    IN  IF e.open THEN commitTx(e)
        ELSE IF Len(e.batch) >= BatchSize THEN CommitComplete(Completed(e))
        ELSE {Completed(e)}

(***************************************************************************)
(* Close rolls back an open index transaction; Discard also drops the      *)
(* unwritten rows of the transaction being read.                           *)
(***************************************************************************)
Close(w) == clearTx(w)

Discard(w) ==
    Close([w EXCEPT !.batch = SubSeq(@, 1, w.done), !.inTxn = FALSE, !.splits = 0])
=============================================================================
