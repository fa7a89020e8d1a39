-------------------------- MODULE MC_StreamParser --------------------------
(***************************************************************************)
(* Small binary logs for StreamParser.                                     *)
(***************************************************************************)
EXTENDS StreamParser

Event(type, txn, gtid, file, end) ==
    [type |-> type, txn |-> txn, gtid |-> gtid, file |-> file, end |-> end,
     size |-> 0, captured |-> TRUE]

\* An event starts where the one before it ends.
Sized(log) ==
    [i \in DOMAIN log |->
        [log[i] EXCEPT !.size = IF i = 1 THEN log[i].end
                                ELSE IF log[i].end > log[i - 1].end
                                THEN log[i].end - log[i - 1].end ELSE @]]

Filtered(e) == [e EXCEPT !.captured = FALSE]

\* A transaction with an XID, a GRANT that nothing closes at the end of a
\* file, and in the next file a table DDL, a transaction a COMMIT query closes
\* whose first row is filtered out, and one more.
GTIDLog == Sized(
    <<Event("gtid", 1, 1, 1, 2), Event("other", 1, 0, 1, 4), Event("row", 1, 0, 1, 6),
      Event("row", 1, 0, 1, 8), Event("xid", 1, 0, 1, 10),
      Event("gtid", 2, 2, 1, 12), Event("other", 2, 0, 1, 14),
      Event("rotate", 0, 0, 2, 16), Event("fake", 0, 0, 2, 0),
      Event("gtid", 3, 3, 2, 2), Event("ddl", 3, 0, 2, 4),
      Event("gtid", 4, 4, 2, 6), Filtered(Event("row", 4, 0, 2, 8)),
      Event("row", 4, 0, 2, 10), Event("end", 4, 0, 2, 12),
      Event("gtid", 5, 5, 2, 14), Event("row", 5, 0, 2, 16), Event("xid", 5, 0, 2, 18)>>)

\* Anonymous transactions and one with a tagged GTID, then, with GTIDs on, a
\* GRANT that nothing closes and two transactions.
PositionLog == Sized(
    <<Event("gtid", 1, 0, 1, 2), Event("row", 1, 0, 1, 4), Event("xid", 1, 0, 1, 6),
      Event("gtid", 2, 0, 1, 8), Event("ddl", 2, 0, 1, 10), Event("row", 2, 0, 1, 12),
      Event("xid", 2, 0, 1, 14), Event("tagged", 3, 0, 1, 16), Event("row", 3, 0, 1, 18),
      Event("end", 3, 0, 1, 20),
      Event("rotate", 0, 0, 2, 22), Event("fake", 0, 0, 2, 0),
      Event("gtid", 4, 4, 2, 2), Event("other", 4, 0, 2, 4),
      Event("gtid", 5, 5, 2, 6), Event("row", 5, 0, 2, 8), Event("row", 5, 0, 2, 10),
      Event("xid", 5, 0, 2, 12), Event("gtid", 6, 6, 2, 14), Event("row", 6, 0, 2, 16),
      Event("xid", 6, 0, 2, 18)>>)

\* A transaction that takes its file past the last position a header holds.
WrapLog == Sized(
    <<Event("gtid", 1, 1, 1, 2), Event("row", 1, 0, 1, 4), Event("xid", 1, 0, 1, 6),
      Event("gtid", 2, 2, 1, 24), Event("row", 2, 0, 1, 28), Event("row", 2, 0, 1, 31),
      Event("row", 2, 0, 1, 34), Event("row", 2, 0, 1, 38), Event("xid", 2, 0, 1, 40),
      Event("rotate", 0, 0, 2, 42), Event("fake", 0, 0, 2, 0),
      Event("gtid", 3, 3, 2, 2), Event("row", 3, 0, 2, 4), Event("xid", 3, 0, 2, 6)>>)

Source(log, auto, reconnects) == [log |-> log, auto |-> auto, reconnects |-> reconnects]

MCSources ==
    <<Source(GTIDLog, TRUE, 3), Source(PositionLog, FALSE, 2), Source(WrapLog, TRUE, 4)>>
=============================================================================
