----------------------------- MODULE MC_Capture -----------------------------
(***************************************************************************)
(* Small binary logs for Capture.                                          *)
(***************************************************************************)
EXTENDS Capture

Ev(type, txn, file, start, end, gtid) ==
    [type |-> type, txn |-> txn, file |-> file, start |-> start, end |-> end, gtid |-> gtid]

\* A CREATE TABLE ... SELECT, then in the next file a one-row transaction
\* and one past the row cap, whose first event has two rows.  The source has
\* gtid_mode=OFF: no event carries a GTID.
PositionLog ==
    << Ev("ddl", 1, 1, 1, 2, FALSE), Ev("row", 1, 1, 2, 3, FALSE),
       Ev("commit", 1, 1, 3, 4, FALSE),
       Ev("row", 2, 2, 6, 7, FALSE), Ev("commit", 2, 2, 7, 8, FALSE),
       Ev("row", 3, 2, 8, 9, FALSE), Ev("row", 3, 2, 8, 9, FALSE),
       Ev("row", 3, 2, 9, 10, FALSE), Ev("row", 3, 2, 10, 11, FALSE),
       Ev("row", 3, 2, 11, 12, FALSE), Ev("commit", 3, 2, 12, 13, FALSE) >>

\* On a source with GTIDs: a one-row transaction, a DDL without rows, and in
\* the next file a transaction of a batch and a half.
GTIDLog ==
    << Ev("gtid", 1, 1, 1, 2, TRUE), Ev("row", 1, 1, 2, 3, TRUE),
       Ev("commit", 1, 1, 3, 4, TRUE),
       Ev("gtid", 2, 1, 4, 5, TRUE), Ev("ddl", 2, 1, 5, 6, TRUE),
       Ev("gtid", 3, 2, 7, 8, TRUE), Ev("row", 3, 2, 8, 9, TRUE),
       Ev("row", 3, 2, 8, 9, TRUE), Ev("row", 3, 2, 9, 10, TRUE),
       Ev("commit", 3, 2, 10, 11, TRUE) >>

\* A CREATE TABLE ... SELECT on a source with GTIDs.
CreateSelectLog ==
    << Ev("gtid", 1, 1, 1, 2, TRUE), Ev("ddl", 1, 1, 2, 3, TRUE),
       Ev("row", 1, 1, 3, 4, FALSE), Ev("row", 1, 1, 4, 5, FALSE),
       Ev("commit", 1, 1, 5, 6, FALSE) >>

\* Rows an earlier capture left at the same coordinates.
OldHistory == {[id |-> 1, item |-> 2], [id |-> 2, item |-> 9]}
=============================================================================
