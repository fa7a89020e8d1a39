---------------------------- MODULE MC_PgCapture ----------------------------
(***************************************************************************)
(* Logs for PgCapture: tables 1 and 2 (3), names "a" and "b".              *)
(***************************************************************************)
EXTENDS PgCapture

DDL(l, o, n, c) == [op |-> "ddl", lsn |-> l, oid |-> o, name |-> n, cols |-> c]
Row(l, o)       == [op |-> "row", lsn |-> l, oid |-> o]
Trunc(l, o)     == [op |-> "trunc", lsn |-> l, oid |-> o]
Commit(l)       == [op |-> "commit", lsn |-> l]

\* A transaction larger than the caps, and a TRUNCATE.
RowsOnly == <<DDL(0, 1, "a", 1), Row(1, 1), Row(1, 1), Row(1, 1), Commit(1),
              Trunc(2, 1), Row(2, 1), Commit(2)>>

\* One ALTER.
OneAlter == <<DDL(0, 1, "a", 1), Row(1, 1), Commit(1),
              DDL(2, 1, "a", 2), Row(2, 1), Commit(2)>>

\* Two ALTERs in one transaction.
TwoAlters == <<DDL(0, 1, "a", 1), Row(1, 1), Commit(1),
               DDL(2, 1, "a", 2), Row(2, 1), DDL(2, 1, "a", 3), Row(2, 1), Commit(2),
               Row(3, 1), Commit(3)>>

\* Table 1 is renamed and a new table takes its name.
Handover == <<DDL(0, 1, "a", 1), Row(1, 1), Commit(1),
              DDL(2, 1, "b", 1), DDL(2, 2, "a", 1), Row(2, 2), Commit(2),
              DDL(3, 1, "b", 2), Row(3, 1), Commit(3)>>

\* Table 1 is renamed, a new table takes its name, and table 1 is dropped.
RenameDrop == <<DDL(0, 1, "a", 1), Row(1, 1), Commit(1),
                DDL(2, 1, "b", 1), DDL(2, 2, "a", 1), Row(2, 2), Commit(2),
                DDL(3, 1, "gone", 0), Row(3, 2), Commit(3)>>

MCWals == <<RowsOnly, OneAlter, TwoAlters, Handover, RenameDrop>>
MCRuns == <<3, 3, 2, 2, 2>>

OneLog  == <<TwoAlters>>
TwoRuns == <<2>>
=============================================================================
