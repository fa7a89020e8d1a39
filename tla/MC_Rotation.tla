---------------------------- MODULE MC_Rotation ----------------------------
(***************************************************************************)
(* Options and rows for Rotation.                                          *)
(***************************************************************************)
EXTENDS Rotation

\* loopOptions with an S3 bucket, and without one.
LoopS3 == [dir |-> TRUE, s3 |-> TRUE, retry |-> TRUE, prune |-> TRUE, protect |-> TRUE]
LoopPlain == [dir |-> FALSE, s3 |-> FALSE, retry |-> FALSE, prune |-> FALSE, protect |-> TRUE]

\* The rotate command: archive to a directory, with and without S3.
Local == [dir |-> TRUE, s3 |-> FALSE, retry |-> FALSE, prune |-> FALSE, protect |-> FALSE]
LocalS3 == [Local EXCEPT !.s3 = TRUE]

LoopOnly == {LoopS3}
Mixed == {LoopS3, LoopPlain, Local, LocalS3}

\* Rows of two expired hours, or of one.
TwoHours == <<1, 2>>
OneHour == <<1, 1>>
=============================================================================
