------------------------------ MODULE Rotation ------------------------------
(***************************************************************************)
(* Rotation of the index (Perform in internal/rotation/rotation.go) while  *)
(* capture writes to it: each expired partition of binlog_events is        *)
(* archived to a file, recorded in archive_state, uploaded, compared with  *)
(* what is in the table, and dropped.                                      *)
(*                                                                         *)
(* The expired partitions are 1 .. Expired, oldest first; Expired + 1      *)
(* stands for all later ones, which no cycle drops.  A row is its number   *)
(* in the order capture reads it.  A backfilled row has an old timestamp   *)
(* and lands in the oldest partition that still takes it.  Tables keyed by *)
(* partition are partial functions: no entry is no row, or no file.        *)
(*                                                                         *)
(* One process rotates, for one source.  Capture is reduced to what        *)
(* rotation can see of it: rows in an index transaction that holds the     *)
(* table, commits, and the cleanup of a resume.                            *)
(***************************************************************************)
EXTENDS Integers, Sequences, FiniteSets, FiniteSetsExt, Functions

CONSTANTS
    Expired,     \* number of expired partitions
    HourOf,      \* the partition the timestamp of a row belongs to
    OptionSets,  \* the Options cycles run with: dir, s3, retry, prune, protect
    Attempts,    \* ddlLockAttempts
    MaxCrashes,  \* bound: crashes of the rotating process
    MaxCleanups, \* bound: resumes of capture that delete rows
    StagingLost  \* a restart may lose the staging directory

Parts == 1 .. Expired
Rows  == DOMAIN HourOf
Options == [dir : BOOLEAN, s3 : BOOLEAN, retry : BOOLEAN, prune : BOOLEAN, protect : BOOLEAN]

ASSUME RotationAssumption ==
    /\ Expired \in Nat /\ Attempts \in Nat \ {0}
    /\ MaxCrashes \in Nat /\ MaxCleanups \in Nat /\ StagingLost \in BOOLEAN
    /\ HourOf \in Seq(1 .. Expired + 1)
    /\ OptionSets \subseteq Options
    /\ \A o \in OptionSets : o.s3 => o.dir

VARIABLES
    live,     \* the rows of each partition; its domain is the partitions there are
    open,     \* rows of capture's open index transaction
    next,     \* the next row capture writes
    claimed,  \* rows below it are in capture's checkpoint
    file,     \* the staged archive files, by partition
    s3,       \* the uploaded objects, by partition
    state,    \* archive_state: count, key (an upload is due), uploaded
    below,    \* partition_history.dropped_below: the highest partition marked
    c,        \* the cycle that runs
    crashes, cleanups,
    late      \* rows that came between the last count and the drop (history)

vars == <<live, open, next, claimed, file, s3, state, below, c, crashes, cleanups, late>>

capture == <<open, next, claimed, cleanups>>
archives == <<file, s3, state>>
index == <<live, below>>

NoOptions == [dir |-> FALSE, s3 |-> FALSE, retry |-> FALSE, prune |-> FALSE, protect |-> FALSE]

Idle(result) ==
    [pc |-> "idle", o |-> NoOptions, todo |-> {}, deferred |-> 0,
     attempt |-> 0, counted |-> {}, result |-> result]

Without(f, p) == Restrict(f, DOMAIN f \ {p})
With(f, p, v) == [q \in DOMAIN f \cup {p} |-> IF q = p THEN v ELSE f[q]]
-----------------------------------------------------------------------------
(***************************************************************************)
(* Capture, as far as rotation can see it.                                 *)
(***************************************************************************)
Home(r) == Min({p \in DOMAIN live : p >= HourOf[r]})

Insert ==
    /\ next \in Rows
    /\ open' = open \cup {next} /\ next' = next + 1
    /\ UNCHANGED <<index, claimed, archives, c, crashes, cleanups, late>>

Commit ==
    /\ open # {}
    /\ live' = [p \in DOMAIN live |-> live[p] \cup {r \in open : Home(r) = p}]
    /\ open' = {}
    /\ claimed' \in {claimed, next}
    /\ UNCHANGED <<next, below, archives, c, crashes, cleanups, late>>

\* A resume deletes the rows past its checkpoint and reads them again.
Cleanup ==
    /\ cleanups < MaxCleanups
    /\ live' = [p \in DOMAIN live |-> {r \in live[p] : r < claimed}]
    /\ open' = {} /\ next' = claimed /\ cleanups' = cleanups + 1
    /\ UNCHANGED <<claimed, below, archives, c, crashes, late>>
-----------------------------------------------------------------------------
(***************************************************************************)
(* A cycle (Perform).  todo is what is left of toDrop; the oldest is the   *)
(* partition at hand.                                                      *)
(***************************************************************************)
At(pc) == c.pc = pc /\ UNCHANGED <<capture, crashes>>
name == Min(c.todo)

\* The cycle ends; the loop counts it healthy or not (unhealthyStreak).
\* What Perform still does then (the list, the future partitions) may fail.
Ended(deferred) ==
    c' \in {Idle(IF deferred > 0 THEN "unhealthy" ELSE "healthy"), Idle("unhealthy")}

\* Perform returns an error.
Failed == c' = Idle("unhealthy")

\* Mutated: a partition left in place is not counted.
NextPartition_Uncounted(deferred) ==
    IF c.todo = {name} THEN Ended(0)
    ELSE c' = [c EXCEPT !.pc = "file", !.todo = @ \ {name}, !.deferred = 0]

\* On to the next partition.
NextPartition(deferred) ==
    IF c.todo = {name} THEN Ended(deferred)
    ELSE c' = [c EXCEPT !.pc = "file", !.todo = @ \ {name}, !.deferred = deferred]

Goto(pc) == c' = [c EXCEPT !.pc = pc]

\* Mutated: the cutoff is taken one hour late.
ToDrop_HourLate == DOMAIN live \cap 1 .. Expired + 1

\* The expired partitions.
ToDrop == DOMAIN live \cap Parts

StartCycle ==
    /\ At("idle") /\ ToDrop # {}
    /\ \E o \in OptionSets :
          c' = [Idle("none") EXCEPT !.pc = IF o.dir THEN "file" ELSE "filter",
                                    !.o = o, !.todo = ToDrop]
    /\ UNCHANGED <<index, archives, late>>

\* verifiedExistingArchive: a file whose footer has the recorded row count.
Verified == name \in DOMAIN file /\ name \in DOMAIN state /\ Cardinality(file[name]) = state[name].count

\* ArchivePartition writes beside the old file and renames; a failure leaves it.
ArchivePartition ==
    /\ At("file")
    /\ \/ /\ c.o.retry /\ Verified
          /\ Goto(IF c.o.s3 THEN "upload" ELSE "check") /\ UNCHANGED file
       \/ /\ ~(c.o.retry /\ Verified)
          /\ file' = With(file, name, live[name]) /\ Goto("record")
       \/ Failed /\ UNCHANGED file
    /\ UNCHANGED <<index, s3, state, late>>

\* The row of archive_state after the upsert: the upload of an earlier file
\* of the same partition stays recorded.
Upserted(old) ==
    [count |-> Cardinality(file[name]), key |-> old.key \/ c.o.s3, uploaded |-> old.uploaded]

RecordArchive ==
    /\ At("record")
    /\ \/ /\ state' = With(state, name, Upserted(IF name \in DOMAIN state THEN state[name]
                                                 ELSE [key |-> FALSE, uploaded |-> FALSE]))
          /\ Goto(IF c.o.s3 THEN "upload" ELSE "check")
       \/ Failed /\ UNCHANGED state
    /\ UNCHANGED <<index, file, s3, late>>

\* A failed upload leaves the partition; a cancelled one ends the cycle.
Upload ==
    /\ At("upload")
    /\ \/ c.o.retry /\ state[name].uploaded /\ Goto("check") /\ UNCHANGED s3
       \/ /\ ~(c.o.retry /\ state[name].uploaded)
          /\ \/ s3' = With(s3, name, file[name]) /\ Goto("mark")
             \/ NextPartition(c.deferred + 1) /\ UNCHANGED s3
       \/ Failed /\ UNCHANGED s3
    /\ UNCHANGED <<index, file, state, late>>

MarkUploaded ==
    /\ At("mark")
    /\ \/ state' = [state EXCEPT ![name] = [@ EXCEPT !.key = TRUE, !.uploaded = TRUE]] /\ Goto("check")
       \/ Failed /\ UNCHANGED state
    /\ UNCHANGED <<index, file, s3, late>>

pendingS3Upload(q) == q \in DOMAIN state /\ state[q].key /\ ~state[q].uploaded

\* Mutated: any recorded archive will do.
archivedPartitionUnchanged_Recorded == name \in DOMAIN state

archivedPartitionUnchanged ==
    name \in DOMAIN state /\ state[name].count = Cardinality(live[name])

\* Mutated: the mark follows the last drop, down as well as up.
MarkPartitionsDropped_Last(ps) == below' = Max(ps)

\* The mark goes up before the drop, in a statement of its own.
MarkPartitionsDropped(ps) == below' = Max(ps \cup {below})

\* The pending-upload check, the count and the mark before the drop.
CheckBeforeDrop ==
    /\ At("check")
    /\ \/ pendingS3Upload(name) /\ NextPartition(c.deferred + 1) /\ UNCHANGED below
       \/ /\ ~pendingS3Upload(name) /\ archivedPartitionUnchanged
          /\ c' = [c EXCEPT !.pc = "drop", !.attempt = 1, !.counted = live[name]]
          /\ MarkPartitionsDropped({name})
       \/ /\ ~pendingS3Upload(name) /\ ~archivedPartitionUnchanged
          /\ Goto("discard") /\ UNCHANGED below
       \/ Failed /\ UNCHANGED below
    /\ UNCHANGED <<live, archives, late>>

\* stillSafe, before every attempt after the first.
Recount ==
    /\ At("recount")
    /\ \/ /\ archivedPartitionUnchanged
          /\ c' = [c EXCEPT !.pc = "drop", !.attempt = @ + 1, !.counted = live[name]]
       \/ ~archivedPartitionUnchanged /\ Goto("discard")
       \/ Failed
    /\ UNCHANGED <<index, archives, late>>

\* Mutated: the stale archive's row stays in archive_state.
Discarded_RowKept(file1) == file1 = file /\ UNCHANGED state

Discarded(file1) == state' = Without(state, name) /\ file1 \in {file, Without(file, name)}

\* discardStaleArchive: a file that cannot be removed is only a warning.
DiscardStaleArchive ==
    /\ At("discard")
    /\ \/ Discarded(file') /\ NextPartition(c.deferred + 1)
       \/ Failed /\ UNCHANGED <<file, state>>
    /\ UNCHANGED <<index, s3, late>>

(***************************************************************************)
(* The ALTER needs the table to itself: it waits for capture's open index  *)
(* transaction.  An error may hide a drop.                                 *)
(***************************************************************************)
DropNow(ps) ==
    /\ open = {}
    /\ live' = Restrict(live, DOMAIN live \ ps)

DropPartition ==
    /\ At("drop")
    /\ \/ /\ DropNow({name}) /\ late' = late \cup (live[name] \ c.counted)
          /\ Goto("prune") \/ Failed
       \/ /\ UNCHANGED <<live, late>>
          /\ \/ Failed
             \/ c.attempt < Attempts /\ Goto("recount")
             \/ c.attempt = Attempts /\ Ended(c.deferred + Cardinality(c.todo))
    /\ UNCHANGED <<below, archives>>

PruneLocal ==
    /\ At("prune")
    /\ file' \in IF c.o.prune /\ c.o.s3 THEN {file, Without(file, name)} ELSE {file}
    /\ NextPartition(c.deferred)
    /\ UNCHANGED <<index, s3, state, late>>

(***************************************************************************)
(* A cycle without an archive directory drops all it may at once.          *)
(***************************************************************************)
\* Mutated: uploads that are due do not hold a partition.
MayDrop_Pending(q) == c.o.protect /\ DOMAIN state # {} => q \in DOMAIN state

MayDrop(q) ==
    /\ c.o.protect /\ DOMAIN state # {} => q \in DOMAIN state
    /\ ~pendingS3Upload(q)

FilterToDrop ==
    /\ At("filter")
    /\ LET may  == {q \in c.todo : MayDrop(q)}
           left == Cardinality(c.todo \ may)
       IN  \/ may = {} /\ Ended(left) /\ UNCHANGED below
           \/ /\ may # {} /\ MarkPartitionsDropped(may)
              /\ c' = [c EXCEPT !.pc = "dropall", !.todo = may, !.deferred = left]
           \/ Failed /\ UNCHANGED below
    /\ UNCHANGED <<live, archives, late>>

DropAll ==
    /\ At("dropall")
    /\ \/ DropNow(c.todo) /\ (Ended(c.deferred) \/ Failed)
       \/ UNCHANGED live /\ (Ended(c.deferred + Cardinality(c.todo)) \/ Failed)
    /\ UNCHANGED <<below, archives, late>>

\* A restart in the middle of a cycle, or between two.
Crash ==
    /\ crashes < MaxCrashes
    /\ crashes' = crashes + 1 /\ c' = Idle("none")
    /\ file' \in {file} \cup (IF StagingLost THEN {<< >>} ELSE {})
    /\ UNCHANGED <<index, capture, s3, state, late>>
-----------------------------------------------------------------------------
Init ==
    /\ live = [q \in 1 .. Expired + 1 |-> {}]
    /\ open = {} /\ next = 1 /\ claimed = 1 /\ cleanups = 0
    /\ file = << >> /\ s3 = << >> /\ state = << >> /\ below = 0
    /\ c = Idle("none") /\ crashes = 0 /\ late = {}

Step ==
    \/ StartCycle \/ ArchivePartition \/ RecordArchive \/ Upload \/ MarkUploaded
    \/ CheckBeforeDrop \/ Recount \/ DiscardStaleArchive \/ DropPartition
    \/ PruneLocal \/ FilterToDrop \/ DropAll

Next == Insert \/ Commit \/ Cleanup \/ Step \/ Crash

Spec == Init /\ [][Next]_vars

(***************************************************************************)
(* The loop starts a cycle every interval, a cycle runs on, and capture    *)
(* ends its index transactions (the time cap).  Of the outside it is       *)
(* assumed that no kind of write, upload or wait for the table fails       *)
(* forever.                                                                *)
(***************************************************************************)
Fairness ==
    /\ WF_vars(Step) /\ WF_vars(Commit)
    /\ SF_vars(ArchivePartition /\ c'.pc # "idle")
    /\ SF_vars(RecordArchive /\ c'.pc # "idle")
    /\ SF_vars(Upload /\ c'.pc \in {"mark", "check"})
    /\ SF_vars(MarkUploaded /\ c'.pc # "idle")
    /\ SF_vars(CheckBeforeDrop /\ c'.pc # "idle")
    /\ SF_vars(DiscardStaleArchive /\ name \notin DOMAIN state')
    /\ SF_vars(DropPartition /\ c'.pc = "prune")

FairSpec == Spec /\ Fairness
-----------------------------------------------------------------------------
(***************************************************************************)
(* Properties.                                                             *)
(***************************************************************************)
PCs == {"idle", "file", "record", "upload", "mark", "check", "drop", "recount",
        "discard", "prune", "filter", "dropall"}

\* The variables have their types; no partition that has not expired is
\* dropped or about to be (the cutoff in Perform).
TypeOK ==
    /\ DOMAIN live \subseteq 1 .. Expired + 1 /\ Expired + 1 \in DOMAIN live
    /\ live \in [DOMAIN live -> SUBSET Rows]
    /\ below \in 0 .. Expired /\ open \subseteq Rows
    /\ next \in 1 .. Len(HourOf) + 1 /\ claimed \in 1 .. next
    /\ DOMAIN file \subseteq Parts /\ file \in [DOMAIN file -> SUBSET Rows]
    /\ DOMAIN s3 \subseteq Parts /\ s3 \in [DOMAIN s3 -> SUBSET Rows]
    /\ DOMAIN state \subseteq Parts
    /\ state \in [DOMAIN state -> [count : Nat, key : BOOLEAN, uploaded : BOOLEAN]]
    /\ c \in [pc : PCs, o : OptionSets \cup {NoOptions}, todo : SUBSET Parts, deferred : Nat,
               attempt : 0 .. Attempts, counted : SUBSET Rows, result : {"none", "healthy", "unhealthy"}]
    /\ late \subseteq Rows /\ crashes \in Nat /\ cleanups \in Nat

Committed == (1 .. next - 1) \ open

Findable(r) ==
    \/ \E q \in DOMAIN live : r \in live[q]
    \/ \E q \in DOMAIN file : r \in file[q]
    \/ \E q \in DOMAIN s3 : r \in s3[q]

\* Rotation loses no row: one that is no longer in the table is in an archive
\* (the count before the drop, and the pending-upload check before the staged
\* file is pruned), unless it was committed after the last count and before
\* the ALTER got the table.
NoRowLostUnlessLate == \A r \in Committed : Findable(r) \/ r \in late

\* A cycle the loop takes for healthy left no expired partition behind, so a
\* partition that stays is always on its way to the escalation
\* (Result.Deferred, unhealthyStreak).
HealthyMeansDropped == c.result = "healthy" => DOMAIN live \cap Parts = {}

\* A partition that is gone is below the mark readers go by, whatever the
\* order of the drops (MarkPartitionsDropped, LossBound).
DropsAreRecorded == Parts \ DOMAIN live \subseteq 1 .. below

Dropped == DOMAIN live \ DOMAIN live'

\* No partition is dropped while an upload of its archive is due, whatever
\* options the cycle that drops it runs with (pendingS3Uploads).
PendingUploadHolds == [][\A q \in Dropped : ~pendingS3Upload(q)]_vars

\* Every expired partition is dropped in the end.
EventuallyDropped == <>[](DOMAIN live \cap Parts = {})
=============================================================================
