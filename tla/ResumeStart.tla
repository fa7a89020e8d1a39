---------------------------- MODULE ResumeStart ----------------------------
(***************************************************************************)
(* How a MySQL capture starts (oneRun in internal/streamrun/streamrun.go): *)
(* where it resumes, whether the source still has what it needs, what it   *)
(* records when it does not, and which indexed rows it deletes first,      *)
(* while the source goes on writing, rotating and purging its binary log,  *)
(* and may be reset, renamed, cut short or replaced between two runs.      *)
(*                                                                         *)
(* A change is a whole transaction and has the next number.  A binary log  *)
(* file has a name, an identity and its changes; a position in it counts   *)
(* changes (0 is offset 4, the start of a file).  Module Capture follows a *)
(* running capture event by event; here it reads one change at a time, and *)
(* the steps of a start are what is followed.                              *)
(***************************************************************************)
EXTENDS Integers, Sequences, FiniteSets, FiniteSetsExt, SequencesExt

CONSTANTS
    GtidModes,   \* the values of gtid_mode = ON sources may have
    FirstNum,    \* number of the source's first file
    FirstChanges,\* number of changes the source may have made before capture starts
    Radix, Width,\* file numbers are written with Width digits or more
    MaxChanges,  \* bound: changes the source makes
    MaxFiles,    \* bound: binary log files the source creates
    MaxBreaks,   \* bound: breaks of the source's history
    MaxCrashes,  \* bound: runs that end before or while they stream
    MaxDiscards  \* bound: starts with --reset

ASSUME ResumeStartAssumption ==
    /\ GtidModes \subseteq BOOLEAN
    /\ Radix \in Nat \ {0, 1} /\ {FirstNum, Width, MaxFiles} \subseteq Nat \ {0}
    /\ FirstChanges \subseteq 0 .. MaxChanges
    /\ {MaxChanges, MaxBreaks, MaxCrashes, MaxDiscards} \subseteq Nat

VARIABLES
    gtidOn,    \* the source's gtid_mode is ON
    files,     \* SHOW BINARY LOGS: name, identity and changes of each file
    executed,  \* gtid_executed
    purged,    \* gtid_purged
    srv,       \* server_uuid
    hist,      \* every change in the source's data, with its GTID
    made,      \* number of changes made so far
    idents,    \* number of files created so far
    rows,      \* binlog_events
    nextEid,   \* the next event_id
    ckpt,      \* stream_state
    lost,      \* gap_lost_*: changes up to this number may be missing
    run,       \* the run of oneRun
    orphan,    \* a cleanup DELETE whose client is gone, still executing
    breaks, crashes, discards,
    since,     \* changes after this number are to be captured (history)
    ep,        \* the numbering the source is in (history)
    moved,     \* files were purged since the run looked (history)
    excused    \* a limit the code names was met (history)

source == <<gtidOn, files, executed, purged, srv, hist, made, idents, ep, breaks>>
index  == <<rows, nextEid>>
vars == <<source, index, ckpt, lost, run, orphan, crashes, discards, since, moved, excused>>

NoFile == [base |-> 0, num |-> 0]
NoCheckpoint == [mode |-> "none"]
NoOrphan == [floor |-> 0]
Down == [phase |-> "down"]

----------------------------------------------------------------------------
(* File names and positions *)

\* The digits of a file number, zero-padded to Width.
Suffix(n) ==
    LET len == CHOOSE k \in Width .. Width + n :
                  /\ n < Radix ^ k
                  /\ k = Width \/ n >= Radix ^ (k - 1)
    IN  [i \in 1 .. len |-> (n \div Radix ^ (len - i)) % Radix]

\* Text order of two texts, the shorter one first among a prefix and its extension.
TextAfter(s, t) ==
    \/ \E i \in DOMAIN s \cap DOMAIN t :
          s[i] > t[i] /\ \A j \in 1 .. i - 1 : s[j] = t[j]
    \/ Len(s) > Len(t) /\ IsPrefix(t, s)

\* Mutant: names in plain text order.
NameAfter_Text(s, t) == TextAfter(s, t)

\* Length first, then text: binlog.1000000 comes after binlog.999999.
NameAfter(s, t) ==
    \/ Len(s) > Len(t)
    \/ Len(s) = Len(t) /\ TextAfter(s, t)

\* The whole name as SQL compares it.
Name(f) == <<f.base>> \o Suffix(f.num)

\* Does g:q sit at or after f:p in the same numbering?
continuesNumbering(f, p, g, q) ==
    /\ f.base = g.base
    /\ \/ NameAfter(Suffix(g.num), Suffix(f.num))
       \/ g.num = f.num /\ q >= p

----------------------------------------------------------------------------
(* The source *)

Ids(s) == {t.id : t \in s}
Gtids(s) == {t.gtid : t \in s}
Uuids(set) == {g[1] : g \in set}
Logged == UNION {Range(files[i].txns) : i \in DOMAIN files}

Oldest == Head(files)
Newest == files[Len(files)]
Listed(f) == \E i \in DOMAIN files : files[i].name = f
IndexOf(f) == CHOOSE i \in DOMAIN files : files[i].name = f
FileOf(f) == files[IndexOf(f)]

\* The changes the source sends to a replica that starts there.
Sends(mode, f, p, set) ==
    IF mode = "gtid" THEN {t \in Logged : t.gtid \notin set}
    ELSE IF ~Listed(f) THEN {}
    ELSE UNION {Range(files[i].txns) : i \in IndexOf(f) + 1 .. Len(files)}
            \cup {FileOf(f).txns[i] : i \in p + 1 .. Len(FileOf(f).txns)}

NewFile(base, num, txns) == [name |-> [base |-> base, num |-> num], ident |-> idents + 1, txns |-> txns]

\* The source acts where the run's next step depends on it; with the other
\* steps, which read and write the index only, its own commute.
SourceActs == run.phase \notin {"stamp", "advance", "await", "cleanup", "first"}

Commit ==
    LET own == {g[2] : g \in {e \in executed : e[1] = srv}}
        t == [id |-> made + 1, gtid |-> <<srv, 1 + Max(own \cup {0})>>]
    IN  /\ SourceActs
        /\ made < MaxChanges
        /\ made' = made + 1
        /\ files' = [files EXCEPT ![Len(files)].txns = Append(@, t)]
        /\ executed' = executed \cup {t.gtid}
        /\ hist' = hist \cup {t}
        /\ UNCHANGED <<gtidOn, purged, srv, idents, ep, breaks, index, ckpt, lost, run, orphan,
                       crashes, discards, since, moved, excused>>

Rotate ==
    /\ SourceActs
    /\ idents < MaxFiles
    /\ files' = Append(files, NewFile(Newest.name.base, Newest.name.num + 1, <<>>))
    /\ idents' = idents + 1
    /\ UNCHANGED <<gtidOn, executed, purged, srv, hist, made, ep, breaks, index, ckpt, lost, run, orphan,
                   crashes, discards, since, moved, excused>>

\* The oldest file goes, unless a replica still reads it.
Purge ==
    /\ SourceActs
    /\ Len(files) > 1
    /\ run.phase = "stream" =>
          /\ run.file # Oldest.name
          /\ Range(Oldest.txns) \cap Sends(run.mode, run.file, run.pos, run.set) = {}
    /\ files' = Tail(files)
    /\ purged' = purged \cup Gtids(Range(Oldest.txns))
    /\ moved' = (moved \/ run.phase \notin {"down", "stream"})
    /\ UNCHANGED <<gtidOn, executed, srv, hist, made, idents, ep, breaks, index, ckpt, lost, run, orphan,
                   crashes, discards, since, excused>>

\* The source's history breaks while no run looks at it.
Breaks ==
    /\ run.phase = "down" /\ ckpt # NoCheckpoint
    /\ breaks < MaxBreaks
    /\ breaks' = breaks + 1
    /\ UNCHANGED <<gtidOn, made, index, ckpt, lost, run, orphan, crashes, discards, since, moved, excused>>

\* RESET BINARY LOGS AND GTIDS: both numberings start over.
ResetMaster ==
    /\ Breaks
    /\ files' = <<NewFile(Oldest.name.base, 1, <<>>)>>
    /\ idents' = idents + 1
    /\ executed' = {} /\ purged' = {}
    /\ ep' = ep + 1
    /\ UNCHANGED <<srv, hist>>

\* log_bin gets another base name: a new list of files.
RenameLog ==
    /\ Breaks
    /\ files' = <<NewFile(Oldest.name.base + 1, 1, <<>>)>>
    /\ idents' = idents + 1
    /\ purged' = executed
    /\ ep' = ep + 1
    /\ UNCHANGED <<executed, srv, hist>>

\* A crash of the source loses its last change; it comes back with a new file.
LoseTail ==
    /\ Breaks
    /\ Newest.txns # <<>> /\ idents < MaxFiles
    /\ LET t == Last(Newest.txns)
       IN  /\ files' = Append([files EXCEPT ![Len(files)].txns = Front(@)],
                              NewFile(Newest.name.base, Newest.name.num + 1, <<>>))
           /\ executed' = executed \ {t.gtid}
           /\ hist' = hist \ {t}
    /\ idents' = idents + 1
    /\ UNCHANGED <<purged, srv, ep>>

\* A replica takes over, perhaps without the last change.  Its binary log holds
\* the whole history, in one file that has the first file's name.
Failover ==
    /\ Breaks
    /\ Cardinality(Gtids(hist)) = Cardinality(hist)
    /\ hist' \in {hist} \cup {{t \in hist : t.id # Max(Ids(hist))} : h \in hist}
    /\ files' = <<NewFile(1, FirstNum, SetToSortSeq(hist', LAMBDA t, u : t.id < u.id))>>
    /\ idents' = idents + 1
    /\ executed' = Gtids(hist') /\ purged' = {}
    /\ srv' = srv + 1
    /\ ep' = ep + 1

----------------------------------------------------------------------------
(* Starting *)

\* freshDedupFloor: above every row in the index.
FreshFloor == 1 + Max({r.eid : r \in rows} \cup {0})

\* The largest number of a change the source has and a start there would not send.
Unsent(mode, f, p, set) == Max(Ids(hist \ Sends(mode, f, p, set)) \cup {0})

NewRun == [phase |-> "discover", mode |-> "position", file |-> NoFile, pos |-> 0, set |-> {}, floor |-> 0,
           ident |-> 0, clean |-> "none", upTo |-> 0, oldest |-> NoFile, fresh |-> TRUE, looked |-> TRUE,
           first |-> 0]

\* A step of the run that leaves the source, the index and stream_state alone.
Step(from) ==
    /\ run.phase = from
    /\ UNCHANGED <<source, index, ckpt, lost, orphan, crashes, discards, since>>

\* Capture starts with no checkpoint, or --reset sets the saved one aside.  The
\* position is read before the GTID set (gtidStartAnchor.wrap).
StartFresh ==
    /\ run.phase = "down"
    /\ \/ ckpt = NoCheckpoint /\ UNCHANGED discards
       \/ ckpt # NoCheckpoint /\ discards < MaxDiscards /\ discards' = discards + 1
    /\ run' = [NewRun EXCEPT !.file = Newest.name, !.pos = Len(Newest.txns)]
    /\ UNCHANGED <<source, index, ckpt, lost, orphan, crashes, since, moved, excused>>

\* The saved checkpoint wins; a GTID checkpoint resumes with no coordinates.
StartResume ==
    /\ Step("down")
    /\ ckpt # NoCheckpoint
    /\ run' = [NewRun EXCEPT !.phase = IF ckpt.mode = "gtid" THEN "renumber" ELSE "gap",
                             !.mode = ckpt.mode, !.set = ckpt.set, !.floor = ckpt.floor, !.fresh = FALSE,
                             !.file = IF ckpt.mode = "gtid" THEN NoFile ELSE ckpt.file,
                             !.pos = IF ckpt.mode = "gtid" THEN 0 ELSE ckpt.pos]
    /\ UNCHANGED <<moved, excused>>

\* gtid_executed, or the current position when it is empty or gtid_mode is off.
Discover ==
    /\ Step("discover")
    /\ LET gtid == gtidOn /\ executed # {}
           f == IF gtid THEN run.file ELSE Newest.name
           p == IF gtid THEN run.pos ELSE Len(Newest.txns)
           set == IF gtid THEN executed ELSE {}
           mode == IF gtid THEN "gtid" ELSE "position"
       IN  run' = [run EXCEPT !.phase = IF ckpt = NoCheckpoint THEN "sync" ELSE "classify",
                              !.mode = mode, !.file = f, !.pos = p, !.set = set,
                              !.floor = FreshFloor, !.upTo = Unsent(mode, f, p, set)]
    /\ moved' = FALSE
    /\ UNCHANGED excused

\* A change made after the checkpoint has a GTID the checkpoint claims.
Reused == \E t \in hist : t.id > ckpt.made /\ t.gtid \in ckpt.set

\* Does --reset skip anything?  Only coordinates are compared.
classifyResetDiscard ==
    /\ Step("classify")
    /\ LET noop == \/ /\ ckpt.mode = "gtid" /\ run.mode = "gtid"
                      /\ ckpt.set = run.set
                   \/ /\ ckpt.mode = "position" /\ run.mode = "position"
                      /\ ckpt.file = run.file /\ ckpt.pos = run.pos
                   \/ /\ ckpt.mode = "position" /\ run.mode = "gtid"
                      /\ ckpt.file = Newest.name /\ ckpt.pos = Len(Newest.txns)
       IN  /\ run' = [run EXCEPT !.phase = IF noop THEN "advance" ELSE "stamp"]
           /\ excused' = (excused \/ (noop /\ (Reused \/ (ckpt.mode = "position" /\ ckpt.ep # ep))))
    /\ UNCHANGED moved

----------------------------------------------------------------------------
(* Has the source what the checkpoint needs? *)

\* The checkpoint's coordinates lie past the end of the newest file.
checkpointPastBinlogEnd ==
    /\ ckpt.file # NoFile
    /\ ckpt.file.base = Newest.name.base
    /\ ~continuesNumbering(ckpt.file, ckpt.pos, Newest.name, Len(Newest.txns))

OwnPart == {g \in ckpt.set : g[1] = srv}

\* Mutant: only a shorter GTID history is taken for a renumbering.
Renumbered_NoPastEnd ==
    LET shared == Uuids(ckpt.set) \cap Uuids(executed)
    IN  /\ ckpt.set # {}
        /\ ~(OwnPart \subseteq executed) \/ shared = {}

\* classifyMySQLRenumbering: the saved set does not continue the source's history.
Renumbered ==
    LET shared == Uuids(ckpt.set) \cap Uuids(executed)
    IN  /\ ckpt.set # {}
        /\ \/ ~(OwnPart \subseteq executed)
           \/ shared = {}
           \/ /\ ckpt.sident = srv /\ ckpt.file # NoFile
              /\ OwnPart # {} /\ shared \subseteq {srv}
              /\ checkpointPastBinlogEnd

\* What the restart may still claim: other servers the source knows, and what it purged.
ResumeSet == {g \in ckpt.set : g[1] # srv /\ g[1] \in Uuids(executed)} \cup purged

\* A numbering that grew back over all that can be compared: the saved set, and
\* the checkpoint's file and position where they are of this server's log.
Regrown ==
    /\ Reused /\ OwnPart \subseteq executed
    /\ ckpt.sident # srv \/ ~checkpointPastBinlogEnd

detectGTIDRenumbering ==
    /\ Step("renumber")
    /\ IF Renumbered
       THEN run' = [run EXCEPT !.phase = "stamp", !.set = ResumeSet, !.file = Oldest.name, !.pos = 0,
                               !.floor = FreshFloor, !.clean = "skip",
                               !.upTo = Unsent("gtid", NoFile, 0, ResumeSet)]
       ELSE run' = [run EXCEPT !.phase = "gap"]
    /\ moved' = FALSE
    /\ excused' = (excused \/ (~Renumbered /\ Regrown))

\* Mutant: a start that needs purged GTIDs is refused, with no way on.
detectGTIDGap_Refuse ==
    /\ Step("gap") /\ run.mode = "gtid"
    /\ run' = IF purged \subseteq run.set THEN [run EXCEPT !.phase = "await", !.clean = "delete"] ELSE Down
    /\ moved' = FALSE
    /\ UNCHANGED excused

\* The checkpoint needs GTIDs the source purged: their loss is recorded and only
\* the purged set is claimed.  An empty checkpoint cannot be compared.
detectGTIDGap ==
    /\ Step("gap") /\ run.mode = "gtid"
    /\ run' = IF purged # {} /\ run.set = {} THEN Down
              ELSE IF purged \subseteq run.set THEN [run EXCEPT !.phase = "await", !.clean = "delete"]
              ELSE [run EXCEPT !.phase = "stamp", !.set = purged, !.upTo = Unsent("gtid", NoFile, 0, purged)]
    /\ moved' = FALSE
    /\ UNCHANGED excused

\* Mutant: an advance keeps the floor and the cleanup whatever it advances to.
Advance_SameNumbering(other, f) ==
    [run EXCEPT !.phase = "stamp", !.file = f, !.pos = 0, !.upTo = Unsent("position", f, 0, {}), !.clean = "delete"]

\* The run restarts at the start of file f.  When that leaves the checkpoint's
\* numbering no indexed row is deleted, and the floor starts over.
Advance(other, f) ==
    LET renumbered == other \/ ~continuesNumbering(ckpt.file, ckpt.pos, f, 0)
    IN  [run EXCEPT !.phase = "stamp", !.file = f, !.pos = 0, !.upTo = Unsent("position", f, 0, {}),
                    !.floor = IF renumbered THEN FreshFloor ELSE ckpt.floor,
                    !.clean = IF renumbered THEN "skip" ELSE "delete"]

\* detectPositionGap, and the part of checkPositionCheckpointFile that needs no
\* probe: the file is gone or too short, or it carries no identity to compare.
detectPositionGap ==
    LET here == Listed(ckpt.file) /\ ckpt.pos <= Len(FileOf(ckpt.file).txns)
        other == ckpt.sident # srv
        unverified == here /\ ckpt.ident = 0 /\ ~other
        samePurge == ~here /\ ~other /\ continuesNumbering(ckpt.file, ckpt.pos, Oldest.name, 0)
    IN  /\ Step("gap") /\ run.mode = "position"
        /\ run' = IF here /\ ckpt.ident # 0 THEN [run EXCEPT !.phase = "probe", !.oldest = Oldest.name]
                  ELSE IF unverified THEN [run EXCEPT !.phase = "await", !.clean = "delete"]
                  ELSE Advance(other, Oldest.name)
        /\ moved' = FALSE
        /\ excused' = (excused \/ ((unverified \/ samePurge) /\ ckpt.ep # ep))

\* Mutant: any file of that name is taken for the checkpoint's.
SameFile_ByName == TRUE

\* The source serves the file the checkpoint was read from.
SameFile == FileOf(ckpt.file).ident = ckpt.ident

\* The probe opens the file; a probe that fails ends the start.
probeBinlogFileIdentity ==
    /\ Step("probe")
    /\ run' = IF ~Listed(ckpt.file) THEN Down
              ELSE IF SameFile THEN [run EXCEPT !.phase = "await", !.clean = "delete", !.ident = ckpt.ident]
              ELSE Advance(TRUE, run.oldest)
    /\ UNCHANGED <<moved, excused>>

----------------------------------------------------------------------------
(* Recording a loss, and the cleanup *)

CheckpointAt(ident) ==
    [mode |-> run.mode, file |-> run.file, pos |-> run.pos, set |-> run.set, floor |-> run.floor,
     ident |-> ident, sident |-> srv, ep |-> ep, made |-> IF run.mode = "gtid" THEN made ELSE 0]

\* Mutant: the loss is not stamped.
StampLoss_None == UNCHANGED lost

StampLoss == lost' = Max({lost, run.upTo})

\* persistGapAutoAdvance: the stamp, and then the checkpoint.
Stamp ==
    /\ run.phase = "stamp"
    /\ StampLoss
    /\ run' = [run EXCEPT !.phase = "advance"]
    /\ UNCHANGED <<source, index, ckpt, orphan, crashes, discards, since, moved, excused>>

\* The checkpoint moves to the new start; no run has read its file yet.
SaveAdvance ==
    /\ run.phase = "advance"
    /\ ckpt' = CheckpointAt(0)
    /\ run' = [run EXCEPT !.phase = IF run.clean = "none" THEN "sync" ELSE "await"]
    /\ UNCHANGED <<source, index, lost, orphan, crashes, discards, since, moved, excused>>

\* Mutant: no look at the index server's process list.
NoEarlierCleanup_Blind == TRUE

NoEarlierCleanup == orphan = NoOrphan

\* awaitEarlierCleanup: nothing runs, or the look fails and the start goes on.
\* A start that gives up is a Crash.
awaitEarlierCleanup ==
    /\ Step("await")
    /\ LET go(looked) == run' = [run EXCEPT !.phase = IF run.clean = "skip" THEN "sync" ELSE "cleanup",
                                            !.looked = looked]
       IN  \/ NoEarlierCleanup /\ go(TRUE)
           \/ orphan # NoOrphan /\ go(FALSE)
    /\ UNCHANGED <<moved, excused>>

\* At or after f:p by file name, start position and floor.
AtOrAfter(f, p, floor) ==
    {r \in rows : /\ r.eid >= floor
                  /\ NameAfter(Name(r.file), Name(f)) \/ (r.file = f /\ r.pos >= p)}

\* deleteEventsSinceCheckpoint, and for a GTID checkpoint the rows before it in
\* its file whose GTID it does not claim.
Deleted ==
    IF run.mode = "position" THEN AtOrAfter(run.file, run.pos, ckpt.floor)
    ELSE IF ckpt.file = NoFile THEN {}
    ELSE AtOrAfter(ckpt.file, ckpt.pos, ckpt.floor)
            \cup {r \in rows : r.eid >= ckpt.floor /\ r.file = ckpt.file /\ r.gtid \notin run.set}

\* A row of a numbering the source was in before the GTID checkpoint's: the
\* floor, only a lower bound and carried across restarts, may lie below it.
OldNumbering(r) == run.mode = "gtid" /\ r.ep # ckpt.ep

\* The row locks of an earlier cleanup hold this one up.
Cleanup ==
    /\ run.phase = "cleanup"
    /\ orphan = NoOrphan
    /\ rows' = rows \ Deleted
    /\ run' = [run EXCEPT !.phase = "sync"]
    /\ excused' = (excused \/ \E r \in Deleted : OldNumbering(r))
    /\ UNCHANGED <<source, nextEid, ckpt, lost, orphan, crashes, discards, since, moved>>

\* The process ends during the cleanup; the server goes on with the DELETE.
CrashInCleanup ==
    /\ run.phase = "cleanup"
    /\ orphan = NoOrphan
    /\ run.mode = "position" \/ ckpt.file # NoFile
    /\ crashes < MaxCrashes
    /\ crashes' = crashes + 1
    /\ orphan' = [floor |-> ckpt.floor, next |-> nextEid,
                  file |-> IF run.mode = "position" THEN run.file ELSE ckpt.file,
                  pos |-> IF run.mode = "position" THEN run.pos ELSE ckpt.pos]
    /\ run' = Down
    /\ moved' = FALSE
    /\ excused' = (excused \/ \E r \in Deleted : OldNumbering(r))
    /\ UNCHANGED <<source, index, ckpt, lost, discards, since>>

\* It ends: every row it selects, written meanwhile or not, is gone.
OrphanEnds ==
    /\ orphan # NoOrphan
    /\ rows' = rows \ AtOrAfter(orphan.file, orphan.pos, orphan.floor)
    /\ orphan' = NoOrphan
    /\ excused' = (excused \/ \E r \in rows \ rows' : r.eid >= orphan.next)
    /\ UNCHANGED <<source, nextEid, ckpt, lost, run, crashes, discards, since, moved>>

----------------------------------------------------------------------------
(* Streaming *)

\* The source accepts the start or ends the run.
StartSync ==
    /\ Step("sync")
    /\ LET accepted == IF run.mode = "position"
                       THEN Listed(run.file) /\ run.pos <= Len(FileOf(run.file).txns)
                       ELSE {g \in run.set : g[1] = srv} \subseteq executed /\ purged \subseteq run.set
       IN  run' = IF ~accepted THEN Down
                  ELSE [run EXCEPT !.phase = IF run.fresh THEN "first" ELSE "stream", !.oldest = NoFile,
                                     !.first = nextEid, !.upTo = IF run.fresh THEN @ ELSE 0]
    /\ UNCHANGED <<moved, excused>>

\* A run without a checkpoint writes its start before it reads an event.
SaveStart ==
    /\ run.phase = "first"
    /\ ckpt' = CheckpointAt(0)
    /\ since' = IF ckpt = NoCheckpoint THEN run.upTo ELSE since
    /\ run' = [run EXCEPT !.phase = "stream", !.fresh = FALSE, !.upTo = 0]
    /\ UNCHANGED <<source, index, lost, orphan, crashes, discards, moved, excused>>

\* The next change the source sends: its file and its place in it.
NextChange ==
    LET unsent == {at \in (1 .. Len(files)) \X (1 .. MaxChanges) :
                      /\ at[2] <= Len(files[at[1]].txns)
                      /\ files[at[1]].txns[at[2]] \in Sends(run.mode, run.file, run.pos, run.set)}
    IN  {at \in unsent : \A b \in unsent : at[1] < b[1] \/ (at[1] = b[1] /\ at[2] <= b[2])}

\* noteDedupFloor(FirstIDOfLastBatch()): the floor is the one carried into the
\* run until a batch is written, then the first id of the last batch.
Floors == {run.floor} \cup {e \in run.first .. nextEid : e > run.floor}

\* One change is read and its row committed, in a batch with those before it
\* or alone.
Read ==
    /\ run.phase = "stream"
    /\ \E at \in NextChange, floor \in Floors :
          LET t == files[at[1]].txns[at[2]]
          IN  /\ rows' = rows \cup {[eid |-> nextEid, id |-> t.id, file |-> files[at[1]].name,
                                     pos |-> at[2] - 1, gtid |-> t.gtid, ep |-> ep]}
              /\ run' = [run EXCEPT !.file = files[at[1]].name, !.pos = at[2],
                                    !.ident = files[at[1]].ident, !.floor = floor,
                                    !.set = IF run.mode = "gtid" THEN @ \cup {t.gtid} ELSE @]
    /\ nextEid' = nextEid + 1
    /\ UNCHANGED <<source, ckpt, lost, orphan, crashes, discards, since, moved, excused>>

\* The file the run is in is announced, or the next one after its end.
OpenFile ==
    /\ Step("stream") /\ run.mode = "position" /\ Listed(run.file)
    /\ \/ run' = [run EXCEPT !.ident = FileOf(run.file).ident]
       \/ /\ run.pos = Len(FileOf(run.file).txns) /\ IndexOf(run.file) < Len(files)
          /\ LET f == files[IndexOf(run.file) + 1]
             IN  run' = [run EXCEPT !.file = f.name, !.pos = 0, !.ident = f.ident]
    /\ UNCHANGED <<moved, excused>>

\* The ticker saves a checkpoint, with or without events since the last.
Tick ==
    /\ run.phase = "stream"
    /\ ckpt' = CheckpointAt(run.ident)
    /\ UNCHANGED <<source, index, lost, run, orphan, crashes, discards, since, moved, excused>>

\* The run ends: a crash, a stop, a refusal of --no-gap-fill, a wait given up.
Crash ==
    /\ run.phase # "down"
    /\ crashes < MaxCrashes
    /\ crashes' = crashes + 1
    /\ run' = Down
    /\ moved' = FALSE
    /\ UNCHANGED <<source, index, ckpt, lost, orphan, discards, since, excused>>

----------------------------------------------------------------------------

Init ==
    /\ gtidOn \in GtidModes
    /\ made \in FirstChanges
    /\ files = <<[name |-> [base |-> 1, num |-> FirstNum], ident |-> 1,
                  txns |-> [i \in 1 .. made |-> [id |-> i, gtid |-> <<1, i>>]]]>>
    /\ hist = Logged /\ executed = Gtids(Logged) /\ purged = {}
    /\ srv = 1 /\ idents = 1 /\ ep = 1
    /\ rows = {} /\ nextEid = 1
    /\ ckpt = NoCheckpoint /\ lost = 0
    /\ run = Down /\ orphan = NoOrphan
    /\ breaks = 0 /\ crashes = 0 /\ discards = 0
    /\ since = 0 /\ moved = FALSE /\ excused = FALSE

SourceStep == Commit \/ Rotate \/ Purge \/ ResetMaster \/ RenameLog \/ LoseTail \/ Failover

RunStep ==
    \/ Discover \/ classifyResetDiscard \/ detectGTIDRenumbering \/ detectGTIDGap \/ detectPositionGap
    \/ probeBinlogFileIdentity \/ Stamp \/ SaveAdvance \/ awaitEarlierCleanup \/ Cleanup \/ StartSync \/ SaveStart

Next ==
    \/ SourceStep \/ RunStep
    \/ StartFresh \/ StartResume \/ Read \/ OpenFile \/ Tick
    \/ Crash \/ CrashInCleanup \/ OrphanEnds

Spec == Init /\ [][Next]_vars

\* The supervisor starts capture again, a start goes on to its next step, a
\* stream is read, and a statement on the index server ends.
FairSpec ==
    /\ Spec
    /\ WF_vars(StartResume) /\ WF_vars(RunStep) /\ WF_vars(Read) /\ WF_vars(OrphanEnds)
    /\ WF_vars(ckpt = NoCheckpoint /\ StartFresh)
    /\ WF_vars(OpenFile /\ run'.file # run.file)

----------------------------------------------------------------------------
(* Properties *)

Indexed == Ids(rows)

\* A run that streams, from a source that kept what the run saw when it looked,
\* misses nothing silently: each change the source's data holds is indexed, is
\* still to be sent, or lies within the loss that gap_lost_* records.
LossOnRecord ==
    run.phase = "stream" /\ ~moved /\ ~excused =>
        \A t \in hist : \/ t.id <= since \/ t.id <= lost
                        \/ t.id \in Indexed
                        \/ t \in Sends(run.mode, run.file, run.pos, run.set)

\* What a cleanup deletes the source sends again, or no longer has.
Returns(r) == \/ r.id \notin Ids(hist)
              \/ r.id \in Ids(Sends(run.mode, run.file, run.pos, run.set))

Cleans == run.phase = "cleanup" /\ run'.phase = "sync" /\ ~moved /\ ~excused

\* The cleanup of a resume loses nothing silently: a row it deletes "will be
\* re-received and re-inserted cleanly" unless the source no longer has the
\* change, or its loss is on record (the dedup-on-resume comment of oneRun).
CleanupLosesNothing == [][ Cleans => \A r \in rows \ rows' : Returns(r) \/ r.id <= lost ]_vars

\* Of the numbering the checkpoint is in, and in position mode of any, the
\* cleanup of a resume deletes only rows the source sends again, or no longer
\* has (deleteEventsSinceCheckpoint, deleteEventsSinceCheckpointGTID).
CleanupReturns == [][ Cleans => \A r \in rows \ rows' : OldNumbering(r) \/ Returns(r) ]_vars

\* A cleanup that outlives its run deletes no row a later run wrote: the later
\* start waits for it.
OrphanSparesNewRows ==
    run.phase = "stream" /\ run.looked /\ orphan # NoOrphan =>
        \A r \in AtOrAfter(orphan.file, orphan.pos, orphan.floor) : r.eid < orphan.next

\* The same, for the starts that look: not --reset, not an advance past purged GTIDs.
OrphanSparesResumed == run.phase = "stream" /\ run.clean # "none" => OrphanSparesNewRows

\* A checkpoint that claims no GTID cannot be compared with what the source
\* purged: the start is refused until --reset.
Refused == ckpt.mode = "gtid" /\ ckpt.set = {} /\ purged # {}

\* However runs end and the source changes, every change capture has promised is
\* in the end indexed for good, or within the recorded loss.
EventuallySettled ==
    <>[](\/ excused \/ Refused
         \/ \A t \in hist : t.id <= since \/ t.id <= lost \/ t.id \in Indexed)
=============================================================================
