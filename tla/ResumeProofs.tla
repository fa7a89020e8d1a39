---------------------------- MODULE ResumeProofs ----------------------------
(***************************************************************************)
(* A start that looked for an earlier cleanup runs beside none, for every  *)
(* source, every number of crashes, breaks and resets.                     *)
(***************************************************************************)
EXTENDS ResumeStart, TLAPS

\* A run that reached its cleanup, or is past it, after it looked.
Looked == run.phase \in {"cleanup", "sync", "first", "stream"} /\ run.clean # "none" /\ run.looked

\* The run is down or has the fields of NewRun; the start is fresh until it is
\* classified; and a run that looked has no earlier cleanup beside it.
OrphanInv ==
    /\ run = Down \/ {"phase", "clean", "looked"} \subseteq DOMAIN run
    /\ run.phase = "discover" => run.clean = "none"
    /\ Looked => orphan = NoOrphan

LEMMA OrphanInit == Init => OrphanInv
BY DEF Init, OrphanInv, Down, Looked

\* Steps of the source, of the index server, and of a run that streams.
LEMMA OrphanSource ==
    ASSUME OrphanInv, SourceStep \/ OrphanEnds \/ Tick \/ UNCHANGED vars
    PROVE  OrphanInv'
<1>1. run' = run /\ orphan' \in {orphan, NoOrphan}
    BY DEF SourceStep, Commit, Rotate, Purge, Breaks, ResetMaster, RenameLog, LoseTail, Failover, OrphanEnds, Tick, vars
<1>. QED
    BY <1>1 DEF OrphanInv, Looked

\* Runs that start and end.
LEMMA OrphanRuns ==
    ASSUME OrphanInv, StartFresh \/ StartResume \/ Crash \/ CrashInCleanup
    PROVE  OrphanInv'
<1>1. CASE run' = Down
    BY <1>1 DEF OrphanInv, Down, Looked
<1>2. CASE StartFresh
    <2>1. run'.phase = "discover" /\ run'.clean = "none" /\ {"phase", "clean", "looked"} \subseteq DOMAIN run'
        BY <1>2 DEF StartFresh, NewRun
    <2>. QED
        BY <2>1 DEF OrphanInv, Looked
<1>3. CASE StartResume
    <2>1. run'.phase \in {"renumber", "gap"} /\ {"phase", "clean", "looked"} \subseteq DOMAIN run'
        BY <1>3 DEF StartResume, NewRun
    <2>. QED
        BY <2>1 DEF OrphanInv, Looked
<1>. QED
    BY <1>1, <1>2, <1>3 DEF Crash, CrashInCleanup

\* A step from a phase before the cleanup, to another such phase.
Early == {"classify", "stamp", "advance", "renumber", "gap", "probe", "await"}

LEMMA OrphanEarly ==
    ASSUME {"phase", "clean", "looked"} \subseteq DOMAIN run', run'.phase \in Early
    PROVE  OrphanInv'
BY DEF OrphanInv, Looked, Early

\* A run that keeps what it looked at, in the phases from the cleanup on.
LEMMA OrphanKept ==
    ASSUME OrphanInv, orphan' = orphan,
           run.phase \in {"cleanup", "sync", "first", "stream"},
           {"phase", "clean", "looked"} \subseteq DOMAIN run',
           run'.phase \in {"cleanup", "sync", "first", "stream"},
           run'.clean = run.clean, run'.looked = run.looked
    PROVE  OrphanInv'
BY DEF OrphanInv, Looked

LEMMA OrphanRunning ==
    ASSUME OrphanInv, RunStep \/ Read \/ OpenFile
    PROVE  OrphanInv'
<1>0. {"phase", "clean", "looked"} \subseteq DOMAIN run
    <2>1. run.phase # "down"
        BY DEF RunStep, Read, OpenFile, Step, Discover, classifyResetDiscard, detectGTIDRenumbering,
               detectGTIDGap, detectPositionGap, probeBinlogFileIdentity, Stamp, SaveAdvance,
               awaitEarlierCleanup, Cleanup, StartSync, SaveStart
    <2>2. run # Down
        BY <2>1 DEF Down
    <2>. QED
        BY <2>2 DEF OrphanInv
<1>a. CASE run' = Down
    BY <1>a DEF OrphanInv, Down, Looked
<1>1. CASE Discover
    <2>1. /\ run'.phase \in {"sync", "classify"} /\ run'.clean = "none"
          /\ {"phase", "clean", "looked"} \subseteq DOMAIN run'
        BY <1>0, <1>1 DEF Discover, Step, OrphanInv
    <2>. QED
        BY <2>1 DEF OrphanInv, Looked
<1>2. CASE classifyResetDiscard
    <2>1. run'.phase \in Early /\ {"phase", "clean", "looked"} \subseteq DOMAIN run'
        BY <1>0, <1>2 DEF classifyResetDiscard, Early
    <2>. QED
        BY <2>1, OrphanEarly
<1>3. CASE detectGTIDRenumbering
    <2>1. run'.phase \in Early /\ {"phase", "clean", "looked"} \subseteq DOMAIN run'
        BY <1>0, <1>3 DEF detectGTIDRenumbering, Early
    <2>. QED
        BY <2>1, OrphanEarly
<1>4. CASE detectGTIDGap
    <2>1. run' = Down \/ (run'.phase \in Early /\ {"phase", "clean", "looked"} \subseteq DOMAIN run')
        BY <1>0, <1>4 DEF detectGTIDGap, Early
    <2>. QED
        BY <1>a, <2>1, OrphanEarly
<1>5. CASE detectPositionGap
    <2>1. run'.phase \in Early /\ {"phase", "clean", "looked"} \subseteq DOMAIN run'
        BY <1>0, <1>5 DEF detectPositionGap, Advance, Early
    <2>. QED
        BY <2>1, OrphanEarly
<1>6. CASE probeBinlogFileIdentity
    <2>1. run' = Down \/ (run'.phase \in Early /\ {"phase", "clean", "looked"} \subseteq DOMAIN run')
        BY <1>0, <1>6 DEF probeBinlogFileIdentity, Advance, Early
    <2>. QED
        BY <1>a, <2>1, OrphanEarly
<1>7. CASE Stamp
    <2>1. run'.phase \in Early /\ {"phase", "clean", "looked"} \subseteq DOMAIN run'
        BY <1>0, <1>7 DEF Stamp, Early
    <2>. QED
        BY <2>1, OrphanEarly
<1>8. CASE SaveAdvance
    <2>1. /\ run'.phase = IF run.clean = "none" THEN "sync" ELSE "await"
          /\ run'.clean = run.clean /\ {"phase", "clean", "looked"} \subseteq DOMAIN run'
        BY <1>0, <1>8 DEF SaveAdvance
    <2>. QED
        BY <2>1 DEF OrphanInv, Looked
<1>9. CASE awaitEarlierCleanup
    <2>1. /\ run'.phase \in {"sync", "cleanup"} /\ orphan' = orphan
          /\ {"phase", "clean", "looked"} \subseteq DOMAIN run'
          /\ run'.looked => orphan = NoOrphan
        BY <1>0, <1>9 DEF awaitEarlierCleanup, NoEarlierCleanup, Step
    <2>. QED
        BY <2>1 DEF OrphanInv, Looked
<1>10. CASE Cleanup
    <2>1. /\ run.phase = "cleanup" /\ run'.phase = "sync" /\ orphan' = orphan
          /\ run'.clean = run.clean /\ run'.looked = run.looked
          /\ {"phase", "clean", "looked"} \subseteq DOMAIN run'
        BY <1>0, <1>10 DEF Cleanup
    <2>. QED
        BY <2>1, OrphanKept
<1>11. CASE StartSync
    <2>1. run' # Down =>
             /\ run.phase = "sync" /\ run'.phase \in {"first", "stream"} /\ orphan' = orphan
             /\ run'.clean = run.clean /\ run'.looked = run.looked
             /\ {"phase", "clean", "looked"} \subseteq DOMAIN run'
        BY <1>0, <1>11 DEF StartSync, Step
    <2>. QED
        BY <1>a, <2>1, OrphanKept
<1>12. CASE SaveStart \/ Read \/ OpenFile
    <2>1. /\ run.phase \in {"first", "stream"} /\ run'.phase = "stream" /\ orphan' = orphan
          /\ run'.clean = run.clean /\ run'.looked = run.looked
          /\ {"phase", "clean", "looked"} \subseteq DOMAIN run'
        BY <1>0, <1>12 DEF SaveStart, Read, OpenFile, Step
    <2>. QED
        BY <2>1, OrphanKept
<1>. QED
    BY <1>1, <1>2, <1>3, <1>4, <1>5, <1>6, <1>7, <1>8, <1>9, <1>10, <1>11, <1>12 DEF RunStep

\* A run that resumes through the wait of awaitEarlierCleanup streams beside no
\* earlier cleanup, so none deletes a row it wrote: the wait is placed before
\* every path to the stream that deletes rows or skips deleting them.
THEOREM ResumeWaitsForCleanup == Spec => []OrphanSparesResumed
<1>1. OrphanInv /\ [Next]_vars => OrphanInv'
    BY OrphanSource, OrphanRuns, OrphanRunning DEF Next
<1>2. OrphanInv => OrphanSparesResumed
    BY DEF OrphanInv, Looked, OrphanSparesResumed, OrphanSparesNewRows
<1>. QED
    BY <1>1, <1>2, OrphanInit, PTL DEF Spec
=============================================================================
