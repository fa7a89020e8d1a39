-------------------------- MODULE RotationRowProofs --------------------------
(***************************************************************************)
(* The rotation loop loses no row.  Under the options of the loop, with a  *)
(* staging directory that survives and no cleanup of capture, an archive   *)
(* of a partition that is still in the table has no row the table has not, *)
(* an upload that is recorded is of the file that is recorded, and the     *)
(* partition that is dropped held what its file holds, but for late rows.  *)
(***************************************************************************)
EXTENDS RotationProofs

Steady ==
    /\ MaxCleanups = 0 /\ ~StagingLost
    /\ \A o \in OptionSets : o.dir /\ o.retry

CopiesInv ==
    /\ \A q \in DOMAIN live \cap DOMAIN file : file[q] \subseteq live[q]
    /\ \A q \in DOMAIN live \cap DOMAIN s3 : s3[q] \subseteq live[q]
    /\ \A q \in DOMAIN live \cap DOMAIN state : state[q].uploaded =>
          q \in DOMAIN file /\ q \in DOMAIN s3 /\ s3[q] = file[q] /\ Cardinality(file[q]) = state[q].count

StageInv ==
    /\ c.pc \notin {"filter", "dropall"}
    /\ c.pc = "record" => name \notin DOMAIN state \/ ~state[name].uploaded
    /\ c.pc \in {"upload", "mark", "check", "drop", "recount"} => Cardinality(file[name]) = state[name].count
    /\ c.pc = "mark" => name \in DOMAIN s3 /\ s3[name] = file[name]
    /\ c.pc \in {"check", "drop", "recount"} /\ c.o.s3 => state[name].uploaded
    /\ c.pc = "drop" => c.counted = file[name]
    /\ c.pc = "prune" /\ c.o.s3 => name \in DOMAIN s3 /\ (name \in DOMAIN file => file[name] \subseteq s3[name])

RowInv == TypeInv /\ NoRowLostUnlessLate /\ CopiesInv /\ StageInv

LEMMA RowInit == Init => RowInv
<1>1. SUFFICES ASSUME Init PROVE RowInv
    OBVIOUS
<1>2. c.pc = "idle"
    BY <1>1, IdleTyped DEF Init
<1>3. Committed = {}
    BY <1>1 DEF Init, Committed
<1>. QED
    BY <1>1, <1>2, <1>3, TypeInit DEF RowInv, NoRowLostUnlessLate, CopiesInv, StageInv, Init

\* A row that capture commits has a partition to go to.
LEMMA HomeInTable ==
    ASSUME TypeOK, NEW r \in Rows
    PROVE  Home(r) \in DOMAIN live
<1>. DEFINE S == {p \in DOMAIN live : p >= HourOf[r]}
<1>0. DOMAIN live \subseteq 1 .. Expired + 1 /\ Expired + 1 \in DOMAIN live
    BY DEF TypeOK
<1>1. Expired + 1 \in S
    <2>1. HourOf[r] \in 1 .. Expired + 1
        BY RotationAssumption DEF Rows
    <2>. QED
        BY <1>0, <2>1, RotationAssumption
<1>2. S \in SUBSET Nat
    BY <1>0, RotationAssumption
<1>. QED
    BY <1>1, <1>2, MinIsLeast DEF Home

\* Steps that touch no row and no archive.
LEMMA SameRows ==
    ASSUME RowInv, UNCHANGED <<live, file, s3, state, late, open, next>>
    PROVE  NoRowLostUnlessLate' /\ CopiesInv'
BY DEF RowInv, NoRowLostUnlessLate, CopiesInv, Committed, Findable

\* Rows are kept when each table's are.
LEMMA RowsKept ==
    ASSUME RowInv, UNCHANGED <<open, next>>, late \subseteq late',
           \A q \in DOMAIN live : \A r \in live[q] : Findable(r)' \/ r \in late',
           \A q \in DOMAIN file : \A r \in file[q] : Findable(r)' \/ r \in late',
           \A q \in DOMAIN s3 : \A r \in s3[q] : Findable(r)' \/ r \in late'
    PROVE  NoRowLostUnlessLate'
<1>1. SUFFICES ASSUME NEW r \in Committed, Findable(r) \/ r \in late
               PROVE  Findable(r)' \/ r \in late'
    BY DEF RowInv, NoRowLostUnlessLate, Committed
<1>. QED
    BY <1>1 DEF Findable

\* A cycle at rest, or at the start of a partition.
LEMMA RestStage ==
    ASSUME c'.pc \in {"idle", "file", "discard"}
    PROVE  StageInv'
BY DEF StageInv

LEMMA CaptureRows ==
    ASSUME Steady, RowInv, TypeInv', Insert \/ Commit \/ Cleanup
    PROVE  RowInv'
<1>0. TypeOK /\ Tables
    BY TablesTyped DEF RowInv, TypeInv
<1>1. ~Cleanup
    <2>1. SUFFICES ASSUME Cleanup PROVE FALSE
        OBVIOUS
    <2>. QED
        BY <1>0, <2>1 DEF Cleanup, Steady, TypeOK
<1>2. UNCHANGED <<c, file, s3, state, late>>
    BY <1>1 DEF Insert, Commit, archives
<1>3. StageInv'
    BY <1>2 DEF RowInv, StageInv, name
<1>4. CASE Insert
    <2>1. live' = live /\ Committed' \subseteq Committed
        BY <1>0, <1>4, RowsFinite DEF Insert, index, Committed, TypeOK
    <2>2. NoRowLostUnlessLate' /\ CopiesInv'
        BY <1>2, <2>1 DEF RowInv, NoRowLostUnlessLate, CopiesInv, Findable
    <2>. QED
        BY <1>3, <2>2 DEF RowInv
<1>5. CASE Commit
    <2>1. /\ DOMAIN live' = DOMAIN live /\ next' = next
          /\ \A q \in DOMAIN live : live'[q] = live[q] \cup {r \in open : Home(r) = q}
        BY <1>5 DEF Commit
    <2>2. CopiesInv'
        BY <1>2, <2>1 DEF RowInv, CopiesInv
    <2>3. ASSUME NEW r \in Committed' PROVE Findable(r)' \/ r \in late'
        <3>1. CASE r \in open
            <4>1. r \in Rows
                BY <1>0, <3>1 DEF TypeOK
            <4>2. Home(r) \in DOMAIN live
                BY <1>0, <4>1, HomeInTable
            <4>3. r \in live'[Home(r)] /\ Home(r) \in DOMAIN live'
                BY <2>1, <3>1, <4>2
            <4>. QED
                BY <4>3 DEF Findable
        <3>2. CASE r \notin open
            <4>1. r \in Committed
                BY <2>1, <2>3, <3>2 DEF Committed
            <4>2. Findable(r) \/ r \in late
                BY <4>1 DEF RowInv, NoRowLostUnlessLate
            <4>. QED
                BY <1>2, <2>1, <4>2 DEF Findable
        <3>. QED
            BY <3>1, <3>2
    <2>. QED
        BY <1>3, <2>2, <2>3 DEF RowInv, NoRowLostUnlessLate
<1>. QED
    BY <1>1, <1>4, <1>5

LEMMA StartRows ==
    ASSUME Steady, RowInv, TypeInv', StartCycle
    PROVE  RowInv'
<1>1. UNCHANGED <<live, file, s3, state, late, open, next>>
    BY DEF StartCycle, At, index, archives, capture
<1>2. c'.pc = "file"
    <2>1. PICK o \in OptionSets :
              c' = [Idle("none") EXCEPT !.pc = IF o.dir THEN "file" ELSE "filter", !.o = o, !.todo = ToDrop]
        BY DEF StartCycle
    <2>2. o.dir
        BY DEF Steady
    <2>. QED
        BY <2>1, <2>2 DEF Idle
<1>. QED
    BY <1>1, <1>2, SameRows, RestStage DEF RowInv

\* What a step of a cycle on a partition may count on.
LEMMA AtHand ==
    ASSUME Steady, RowInv, c.pc # "idle"
    PROVE  /\ Tables /\ c \in Cycles /\ CycleOK /\ TypeOK
           /\ name \in c.todo /\ name \in Parts /\ c.o \in OptionSets /\ c.o.retry
           /\ c.pc # "prune" => name \in DOMAIN live
BY TablesTyped DEF RowInv, TypeInv, CycleOK, Steady

\* A file replaced by the rows of its partition.
LEMMA FileRows ==
    ASSUME RowInv, NEW p \in DOMAIN live, Tables,
           UNCHANGED <<live, s3, state, late, open, next>>,
           file' = With(file, p, live[p]),
           p \in DOMAIN state => ~state[p].uploaded
    PROVE  NoRowLostUnlessLate' /\ CopiesInv'
<1>1. /\ DOMAIN file' = DOMAIN file \cup {p} /\ file'[p] = live[p]
      /\ \A q \in DOMAIN file : q # p => file'[q] = file[q]
    BY DEF With
<1>2. CopiesInv'
    BY <1>1 DEF RowInv, CopiesInv
<1>3. ASSUME NEW q \in DOMAIN file, NEW r \in file[q] PROVE Findable(r)'
    <2>1. CASE q = p
        BY <1>1, <1>3, <2>1 DEF RowInv, CopiesInv, Findable
    <2>2. CASE q # p
        BY <1>1, <1>3, <2>2 DEF Findable
    <2>. QED
        BY <2>1, <2>2
<1>4. NoRowLostUnlessLate'
    <2>1. \A q \in DOMAIN live : \A r \in live[q] : Findable(r)'
        BY DEF Findable
    <2>2. \A q \in DOMAIN s3 : \A r \in s3[q] : Findable(r)'
        BY DEF Findable
    <2>. QED
        BY <1>3, <2>1, <2>2, RowsKept
<1>. QED
    BY <1>2, <1>4

LEMMA ArchiveRows ==
    ASSUME Steady, RowInv, TypeInv', ArchivePartition
    PROVE  RowInv'
<1>0. /\ Tables /\ c \in Cycles /\ c.pc = "file" /\ c.o.retry /\ name \in DOMAIN live /\ CycleOK
    BY AtHand DEF ArchivePartition, At
<1>1. UNCHANGED <<live, s3, state, late, open, next>>
    BY DEF ArchivePartition, At, index, capture
<1>2. CASE Verified /\ Goto(IF c.o.s3 THEN "upload" ELSE "check") /\ UNCHANGED file
    <2>1. /\ c'.todo = c.todo /\ c'.o = c.o
          /\ c'.pc = IF c.o.s3 THEN "upload" ELSE "check"
        BY <1>0, <1>2 DEF Goto, Cycles
    <2>2. name' = name /\ Cardinality(file'[name']) = state'[name'].count
        BY <1>1, <1>2, <2>1 DEF Verified, name
    <2>3. StageInv'
        BY <2>1, <2>2 DEF StageInv
    <2>. QED
        BY <1>1, <1>2, <2>3, SameRows DEF RowInv
<1>3. CASE ~Verified /\ file' = With(file, name, live[name]) /\ Goto("record")
    <2>1. c'.pc = "record" /\ c'.todo = c.todo /\ c'.o = c.o
        BY <1>0, <1>3 DEF Goto, Cycles
    <2>2. name \in DOMAIN state => ~state[name].uploaded
        BY <1>0, <1>3 DEF RowInv, CopiesInv, Verified
    <2>3. StageInv'
        BY <1>1, <2>1, <2>2 DEF StageInv, name
    <2>4. NoRowLostUnlessLate' /\ CopiesInv'
        BY <1>0, <1>1, <1>3, <2>2, FileRows
    <2>. QED
        BY <2>3, <2>4 DEF RowInv
<1>4. CASE Failed /\ UNCHANGED file
    BY <1>1, <1>4, FailedStep, RestStage, SameRows DEF RowInv
<1>. QED
    BY <1>0, <1>2, <1>3, <1>4 DEF ArchivePartition

LEMMA RecordRows ==
    ASSUME Steady, RowInv, TypeInv', RecordArchive
    PROVE  RowInv'
<1>0. /\ Tables /\ c \in Cycles /\ c.pc = "record" /\ name \in DOMAIN live
      /\ name \in DOMAIN file /\ (name \in DOMAIN state => ~state[name].uploaded)
    BY AtHand DEF RecordArchive, At, CycleOK, RowInv, StageInv
<1>1. UNCHANGED <<live, file, s3, late, open, next>>
    BY DEF RecordArchive, At, index, capture
<1>. DEFINE old == IF name \in DOMAIN state THEN state[name] ELSE [key |-> FALSE, uploaded |-> FALSE]
<1>2. CASE state' = With(state, name, Upserted(old)) /\ Goto(IF c.o.s3 THEN "upload" ELSE "check")
    <2>1. /\ c'.todo = c.todo /\ c'.o = c.o
          /\ c'.pc = IF c.o.s3 THEN "upload" ELSE "check"
        BY <1>0, <1>2 DEF Goto, Cycles
    <2>2. ~old.uploaded
        BY <1>0
    <2>. HIDE DEF old
    <2>3. /\ DOMAIN state' = DOMAIN state \cup {name}
          /\ state'[name] = Upserted(old)
          /\ \A q \in DOMAIN state : q # name => state'[q] = state[q]
        BY <1>2 DEF With
    <2>4. state'[name].count = Cardinality(file[name]) /\ ~state'[name].uploaded
        BY <2>2, <2>3 DEF Upserted
    <2>5. StageInv'
        BY <1>1, <2>1, <2>4 DEF StageInv, name
    <2>6. CopiesInv'
        BY <1>1, <2>3, <2>4 DEF RowInv, CopiesInv
    <2>7. NoRowLostUnlessLate'
        BY <1>1 DEF RowInv, NoRowLostUnlessLate, Committed, Findable
    <2>. QED
        BY <2>5, <2>6, <2>7 DEF RowInv
<1>3. CASE Failed /\ UNCHANGED state
    BY <1>1, <1>3, FailedStep, RestStage, SameRows DEF RowInv
<1>. QED
    BY <1>2, <1>3 DEF RecordArchive

LEMMA UploadRows ==
    ASSUME Steady, RowInv, TypeInv', Upload
    PROVE  RowInv'
<1>0. /\ Tables /\ c \in Cycles /\ c.pc = "upload" /\ c.o.retry /\ name \in DOMAIN live /\ TypeOK
      /\ name \in DOMAIN file /\ name \in DOMAIN state /\ c.deferred + 1 \in Nat /\ c.todo # {}
      /\ Cardinality(file[name]) = state[name].count
    BY AtHand DEF Upload, At, CycleOK, RowInv, StageInv, Cycles
<1>1. UNCHANGED <<live, file, state, late, open, next>>
    BY DEF Upload, At, index, capture
<1>2. CASE state[name].uploaded /\ Goto("check") /\ UNCHANGED s3
    <2>1. c'.pc = "check" /\ c'.todo = c.todo /\ c'.o = c.o
        BY <1>0, <1>2 DEF Goto, Cycles
    <2>2. StageInv'
        BY <1>0, <1>1, <1>2, <2>1 DEF StageInv, name
    <2>. QED
        BY <1>1, <1>2, <2>2, SameRows DEF RowInv
<1>3. CASE ~state[name].uploaded /\ s3' = With(s3, name, file[name]) /\ Goto("mark")
    <2>1. c'.pc = "mark" /\ c'.todo = c.todo /\ c'.o = c.o
        BY <1>0, <1>3 DEF Goto, Cycles
    <2>2. /\ DOMAIN s3' = DOMAIN s3 \cup {name} /\ s3'[name] = file[name]
          /\ \A q \in DOMAIN s3 : q # name => s3'[q] = s3[q]
        BY <1>3 DEF With
    <2>3. StageInv'
        BY <1>0, <1>1, <2>1, <2>2 DEF StageInv, name
    <2>4. CopiesInv'
        BY <1>0, <1>1, <1>3, <2>2 DEF RowInv, CopiesInv
    <2>5. ASSUME NEW q \in DOMAIN s3, NEW r \in s3[q] PROVE Findable(r)'
        <3>1. CASE q = name
            BY <1>0, <1>1, <2>5, <3>1 DEF RowInv, CopiesInv, Findable
        <3>2. CASE q # name
            BY <2>2, <2>5, <3>2 DEF Findable
        <3>. QED
            BY <3>1, <3>2
    <2>6. NoRowLostUnlessLate'
        <3>1. \A q \in DOMAIN live : \A r \in live[q] : Findable(r)'
            BY <1>1 DEF Findable
        <3>2. \A q \in DOMAIN file : \A r \in file[q] : Findable(r)'
            BY <1>1 DEF Findable
        <3>. QED
            BY <1>1, <2>5, <3>1, <3>2, RowsKept
    <2>. QED
        BY <2>3, <2>4, <2>6 DEF RowInv
<1>4. CASE (Failed \/ NextPartition(c.deferred + 1)) /\ UNCHANGED s3
    <2>1. c'.pc \in {"idle", "file"}
        BY <1>0, <1>4, FailedStep, NextPartitionStep
    <2>. QED
        BY <1>1, <1>4, <2>1, RestStage, SameRows DEF RowInv
<1>. QED
    BY <1>0, <1>2, <1>3, <1>4 DEF Upload

LEMMA MarkRows ==
    ASSUME Steady, RowInv, TypeInv', MarkUploaded
    PROVE  RowInv'
<1>0. /\ Tables /\ c \in Cycles /\ c.pc = "mark" /\ name \in DOMAIN live
      /\ name \in DOMAIN file /\ name \in DOMAIN state
      /\ Cardinality(file[name]) = state[name].count
      /\ name \in DOMAIN s3 /\ s3[name] = file[name]
    BY AtHand DEF MarkUploaded, At, CycleOK, RowInv, StageInv
<1>1. UNCHANGED <<live, file, s3, late, open, next>>
    BY DEF MarkUploaded, At, index, capture
<1>2. CASE state' = [state EXCEPT ![name] = [@ EXCEPT !.key = TRUE, !.uploaded = TRUE]] /\ Goto("check")
    <2>1. c'.pc = "check" /\ c'.todo = c.todo /\ c'.o = c.o
        BY <1>0, <1>2 DEF Goto, Cycles
    <2>2. /\ DOMAIN state' = DOMAIN state
          /\ state'[name].count = state[name].count /\ state'[name].uploaded
          /\ \A q \in DOMAIN state : q # name => state'[q] = state[q]
        BY <1>0, <1>2 DEF Tables
    <2>3. StageInv'
        BY <1>0, <1>1, <2>1, <2>2 DEF StageInv, name
    <2>4. CopiesInv'
        BY <1>0, <1>1, <2>2 DEF RowInv, CopiesInv
    <2>5. NoRowLostUnlessLate'
        BY <1>1 DEF RowInv, NoRowLostUnlessLate, Committed, Findable
    <2>. QED
        BY <2>3, <2>4, <2>5 DEF RowInv
<1>3. CASE Failed /\ UNCHANGED state
    BY <1>1, <1>3, FailedStep, RestStage, SameRows DEF RowInv
<1>. QED
    BY <1>2, <1>3 DEF MarkUploaded

\* The count of the table and of the file agree: so do their rows.
LEMMA CountedRows ==
    ASSUME RowInv, Tables, name \in DOMAIN live, name \in DOMAIN file,
           Cardinality(file[name]) = Cardinality(live[name])
    PROVE  live[name] = file[name]
<1>1. file[name] \in SUBSET live[name] /\ live[name] \in SUBSET Rows
    BY DEF RowInv, CopiesInv, Tables
<1>2. IsFiniteSet(live[name])
    BY <1>1, RowsFinite
<1>. QED
    BY <1>1, <1>2, FS_Subset

LEMMA CheckRows ==
    ASSUME Steady, RowInv, TypeInv', CheckBeforeDrop \/ Recount
    PROVE  RowInv'
<1>0. /\ Tables /\ c \in Cycles /\ c.pc \in {"check", "recount"} /\ name \in DOMAIN live /\ TypeOK
      /\ name \in DOMAIN file /\ name \in DOMAIN state /\ c.deferred + 1 \in Nat /\ c.todo # {}
      /\ Cardinality(file[name]) = state[name].count
      /\ c.o.s3 => state[name].uploaded
    BY AtHand DEF CheckBeforeDrop, Recount, At, CycleOK, RowInv, StageInv, Cycles
<1>1. UNCHANGED <<live, file, s3, state, late, open, next>>
    BY DEF CheckBeforeDrop, Recount, At, index, archives, capture
<1>2. CASE Failed \/ NextPartition(c.deferred + 1) \/ Goto("discard")
    <2>1. c'.pc \in {"idle", "file", "discard"}
        BY <1>0, <1>2, FailedStep, NextPartitionStep DEF Goto, Cycles
    <2>. QED
        BY <1>1, <2>1, RestStage, SameRows DEF RowInv
<1>3. CASE archivedPartitionUnchanged /\ \E n \in Nat : c' = [c EXCEPT !.pc = "drop", !.attempt = n, !.counted = live[name]]
    <2>1. c'.pc = "drop" /\ c'.todo = c.todo /\ c'.o = c.o /\ c'.counted = live[name]
        BY <1>0, <1>3 DEF Cycles
    <2>2. live[name] = file[name]
        BY <1>0, <1>3, CountedRows DEF archivedPartitionUnchanged
    <2>3. StageInv'
        BY <1>0, <1>1, <2>1, <2>2 DEF StageInv, name
    <2>. QED
        BY <1>1, <2>3, SameRows DEF RowInv
<1>4. c.attempt + 1 \in Nat
    BY <1>0, RotationAssumption DEF Cycles
<1>. QED
    BY <1>2, <1>3, <1>4 DEF CheckBeforeDrop, Recount

\* A file that goes, of a partition whose rows are all to be found elsewhere.
LEMMA GoneRows ==
    ASSUME RowInv, Tables, NEW p, file' \in {file, Without(file, p)},
           UNCHANGED <<live, s3, late, open, next>>,
           p \in DOMAIN file => \A r \in file[p] : Findable(r)'
    PROVE  NoRowLostUnlessLate'
<1>1. \A q \in DOMAIN file : q # p => q \in DOMAIN file' /\ file'[q] = file[q]
    BY DEF Without, Restrict
<1>2. ASSUME NEW q \in DOMAIN file, NEW r \in file[q] PROVE Findable(r)'
    <2>1. CASE q = p
        BY <1>2, <2>1
    <2>2. CASE q # p
        BY <1>1, <1>2, <2>2 DEF Findable
    <2>. QED
        BY <2>1, <2>2
<1>3. \A q \in DOMAIN live : \A r \in live[q] : Findable(r)'
    BY DEF Findable
<1>4. \A q \in DOMAIN s3 : \A r \in s3[q] : Findable(r)'
    BY DEF Findable
<1>. QED
    BY <1>2, <1>3, <1>4, RowsKept

LEMMA DiscardRows ==
    ASSUME Steady, RowInv, TypeInv', DiscardStaleArchive
    PROVE  RowInv'
<1>0. /\ Tables /\ c \in Cycles /\ c.pc = "discard" /\ name \in DOMAIN live /\ TypeOK
      /\ c.deferred + 1 \in Nat /\ c.todo # {}
    BY AtHand DEF DiscardStaleArchive, At, Cycles
<1>1. UNCHANGED <<live, s3, late, open, next>>
    BY DEF DiscardStaleArchive, At, index, capture
<1>2. CASE Discarded(file') /\ NextPartition(c.deferred + 1)
    <2>1. StageInv'
        BY <1>0, <1>2, NextPartitionStep, RestStage
    <2>2. /\ DOMAIN state' = DOMAIN state \ {name} /\ \A q \in DOMAIN state' : state'[q] = state[q]
          /\ DOMAIN file' \subseteq DOMAIN file /\ \A q \in DOMAIN file' : file'[q] = file[q]
          /\ \A q \in DOMAIN file : q # name => q \in DOMAIN file'
        BY <1>2 DEF Discarded, Without, Restrict
    <2>3. CopiesInv'
        BY <1>1, <2>2 DEF RowInv, CopiesInv
    <2>4. name \in DOMAIN file => \A r \in file[name] : Findable(r)'
        BY <1>0, <1>1 DEF RowInv, CopiesInv, Findable
    <2>5. NoRowLostUnlessLate'
        BY <1>0, <1>1, <1>2, <2>4, GoneRows DEF Discarded
    <2>. QED
        BY <2>1, <2>3, <2>5 DEF RowInv
<1>3. CASE Failed /\ UNCHANGED <<file, state>>
    BY <1>1, <1>3, FailedStep, RestStage, SameRows DEF RowInv
<1>. QED
    BY <1>2, <1>3 DEF DiscardStaleArchive

LEMMA DropRows ==
    ASSUME Steady, RowInv, TypeInv', DropPartition
    PROVE  RowInv'
<1>0. /\ Tables /\ c \in Cycles /\ c.pc = "drop" /\ name \in DOMAIN live /\ name \in Parts
      /\ name \in DOMAIN file /\ name \in DOMAIN state
      /\ Cardinality(file[name]) = state[name].count /\ c.counted = file[name]
      /\ c.o.s3 => state[name].uploaded
      /\ c.deferred + Cardinality(c.todo) \in Nat
    BY AtHand, RowsFinite DEF DropPartition, At, CycleOK, RowInv, StageInv, Cycles
<1>1. UNCHANGED <<file, s3, state, open, next>>
    BY DEF DropPartition, At, archives, capture
<1>2. CASE DropNow({name}) /\ late' = late \cup (live[name] \ c.counted) /\ (Goto("prune") \/ Failed)
    <2>1. DOMAIN live' = DOMAIN live \ {name} /\ \A q \in DOMAIN live' : live'[q] = live[q]
        BY <1>0, <1>2, DropNowStep
    <2>2. CopiesInv'
        BY <1>1, <2>1 DEF RowInv, CopiesInv
    <2>3. ASSUME NEW q \in DOMAIN live, NEW r \in live[q] PROVE Findable(r)' \/ r \in late'
        <3>1. CASE q = name
            BY <1>0, <1>1, <1>2, <2>3, <3>1 DEF Findable
        <3>2. CASE q # name
            BY <2>1, <2>3, <3>2 DEF Findable
        <3>. QED
            BY <3>1, <3>2
    <2>4. NoRowLostUnlessLate'
        <3>1. \A q \in DOMAIN file : \A r \in file[q] : Findable(r)'
            BY <1>1 DEF Findable
        <3>2. \A q \in DOMAIN s3 : \A r \in s3[q] : Findable(r)'
            BY <1>1 DEF Findable
        <3>. QED
            BY <1>1, <1>2, <2>3, <3>1, <3>2, RowsKept
    <2>5. StageInv'
        <3>1. CASE Failed
            BY <3>1, FailedStep, RestStage
        <3>2. CASE Goto("prune")
            <4>1. c'.pc = "prune" /\ c'.todo = c.todo /\ c'.o = c.o
                BY <1>0, <3>2 DEF Goto, Cycles
            <4>2. c.o.s3 => name \in DOMAIN s3 /\ s3[name] = file[name]
                BY <1>0 DEF RowInv, CopiesInv
            <4>. QED
                BY <1>1, <4>1, <4>2 DEF StageInv, name
        <3>. QED
            BY <1>2, <3>1, <3>2
    <2>. QED
        BY <2>2, <2>4, <2>5 DEF RowInv
<1>3. CASE UNCHANGED <<live, late>> /\ (Failed \/ Ended(c.deferred + Cardinality(c.todo)))
    <2>1. c'.pc = "idle"
        BY <1>0, <1>3, FailedStep, EndedStep
    <2>. QED
        BY <1>1, <1>3, <2>1, RestStage, SameRows DEF RowInv
<1>4. CASE UNCHANGED <<live, late>> /\ Goto("recount")
    <2>1. c'.pc = "recount" /\ c'.todo = c.todo /\ c'.o = c.o
        BY <1>0, <1>4 DEF Goto, Cycles
    <2>2. StageInv'
        BY <1>0, <1>1, <2>1 DEF StageInv, name
    <2>. QED
        BY <1>1, <1>4, <2>2, SameRows DEF RowInv
<1>. QED
    BY <1>2, <1>3, <1>4 DEF DropPartition

LEMMA PruneRows ==
    ASSUME Steady, RowInv, TypeInv', PruneLocal
    PROVE  RowInv'
<1>0. /\ Tables /\ c \in Cycles /\ c.pc = "prune" /\ name \notin DOMAIN live /\ TypeOK
      /\ c.deferred \in Nat /\ c.todo # {}
      /\ c.o.s3 => name \in DOMAIN s3 /\ (name \in DOMAIN file => file[name] \subseteq s3[name])
    BY AtHand DEF PruneLocal, At, CycleOK, RowInv, StageInv, Cycles
<1>1. UNCHANGED <<live, s3, state, late, open, next>>
    BY DEF PruneLocal, At, index, capture
<1>2. StageInv'
    BY <1>0, NextPartitionStep, RestStage DEF PruneLocal
<1>3. CASE UNCHANGED file
    BY <1>1, <1>2, <1>3, SameRows DEF RowInv
<1>4. CASE c.o.s3 /\ file' = Without(file, name)
    <2>1. /\ DOMAIN file' = DOMAIN file \ {name} /\ \A q \in DOMAIN file' : file'[q] = file[q]
        BY <1>4 DEF Without, Restrict
    <2>2. CopiesInv'
        BY <1>0, <1>1, <2>1 DEF RowInv, CopiesInv
    <2>3. name \in DOMAIN file => \A r \in file[name] : Findable(r)'
        BY <1>0, <1>1, <1>4 DEF Findable
    <2>4. NoRowLostUnlessLate'
        BY <1>0, <1>1, <1>4, <2>3, GoneRows
    <2>. QED
        BY <1>2, <2>2, <2>4 DEF RowInv
<1>. QED
    BY <1>3, <1>4 DEF PruneLocal

LEMMA CrashRows ==
    ASSUME Steady, RowInv, TypeInv', Crash
    PROVE  RowInv'
<1>1. c'.pc = "idle" /\ UNCHANGED <<live, s3, state, late, open, next>>
    BY IdleTyped DEF Crash, index, capture
<1>2. file' = file
    BY Zenon DEF Crash, Steady
<1>. QED
    BY <1>1, <1>2, RestStage, SameRows DEF RowInv

LEMMA RowStep ==
    ASSUME Steady, RowInv, [Next]_vars
    PROVE  RowInv'
<1>1. TypeInv'
    BY TypeStep DEF RowInv
<1>2. CASE UNCHANGED vars
    <2>1. UNCHANGED <<live, file, s3, state, late, open, next, c>>
        BY <1>2 DEF vars
    <2>2. StageInv'
        BY <2>1 DEF RowInv, StageInv, name
    <2>. QED
        BY <1>1, <2>1, <2>2, SameRows DEF RowInv
<1>3. ~FilterToDrop /\ ~DropAll
    BY DEF FilterToDrop, DropAll, At, RowInv, StageInv
<1>. QED
    BY <1>1, <1>2, <1>3, CaptureRows, CrashRows, StartRows, ArchiveRows, RecordRows, UploadRows, MarkRows,
       CheckRows, DiscardRows, DropRows, PruneRows
       DEF Next, Step

\* The loop loses no row, however many partitions and rows there are, and
\* wherever its writes, uploads and drops fail or the process dies: a row
\* that is not in the table is in an archive, unless it was committed between
\* the last count and the ALTER.
THEOREM LoopLosesNoRow == Steady => (Spec => []NoRowLostUnlessLate)
<1>1. SUFFICES ASSUME Steady PROVE Spec => []NoRowLostUnlessLate
    OBVIOUS
<1>2. RowInv /\ [Next]_vars => RowInv'
    BY <1>1, RowStep
<1>3. RowInv => NoRowLostUnlessLate
    BY DEF RowInv
<1>. QED
    BY <1>2, <1>3, RowInit, PTL DEF Spec
=============================================================================
