--------------------------- MODULE RotationProofs ---------------------------
(***************************************************************************)
(* Proofs about Rotation, for every number of partitions and rows, every   *)
(* set of options and every number of crashes and attempts.                *)
(***************************************************************************)
EXTENDS Rotation, FiniteSetTheorems, WellFoundedInduction, TLAPS

(***************************************************************************)
(* Least and greatest elements.                                            *)
(***************************************************************************)
\* A set of numbers has a least one, which is what Min picks.
LEMMA MinIsLeast ==
    ASSUME NEW S \in SUBSET Nat, S # {}
    PROVE  Min(S) \in S /\ \A y \in S : Min(S) <= y
<1>1. PICK x \in S : \A y \in S : ~(<<y, x>> \in OpToRel(<, Nat))
    BY NatLessThanWellFounded, WFMin, Zenon
<1>2. \A y \in S : <<y, x>> \in Nat \X Nat
    OBVIOUS
<1>3. \A y \in S : <<y, x>> \in OpToRel(<, Nat) <=> y < x
    BY <1>2 DEF OpToRel
<1>4. \A y \in S : ~(y < x)
    BY <1>1, <1>3, Zenon
<1>5. \A y \in S : x <= y
    BY <1>4
<1>. QED
    BY <1>5 DEF Min

\* A bounded set of numbers has a greatest one, which is what Max picks.
LEMMA MaxIsGreatest ==
    ASSUME NEW N \in Nat, NEW S \in SUBSET (0 .. N), S # {}
    PROVE  Max(S) \in S /\ \A y \in S : y <= Max(S)
<1>. DEFINE T == {N - x : x \in S}
<1>1. \A x \in S : x \in Nat /\ x <= N
    OBVIOUS
<1>2. T \in SUBSET Nat /\ T # {}
    <2>1. \A x \in S : N - x \in Nat
        BY <1>1
    <2>2. T \subseteq Nat
        BY <2>1
    <2>3. PICK x \in S : TRUE
        OBVIOUS
    <2>4. N - x \in T
        OBVIOUS
    <2>. QED
        BY <2>2, <2>4
<1>3. Min(T) \in T /\ \A y \in T : Min(T) <= y
    BY <1>2, MinIsLeast
<1>4. PICK m \in S : Min(T) = N - m
    BY <1>3
<1>5. \A y \in S : y <= m
    <2>1. SUFFICES ASSUME NEW y \in S PROVE y <= m
        OBVIOUS
    <2>2. N - y \in T
        OBVIOUS
    <2>3. N - m <= N - y
        BY <1>3, <1>4, <2>2
    <2>. QED
        BY <1>1, <2>3
<1>. QED
    BY <1>5 DEF Max

-----------------------------------------------------------------------------
(***************************************************************************)
(* What holds of a cycle wherever it is.                                   *)
(***************************************************************************)
Cycles == [pc : PCs, o : OptionSets \cup {NoOptions}, todo : SUBSET Parts, deferred : Nat,
           attempt : 0 .. Attempts, counted : SUBSET Rows, result : {"none", "healthy", "unhealthy"}]

CycleOK ==
    /\ c.pc # "idle" => c.todo # {} /\ c.o \in OptionSets
    /\ c.pc \notin {"idle", "prune"} => c.todo \subseteq DOMAIN live
    /\ c.pc = "prune" => c.todo \ {name} \subseteq DOMAIN live /\ name \notin DOMAIN live
    /\ c.pc = "record" => name \in DOMAIN file
    /\ c.pc \in {"upload", "mark", "check", "drop", "recount"} => name \in DOMAIN file /\ name \in DOMAIN state
    /\ c.pc = "recount" => c.attempt < Attempts

\* The partition at hand is one of those left.
LEMMA NameInTodo ==
    ASSUME TypeOK, c.todo # {}
    PROVE  name \in c.todo /\ name \in Parts
<1>1. c.todo \in SUBSET Parts
    BY DEF TypeOK
<1>2. c.todo \in SUBSET Nat
    BY <1>1, RotationAssumption DEF Parts
<1>. QED
    BY <1>1, <1>2, MinIsLeast DEF name

\* A cycle between two runs is one.
LEMMA IdleTyped ==
    ASSUME NEW r \in {"none", "healthy", "unhealthy"}
    PROVE  /\ Idle(r) \in Cycles
           /\ Idle(r).pc = "idle" /\ Idle(r).result = r
BY RotationAssumption DEF Idle, Cycles, PCs

\* How a cycle ends.
LEMMA EndedStep ==
    ASSUME NEW d \in Nat, Ended(d)
    PROVE  /\ c' \in Cycles /\ c'.pc = "idle"
           /\ c'.result = "healthy" => d = 0
<1>1. CASE c' = Idle("healthy") /\ d = 0
    BY <1>1, IdleTyped
<1>2. CASE c' = Idle("unhealthy")
    BY <1>2, IdleTyped
<1>. QED
    BY <1>1, <1>2 DEF Ended

\* What becomes of a cycle that is through with a partition.
LEMMA NextPartitionStep ==
    ASSUME TypeOK, c.todo # {}, NEW d \in Nat, NextPartition(d)
    PROVE  \/ /\ c' \in Cycles /\ c'.pc = "idle" /\ c.todo = {name}
              /\ c'.result = "healthy" => d = 0
           \/ /\ c' \in Cycles /\ c'.pc = "file" /\ c'.todo = c.todo \ {name} /\ c'.todo # {}
              /\ c'.o = c.o /\ c'.deferred = d /\ c'.result = c.result
<1>1. CASE c.todo = {name}
    BY <1>1, EndedStep DEF NextPartition
<1>2. CASE c.todo # {name}
    <2>1. c' = [c EXCEPT !.pc = "file", !.todo = @ \ {name}, !.deferred = d]
        BY <1>2 DEF NextPartition
    <2>2. c \in Cycles
        BY DEF TypeOK, Cycles
    <2>3. c.todo \ {name} # {} /\ c.todo \ {name} \in SUBSET Parts
        BY <1>2, <2>2, NameInTodo DEF Cycles
    <2>. QED
        BY <2>1, <2>2, <2>3 DEF Cycles, PCs
<1>. QED
    BY <1>1, <1>2

\* The rows are numbers, finitely many.
LEMMA RowsFinite ==
    /\ Rows = 1 .. Len(HourOf) /\ Len(HourOf) \in Nat
    /\ \A S \in SUBSET Rows : IsFiniteSet(S) /\ Cardinality(S) \in Nat
    /\ \A S \in SUBSET Parts : IsFiniteSet(S) /\ Cardinality(S) \in Nat
<1>1. Rows = 1 .. Len(HourOf) /\ Len(HourOf) \in Nat
    BY RotationAssumption DEF Rows
<1>2. IsFiniteSet(Rows) /\ IsFiniteSet(Parts)
    BY <1>1, RotationAssumption, FS_Interval DEF Parts
<1>. QED
    BY <1>1, <1>2, FS_Subset, FS_CardinalityType

\* Where the mark of the drops goes.
LEMMA MarkStep ==
    ASSUME TypeOK, NEW ps \in SUBSET Parts, MarkPartitionsDropped(ps)
    PROVE  /\ below' \in 0 .. Expired /\ below <= below'
           /\ \A q \in ps : q <= below'
<1>. DEFINE S == ps \cup {below}
<1>1. S \in SUBSET (0 .. Expired) /\ S # {} /\ below \in S
    <2>1. below \in 0 .. Expired
        BY DEF TypeOK
    <2>2. Parts \subseteq 0 .. Expired
        BY RotationAssumption DEF Parts
    <2>. QED
        BY <2>1, <2>2
<1>2. Max(S) \in S /\ \A y \in S : y <= Max(S)
    BY <1>1, MaxIsGreatest, RotationAssumption
<1>. QED
    BY <1>1, <1>2 DEF MarkPartitionsDropped

-----------------------------------------------------------------------------
(***************************************************************************)
(* Types, and the shape of a cycle.                                        *)
(***************************************************************************)
TypeInv == TypeOK /\ CycleOK

LEMMA TypeInit == Init => TypeInv
<1>1. SUFFICES ASSUME Init PROVE TypeInv
    OBVIOUS
<1>2. c \in Cycles /\ c.pc = "idle"
    BY <1>1, IdleTyped DEF Init
<1>3. 0 \in 0 .. Expired /\ 1 \in 1 .. Len(HourOf) + 1 /\ Expired + 1 \in 1 .. Expired + 1
    BY RotationAssumption, RowsFinite
<1>4. TypeOK
    BY <1>1, <1>2, <1>3 DEF Init, TypeOK, Cycles
<1>. QED
    BY <1>2, <1>4 DEF TypeInv, CycleOK

\* Capture writes rows, and its resume deletes some; the cycle goes on.
LEMMA CaptureTypes ==
    ASSUME TypeInv, Insert \/ Commit \/ Cleanup
    PROVE  TypeInv'
<1>1. c' = c /\ DOMAIN live' = DOMAIN live /\ UNCHANGED <<archives, below, late>>
    BY DEF Insert, Commit, Cleanup, index, archives, TypeInv, TypeOK
<1>2. live' \in [DOMAIN live' -> SUBSET Rows]
    <2>1. live \in [DOMAIN live -> SUBSET Rows] /\ open \subseteq Rows
        BY DEF TypeInv, TypeOK
    <2>2. CASE Insert
        BY <2>1, <2>2 DEF Insert, index
    <2>3. CASE Commit
        BY <2>1, <2>3 DEF Commit
    <2>4. CASE Cleanup
        BY <2>1, <2>4 DEF Cleanup
    <2>. QED
        BY <2>2, <2>3, <2>4
<1>3. open' \subseteq Rows /\ next' \in 1 .. Len(HourOf) + 1 /\ claimed' \in 1 .. next'
    <2>1. /\ open \subseteq Rows /\ next \in 1 .. Len(HourOf) + 1 /\ claimed \in 1 .. next
          /\ Rows = 1 .. Len(HourOf) /\ Len(HourOf) \in Nat
        BY RowsFinite DEF TypeInv, TypeOK
    <2>2. CASE Insert
        BY <2>1, <2>2 DEF Insert
    <2>3. CASE Commit
        BY <2>1, <2>3 DEF Commit
    <2>4. CASE Cleanup
        BY <2>1, <2>4 DEF Cleanup
    <2>. QED
        BY <2>2, <2>3, <2>4
<1>4. TypeOK'
    <2>1. crashes' \in Nat /\ cleanups' \in Nat
        BY DEF Insert, Commit, Cleanup, TypeInv, TypeOK
    <2>. QED
        BY <1>1, <1>2, <1>3, <2>1 DEF TypeInv, TypeOK, archives
<1>5. CycleOK'
    BY <1>1 DEF TypeInv, CycleOK, archives, name
<1>. QED
    BY <1>4, <1>5 DEF TypeInv

\* A cycle whose step fails.
LEMMA FailedStep ==
    ASSUME Failed
    PROVE  c' \in Cycles /\ c'.pc = "idle" /\ c'.result = "unhealthy"
BY IdleTyped DEF Failed

\* The steps of a cycle keep the tables typed.
Tables ==
    /\ DOMAIN live \subseteq 1 .. Expired + 1 /\ Expired + 1 \in DOMAIN live
    /\ live \in [DOMAIN live -> SUBSET Rows]
    /\ below \in 0 .. Expired
    /\ DOMAIN file \subseteq Parts /\ file \in [DOMAIN file -> SUBSET Rows]
    /\ DOMAIN s3 \subseteq Parts /\ s3 \in [DOMAIN s3 -> SUBSET Rows]
    /\ DOMAIN state \subseteq Parts
    /\ state \in [DOMAIN state -> [count : Nat, key : BOOLEAN, uploaded : BOOLEAN]]
    /\ late \subseteq Rows

LEMMA TablesTyped ==
    ASSUME TypeInv
    PROVE  /\ Tables /\ c \in Cycles /\ CycleOK
           /\ c.todo # {} => name \in c.todo /\ name \in Parts
BY NameInTodo DEF TypeInv, TypeOK, Tables, Cycles

LEMMA StepTyped ==
    ASSUME TypeInv, Tables', c' \in Cycles, CycleOK', UNCHANGED <<capture, crashes>>
    PROVE  TypeInv'
BY DEF TypeInv, TypeOK, Tables, Cycles, capture

LEMMA StartTypes ==
    ASSUME TypeInv, StartCycle
    PROVE  TypeInv'
<1>1. PICK o \in OptionSets :
          c' = [Idle("none") EXCEPT !.pc = IF o.dir THEN "file" ELSE "filter", !.o = o, !.todo = ToDrop]
    BY DEF StartCycle
<1>2. ToDrop \in SUBSET Parts /\ ToDrop # {} /\ ToDrop \subseteq DOMAIN live
    BY DEF StartCycle, ToDrop
<1>3. /\ c' \in Cycles /\ c'.pc \in {"file", "filter"} /\ c'.todo = ToDrop /\ c'.o = o
    <2>1. Idle("none") \in Cycles
        BY IdleTyped
    <2>2. (IF o.dir THEN "file" ELSE "filter") \in {"file", "filter"}
        OBVIOUS
    <2>. QED
        BY <1>1, <1>2, <2>1, <2>2 DEF Cycles, PCs
<1>4. UNCHANGED <<index, archives, late, capture, crashes>>
    BY DEF StartCycle, At
<1>5. Tables'
    BY <1>4, TablesTyped DEF Tables, index, archives
<1>6. CycleOK'
    BY <1>2, <1>3, <1>4 DEF CycleOK, index
<1>. QED
    BY <1>3, <1>4, <1>5, <1>6, StepTyped

LEMMA ArchiveTypes ==
    ASSUME TypeInv, ArchivePartition
    PROVE  TypeInv'
<1>0. /\ Tables /\ c \in Cycles /\ CycleOK /\ c.pc = "file"
      /\ name \in c.todo /\ name \in Parts /\ c.todo \subseteq DOMAIN live /\ c.o \in OptionSets
    BY TablesTyped DEF ArchivePartition, At, CycleOK
<1>1. UNCHANGED <<index, s3, state, late, capture, crashes>>
    BY DEF ArchivePartition, At
<1>2. CASE Verified /\ Goto(IF c.o.s3 THEN "upload" ELSE "check") /\ UNCHANGED file
    <2>1. c' \in Cycles /\ c'.pc \in {"upload", "check"} /\ c'.todo = c.todo /\ c'.o = c.o
        BY <1>0, <1>2 DEF Goto, Cycles, PCs
    <2>2. CycleOK'
        BY <1>0, <1>1, <1>2, <2>1 DEF CycleOK, index, Verified, name
    <2>3. Tables'
        BY <1>0, <1>1, <1>2 DEF Tables, index
    <2>. QED
        BY <1>1, <2>1, <2>2, <2>3, StepTyped
<1>3. CASE file' = With(file, name, live[name]) /\ Goto("record")
    <2>1. c' \in Cycles /\ c'.pc = "record" /\ c'.todo = c.todo /\ c'.o = c.o
        BY <1>0, <1>3 DEF Goto, Cycles, PCs
    <2>2. /\ DOMAIN file' = DOMAIN file \cup {name}
          /\ file' \in [DOMAIN file' -> SUBSET Rows]
        <3>1. live[name] \in SUBSET Rows /\ file \in [DOMAIN file -> SUBSET Rows]
            BY <1>0 DEF Tables
        <3>. QED
            BY <1>3, <3>1 DEF With
    <2>3. CycleOK'
        BY <1>0, <1>1, <2>1, <2>2 DEF CycleOK, index, name
    <2>4. Tables'
        BY <1>0, <1>1, <2>2 DEF Tables, index
    <2>. QED
        BY <1>1, <2>1, <2>3, <2>4, StepTyped
<1>4. CASE Failed /\ UNCHANGED file
    <2>1. Tables' /\ CycleOK'
        BY <1>0, <1>1, <1>4, FailedStep DEF Tables, CycleOK, index
    <2>. QED
        BY <1>1, <1>4, <2>1, FailedStep, StepTyped
<1>. QED
    BY <1>2, <1>3, <1>4 DEF ArchivePartition

LEMMA RecordTypes ==
    ASSUME TypeInv, RecordArchive
    PROVE  TypeInv'
<1>0. /\ Tables /\ c \in Cycles /\ CycleOK /\ c.pc = "record"
      /\ name \in c.todo /\ name \in Parts /\ c.todo \subseteq DOMAIN live
      /\ c.o \in OptionSets /\ c.o \in Options /\ name \in DOMAIN file
    BY TablesTyped, RotationAssumption DEF RecordArchive, At, CycleOK
<1>1. UNCHANGED <<index, file, s3, late, capture, crashes>>
    BY DEF RecordArchive, At
<1>. DEFINE old == IF name \in DOMAIN state THEN state[name] ELSE [key |-> FALSE, uploaded |-> FALSE]
<1>2. CASE state' = With(state, name, Upserted(old)) /\ Goto(IF c.o.s3 THEN "upload" ELSE "check")
    <2>1. c' \in Cycles /\ c'.pc \in {"upload", "check"} /\ c'.todo = c.todo /\ c'.o = c.o
        BY <1>0, <1>2 DEF Goto, Cycles, PCs
    <2>2. Upserted(old) \in [count : Nat, key : BOOLEAN, uploaded : BOOLEAN]
        <3>1. Cardinality(file[name]) \in Nat
            BY <1>0, RowsFinite DEF Tables
        <3>2. old.key \in BOOLEAN /\ old.uploaded \in BOOLEAN /\ c.o.s3 \in BOOLEAN
            BY <1>0 DEF Tables, Options
        <3>. QED
            BY <3>1, <3>2 DEF Upserted
    <2>3. /\ DOMAIN state' = DOMAIN state \cup {name}
          /\ state' \in [DOMAIN state' -> [count : Nat, key : BOOLEAN, uploaded : BOOLEAN]]
        <3>1. state \in [DOMAIN state -> [count : Nat, key : BOOLEAN, uploaded : BOOLEAN]]
            BY <1>0 DEF Tables
        <3>. QED
            BY <1>2, <2>2, <3>1 DEF With
    <2>4. CycleOK'
        BY <1>0, <1>1, <2>1, <2>3 DEF CycleOK, index, name
    <2>5. Tables'
        BY <1>0, <1>1, <2>3 DEF Tables, index
    <2>. QED
        BY <1>1, <2>1, <2>4, <2>5, StepTyped
<1>3. CASE Failed /\ UNCHANGED state
    <2>1. Tables' /\ CycleOK'
        BY <1>0, <1>1, <1>3, FailedStep DEF Tables, CycleOK, index
    <2>. QED
        BY <1>1, <1>3, <2>1, FailedStep, StepTyped
<1>. QED
    BY <1>2, <1>3 DEF RecordArchive

\* A cycle that ends, or goes on to the next partition.
LEMMA EndsOK ==
    ASSUME c' \in Cycles, c'.pc = "idle"
    PROVE  CycleOK'
BY DEF CycleOK

LEMMA GoesOnOK ==
    ASSUME TypeInv, c.pc # "idle", NEW d \in Nat, NextPartition(d), UNCHANGED live
    PROVE  c' \in Cycles /\ CycleOK'
<1>1. c.todo # {} /\ c.o \in OptionSets /\ c.todo \ {name} \subseteq DOMAIN live /\ TypeOK
    BY DEF TypeInv, CycleOK
<1>2. CASE c' \in Cycles /\ c'.pc = "idle"
    BY <1>2, EndsOK
<1>3. CASE c' \in Cycles /\ c'.pc = "file" /\ c'.todo = c.todo \ {name} /\ c'.todo # {} /\ c'.o = c.o
    BY <1>1, <1>3 DEF CycleOK
<1>. QED
    BY <1>1, <1>2, <1>3, NextPartitionStep

LEMMA UploadTypes ==
    ASSUME TypeInv, Upload
    PROVE  TypeInv'
<1>0. /\ Tables /\ c \in Cycles /\ CycleOK /\ c.pc = "upload" /\ c.deferred + 1 \in Nat
      /\ name \in c.todo /\ name \in Parts /\ c.todo \subseteq DOMAIN live
      /\ name \in DOMAIN file /\ name \in DOMAIN state
    BY TablesTyped DEF Upload, At, CycleOK, Cycles
<1>1. UNCHANGED <<index, file, state, late, capture, crashes>> /\ UNCHANGED live
    BY DEF Upload, At, index
<1>2. CASE Goto("check") /\ UNCHANGED s3
    <2>1. c' \in Cycles /\ c'.pc = "check" /\ c'.todo = c.todo /\ c'.o = c.o
        BY <1>0, <1>2 DEF Goto, Cycles, PCs
    <2>2. CycleOK' /\ Tables'
        BY <1>0, <1>1, <1>2, <2>1 DEF CycleOK, Tables, index, name
    <2>. QED
        BY <1>1, <2>1, <2>2, StepTyped
<1>3. CASE s3' = With(s3, name, file[name]) /\ Goto("mark")
    <2>1. c' \in Cycles /\ c'.pc = "mark" /\ c'.todo = c.todo /\ c'.o = c.o
        BY <1>0, <1>3 DEF Goto, Cycles, PCs
    <2>2. /\ DOMAIN s3' = DOMAIN s3 \cup {name}
          /\ s3' \in [DOMAIN s3' -> SUBSET Rows]
        <3>1. file[name] \in SUBSET Rows /\ s3 \in [DOMAIN s3 -> SUBSET Rows]
            BY <1>0 DEF Tables
        <3>. QED
            BY <1>3, <3>1 DEF With
    <2>3. CycleOK'
        BY <1>0, <1>1, <2>1 DEF CycleOK, index, name
    <2>4. Tables'
        BY <1>0, <1>1, <2>2 DEF Tables, index
    <2>. QED
        BY <1>1, <2>1, <2>3, <2>4, StepTyped
<1>4. CASE (NextPartition(c.deferred + 1) \/ Failed) /\ UNCHANGED s3
    <2>1. Tables'
        BY <1>0, <1>1, <1>4 DEF Tables, index
    <2>2. c' \in Cycles /\ CycleOK'
        BY <1>0, <1>1, <1>4, GoesOnOK, FailedStep, EndsOK
    <2>. QED
        BY <1>1, <2>1, <2>2, StepTyped
<1>. QED
    BY <1>2, <1>3, <1>4 DEF Upload

LEMMA MarkTypes ==
    ASSUME TypeInv, MarkUploaded
    PROVE  TypeInv'
<1>0. /\ Tables /\ c \in Cycles /\ CycleOK /\ c.pc = "mark"
      /\ name \in c.todo /\ name \in Parts /\ c.todo \subseteq DOMAIN live
      /\ name \in DOMAIN file /\ name \in DOMAIN state
    BY TablesTyped DEF MarkUploaded, At, CycleOK
<1>1. UNCHANGED <<index, file, s3, late, capture, crashes>>
    BY DEF MarkUploaded, At
<1>2. CASE state' = [state EXCEPT ![name] = [@ EXCEPT !.key = TRUE, !.uploaded = TRUE]] /\ Goto("check")
    <2>1. c' \in Cycles /\ c'.pc = "check" /\ c'.todo = c.todo /\ c'.o = c.o
        BY <1>0, <1>2 DEF Goto, Cycles, PCs
    <2>2. /\ DOMAIN state' = DOMAIN state
          /\ state' \in [DOMAIN state' -> [count : Nat, key : BOOLEAN, uploaded : BOOLEAN]]
        BY <1>0, <1>2 DEF Tables
    <2>3. CycleOK'
        BY <1>0, <1>1, <2>1, <2>2 DEF CycleOK, index, name
    <2>4. Tables'
        BY <1>0, <1>1, <2>2 DEF Tables, index
    <2>. QED
        BY <1>1, <2>1, <2>3, <2>4, StepTyped
<1>3. CASE Failed /\ UNCHANGED state
    <2>1. Tables' /\ CycleOK'
        BY <1>0, <1>1, <1>3, FailedStep DEF Tables, CycleOK, index
    <2>. QED
        BY <1>1, <1>3, <2>1, FailedStep, StepTyped
<1>. QED
    BY <1>2, <1>3 DEF MarkUploaded

LEMMA CheckTypes ==
    ASSUME TypeInv, CheckBeforeDrop
    PROVE  TypeInv'
<1>0. /\ Tables /\ c \in Cycles /\ CycleOK /\ c.pc = "check" /\ c.deferred + 1 \in Nat
      /\ name \in c.todo /\ name \in Parts /\ c.todo \subseteq DOMAIN live
      /\ name \in DOMAIN file /\ name \in DOMAIN state
    BY TablesTyped DEF CheckBeforeDrop, At, CycleOK, Cycles
<1>1. UNCHANGED <<live, file, s3, state, late, capture, crashes>> /\ UNCHANGED live
    BY DEF CheckBeforeDrop, At, archives
<1>2. CASE (NextPartition(c.deferred + 1) \/ Failed) /\ UNCHANGED below
    <2>1. Tables'
        BY <1>0, <1>1, <1>2 DEF Tables
    <2>2. c' \in Cycles /\ CycleOK'
        BY <1>0, <1>1, <1>2, GoesOnOK, FailedStep, EndsOK
    <2>. QED
        BY <1>1, <2>1, <2>2, StepTyped
<1>3. CASE /\ c' = [c EXCEPT !.pc = "drop", !.attempt = 1, !.counted = live[name]]
           /\ MarkPartitionsDropped({name})
    <2>1. live[name] \in SUBSET Rows /\ 1 \in 0 .. Attempts
        BY <1>0, RotationAssumption DEF Tables
    <2>2. c' \in Cycles /\ c'.pc = "drop" /\ c'.todo = c.todo /\ c'.o = c.o
        BY <1>0, <1>3, <2>1 DEF Cycles, PCs
    <2>3. below' \in 0 .. Expired
        BY <1>0, <1>3, MarkStep DEF TypeInv
    <2>4. CycleOK' /\ Tables'
        BY <1>0, <1>1, <2>2, <2>3 DEF CycleOK, Tables, name
    <2>. QED
        BY <1>1, <2>2, <2>4, StepTyped
<1>4. CASE Goto("discard") /\ UNCHANGED below
    <2>1. c' \in Cycles /\ c'.pc = "discard" /\ c'.todo = c.todo /\ c'.o = c.o
        BY <1>0, <1>4 DEF Goto, Cycles, PCs
    <2>2. CycleOK' /\ Tables'
        BY <1>0, <1>1, <1>4, <2>1 DEF CycleOK, Tables, name
    <2>. QED
        BY <1>1, <2>1, <2>2, StepTyped
<1>. QED
    BY <1>2, <1>3, <1>4 DEF CheckBeforeDrop

LEMMA RecountTypes ==
    ASSUME TypeInv, Recount
    PROVE  TypeInv'
<1>0. /\ Tables /\ c \in Cycles /\ CycleOK /\ c.pc = "recount"
      /\ name \in c.todo /\ name \in Parts /\ c.todo \subseteq DOMAIN live
      /\ name \in DOMAIN file /\ name \in DOMAIN state
    BY TablesTyped DEF Recount, At, CycleOK
<1>1. UNCHANGED <<live, below, file, s3, state, late, capture, crashes>>
    BY DEF Recount, At, archives, index
<1>2. Tables'
    BY <1>0, <1>1 DEF Tables
<1>3. CASE c' = [c EXCEPT !.pc = "drop", !.attempt = @ + 1, !.counted = live[name]]
    <2>0. c.attempt + 1 \in 0 .. Attempts
        <3>1. c.attempt \in 0 .. Attempts
            BY <1>0 DEF Cycles
        <3>2. c.attempt < Attempts
            BY <1>0 DEF CycleOK
        <3>. QED
            BY <3>1, <3>2, RotationAssumption
    <2>1. live[name] \in SUBSET Rows /\ c.attempt + 1 \in 0 .. Attempts
        BY <1>0, <2>0 DEF Tables
    <2>2. c' \in Cycles /\ c'.pc = "drop" /\ c'.todo = c.todo /\ c'.o = c.o
        BY <1>0, <1>3, <2>1 DEF Cycles, PCs
    <2>3. CycleOK'
        BY <1>0, <1>1, <2>2 DEF CycleOK, name
    <2>. QED
        BY <1>1, <1>2, <2>2, <2>3, StepTyped
<1>4. CASE Goto("discard")
    <2>1. c' \in Cycles /\ c'.pc = "discard" /\ c'.todo = c.todo /\ c'.o = c.o
        BY <1>0, <1>4 DEF Goto, Cycles, PCs
    <2>2. CycleOK'
        BY <1>0, <1>1, <2>1 DEF CycleOK, name
    <2>. QED
        BY <1>1, <1>2, <2>1, <2>2, StepTyped
<1>5. CASE Failed
    BY <1>1, <1>2, <1>5, FailedStep, EndsOK, StepTyped
<1>. QED
    BY <1>3, <1>4, <1>5 DEF Recount

LEMMA DiscardTypes ==
    ASSUME TypeInv, DiscardStaleArchive
    PROVE  TypeInv'
<1>0. /\ Tables /\ c \in Cycles /\ c.pc = "discard" /\ c.deferred + 1 \in Nat
    BY TablesTyped DEF DiscardStaleArchive, At, Cycles
<1>1. UNCHANGED <<live, below, s3, late, capture, crashes>> /\ UNCHANGED live
    BY DEF DiscardStaleArchive, At, index
<1>2. /\ DOMAIN file' \subseteq Parts /\ file' \in [DOMAIN file' -> SUBSET Rows]
      /\ DOMAIN state' \subseteq Parts
      /\ state' \in [DOMAIN state' -> [count : Nat, key : BOOLEAN, uploaded : BOOLEAN]]
    BY <1>0 DEF DiscardStaleArchive, Discarded, Without, Restrict, Tables
<1>3. Tables'
    BY <1>0, <1>1, <1>2 DEF Tables
<1>4. c' \in Cycles /\ CycleOK'
    BY <1>0, <1>1, GoesOnOK, FailedStep, EndsOK DEF DiscardStaleArchive
<1>. QED
    BY <1>1, <1>3, <1>4, StepTyped

\* What the ALTER leaves of the table.
LEMMA DropNowStep ==
    ASSUME Tables, NEW ps \in SUBSET Parts, DropNow(ps)
    PROVE  /\ DOMAIN live' = DOMAIN live \ ps
           /\ live' \in [DOMAIN live' -> SUBSET Rows]
           /\ DOMAIN live' \subseteq 1 .. Expired + 1 /\ Expired + 1 \in DOMAIN live'
           /\ \A q \in DOMAIN live' : live'[q] = live[q]
<1>1. Expired + 1 \notin ps
    BY RotationAssumption DEF Parts
<1>. QED
    BY <1>1 DEF DropNow, Restrict, Tables

LEMMA DropTypes ==
    ASSUME TypeInv, DropPartition
    PROVE  TypeInv'
<1>0. /\ Tables /\ c \in Cycles /\ CycleOK /\ c.pc = "drop" /\ c.deferred + Cardinality(c.todo) \in Nat
      /\ name \in c.todo /\ name \in Parts /\ c.todo \subseteq DOMAIN live
      /\ name \in DOMAIN file /\ name \in DOMAIN state
    BY TablesTyped, RowsFinite DEF DropPartition, At, CycleOK, Cycles
<1>1. UNCHANGED <<below, file, s3, state, capture, crashes>>
    BY DEF DropPartition, At, archives
<1>2. CASE DropNow({name}) /\ late' = late \cup (live[name] \ c.counted) /\ (Goto("prune") \/ Failed)
    <2>1. DOMAIN live' = DOMAIN live \ {name}
        BY <1>0, <1>2, DropNowStep
    <2>2. Tables'
        <3>1. live[name] \in SUBSET Rows
            BY <1>0 DEF Tables
        <3>2. late' \subseteq Rows
            BY <1>0, <1>2, <3>1 DEF Tables
        <3>. QED
            BY <1>0, <1>1, <1>2, <3>2, DropNowStep DEF Tables
    <2>3. CASE Goto("prune")
        <3>1. c' \in Cycles /\ c'.pc = "prune" /\ c'.todo = c.todo /\ c'.o = c.o
            BY <1>0, <2>3 DEF Goto, Cycles, PCs
        <3>2. CycleOK'
            BY <1>0, <2>1, <3>1 DEF CycleOK, name
        <3>. QED
            BY <1>1, <2>2, <3>1, <3>2, StepTyped
    <2>. QED
        BY <1>1, <1>2, <2>2, <2>3, FailedStep, EndsOK, StepTyped
<1>3. CASE UNCHANGED <<live, late>> /\ (Failed \/ Ended(c.deferred + Cardinality(c.todo)))
    <2>1. Tables'
        BY <1>0, <1>1, <1>3 DEF Tables
    <2>. QED
        BY <1>0, <1>1, <1>3, <2>1, FailedStep, EndedStep, EndsOK, StepTyped
<1>4. CASE UNCHANGED <<live, late>> /\ c.attempt < Attempts /\ Goto("recount")
    <2>1. c' \in Cycles /\ c'.pc = "recount" /\ c'.todo = c.todo /\ c'.o = c.o /\ c'.attempt = c.attempt
        BY <1>0, <1>4 DEF Goto, Cycles, PCs
    <2>2. CycleOK' /\ Tables'
        BY <1>0, <1>1, <1>4, <2>1 DEF CycleOK, Tables, name
    <2>. QED
        BY <1>1, <2>1, <2>2, StepTyped
<1>. QED
    BY <1>2, <1>3, <1>4 DEF DropPartition

LEMMA PruneTypes ==
    ASSUME TypeInv, PruneLocal
    PROVE  TypeInv'
<1>0. Tables /\ c \in Cycles /\ c.pc = "prune" /\ c.deferred \in Nat
    BY TablesTyped DEF PruneLocal, At, Cycles
<1>1. UNCHANGED <<live, below, s3, state, late, capture, crashes>> /\ UNCHANGED live
    BY DEF PruneLocal, At, index
<1>2. DOMAIN file' \subseteq Parts /\ file' \in [DOMAIN file' -> SUBSET Rows]
    BY <1>0 DEF PruneLocal, Without, Restrict, Tables
<1>3. Tables'
    BY <1>0, <1>1, <1>2 DEF Tables
<1>4. c' \in Cycles /\ CycleOK'
    BY <1>0, <1>1, GoesOnOK DEF PruneLocal
<1>. QED
    BY <1>1, <1>3, <1>4, StepTyped

LEMMA FilterTypes ==
    ASSUME TypeInv, FilterToDrop
    PROVE  TypeInv'
<1>. DEFINE may == {q \in c.todo : MayDrop(q)}
            left == Cardinality(c.todo \ may)
<1>0. /\ Tables /\ c \in Cycles /\ CycleOK /\ c.pc = "filter"
      /\ c.todo \in SUBSET Parts /\ c.todo \subseteq DOMAIN live /\ c.o \in OptionSets
    BY TablesTyped DEF FilterToDrop, At, CycleOK, Cycles
<1>1. UNCHANGED <<live, file, s3, state, late, capture, crashes>>
    BY DEF FilterToDrop, At, archives
<1>2. left \in Nat /\ may \in SUBSET Parts /\ may \subseteq c.todo
    <2>1. c.todo \ may \in SUBSET Parts
        BY <1>0
    <2>. QED
        BY <1>0, <2>1, RowsFinite
<1>. HIDE DEF left, may
<1>3. CASE (Ended(left) \/ Failed) /\ UNCHANGED below
    <2>1. Tables'
        BY <1>0, <1>1, <1>3 DEF Tables
    <2>. QED
        BY <1>1, <1>2, <1>3, <2>1, EndedStep, FailedStep, EndsOK, StepTyped
<1>4. CASE /\ may # {} /\ MarkPartitionsDropped(may)
           /\ c' = [c EXCEPT !.pc = "dropall", !.todo = may, !.deferred = left]
    <2>1. c' \in Cycles /\ c'.pc = "dropall" /\ c'.todo = may /\ c'.o = c.o
        BY <1>0, <1>2, <1>4 DEF Cycles, PCs
    <2>2. below' \in 0 .. Expired
        BY <1>2, <1>4, MarkStep DEF TypeInv
    <2>3. CycleOK' /\ Tables'
        BY <1>0, <1>1, <1>2, <1>4, <2>1, <2>2 DEF CycleOK, Tables
    <2>. QED
        BY <1>1, <2>1, <2>3, StepTyped
<1>. QED
    BY <1>3, <1>4 DEF FilterToDrop, may, left

LEMMA DropAllTypes ==
    ASSUME TypeInv, DropAll
    PROVE  TypeInv'
<1>0. /\ Tables /\ c \in Cycles /\ c.todo \in SUBSET Parts
      /\ c.deferred \in Nat /\ c.deferred + Cardinality(c.todo) \in Nat
    BY TablesTyped, RowsFinite DEF Cycles
<1>1. UNCHANGED <<below, file, s3, state, late, capture, crashes>>
    BY DEF DropAll, At, archives
<1>2. Tables'
    BY <1>0, <1>1, DropNowStep DEF Tables, DropAll
<1>3. c' \in Cycles /\ c'.pc = "idle"
    BY <1>0, EndedStep, FailedStep DEF DropAll
<1>. QED
    BY <1>1, <1>2, <1>3, EndsOK, StepTyped

LEMMA CrashTypes ==
    ASSUME TypeInv, Crash
    PROVE  TypeInv'
<1>0. Tables
    BY TablesTyped
<1>1. UNCHANGED <<live, below, s3, state, late, capture>>
    BY DEF Crash, index, capture
<1>2. DOMAIN file' \subseteq Parts /\ file' \in [DOMAIN file' -> SUBSET Rows]
    <2>1. CASE file' = file
        BY <1>0, <2>1 DEF Tables
    <2>2. CASE file' = << >>
        BY <2>2
    <2>. QED
        BY <2>1, <2>2, Zenon DEF Crash
<1>3. Tables'
    BY <1>0, <1>1, <1>2 DEF Tables
<1>4. c' \in Cycles /\ c'.pc = "idle"
    BY IdleTyped DEF Crash
<1>5. crashes' \in Nat
    BY DEF Crash, TypeInv, TypeOK
<1>6. TypeOK'
    BY <1>1, <1>3, <1>4, <1>5 DEF TypeInv, TypeOK, Tables, Cycles, capture
<1>. QED
    BY <1>4, <1>6, EndsOK DEF TypeInv

LEMMA TypeStep ==
    ASSUME TypeInv, [Next]_vars
    PROVE  TypeInv'
<1>1. CASE UNCHANGED vars
    BY <1>1 DEF TypeInv, TypeOK, CycleOK, name, vars
<1>. QED
    BY <1>1, CaptureTypes, CrashTypes, StartTypes, ArchiveTypes, RecordTypes, UploadTypes, MarkTypes,
       CheckTypes, RecountTypes, DiscardTypes, DropTypes, PruneTypes, FilterTypes, DropAllTypes
       DEF Next, Step

\* Whatever the partitions, the rows, the options and the failures: the
\* variables keep their types and no partition that has not expired is
\* dropped (the cutoff of Perform).
THEOREM RotationTypes == Spec => []TypeOK
<1>1. Spec => []TypeInv
    BY TypeInit, TypeStep, PTL DEF Spec
<1>2. TypeInv => TypeOK
    BY DEF TypeInv
<1>. QED
    BY <1>1, <1>2, PTL

-----------------------------------------------------------------------------
(***************************************************************************)
(* The drops: what is marked, what is held, and what a healthy cycle has   *)
(* done.                                                                   *)
(***************************************************************************)
MarkInv ==
    /\ DropsAreRecorded
    /\ c.pc \in {"drop", "recount"} => name <= below
    /\ c.pc = "dropall" => \A q \in c.todo : q <= below

HoldInv ==
    /\ c.pc \in {"drop", "recount"} => ~pendingS3Upload(name)
    /\ c.pc = "dropall" => \A q \in c.todo : ~pendingS3Upload(q)

HealthInv ==
    /\ HealthyMeansDropped
    /\ c.pc # "idle" => c.result # "healthy"
    /\ c.pc # "idle" /\ c.deferred = 0 => DOMAIN live \cap Parts \subseteq c.todo
    /\ c.pc = "filter" => c.deferred = 0

DropInv == TypeInv /\ MarkInv /\ HoldInv /\ HealthInv

LEMMA DropInit == Init => DropInv
<1>1. SUFFICES ASSUME Init PROVE DropInv
    OBVIOUS
<1>2. c.pc = "idle" /\ c.result = "none"
    BY <1>1, IdleTyped DEF Init
<1>3. DOMAIN live = 1 .. Expired + 1 /\ Parts \ DOMAIN live = {}
    BY <1>1, RotationAssumption DEF Init, Parts
<1>. QED
    BY <1>1, <1>2, <1>3, TypeInit DEF DropInv, MarkInv, HoldInv, HealthInv, DropsAreRecorded, HealthyMeansDropped

\* A step that drops nothing, lowers no mark and does not come to a drop.
LEMMA CalmDrops ==
    ASSUME DropInv, TypeInv', DOMAIN live' = DOMAIN live, UNCHANGED below,
           c'.pc \notin {"drop", "recount", "dropall"},
           c'.pc # "idle" => c'.result # "healthy",
           c'.result = "healthy" => DOMAIN live \cap Parts = {},
           c'.pc # "idle" /\ c'.deferred = 0 => DOMAIN live \cap Parts \subseteq c'.todo,
           c'.pc = "filter" => c'.deferred = 0
    PROVE  DropInv'
BY DEF DropInv, MarkInv, HoldInv, HealthInv, DropsAreRecorded, HealthyMeansDropped

\* A cycle that fails has dropped nothing by that.
LEMMA FailedDrops ==
    ASSUME DropInv, TypeInv', DOMAIN live' = DOMAIN live, UNCHANGED below, Failed
    PROVE  DropInv'
BY FailedStep, CalmDrops

\* A cycle that leaves the partition at hand counts it.
LEMMA LeftDrops ==
    ASSUME DropInv, TypeInv', DOMAIN live' = DOMAIN live, UNCHANGED below,
           c.pc # "idle", NextPartition(c.deferred + 1)
    PROVE  DropInv'
<1>1. TypeOK /\ c.todo # {} /\ c.deferred \in Nat /\ c.result # "healthy"
    BY TablesTyped DEF DropInv, TypeInv, CycleOK, HealthInv, Cycles
<1>2. c.deferred + 1 \in Nat /\ c.deferred + 1 # 0
    BY <1>1
<1>3. /\ c'.pc \in {"idle", "file"} /\ c'.result # "healthy"
      /\ c'.pc = "file" => c'.deferred # 0
    BY <1>1, <1>2, NextPartitionStep
<1>. QED
    BY <1>3, CalmDrops

LEMMA CaptureDrops ==
    ASSUME DropInv, TypeInv', Insert \/ Commit \/ Cleanup
    PROVE  DropInv'
<1>1. c' = c /\ DOMAIN live' = DOMAIN live /\ UNCHANGED <<state, below>>
    BY DEF Insert, Commit, Cleanup, index, archives, DropInv, TypeInv, TypeOK
<1>. QED
    BY <1>1 DEF DropInv, MarkInv, HoldInv, HealthInv, DropsAreRecorded, HealthyMeansDropped, name,
                pendingS3Upload

LEMMA StartDrops ==
    ASSUME DropInv, TypeInv', StartCycle
    PROVE  DropInv'
<1>1. PICK o \in OptionSets :
          c' = [Idle("none") EXCEPT !.pc = IF o.dir THEN "file" ELSE "filter", !.o = o, !.todo = ToDrop]
    BY DEF StartCycle
<1>2. c'.pc \in {"file", "filter"} /\ c'.result = "none" /\ c'.deferred = 0 /\ c'.todo = DOMAIN live \cap Parts
    <2>1. (IF o.dir THEN "file" ELSE "filter") \in {"file", "filter"}
        OBVIOUS
    <2>. QED
        BY <1>1, <2>1 DEF Idle, ToDrop
<1>3. UNCHANGED <<live, below>>
    BY DEF StartCycle, index
<1>. QED
    BY <1>2, <1>3, CalmDrops

\* The steps that archive, upload and clear away.
LEMMA ArchiveDrops ==
    ASSUME DropInv, TypeInv',
           ArchivePartition \/ RecordArchive \/ Upload \/ MarkUploaded \/ DiscardStaleArchive
    PROVE  DropInv'
<1>1. UNCHANGED <<live, below>> /\ c.pc # "idle"
    BY DEF ArchivePartition, RecordArchive, Upload, MarkUploaded, DiscardStaleArchive, index, At
<1>2. CASE Failed
    BY <1>1, <1>2, FailedDrops
<1>3. CASE NextPartition(c.deferred + 1)
    BY <1>1, <1>3, LeftDrops
<1>4. CASE \E pc \in {"record", "upload", "mark", "check"} : Goto(pc)
    <2>1. PICK pc \in {"record", "upload", "mark", "check"} : Goto(pc)
        BY <1>4
    <2>2. c \in Cycles
        BY TablesTyped DEF DropInv
    <2>3. c'.pc = pc /\ c'.todo = c.todo /\ c'.deferred = c.deferred /\ c'.result = c.result
        BY <2>1, <2>2 DEF Goto, Cycles
    <2>. QED
        BY <1>1, <2>3, CalmDrops DEF DropInv, HealthInv
<1>. QED
    BY <1>2, <1>3, <1>4 DEF ArchivePartition, RecordArchive, Upload, MarkUploaded, DiscardStaleArchive

\* The last checks before the drop.
LEMMA CheckDrops ==
    ASSUME DropInv, TypeInv', CheckBeforeDrop \/ Recount
    PROVE  DropInv'
<1>0. /\ c \in Cycles /\ c.pc \in {"check", "recount"} /\ c.result # "healthy" /\ c.todo # {}
      /\ name \in Parts /\ TypeOK /\ c.pc # "idle"
      /\ below \in Nat /\ \A q \in Parts : q \in Nat
    BY TablesTyped, RotationAssumption
       DEF CheckBeforeDrop, Recount, At, DropInv, HealthInv, TypeInv, CycleOK, Tables, Parts
<1>1. UNCHANGED <<live, state>>
    BY DEF CheckBeforeDrop, Recount, archives, index
<1>2. CASE Failed /\ UNCHANGED below
    BY <1>1, <1>2, FailedDrops
<1>3. CASE NextPartition(c.deferred + 1) /\ UNCHANGED below
    BY <1>0, <1>1, <1>3, LeftDrops
<1>4. CASE Goto("discard") /\ UNCHANGED below
    <2>1. c'.pc = "discard" /\ c'.todo = c.todo /\ c'.deferred = c.deferred /\ c'.result = c.result
        BY <1>0, <1>4 DEF Goto, Cycles
    <2>. QED
        BY <1>0, <1>1, <1>4, <2>1, CalmDrops DEF DropInv, HealthInv
<1>5. CASE /\ \E n \in Nat : c' = [c EXCEPT !.pc = "drop", !.attempt = n, !.counted = live[name]]
           /\ ~pendingS3Upload(name) /\ below <= below' /\ name <= below' /\ below' \in Nat
    <2>1. c'.pc = "drop" /\ c'.todo = c.todo /\ c'.deferred = c.deferred /\ c'.result = c.result
        BY <1>0, <1>5 DEF Cycles
    <2>2. MarkInv'
        BY <1>0, <1>1, <1>5, <2>1 DEF DropInv, MarkInv, DropsAreRecorded, name
    <2>3. HoldInv' /\ HealthInv'
        BY <1>0, <1>1, <1>5, <2>1
           DEF DropInv, HoldInv, HealthInv, HealthyMeansDropped, name, pendingS3Upload
    <2>. QED
        BY <2>2, <2>3 DEF DropInv
<1>6. CASE /\ c' = [c EXCEPT !.pc = "drop", !.attempt = 1, !.counted = live[name]]
           /\ ~pendingS3Upload(name) /\ MarkPartitionsDropped({name})
    <2>1. below <= below' /\ name <= below' /\ below' \in Nat
        <3>1. {name} \in SUBSET Parts
            BY <1>0
        <3>2. /\ below' \in 0 .. Expired /\ below <= below'
              /\ \A q \in {name} : q <= below'
            BY <1>0, <1>6, <3>1, MarkStep
        <3>. QED
            BY <3>2, RotationAssumption
    <2>. QED
        BY <1>5, <1>6, <2>1
<1>7. CASE /\ c.pc = "recount" /\ UNCHANGED below
           /\ c' = [c EXCEPT !.pc = "drop", !.attempt = @ + 1, !.counted = live[name]]
    <2>1. c.attempt + 1 \in Nat /\ c' = [c EXCEPT !.pc = "drop", !.attempt = c.attempt + 1, !.counted = live[name]]
        BY <1>0, <1>7, RotationAssumption DEF Cycles
    <2>. QED
        <3>1. name <= below /\ ~pendingS3Upload(name)
            BY <1>7 DEF DropInv, MarkInv, HoldInv
        <3>2. below <= below' /\ name <= below' /\ below' \in Nat
            BY <1>0, <1>7, <3>1
        <3>. QED
            BY <1>5, <2>1, <3>1, <3>2
<1>. QED
    BY <1>2, <1>3, <1>4, <1>6, <1>7 DEF CheckBeforeDrop, Recount, At, index

\* The ALTER: what it drops is marked.
LEMMA DropDrops ==
    ASSUME DropInv, TypeInv', DropPartition
    PROVE  DropInv'
<1>0. /\ Tables /\ c \in Cycles /\ c.pc = "drop" /\ c.result # "healthy" /\ c.todo # {}
      /\ name \in Parts /\ name <= below /\ ~pendingS3Upload(name) /\ name \in DOMAIN live
    BY TablesTyped DEF DropPartition, At, DropInv, HealthInv, MarkInv, HoldInv, TypeInv, CycleOK
<1>1. UNCHANGED <<below, state>>
    BY DEF DropPartition, archives
<1>2. CASE DropNow({name}) /\ (Goto("prune") \/ Failed)
    <2>1. DOMAIN live' = DOMAIN live \ {name}
        BY <1>0, <1>2, DropNowStep
    <2>2. DropsAreRecorded'
        BY <1>0, <1>1, <2>1, RotationAssumption DEF DropInv, MarkInv, DropsAreRecorded, Parts, Tables
    <2>3. CASE Failed
        BY <2>2, <2>3, FailedStep DEF DropInv, MarkInv, HoldInv, HealthInv, HealthyMeansDropped
    <2>4. CASE Goto("prune")
        <3>1. c'.pc = "prune" /\ c'.todo = c.todo /\ c'.deferred = c.deferred /\ c'.result = c.result
            BY <1>0, <2>4 DEF Goto, Cycles
        <3>. QED
            BY <1>0, <2>1, <2>2, <3>1 DEF DropInv, MarkInv, HoldInv, HealthInv, HealthyMeansDropped
    <2>. QED
        BY <1>2, <2>3, <2>4
<1>3. CASE UNCHANGED live /\ Failed
    BY <1>1, <1>3, FailedDrops
<1>4. CASE UNCHANGED live /\ Ended(c.deferred + Cardinality(c.todo))
    <2>1. c.deferred + Cardinality(c.todo) \in Nat /\ c.deferred + Cardinality(c.todo) # 0
        <3>1. c.todo \in SUBSET Parts /\ c.deferred \in Nat
            BY <1>0 DEF Cycles
        <3>2. IsFiniteSet(c.todo) /\ Cardinality(c.todo) \in Nat
            BY <3>1, RowsFinite
        <3>3. Cardinality(c.todo) # 0
            BY <1>0, <3>2, FS_EmptySet
        <3>. QED
            BY <3>1, <3>2, <3>3
    <2>2. c'.pc = "idle" /\ c'.result # "healthy"
        BY <1>4, <2>1, EndedStep
    <2>. QED
        BY <1>1, <1>4, <2>2, CalmDrops
<1>5. CASE UNCHANGED live /\ Goto("recount")
    <2>1. c'.pc = "recount" /\ c'.todo = c.todo /\ c'.deferred = c.deferred /\ c'.result = c.result
        BY <1>0, <1>5 DEF Goto, Cycles
    <2>. QED
        BY <1>0, <1>1, <1>5, <2>1
           DEF DropInv, MarkInv, HoldInv, HealthInv, DropsAreRecorded, HealthyMeansDropped, name, pendingS3Upload
<1>. QED
    BY <1>2, <1>3, <1>4, <1>5 DEF DropPartition

\* After the drop the cycle goes on with what it has left in place.
LEMMA PruneDrops ==
    ASSUME DropInv, TypeInv', PruneLocal
    PROVE  DropInv'
<1>0. /\ c \in Cycles /\ c.pc = "prune" /\ c.result # "healthy" /\ c.todo # {} /\ TypeOK
      /\ name \notin DOMAIN live /\ c.deferred \in Nat
      /\ c.deferred = 0 => DOMAIN live \cap Parts \subseteq c.todo
    BY TablesTyped DEF PruneLocal, At, DropInv, HealthInv, TypeInv, CycleOK, Cycles
<1>1. UNCHANGED <<live, below>> /\ NextPartition(c.deferred)
    BY DEF PruneLocal, index
<1>2. /\ c'.pc \in {"idle", "file"}
      /\ c'.pc = "file" => c'.result # "healthy"
      /\ c'.pc = "file" /\ c'.deferred = 0 => DOMAIN live \cap Parts \subseteq c'.todo
      /\ c'.result = "healthy" => DOMAIN live \cap Parts = {}
    BY <1>0, <1>1, NextPartitionStep
<1>. QED
    BY <1>1, <1>2, CalmDrops

\* A cycle without an archive directory: what it may drop, and the drop.
LEMMA FilterDrops ==
    ASSUME DropInv, TypeInv', FilterToDrop
    PROVE  DropInv'
<1>. DEFINE may == {q \in c.todo : MayDrop(q)}
            left == Cardinality(c.todo \ may)
<1>0. /\ Tables /\ c \in Cycles /\ c.pc = "filter" /\ c.result # "healthy" /\ c.todo # {} /\ TypeOK
      /\ c.todo \in SUBSET Parts /\ c.deferred \in Nat
      /\ DOMAIN live \cap Parts \subseteq c.todo
    BY TablesTyped DEF FilterToDrop, At, DropInv, HealthInv, TypeInv, CycleOK, Cycles
<1>1. UNCHANGED <<live, state>>
    BY DEF FilterToDrop, archives
<1>2. /\ may \in SUBSET Parts /\ may \subseteq c.todo /\ left \in Nat
      /\ left = 0 => c.todo = may
    <2>1. c.todo \ may \in SUBSET Parts
        BY <1>0
    <2>2. left \in Nat /\ IsFiniteSet(c.todo \ may)
        BY <2>1, RowsFinite
    <2>3. left = 0 => c.todo \ may = {}
        BY <2>2, FS_EmptySet
    <2>. QED
        BY <1>0, <2>2, <2>3
<1>3. \A q \in may : ~pendingS3Upload(q)
    BY DEF MayDrop
<1>. HIDE DEF left, may
<1>4. CASE Failed /\ UNCHANGED below
    BY <1>1, <1>4, FailedDrops
<1>5. CASE may = {} /\ Ended(left) /\ UNCHANGED below
    <2>1. c'.pc = "idle" /\ c'.result # "healthy"
        BY <1>0, <1>2, <1>5, EndedStep
    <2>. QED
        BY <1>1, <1>5, <2>1, CalmDrops
<1>6. CASE /\ MarkPartitionsDropped(may)
           /\ c' = [c EXCEPT !.pc = "dropall", !.todo = may, !.deferred = left]
    <2>1. c'.pc = "dropall" /\ c'.todo = may /\ c'.deferred = left /\ c'.result = c.result
        BY <1>0, <1>6 DEF Cycles
    <2>2. below' \in 0 .. Expired /\ below <= below' /\ \A q \in may : q <= below'
        BY <1>0, <1>2, <1>6, MarkStep
    <2>3. MarkInv'
        BY <1>0, <1>1, <2>1, <2>2, RotationAssumption DEF DropInv, MarkInv, DropsAreRecorded, Tables, Parts
    <2>4. HoldInv'
        BY <1>1, <1>3, <2>1 DEF HoldInv, pendingS3Upload
    <2>5. left = 0 => c.todo = may /\ DOMAIN live \cap Parts \subseteq may
        BY <1>0, <1>2
    <2>6. HealthInv'
        BY <1>0, <1>1, <2>1, <2>5 DEF DropInv, HealthInv, HealthyMeansDropped
    <2>. QED
        BY <2>3, <2>4, <2>6 DEF DropInv
<1>. QED
    BY <1>4, <1>5, <1>6 DEF FilterToDrop, may, left

LEMMA DropAllDrops ==
    ASSUME DropInv, TypeInv', DropAll
    PROVE  DropInv'
<1>0. /\ Tables /\ c \in Cycles /\ c.pc = "dropall" /\ c.todo # {}
      /\ c.todo \in SUBSET Parts /\ c.deferred \in Nat
      /\ c.deferred = 0 => DOMAIN live \cap Parts \subseteq c.todo
      /\ \A q \in c.todo : q <= below
    BY TablesTyped DEF DropAll, At, DropInv, HealthInv, MarkInv, TypeInv, CycleOK, Cycles
<1>1. UNCHANGED below
    BY DEF DropAll
<1>2. IsFiniteSet(c.todo) /\ Cardinality(c.todo) \in Nat /\ Cardinality(c.todo) # 0
    <2>1. IsFiniteSet(c.todo) /\ Cardinality(c.todo) \in Nat
        BY <1>0, RowsFinite
    <2>. QED
        BY <1>0, <2>1, FS_EmptySet
<1>3. CASE DropNow(c.todo) /\ (Ended(c.deferred) \/ Failed)
    <2>1. DOMAIN live' = DOMAIN live \ c.todo
        BY <1>0, <1>3, DropNowStep
    <2>2. DropsAreRecorded'
        BY <1>0, <1>1, <2>1, RotationAssumption DEF DropInv, MarkInv, DropsAreRecorded, Parts, Tables
    <2>3. c'.pc = "idle" /\ (c'.result = "healthy" => c.deferred = 0)
        BY <1>0, <1>3, EndedStep, FailedStep
    <2>4. HealthyMeansDropped'
        BY <1>0, <2>1, <2>3 DEF HealthyMeansDropped
    <2>. QED
        BY <2>2, <2>3, <2>4 DEF DropInv, MarkInv, HoldInv, HealthInv
<1>4. CASE UNCHANGED live /\ (Ended(c.deferred + Cardinality(c.todo)) \/ Failed)
    <2>1. c.deferred + Cardinality(c.todo) \in Nat /\ c.deferred + Cardinality(c.todo) # 0
        BY <1>0, <1>2
    <2>2. c'.pc = "idle" /\ c'.result # "healthy"
        BY <1>4, <2>1, EndedStep, FailedStep
    <2>. QED
        BY <1>1, <1>4, <2>2, CalmDrops
<1>. QED
    BY <1>3, <1>4 DEF DropAll

LEMMA CrashDrops ==
    ASSUME DropInv, TypeInv', Crash
    PROVE  DropInv'
<1>1. c'.pc = "idle" /\ c'.result = "none" /\ UNCHANGED <<live, below>>
    BY IdleTyped DEF Crash, index
<1>. QED
    BY <1>1, CalmDrops

LEMMA DropStep ==
    ASSUME DropInv, [Next]_vars
    PROVE  DropInv'
<1>1. TypeInv'
    BY TypeStep DEF DropInv
<1>2. CASE UNCHANGED vars
    BY <1>1, <1>2 DEF DropInv, MarkInv, HoldInv, HealthInv, DropsAreRecorded, HealthyMeansDropped, name,
                      pendingS3Upload, vars
<1>. QED
    BY <1>1, <1>2, CaptureDrops, CrashDrops, StartDrops, ArchiveDrops, CheckDrops, DropDrops, PruneDrops,
       FilterDrops, DropAllDrops
       DEF Next, Step

LEMMA SpecDropInv == Spec => []DropInv
BY DropInit, DropStep, PTL DEF Spec

\* Whatever is dropped, in whatever order and through whatever failures and
\* crashes, is below the mark that readers go by: MarkPartitionsDropped runs
\* before the ALTER and never takes the mark back.
THEOREM RotationRecordsDrops == Spec => []DropsAreRecorded
<1>1. DropInv => DropsAreRecorded
    BY DEF DropInv, MarkInv
<1>. QED
    BY <1>1, SpecDropInv, PTL

\* A healthy cycle left no expired partition: each one it leaves in place is
\* counted in Result.Deferred, by every path of Perform.
THEOREM RotationHealthyMeansDropped == Spec => []HealthyMeansDropped
<1>1. DropInv => HealthyMeansDropped
    BY DEF DropInv, HealthInv
<1>. QED
    BY <1>1, SpecDropInv, PTL

\* No step drops a partition whose archive is still to be uploaded
\* (pendingS3Uploads), with any mixture of options over the cycles.
THEOREM RotationHoldsPending == Spec => PendingUploadHolds
<1>1. ASSUME DropInv, [Next]_vars
      PROVE  [\A q \in Dropped : ~pendingS3Upload(q)]_vars
    <2>1. Tables /\ c \in Cycles
        BY <1>1, TablesTyped DEF DropInv
    <2>2. CASE DropPartition
        <3>1. c.pc = "drop" /\ ~pendingS3Upload(name) /\ name \in Parts
            BY <1>1, <2>2, TablesTyped DEF DropPartition, At, DropInv, HoldInv, TypeInv, CycleOK
        <3>2. CASE DropNow({name})
            <4>1. DOMAIN live' = DOMAIN live \ {name}
                BY <2>1, <3>1, <3>2, DropNowStep
            <4>2. \A q \in Dropped : q = name
                BY <4>1 DEF Dropped
            <4>. QED
                BY <3>1, <4>2
        <3>3. CASE UNCHANGED live
            BY <3>3 DEF Dropped
        <3>. QED
            BY <2>2, <3>2, <3>3 DEF DropPartition
    <2>3. CASE DropAll
        <3>1. c.pc = "dropall" /\ (\A q \in c.todo : ~pendingS3Upload(q)) /\ c.todo \in SUBSET Parts
            BY <1>1, <2>1, <2>3 DEF DropAll, At, DropInv, HoldInv, Cycles
        <3>2. CASE DropNow(c.todo)
            <4>1. DOMAIN live' = DOMAIN live \ c.todo
                BY <2>1, <3>1, <3>2, DropNowStep
            <4>. QED
                BY <3>1, <4>1 DEF Dropped
        <3>3. CASE UNCHANGED live
            BY <3>3 DEF Dropped
        <3>. QED
            BY <2>3, <3>2, <3>3 DEF DropAll
    <2>4. CASE Insert \/ Commit \/ Cleanup
        <3>1. DOMAIN live' = DOMAIN live
            BY <2>1, <2>4 DEF Insert, Commit, Cleanup, index
        <3>. QED
            BY <3>1 DEF Dropped
    <2>5. CASE UNCHANGED live
        BY <2>5 DEF Dropped
    <2>. QED
        BY <1>1, <2>2, <2>3, <2>4, <2>5
           DEF Next, Step, Crash, StartCycle, ArchivePartition, RecordArchive, Upload, MarkUploaded,
               CheckBeforeDrop, Recount, DiscardStaleArchive, PruneLocal, FilterToDrop, index, vars
<1>2. Spec => [][Next]_vars
    BY DEF Spec
<1>. QED
    BY <1>1, <1>2, SpecDropInv, PTL DEF PendingUploadHolds
=============================================================================
