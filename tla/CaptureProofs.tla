--------------------------- MODULE CaptureProofs ---------------------------
(***************************************************************************)
(* Safety of Capture for every log, batch size, row cap, number of runs    *)
(* and earlier contents of the index.                                      *)
(***************************************************************************)
EXTENDS WriterProofs, FiniteSetTheorems

\* A non-empty finite set of naturals has a greatest element.
LEMMA FiniteHasMax ==
    ASSUME NEW S \in SUBSET Nat, IsFiniteSet(S), S # {}
    PROVE  \E m \in S : \A x \in S : m >= x
<1> DEFINE HasMax(A) == \E m \in A : \A x \in A : m >= x
           Bad == {A \in FiniteSubsetsOf(S) : A # {} /\ ~HasMax(A)}
<1>1. S \in FiniteSubsetsOf(S)
  BY DEF FiniteSubsetsOf
<1>2. SUFFICES ASSUME Bad # {} PROVE FALSE
  BY <1>1
<1>3. IsWellFoundedOn(StrictSubsetOrdering(S), FiniteSubsetsOf(S))
  BY FS_StrictSubsetOrderingWellFounded
<1>4. PICK A \in Bad : \A B \in Bad : ~(<<B, A>> \in StrictSubsetOrdering(S))
  <2>1. Bad \subseteq FiniteSubsetsOf(S)
    OBVIOUS
  <2> QED BY <1>2, <1>3, <2>1, WFMin
<1>5. A \subseteq S /\ IsFiniteSet(A) /\ A # {} /\ ~HasMax(A)
  BY <1>4 DEF FiniteSubsetsOf
<1>6. PICK a \in A : TRUE
  BY <1>5
<1> DEFINE R == A \ {a}
<1>7. R \in FiniteSubsetsOf(S) /\ <<R, A>> \in StrictSubsetOrdering(S)
  <2>1. IsFiniteSet(R)
    BY <1>5, FS_Subset
  <2> QED BY <1>5, <1>6, <2>1 DEF FiniteSubsetsOf, StrictSubsetOrdering
<1>8. R = {} \/ HasMax(R)
  BY <1>4, <1>7
<1>9. HasMax(A)
  <2>1. CASE R = {}
    BY <2>1, <1>5, <1>6
  <2>2. CASE HasMax(R)
    <3>1. PICK m \in R : \A x \in R : m >= x
      BY <2>2
    <3> QED BY <3>1, <1>5, <1>6
  <2> QED BY <1>8, <2>1, <2>2
<1> QED BY <1>5, <1>9

\* Max of a finite set of numbers is one of them.
LEMMA MaxOfFinite ==
    ASSUME NEW S \in SUBSET Nat, IsFiniteSet(S), S # {}
    PROVE  Max(S) \in S /\ \A x \in S : x <= Max(S)
BY FiniteHasMax DEF Max

\* The largest id of a table whose ids are below n.
LEMMA MaxId ==
    ASSUME NEW R, NEW n \in Nat, \A r \in R : r.id \in Nat /\ r.id < n
    PROVE  LET m == Max({r.id : r \in R} \cup {0})
           IN  m \in Nat /\ (n > 0 => m < n) /\ \A r \in R : r.id <= m
<1> DEFINE S == {r.id : r \in R} \cup {0}
<1>1. S \in SUBSET Nat /\ S # {} /\ \A x \in S : x <= n
  OBVIOUS
<1>2. IsFiniteSet(S)
  BY <1>1, FS_BoundedSetOfNaturals
<1>3. Max(S) \in S /\ \A x \in S : x <= Max(S)
  BY <1>1, <1>2, MaxOfFinite
<1> QED BY <1>1, <1>3

\* The ids of a finite table have a bound.
LEMMA OldIdsBounded == \E n \in Nat : \A r \in OldRows : r.id \in Nat /\ r.id < n
<1> DEFINE f == [r \in OldRows |-> r.id]
           ids == {r.id : r \in OldRows}
<1>1. OldRows \subseteq [id : Nat \ {0}, item : Items] /\ IsFiniteSet(OldRows)
  BY CaptureAssumption
<1>2. f \in Surjection(OldRows, ids)
  BY DEF Surjection
<1>3. IsFiniteSet(ids)
  BY <1>1, <1>2, FS_Surjection
<1>4. ids \in SUBSET Nat
  BY <1>1
<1>5. CASE ids = {}
  BY <1>5
<1>6. CASE ids # {}
  <2>1. PICK m \in ids : \A x \in ids : m >= x
    BY <1>3, <1>4, <1>6, FiniteHasMax
  <2>2. \A r \in OldRows : r.id \in ids
    OBVIOUS
  <2> HIDE DEF ids
  <2>3. m \in Nat /\ \A r \in OldRows : r.id \in Nat /\ r.id <= m
    BY <1>4, <2>1, <2>2
  <2>4. m + 1 \in Nat /\ \A r \in OldRows : r.id \in Nat /\ r.id < m + 1
    BY <2>3
  <2> QED BY <2>4
<1> QED BY <1>5, <1>6
-----------------------------------------------------------------------------
(***************************************************************************)
(* The inductive invariant of both modes: the types, the writer, and the   *)
(* floors above everything an earlier capture wrote.                       *)
(***************************************************************************)
StateType ==
    /\ phase \in {"down", "stragglers", "run"}
    /\ runs \in 0 .. MaxRuns
    /\ st \in StreamState
    /\ rd \in 0 .. Len(Log)
    /\ since \in SUBSET Txns
    /\ saved \in SavedState
    /\ torn \in SUBSET Txns
    /\ spared \in SUBSET Items

WriterInv ==
    /\ Good(w) /\ ~w.err /\ w.next >= 1
    /\ phase # "run" => ~w.stopped /\ ~w.open /\ w.batch = << >>
    /\ w.open => rd > 0

AboveOld(floor) == floor >= 1 /\ \A r \in OldRows : r.id < floor

FloorInv ==
    /\ phase # "down" => saved.exists
    /\ saved.exists => AboveOld(saved.floor)
    /\ phase = "run" => AboveOld(st.floor)

Core == StateType /\ WriterInv /\ FloorInv

\* The writer a run starts with (NewTxnBatcher).
Fresh(x, R, n) ==
    /\ Good(x) /\ ~x.err /\ x.rows = R /\ x.next = n
    /\ x.txn = {} /\ ~x.stopped /\ x.batch = << >> /\ ~x.open

\* It is good when the table is, and holds no row.
LEMMA NewWriterGood ==
    ASSUME NEW R \in SUBSET Row, NEW n \in Nat, OldRows \subseteq R, \A r \in R : r.id < n
    PROVE  Fresh(NewTxnBatcher(R, n), R, n)
<1> DEFINE x == NewTxnBatcher(R, n)
<1>1. /\ x.batch = << >> /\ x.done = 0 /\ x.inTxn = FALSE /\ x.open = FALSE /\ x.txn = {}
      /\ x.splits = 0 /\ x.stopped = FALSE /\ x.first = 0 /\ x.rows = R /\ x.next = n
      /\ x.err = FALSE
  BY DEF NewTxnBatcher
<1>2. x \in Writer
  BY DEF NewTxnBatcher, Writer
<1> HIDE DEF x
<1>3. Fresh(x, R, n)
  BY <1>1, <1>2 DEF Good, Fresh
<1> QED BY <1>3 DEF x

\* An index with an old history and no checkpoint.
LEMMA InitCore == Init => Core
<1> SUFFICES ASSUME Init PROVE Core
  OBVIOUS
<1> DEFINE m == Max({r.id : r \in OldRows} \cup {0})
<1>1. PICK n \in Nat : \A r \in OldRows : r.id \in Nat /\ r.id < n
  BY OldIdsBounded
<1>2. m \in Nat /\ \A r \in OldRows : r.id <= m
  BY <1>1, MaxId
<1>3. OldRows \in SUBSET Row
  BY CaptureAssumption DEF Row
<1> HIDE DEF m
<1>4. WriterInv
  <2>1. w = NewTxnBatcher(OldRows, 1 + m)
    BY DEF Init, m
  <2>2. 1 + m \in Nat /\ \A r \in OldRows : r.id < 1 + m
    BY <1>1, <1>2
  <2>3. Fresh(w, OldRows, 1 + m)
    BY <1>3, <2>1, <2>2, NewWriterGood
  <2> QED BY <1>2, <2>3 DEF WriterInv, Fresh
<1>5. StateType
  BY CaptureAssumption DEF Init, StateType, Idle, Started, Coords, StreamState, SavedState
<1>6. FloorInv
  BY DEF Init, FloorInv
<1> QED BY <1>4, <1>5, <1>6 DEF Core

\* A process that is down keeps the table and the checkpoint.
LEMMA DownCore ==
    ASSUME Core, NEW x, Good(x), Grown(w, x), Down(x)
    PROVE  /\ WriterInv' /\ st' \in StreamState
           /\ rd' \in 0 .. Len(Log) /\ since' \in SUBSET Txns /\ phase' = "down"
<1>1. x.rows \in SUBSET Row /\ x.next \in Nat /\ OldRows \subseteq x.rows
      /\ \A r \in x.rows : r.id < x.next
  BY DEF Good, Writer
<1>2. w' = NewTxnBatcher(x.rows, x.next)
  BY DEF Down
<1>3. Fresh(w', x.rows, x.next)
  BY <1>1, <1>2, NewWriterGood
<1>4. w.next >= 1 /\ w.next \in Nat /\ w.next <= x.next
  BY DEF Core, WriterInv, Grown, Good, Writer
<1>5. WriterInv'
  BY <1>1, <1>3, <1>4 DEF WriterInv, Down, Fresh
<1>6. 0 \in 0 .. Len(Log)
  BY DEF Core, StateType
<1> QED BY <1>5, <1>6 DEF Down, Idle, Started, Coords, StreamState

\* A run goes on with writer x, stream state s and last event i.
LEMMA ContinueCore ==
    ASSUME Core, phase = "run", NEW x, Good(x), Grown(w, x), x.stopped = w.stopped,
           NEW s \in StreamState, s.floor >= st.floor, NEW i \in Items,
           Continue(x, s, i), UNCHANGED <<runs, spared>>
    PROVE  Core'
<1>1. torn' \in SUBSET Txns
  BY DEF Continue, Core, StateType, Txns, Items
<1>2. CASE x.err
  <2>1. Down(x) /\ UNCHANGED saved
    BY <1>2 DEF Continue, Abort
  <2>2. /\ WriterInv' /\ phase' = "down" /\ rd' \in 0 .. Len(Log) /\ since' \in SUBSET Txns
        /\ st' \in StreamState
    BY <2>1, DownCore
  <2>3. StateType'
    BY <1>1, <2>1, <2>2 DEF Core, StateType
  <2>4. FloorInv'
    BY <2>1, <2>2 DEF Core, FloorInv, AboveOld
  <2> QED BY <2>2, <2>3, <2>4 DEF Core
<1>3. CASE ~x.err
  <2>1. w' = x /\ st' = s /\ rd' = i /\ UNCHANGED <<phase, since, saved>>
    BY <1>3 DEF Continue
  <2>2. StateType'
    BY <1>1, <2>1 DEF Core, StateType, Items
  <2>3. WriterInv'
    <3>1. w.next >= 1 /\ w.next \in Nat /\ w.next <= x.next /\ x.next \in Nat
      BY DEF Core, WriterInv, Grown, Good, Writer
    <3>2. i > 0
      BY DEF Items
    <3> QED BY <1>3, <2>1, <3>1, <3>2 DEF WriterInv, Core
  <2>4. FloorInv'
    <3>1. AboveOld(s.floor)
      <4>1. AboveOld(st.floor) /\ st.floor \in Nat /\ s.floor \in Nat
        BY DEF Core, FloorInv, StateType, StreamState
      <4>2. \A r \in OldRows : r.id \in Nat
        BY CaptureAssumption
      <4> QED BY <4>1, <4>2 DEF AboveOld
    <3> QED BY <2>1, <3>1 DEF Core, FloorInv, AboveOld
  <2> QED BY <2>2, <2>3, <2>4 DEF Core
<1> QED BY <1>2, <1>3

\* What the log assumption says of one event.
LEMMA LogItems ==
    ASSUME NEW i \in Items
    PROVE  /\ Log[i].end \in Coords /\ Log[i].txn \in Txns /\ i \in 0 .. Len(Log)
           /\ Log[i].start \in Nat /\ Log[i].end \in Nat
           /\ 0 < Log[i].start /\ Log[i].start < Log[i].end
<1> DEFINE E == [type : {"gtid", "row", "commit", "ddl"}, txn : Nat, file : Nat,
                 start : Nat \ {0}, end : Nat, gtid : BOOLEAN]
<1>1. Log \in Seq(E) /\ Log[i].start < Log[i].end
  BY CaptureAssumption
<1>2. Log[i] \in E /\ i \in 0 .. Len(Log)
  <2> HIDE DEF E
  <2>1. i \in 1 .. Len(Log) /\ Len(Log) \in Nat
    BY <1>1 DEF Items
  <2> QED BY <1>1, <2>1
<1>3. Log[i].start \in Nat /\ Log[i].end \in Nat /\ 0 < Log[i].start
  BY <1>2
<1> QED BY <1>1, <1>2, <1>3 DEF Coords, Txns

\* Coordinates are numbers.
LEMMA CoordsNat == \A c \in Coords : c \in Nat
BY LogItems DEF Coords

\* noteDedupFloor only raises the floor.
LEMMA NoteType ==
    ASSUME NEW s \in StreamState, NEW f \in Nat
    PROVE  /\ noteDedupFloor(s, f) \in StreamState
           /\ noteDedupFloor(s, f).floor = IF f > s.floor THEN f ELSE s.floor
           /\ noteDedupFloor(s, f).floor >= s.floor
           /\ noteDedupFloor(s, f).safe = s.safe
           /\ noteDedupFloor(s, f).saving = s.saving
<1> DEFINE n == IF f > s.floor THEN f ELSE s.floor
<1>1. s.floor \in Nat /\ n \in Nat /\ n >= s.floor
  BY DEF StreamState
<1> HIDE DEF n
<1>2. /\ [s EXCEPT !.floor = n] \in StreamState /\ [s EXCEPT !.floor = n].floor = n
      /\ [s EXCEPT !.floor = n].safe = s.safe
      /\ [s EXCEPT !.floor = n].saving = s.saving
  BY <1>1 DEF StreamState
<1>3. noteDedupFloor(s, f) = [s EXCEPT !.floor = n]
  BY DEF noteDedupFloor, n
<1> QED BY <1>1, <1>2, <1>3 DEF n

\* The position tracking of an event never lowers the floor.
LEMMA TrackedType ==
    ASSUME st \in StreamState, w.first \in Nat, NEW i \in Items
    PROVE  /\ Tracked(i) \in StreamState /\ Tracked(i).floor >= st.floor
           /\ Tracked(i).saving = st.saving
<1>1. Log[i].end \in Coords /\ st.floor \in Nat
  BY LogItems DEF StreamState
<1> DEFINE e == [st EXCEPT !.pos = Log[i].end]
           b == [e EXCEPT !.safe = Log[i].end]
<1>2. /\ e \in StreamState /\ b \in StreamState /\ e.floor = st.floor /\ b.floor = st.floor
      /\ e.saving = st.saving /\ b.saving = st.saving
  BY <1>1 DEF StreamState
<1>3. /\ noteDedupFloor(b, w.first) \in StreamState
      /\ noteDedupFloor(b, w.first).floor >= st.floor
      /\ noteDedupFloor(b, w.first).saving = st.saving
  BY <1>2, NoteType
<1>4. Tracked(i) = e \/ Tracked(i) = b \/ Tracked(i) = noteDedupFloor(b, w.first)
  BY DEF Tracked
<1> HIDE DEF e, b
<1>5. st.floor >= st.floor
  BY <1>1
<1> QED BY <1>2, <1>3, <1>4, <1>5

\* advanceGTID never lowers the floor.
LEMMA AdvanceType ==
    ASSUME NEW s \in StreamState, NEW i \in Items, NEW f \in Nat
    PROVE  /\ advanceGTID(s, i, f) \in StreamState /\ advanceGTID(s, i, f).floor >= s.floor
           /\ advanceGTID(s, i, f).saving = s.saving
<1> DEFINE g == [s EXCEPT !.gset = @ \cup {Log[i].txn}]
<1>1. g \in StreamState /\ g.floor = s.floor /\ s.floor \in Nat /\ g.saving = s.saving
  BY LogItems DEF StreamState
<1> HIDE DEF g
<1>2. /\ noteDedupFloor(g, f) \in StreamState /\ noteDedupFloor(g, f).floor >= s.floor
      /\ noteDedupFloor(g, f).saving = s.saving
  BY <1>1, NoteType
<1>3. advanceGTID(s, i, f) = s \/ advanceGTID(s, i, f) = noteDedupFloor(g, f)
  BY DEF advanceGTID, g
<1>4. s.floor >= s.floor
  BY <1>1
<1> QED BY <1>2, <1>3, <1>4

\* Setting ddlClaimed changes nothing else.
LEMMA ClaimedType ==
    ASSUME NEW s \in StreamState, NEW b \in BOOLEAN
    PROVE  /\ [s EXCEPT !.claimed = b] \in StreamState
           /\ [s EXCEPT !.claimed = b].floor = s.floor
           /\ [s EXCEPT !.claimed = b].saving = s.saving
BY DEF StreamState

\* The writer after a DDL: what was read is committed.
LEMMA FlushProgress ==
    ASSUME NEW y, Good(y), ~y.err, NEW x \in Then(End(y), CommitComplete)
    PROVE  /\ Progress(y, x)
           /\ ~x.err => \A i \in RowItems : Present(y, i) => Durable(x, i)
<1>1. PICK z \in End(y) : IF z.err THEN x = z ELSE x \in CommitComplete(z)
  BY DEF Then
<1>2. Progress(y, z) /\ (~z.err => \A i \in RowItems : Present(y, i) => Durable(z, i))
  BY <1>1, EndProgress
<1>3. CASE ~z.err
  <2>1. Progress(z, x)
    BY <1>1, <1>2, <1>3, CommitCompleteProgress DEF Progress
  <2> QED BY <1>2, <1>3, <2>1, ProgressTransitive DEF Progress
<1> QED BY <1>1, <1>2, <1>3

\* Every case of the event switch.
LEMMA ReadCore ==
    ASSUME Core, Read
    PROVE  Core'
<1>1. /\ phase = "run" /\ st \in StreamState /\ Good(w) /\ ~w.err
      /\ w.first \in Nat /\ st.floor \in Nat
  BY DEF Core, StateType, WriterInv, Good, Writer, Read, Selecting, StreamState
<1>2. PICK i \in Items : OnGTID(i) \/ OnCommit(i) \/ OnDDL(i) \/ OnRow(i)
  BY DEF Read
<1>3. i \in 0 .. Len(Log) /\ Tracked(i) \in StreamState /\ Tracked(i).floor >= st.floor
  BY <1>1, LogItems, TrackedType
<1>4. UNCHANGED <<runs, spared>>
  BY DEF Read
<1>5. ASSUME NEW x, Good(x), Grown(w, x), NEW f \in Nat, NEW b \in BOOLEAN,
             Continue(x, [advanceGTID(Tracked(i), i, f) EXCEPT !.claimed = b], i)
      PROVE  Core'
  <2> DEFINE s == [advanceGTID(Tracked(i), i, f) EXCEPT !.claimed = b]
  <2>1. /\ advanceGTID(Tracked(i), i, f) \in StreamState
        /\ advanceGTID(Tracked(i), i, f).floor >= Tracked(i).floor
    BY <1>3, AdvanceType
  <2>2. s \in StreamState /\ s.floor = advanceGTID(Tracked(i), i, f).floor
    BY <2>1, ClaimedType
  <2>3. s.floor >= st.floor
    BY <1>1, <1>3, <2>1, <2>2 DEF StreamState
  <2>4. x.stopped = w.stopped
    BY <1>5 DEF Grown
  <2> HIDE DEF s
  <2>5. Continue(x, s, i)
    BY <1>5 DEF s
  <2> QED BY <1>1, <1>3, <1>4, <1>5, <2>2, <2>3, <2>4, <2>5, ContinueCore
<1>6. CASE OnGTID(i)
  <2> DEFINE s == [Tracked(i) EXCEPT !.claimed = FALSE]
  <2>1. s \in StreamState /\ s.floor = Tracked(i).floor
    BY <1>3, ClaimedType
  <2>2. Grown(w, w)
    BY <1>1, GrownSame
  <2>3. Continue(w, s, i)
    BY <1>6 DEF OnGTID
  <2> HIDE DEF s
  <2> QED BY <1>1, <1>3, <1>4, <2>1, <2>2, <2>3, ContinueCore
<1>7. CASE OnCommit(i)
  <2>1. PICK x \in End(w) :
           Continue(x, [advanceGTID(Tracked(i), i, w.first) EXCEPT !.claimed = FALSE], i)
    BY <1>7 DEF OnCommit
  <2>2. Good(x) /\ Grown(w, x)
    BY <1>1, <2>1, EndProgress DEF Progress
  <2> QED BY <1>1, <1>5, <2>1, <2>2
<1>8. CASE OnDDL(i)
  <2>1. PICK x \in Then(End(w), CommitComplete) :
           Continue(x, [advanceGTID(Tracked(i), i, x.first) EXCEPT
                          !.claimed = Mode = "gtid" /\ Log[i].gtid], i)
    BY <1>8 DEF OnDDL
  <2>2. Good(x) /\ Grown(w, x)
    BY <1>1, <2>1, FlushProgress DEF Progress
  <2>3. x.first \in Nat
    BY <2>2 DEF Good, Writer
  <2>4. (Mode = "gtid" /\ Log[i].gtid) \in BOOLEAN
    OBVIOUS
  <2> QED BY <1>5, <2>1, <2>2, <2>3, <2>4
<1>9. CASE OnRow(i)
  <2>1. PICK x \in Add(w, i) : Continue(x, Tracked(i), i)
    BY <1>9 DEF OnRow
  <2>2. i \in RowItems
    BY <1>9 DEF OnRow, RowItems
  <2>3. Good(x) /\ Grown(w, x)
    BY <1>1, <2>1, <2>2, AddProgress
  <2>4. x.stopped = w.stopped
    BY <2>3 DEF Grown
  <2> QED BY <1>1, <1>3, <1>4, <2>1, <2>3, <2>4, ContinueCore
<1> QED BY <1>2, <1>6, <1>7, <1>8, <1>9

\* What saveCheckpoint writes has the types of the row.
LEMMA CheckpointType ==
    ASSUME Core, phase = "run"
    PROVE  /\ Checkpoint(st) \in SavedState /\ Checkpoint(st).exists
           /\ Checkpoint(st).floor = st.floor
           /\ Checkpoint(st).pos = checkpointPosition(st)
BY DEF Core, StateType, Checkpoint, checkpointPosition, StreamState, SavedState

\* The ticker: a commit of the complete rows.
LEMMA TickCore ==
    ASSUME Core, Tick
    PROVE  Core'
<1>1. phase = "run" /\ Good(w) /\ ~w.err /\ UNCHANGED <<runs, torn, spared>>
  BY DEF Core, WriterInv, Tick, Selecting
<1>2. PICK x \in CommitComplete(w) :
         IF x.err THEN Abort(x)
         ELSE /\ w' = x /\ st' = [st EXCEPT !.saving = TRUE]
              /\ UNCHANGED <<phase, rd, since, saved>>
  BY DEF Tick
<1>3. Good(x) /\ Grown(w, x) /\ x.open = w.open
  BY <1>1, <1>2, CommitCompleteProgress DEF Progress
<1>4. CASE x.err
  <2>1. Down(x) /\ UNCHANGED saved
    BY <1>2, <1>4 DEF Abort
  <2>2. /\ WriterInv' /\ phase' = "down" /\ rd' \in 0 .. Len(Log) /\ since' \in SUBSET Txns
        /\ st' \in StreamState
    BY <1>3, <2>1, DownCore
  <2> QED BY <1>1, <2>1, <2>2 DEF Core, StateType, FloorInv, AboveOld
<1>5. CASE ~x.err
  <2>1. w' = x /\ st' = [st EXCEPT !.saving = TRUE] /\ UNCHANGED <<phase, rd, since, saved>>
    BY <1>2, <1>5
  <2>2. st' \in StreamState /\ st'.floor = st.floor
    BY <2>1 DEF Core, StateType, StreamState
  <2>3. StateType'
    BY <1>1, <2>1, <2>2 DEF Core, StateType
  <2>4. WriterInv'
    <3>1. w.next >= 1 /\ w.next \in Nat /\ w.next <= x.next /\ x.next \in Nat
      BY <1>3 DEF Core, WriterInv, Grown, Good, Writer
    <3> QED BY <1>1, <1>3, <1>5, <2>1, <3>1 DEF Core, WriterInv
  <2>5. FloorInv'
    BY <1>1, <2>1, <2>2 DEF Core, FloorInv, AboveOld
  <2> QED BY <2>3, <2>4, <2>5 DEF Core
<1> QED BY <1>4, <1>5

\* The save after it, which may fail.
LEMMA SaveCore ==
    ASSUME Core, Save
    PROVE  Core'
<1>1. phase = "run" /\ UNCHANGED <<phase, runs, w, rd, since, torn, spared>>
  BY DEF Save
<1>2. /\ saved' = saved \/ saved' = Checkpoint(st)
      /\ \/ st' = [st EXCEPT !.saving = FALSE]
         \/ st' = [st EXCEPT !.caught = 0, !.saving = FALSE]
  BY DEF Save, SaveSucceeded, SaveFailed
<1>3. st' \in StreamState /\ st'.floor = st.floor
  <2>1. 0 \in 0 .. Len(Log)
    BY DEF Core, StateType
  <2> QED BY <1>2, <2>1 DEF Core, StateType, StreamState
<1>4. saved' \in SavedState /\ saved'.exists /\ AboveOld(saved'.floor)
  BY <1>1, <1>2, CheckpointType DEF Core, StateType, FloorInv
<1>5. StateType'
  BY <1>1, <1>3, <1>4 DEF Core, StateType
<1>6. WriterInv' /\ FloorInv'
  BY <1>1, <1>3, <1>4 DEF Core, WriterInv, FloorInv, AboveOld
<1> QED BY <1>5, <1>6 DEF Core

\* The caught-up marker.
LEMMA CaughtUpCore ==
    ASSUME Core, CaughtUp
    PROVE  Core'
<1>1. st' = [st EXCEPT !.caught = rd] /\ phase = "run"
      /\ UNCHANGED <<phase, runs, w, rd, since, saved, torn, spared>>
  BY DEF CaughtUp, Selecting
<1>2. st' \in StreamState /\ st'.floor = st.floor
  BY <1>1 DEF Core, StateType, StreamState
<1>3. StateType'
  BY <1>1, <1>2 DEF Core, StateType
<1>4. WriterInv' /\ FloorInv'
  BY <1>1, <1>2 DEF Core, WriterInv, FloorInv, AboveOld
<1> QED BY <1>3, <1>4 DEF Core

\* The cap timer.
LEMMA CapTimerCore ==
    ASSUME Core, CapTimer
    PROVE  Core'
<1>1. /\ phase = "run" /\ w.open /\ Good(w) /\ ~w.err /\ UNCHANGED <<runs, spared>>
      /\ st \in StreamState /\ rd \in Items /\ st.floor >= st.floor
  BY DEF CapTimer, Selecting, Core, WriterInv, StateType, Items, StreamState
<1>2. PICK x \in Split(w) : Continue(x, st, rd)
  BY DEF CapTimer
<1>3. Good(x) /\ Grown(w, x)
  BY <1>1, <1>2, SplitProgress DEF Progress
<1>4. x.stopped = w.stopped
  BY <1>3 DEF Grown
<1> QED BY <1>1, <1>2, <1>3, <1>4, ContinueCore

\* What stop leaves: the complete part is in the table unless a write failed.
LEMMA FinishKeeps ==
    ASSUME Good(w), ~w.err, NEW x \in Then(Settled, CommitComplete)
    PROVE  /\ Good(x) /\ Grown(w, x)
           /\ \A n \in Nat : Ordered(w, n) => Ordered(x, n)
           /\ ~x.err => /\ x.done = 0
                        /\ \A i \in RowItems : Durable(w, i) => Durable(x, i)
<1>1. PICK z \in Settled : IF z.err THEN x = z ELSE x \in CommitComplete(z)
  BY DEF Then
<1>2. /\ Good(z) /\ Grown(w, z)
      /\ \A n \in Nat : Ordered(w, n) => Ordered(z, n)
      /\ ~z.err => \A i \in RowItems : Durable(w, i) => Durable(z, i)
  <2>1. CASE z = w
    BY <2>1, ProgressReflexive DEF Progress
  <2>2. CASE z \in End(w)
    BY <2>2, EndProgress DEF Progress
  <2>3. CASE z = Discard(w)
    BY <2>3, DiscardKeeps
  <2> QED BY <1>1, <2>1, <2>2, <2>3 DEF Settled
<1>3. CASE ~z.err
  <2>1. Progress(z, x) /\ (~x.err => x.done = 0)
    BY <1>1, <1>2, <1>3, CommitCompleteProgress
  <2>2. Grown(w, x)
    BY <1>2, <2>1, GrownTransitive DEF Progress
  <2> QED BY <1>2, <1>3, <2>1, <2>2 DEF Progress
<1> QED BY <1>1, <1>2, <1>3

\* A stop, with or without its last checkpoint.
LEMMA StopCore ==
    ASSUME Core, Stop
    PROVE  Core'
<1>1. phase = "run" /\ Good(w) /\ ~w.err /\ UNCHANGED <<runs, torn, spared>>
  BY DEF Core, WriterInv, Stop, Selecting
<1>2. PICK x : Good(x) /\ Grown(w, x) /\ Down(x) /\ saved' \in {saved, Checkpoint(st)}
  <2>1. CASE w.stopped /\ Down(w) /\ UNCHANGED saved
    BY <1>1, <2>1, ProgressReflexive DEF Progress
  <2>2. CASE \E x \in Then(Settled, CommitComplete) :
                /\ Down(x)
                /\ saved' \in IF x.err THEN {saved} ELSE {saved, Checkpoint(st)}
    BY <1>1, <2>2, FinishKeeps
  <2> QED BY <2>1, <2>2 DEF Stop
<1>3. /\ WriterInv' /\ phase' = "down" /\ rd' \in 0 .. Len(Log) /\ since' \in SUBSET Txns
      /\ st' \in StreamState
  BY <1>2, DownCore
<1>4. saved' \in SavedState /\ saved'.exists /\ AboveOld(saved'.floor)
  BY <1>1, <1>2, CheckpointType DEF Core, StateType, FloorInv
<1> QED BY <1>1, <1>3, <1>4 DEF Core, StateType, FloorInv, AboveOld

\* The loss of the capture lock.
LEMMA LoseLockCore ==
    ASSUME Core, LoseLock
    PROVE  Core'
<1>1. /\ phase = "run" /\ w' = [w EXCEPT !.stopped = TRUE]
      /\ UNCHANGED <<phase, runs, st, rd, since, saved, torn, spared>>
  BY DEF LoseLock
<1>2. /\ w' \in Writer /\ w'.batch = w.batch /\ w'.done = w.done /\ w'.open = w.open
      /\ w'.txn = w.txn /\ w'.first = w.first /\ w'.rows = w.rows /\ w'.next = w.next
      /\ w'.err = w.err
  BY <1>1 DEF Core, WriterInv, Good, Writer
<1>3. WriterInv'
  BY <1>1, <1>2 DEF Core, WriterInv, Good
<1> QED BY <1>1, <1>3 DEF Core, StateType, FloorInv, AboveOld

\* A crash keeps the table and the checkpoint.
LEMMA CrashCore ==
    ASSUME Core, Crash
    PROVE  Core'
<1>1. Good(w) /\ Grown(w, w) /\ Down(w) /\ UNCHANGED <<runs, saved, torn, spared>>
  BY ProgressReflexive DEF Core, WriterInv, Crash, Progress
<1>2. /\ WriterInv' /\ phase' = "down" /\ rd' \in 0 .. Len(Log) /\ since' \in SUBSET Txns
      /\ st' \in StreamState
  BY <1>1, DownCore
<1> QED BY <1>1, <1>2 DEF Core, StateType, FloorInv, AboveOld

\* The floor of a first start lies above every id of the table.
\* The bound on runs holds of a run that may start.
LEMMA NextRun ==
    ASSUME StateType, runs < MaxRuns
    PROVE  runs + 1 \in 0 .. MaxRuns
BY CaptureAssumption DEF StateType

\* A fresh floor is above every row of the table (freshDedupFloor).
LEMMA FreshFloor ==
    ASSUME Core
    PROVE  /\ freshDedupFloor \in Nat /\ AboveOld(freshDedupFloor)
           /\ freshDedupFloor <= w.next
<1> DEFINE m == Max({r.id : r \in w.rows} \cup {0})
<1>1. /\ w.next \in Nat /\ w.next > 0 /\ OldRows \subseteq w.rows
      /\ \A r \in w.rows : r.id \in Nat /\ r.id < w.next
  BY DEF Core, WriterInv, Good, Writer, Row
<1>2. m \in Nat /\ m < w.next /\ \A r \in w.rows : r.id <= m
  BY <1>1, MaxId
<1>3. freshDedupFloor = 1 + m
  BY DEF freshDedupFloor
<1> HIDE DEF m
<1> QED BY <1>1, <1>2, <1>3 DEF AboveOld

\* A start without a checkpoint.
LEMMA StartFreshCore ==
    ASSUME Core, StartFresh
    PROVE  Core'
<1>1. PICK p \in StartCoords :
          /\ st' = Started(p, {}, freshDedupFloor)
          /\ saved' = [exists |-> TRUE, pos |-> p, gset |-> {},
                       floor |-> freshDedupFloor, caught |-> 0]
  BY DEF StartFresh
<1>2. /\ phase = "down" /\ phase' = "run" /\ runs' = runs + 1 /\ runs < MaxRuns
      /\ rd' = 0 /\ since' = {} /\ UNCHANGED <<w, torn, spared>>
  BY DEF StartFresh
<1>3. p \in Coords /\ 0 \in 0 .. Len(Log)
  BY CaptureAssumption DEF Coords, Core, StateType
<1>4. st' \in StreamState /\ saved' \in SavedState
  BY <1>1, <1>3, FreshFloor DEF Started, StreamState, SavedState
<1>5. saved'.exists /\ AboveOld(saved'.floor) /\ AboveOld(st'.floor)
  BY <1>1, FreshFloor DEF Started
<1>6. StateType'
  BY <1>2, <1>3, <1>4, NextRun DEF Core, StateType
<1>7. WriterInv' /\ FloorInv'
  BY <1>2, <1>5 DEF Core, WriterInv, FloorInv, AboveOld, Good
<1> QED BY <1>6, <1>7 DEF Core

\* A cleanup keeps what an earlier capture wrote.
LEMMA KeptCore ==
    ASSUME Core, saved.exists, NEW gone, Kept(gone),
           gone \subseteq {r \in w.rows : AboveFloor(r)}
    PROVE  /\ Good(w') /\ ~w'.err /\ w'.next = w.next /\ w'.next >= 1
           /\ ~w'.stopped /\ ~w'.open /\ w'.batch = << >> /\ w'.rows = w.rows \ gone
           /\ w'.txn = {}
           /\ torn' \in SUBSET Txns
<1>1. OldRows \subseteq w.rows \ gone
  <2>1. \A r \in OldRows : r.id \in Nat /\ ~AboveFloor(r)
    BY CaptureAssumption DEF Core, FloorInv, AboveOld, AboveFloor, StateType, SavedState
  <2> QED BY <2>1 DEF Core, WriterInv, Good
<1>2. /\ w.rows \ gone \in SUBSET Row /\ w.next \in Nat /\ w.next >= 1
      /\ \A r \in w.rows \ gone : r.id < w.next
  BY DEF Core, WriterInv, Good, Writer
<1>3. w' = NewTxnBatcher(w.rows \ gone, w.next) /\ torn' \subseteq torn
  BY DEF Kept
<1>4. torn' \in SUBSET Txns
  BY <1>3 DEF Core, StateType
<1>5. Fresh(w', w.rows \ gone, w.next)
  BY <1>1, <1>2, <1>3, NewWriterGood
<1> QED BY <1>2, <1>4, <1>5 DEF Fresh

\* The first pass of a cleanup deletes only at or above the floor.
LEMMA SinceAboveFloor == SinceCheckpoint \subseteq {r \in w.rows : AboveFloor(r)}
BY DEF SinceCheckpoint

\* So does the second.
LEMMA OpenAboveFloor == OpenAtCheckpoint \subseteq {r \in w.rows : AboveFloor(r)}
BY DEF OpenAtCheckpoint, Stragglers

\* The events a position resume does not read again.
LEMMA ReadToType ==
    ASSUME NEW p \in Nat
    PROVE  /\ ReadTo(p) \in 0 .. Len(Log)
           /\ \A i \in Items : Log[i].end <= p => i <= ReadTo(p)
           /\ ReadTo(p) # 0 => ReadTo(p) \in Items /\ Log[ReadTo(p)].end <= p
<1> DEFINE S == {i \in Items : Log[i].end <= p} \cup {0}
<1>1. Len(Log) \in Nat
  BY CaptureAssumption
<1>2. S \in SUBSET Nat /\ S # {} /\ \A x \in S : x <= Len(Log)
  BY <1>1 DEF Items
<1>3. IsFiniteSet(S)
  BY <1>1, <1>2, FS_BoundedSetOfNaturals
<1>4. Max(S) \in S /\ \A x \in S : x <= Max(S)
  BY <1>2, <1>3, MaxOfFinite
<1> QED BY <1>1, <1>4 DEF ReadTo, Items

\* A resume in position mode.
LEMMA ResumePositionCore ==
    ASSUME Core, ResumePosition
    PROVE  Core'
<1>1. /\ phase = "down" /\ saved.exists /\ runs < MaxRuns /\ Kept(SinceCheckpoint)
      /\ st' = Started(saved.pos, saved.gset, saved.floor) /\ rd' = ReadTo(saved.pos)
      /\ phase' = "run" /\ runs' = runs + 1 /\ UNCHANGED <<since, saved, spared>>
  BY DEF ResumePosition
<1>2. /\ Good(w') /\ ~w'.err /\ w'.next >= 1 /\ ~w'.stopped /\ ~w'.open /\ w'.batch = << >>
      /\ torn' \in SUBSET Txns
  BY <1>1, KeptCore, SinceAboveFloor
<1>3. /\ saved.pos \in Coords /\ saved.gset \in SUBSET Txns /\ saved.floor \in Nat
      /\ saved.pos \in Nat /\ 0 \in 0 .. Len(Log)
  <2>1. Len(Log) \in Nat
    BY CaptureAssumption
  <2>2. saved \in SavedState
    BY DEF Core, StateType
  <2>3. saved.pos \in Coords /\ saved.gset \in SUBSET Txns /\ saved.floor \in Nat
    BY <2>2 DEF SavedState
  <2> QED BY <2>1, <2>3, CoordsNat
<1>4. st' \in StreamState /\ st'.floor = saved.floor
  BY <1>1, <1>3 DEF Started, StreamState
<1>5. rd' \in 0 .. Len(Log)
  <2>1. ReadTo(saved.pos) \in 0 .. Len(Log)
    BY ONLY <1>3, ReadToType, Zenon
  <2> QED BY ONLY <1>1, <2>1
<1>6. StateType'
  BY <1>1, <1>2, <1>4, <1>5, NextRun DEF Core, StateType
<1>7. WriterInv'
  BY ONLY <1>1, <1>2, Zenon DEF WriterInv
<1>8. FloorInv'
  <2>1. saved.exists /\ AboveOld(saved.floor)
    BY ONLY <1>1, Core DEF Core, FloorInv
  <2>2. UNCHANGED saved /\ AboveOld(saved.floor)' /\ AboveOld(st.floor)'
    BY ONLY <1>1, <1>4, <2>1 DEF AboveOld
  <2> QED BY ONLY <2>1, <2>2 DEF FloorInv
<1> QED BY ONLY <1>6, <1>7, <1>8 DEF Core

\* The first pass of a resume in GTID mode.
LEMMA ResumeGTIDCore ==
    ASSUME Core, ResumeGTID
    PROVE  Core'
<1>1. /\ phase = "down" /\ saved.exists /\ runs < MaxRuns /\ Kept(SinceCheckpoint)
      /\ spared' \subseteq spared \cup Visible
      /\ phase' = "stragglers" /\ runs' = runs + 1 /\ UNCHANGED <<st, rd, since, saved>>
  BY DEF ResumeGTID
<1>2. /\ Good(w') /\ ~w'.err /\ w'.next >= 1 /\ ~w'.stopped /\ ~w'.open /\ w'.batch = << >>
      /\ torn' \in SUBSET Txns
  BY <1>1, KeptCore, SinceAboveFloor
<1>3. Visible \subseteq Items
  BY DEF Visible, Core, WriterInv, Good, Writer, Row
<1>4. StateType'
  BY <1>1, <1>2, <1>3, NextRun DEF Core, StateType
<1>5. WriterInv' /\ FloorInv'
  BY <1>1, <1>2 DEF Core, WriterInv, FloorInv, AboveOld
<1> QED BY <1>4, <1>5 DEF Core

\* The second pass, and the start of the run.
LEMMA DeleteStragglersCore ==
    ASSUME Core, DeleteStragglers
    PROVE  Core'
<1>1. /\ phase = "stragglers" /\ saved.exists /\ Kept(OpenAtCheckpoint)
      /\ st' = Started(0, saved.gset, saved.floor) /\ since' = saved.gset
      /\ phase' = "run" /\ UNCHANGED <<runs, rd, saved, spared>>
  BY DEF DeleteStragglers, Core, FloorInv
<1>2. /\ Good(w') /\ ~w'.err /\ w'.next >= 1 /\ ~w'.stopped /\ ~w'.open /\ w'.batch = << >>
      /\ torn' \in SUBSET Txns
  BY <1>1, KeptCore, OpenAboveFloor
<1>3. /\ saved.gset \in SUBSET Txns /\ saved.floor \in Nat /\ 0 \in 0 .. Len(Log)
  BY CaptureAssumption DEF Core, StateType, SavedState, Items
<1>4. st' \in StreamState /\ st'.floor = saved.floor
  BY <1>1, <1>3 DEF Started, StreamState, Coords
<1>5. StateType'
  BY <1>1, <1>2, <1>3, <1>4 DEF Core, StateType
<1>6. WriterInv' /\ FloorInv'
  BY <1>1, <1>2, <1>4 DEF Core, WriterInv, FloorInv, AboveOld
<1> QED BY <1>5, <1>6 DEF Core

\* Every step keeps Core.
LEMMA NextCore == Core /\ [Next]_vars => Core'
<1> SUFFICES ASSUME Core, [Next]_vars PROVE Core'
  OBVIOUS
<1>1. CASE Next
  BY <1>1, ReadCore, TickCore, SaveCore, CaughtUpCore, CapTimerCore, StopCore, LoseLockCore,
     CrashCore, StartFreshCore, ResumePositionCore, ResumeGTIDCore, DeleteStragglersCore
     DEF Next, Start
<1>2. CASE UNCHANGED vars
  BY <1>2 DEF vars, Core, StateType, WriterInv, FloorInv
<1> QED BY <1>1, <1>2

\* Core is an invariant of capture, in both modes.
THEOREM CoreInvariant == Spec => []Core
BY InitCore, NextCore, PTL DEF Spec

\* The state of capture is well typed, the complete part of the batch within
\* the batch (TxnBatcher, streamState, stream_state), for every log and bound.
THEOREM TypeCorrect == Spec => []TypeOK
<1>1. Core => TypeOK
  BY DEF Core, StateType, WriterInv, Good, TypeOK
<1> QED BY <1>1, CoreInvariant, PTL

\* No cleanup of a restart ever deletes a row an earlier capture wrote,
\* whatever coordinates or GTIDs it carries (freshDedupFloor, noteDedupFloor).
THEOREM OldHistorySafe == Spec => []OldHistoryKept
<1>1. Core => OldHistoryKept
  BY DEF Core, WriterInv, Good, OldHistoryKept
<1> QED BY <1>1, CoreInvariant, PTL

(***************************************************************************)
(* Between checkpoint's commit and its save the complete rows are in the   *)
(* table, and nothing else is done.                                        *)
(***************************************************************************)
SaveInv == st.saving => phase = "run" /\ w.done = 0

\* An event leaves the loop at its select.
LEMMA ReadSelects ==
    ASSUME Core, Read
    PROVE  ~st'.saving
<1>1. ~st.saving /\ st \in StreamState /\ w.first \in Nat
  BY DEF Read, Selecting, Core, StateType, WriterInv, Good, Writer
<1>2. PICK i \in Items : OnGTID(i) \/ OnCommit(i) \/ OnDDL(i) \/ OnRow(i)
  BY DEF Read
<1>3. Tracked(i) \in StreamState /\ ~Tracked(i).saving
  BY <1>1, TrackedType
<1>4. ASSUME NEW x, NEW s, Continue(x, s, i), ~s.saving
      PROVE  ~st'.saving
  BY <1>4 DEF Continue, Abort, Down, Idle, Started
<1>5. ASSUME NEW x, NEW f \in Nat, NEW b \in BOOLEAN,
             Continue(x, [advanceGTID(Tracked(i), i, f) EXCEPT !.claimed = b], i)
      PROVE  ~st'.saving
  <2>1. advanceGTID(Tracked(i), i, f) \in StreamState /\ ~advanceGTID(Tracked(i), i, f).saving
    BY <1>3, AdvanceType
  <2>2. ~[advanceGTID(Tracked(i), i, f) EXCEPT !.claimed = b].saving
    BY <2>1, ClaimedType
  <2> QED BY <1>4, <1>5, <2>2, Zenon
<1>6. CASE OnGTID(i)
  BY <1>3, <1>4, <1>6, ClaimedType, Zenon DEF OnGTID
<1>7. CASE OnCommit(i)
  BY <1>1, <1>5, <1>7, Zenon DEF OnCommit
<1>8. CASE OnDDL(i)
  <2>1. PICK x \in Then(End(w), CommitComplete) :
           Continue(x, [advanceGTID(Tracked(i), i, x.first) EXCEPT
                          !.claimed = Mode = "gtid" /\ Log[i].gtid], i)
    BY <1>8 DEF OnDDL
  <2>2. Good(x)
    BY <2>1, FlushProgress DEF Core, WriterInv, Progress
  <2>3. x.first \in Nat /\ (Mode = "gtid" /\ Log[i].gtid) \in BOOLEAN
    BY <2>2 DEF Good, Writer
  <2> QED BY <1>5, <2>1, <2>3, Zenon
<1>9. CASE OnRow(i)
  BY <1>3, <1>4, <1>9 DEF OnRow
<1> QED BY <1>2, <1>6, <1>7, <1>8, <1>9

\* Every step keeps SaveInv.
LEMMA NextSave == Core /\ SaveInv /\ [Next]_vars => SaveInv'
<1> SUFFICES ASSUME Core, SaveInv, [Next]_vars PROVE SaveInv'
  OBVIOUS
<1>1. st \in StreamState /\ w \in Writer /\ Good(w) /\ ~w.err
  BY DEF Core, StateType, WriterInv, Good
<1>2. CASE Read
  BY <1>2, ReadSelects DEF SaveInv
<1>3. CASE Tick
  <2>1. PICK x \in CommitComplete(w) :
           IF x.err THEN Abort(x) ELSE w' = x /\ phase' = phase
    BY <1>3 DEF Tick
  <2>2. phase = "run" /\ (~x.err => x.done = 0)
    BY <1>1, <1>3, <2>1, CommitCompleteProgress DEF Tick, Selecting
  <2> QED BY ONLY <2>1, <2>2 DEF SaveInv, Abort, Down, Idle, Started
<1>4. CASE Save
  <2>1. \/ st' = [st EXCEPT !.saving = FALSE]
        \/ st' = [st EXCEPT !.caught = 0, !.saving = FALSE]
    BY ONLY <1>4 DEF Save, SaveSucceeded, SaveFailed
  <2>2. ~st'.saving
    BY ONLY <1>1, <2>1 DEF StreamState
  <2> QED BY <2>2 DEF SaveInv
<1>5. CASE CaughtUp
  <2>1. ~st'.saving
    BY <1>1, <1>5 DEF CaughtUp, Selecting, StreamState
  <2> QED BY <2>1 DEF SaveInv
<1>6. CASE CapTimer
  BY <1>6 DEF CapTimer, Selecting, Continue, Abort, Down, Idle, Started, SaveInv
<1>7. CASE Stop \/ Crash
  <2>1. st' = Idle
    BY ONLY <1>7 DEF Stop, Crash, Down
  <2> QED BY ONLY <2>1 DEF Idle, Started, SaveInv
<1>8. CASE LoseLock
  BY ONLY <1>1, <1>8, SaveInv DEF LoseLock, Writer, SaveInv
<1>9. CASE Start
  <2>1. CASE StartFresh
    BY ONLY <2>1 DEF StartFresh, Started, SaveInv
  <2>2. CASE ResumePosition
    BY ONLY <2>2 DEF ResumePosition, Started, SaveInv
  <2>3. CASE ResumeGTID
    BY ONLY <2>3, SaveInv DEF ResumeGTID, SaveInv
  <2>4. CASE DeleteStragglers
    BY ONLY <2>4 DEF DeleteStragglers, Started, SaveInv
  <2> QED BY ONLY <1>9, <2>1, <2>2, <2>3, <2>4 DEF Start
<1>10. CASE UNCHANGED vars
  BY <1>10 DEF vars, SaveInv
<1> QED BY <1>2, <1>3, <1>4, <1>5, <1>6, <1>7, <1>8, <1>9, <1>10 DEF Next

\* When checkpoint saves, no complete row is waiting (CommitComplete).
THEOREM SaveInvariant == Spec => []SaveInv
<1>1. Init => SaveInv
  BY DEF Init, Idle, Started, SaveInv
<1> QED BY <1>1, NextSave, CoreInvariant, PTL DEF Spec

\* What a step may do once the lock is known to be lost.
OnlyTheSave ==
    /\ w'.rows = w.rows
    /\ saved' = saved \/ st.saving
    /\ st'.saving => st.saving

\* Once the lock is known to be lost, only a save already begun is written.
LEMMA StoppedStep ==
    ASSUME Core, SaveInv, [Next]_vars, w.stopped
    PROVE  OnlyTheSave
<1>1. Good(w) /\ ~w.err /\ phase = "run" /\ st \in StreamState
  BY DEF Core, StateType, WriterInv
<1>2. ASSUME NEW x, Good(x), Grown(w, x), NEW s, NEW i, Continue(x, s, i)
      PROVE  w'.rows = w.rows /\ saved' = saved
  <2>1. x.rows = w.rows
    BY <1>2 DEF Grown
  <2> QED BY <1>2, <2>1 DEF Continue, Abort, Down, NewTxnBatcher
<1>3. CASE Read
  <2>1. PICK i \in Items : OnGTID(i) \/ OnCommit(i) \/ OnDDL(i) \/ OnRow(i)
    BY <1>3 DEF Read
  <2>2. PICK x, s : Good(x) /\ Grown(w, x) /\ Continue(x, s, i)
    <3>1. CASE OnGTID(i)
      BY <1>1, <3>1, ProgressReflexive DEF OnGTID, Progress
    <3>2. CASE OnCommit(i)
      BY <1>1, <3>2, EndProgress DEF OnCommit, Progress
    <3>3. CASE OnDDL(i)
      <4>1. PICK x \in Then(End(w), CommitComplete) :
               Continue(x, [advanceGTID(Tracked(i), i, x.first) EXCEPT
                              !.claimed = Mode = "gtid" /\ Log[i].gtid], i)
        BY <3>3 DEF OnDDL
      <4>2. Good(x) /\ Grown(w, x)
        BY <1>1, <4>1, FlushProgress DEF Progress
      <4> QED BY ONLY <4>1, <4>2
    <3>4. CASE OnRow(i)
      BY <1>1, <3>4, AddProgress DEF OnRow, RowItems
    <3> QED BY <2>1, <3>1, <3>2, <3>3, <3>4
  <2>3. w'.rows = w.rows /\ saved' = saved
    BY <1>2, <2>2
  <2>4. ~st'.saving
    BY <1>3, ReadSelects
  <2> QED BY ONLY <2>3, <2>4 DEF OnlyTheSave
<1>4. CASE Tick
  <2>1. CommitComplete(w) = {Failed(w)} /\ Failed(w).err /\ Failed(w).rows = w.rows
    BY <1>1 DEF CommitComplete, Failed, Good, Writer
  <2>2. Abort(Failed(w))
    BY <1>4, <2>1 DEF Tick
  <2> QED BY ONLY <2>1, <2>2 DEF Abort, Down, NewTxnBatcher, Idle, Started, OnlyTheSave
<1>5. CASE Save
  BY <1>5 DEF Save, OnlyTheSave
<1>6. CASE CapTimer
  <2>1. w'.rows = w.rows /\ saved' = saved
    BY <1>1, <1>2, <1>6, SplitProgress DEF CapTimer, Progress
  <2>2. st' = st \/ ~st'.saving
    BY <1>6 DEF CapTimer, Continue, Abort, Down, Idle, Started
  <2> QED BY ONLY <2>1, <2>2 DEF OnlyTheSave
<1>7. CASE Stop
  <2>1. Down(w) /\ saved' = saved
    BY <1>7 DEF Stop
  <2> QED BY <2>1 DEF Down, NewTxnBatcher, Idle, Started, OnlyTheSave
<1>8. CASE Crash
  BY <1>8 DEF Crash, Down, NewTxnBatcher, Idle, Started, OnlyTheSave
<1>9. CASE CaughtUp
  BY <1>1, <1>9 DEF CaughtUp, StreamState, OnlyTheSave
<1>10. CASE UNCHANGED vars
  BY <1>10 DEF vars, OnlyTheSave
<1>11. ~LoseLock /\ ~Start
  BY <1>1 DEF LoseLock, Start, StartFresh, ResumePosition, ResumeGTID, DeleteStragglers
<1> QED BY <1>3, <1>4, <1>5, <1>6, <1>7, <1>8, <1>9, <1>10, <1>11 DEF Next

\* A process that knows it lost its capture lock writes no row and begins no
\* checkpoint; a checkpoint past its Stopped check may still be saved
\* (CommitComplete, ErrStopWithoutFlush, checkpoint).
THEOREM LostLockSafe == Spec => LostLockStopsWrites
<1>1. Core /\ SaveInv /\ [Next]_vars => [w.stopped => OnlyTheSave]_vars
  BY StoppedStep
<1>2. [w.stopped => OnlyTheSave]_vars
      => [w.stopped => /\ w'.rows = w.rows
                       /\ saved' = saved \/ st.saving
                       /\ st'.saving => st.saving]_vars
  BY DEF OnlyTheSave
<1> QED BY <1>1, <1>2, CoreInvariant, SaveInvariant, PTL DEF Spec, LostLockStopsWrites
=============================================================================
