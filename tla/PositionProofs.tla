--------------------------- MODULE PositionProofs ---------------------------
(***************************************************************************)
(* Position mode: no event of the binary log is lost and none is indexed   *)
(* twice, for every log, batch size, row cap and number of failures.       *)
(***************************************************************************)
EXTENDS CaptureProofs

(***************************************************************************)
(* p lies between two events: a resume at p reads whole events only.       *)
(***************************************************************************)
Cut(p) == \A i \in Items : Log[i].end <= p \/ p <= Log[i].start

(***************************************************************************)
(* A cleanup from p bounded by floor finds every row x wrote after p.  One *)
(* from 0, the empty file name, would do nothing.                          *)
(***************************************************************************)
Finds(x, p, floor) ==
    /\ p > 0
    /\ floor <= x.next
    /\ \A r \in New(x) : Log[r.item].end <= p \/ r.id >= floor

Indexed(x, i) == \E r \in x.rows \ OldRows : r.item = i

(***************************************************************************)
(* While capture runs: what was read is held, the table is in log order,   *)
(* and everything before the safe position is durable.                     *)
(***************************************************************************)
RunInv ==
    /\ Ordered(w, rd)
    /\ \A i \in RowItems : i <= rd => Present(w, i)
    /\ Cut(st.safe)
    /\ Finds(w, st.safe, st.floor)
    /\ \A i \in RowItems : Log[i].end <= st.safe => Durable(w, i)

(***************************************************************************)
(* Always: the table is in log order, and the checkpoint claims only what  *)
(* is indexed and has a floor below what it does not claim.                *)
(***************************************************************************)
PosInv ==
    /\ phase # "stragglers"
    /\ InOrder(New(w)) /\ \A r \in New(w) : r.item \in RowItems
    /\ Cut(saved.pos)
    /\ IF saved.exists THEN Finds(w, saved.pos, saved.floor) ELSE New(w) = {}
    /\ \A i \in RowItems : Log[i].end <= saved.pos => Indexed(w, i)
    /\ phase = "run" => RunInv
-----------------------------------------------------------------------------
\* Events end in log order; a resume point is the end of a commit or a DDL,
\* which shares its coordinates with no other event.
LEMMA LogOrder ==
    ASSUME NEW i \in Items, NEW j \in Items, i < j
    PROVE  /\ Log[i].end <= Log[j].end
           /\ Log[i].type # "row" \/ Log[j].type # "row" => Log[i].end <= Log[j].start
<1>1. \/ Log[i].end < Log[j].start
      \/ Log[i].end = Log[j].start
      \/ /\ Log[i].end = Log[j].end
         /\ Log[i].type = "row" /\ Log[j].type = "row"
  BY CaptureAssumption
<1> QED BY <1>1, LogItems

\* The end of a commit, a DDL or a GTID lies between two events.
LEMMA BoundaryCuts ==
    ASSUME NEW i \in Items, Log[i].type # "row"
    PROVE  Cut(Log[i].end)
<1> SUFFICES ASSUME NEW j \in Items PROVE Log[j].end <= Log[i].end \/ Log[i].end <= Log[j].start
  BY DEF Cut
<1>1. i \in Nat /\ j \in Nat /\ Log[i].end \in Nat
  BY LogItems DEF Items
<1> QED BY <1>1, LogOrder

\* The events before a commit or DDL i are those that end with it.
LEMMA BeforeBoundary ==
    ASSUME NEW i \in Items, Log[i].type # "row", NEW j \in RowItems
    PROVE  (Log[j].end <= Log[i].end) <=> j < i
<1>1. j \in Items /\ Log[j].type = "row" /\ i \in Nat /\ j \in Nat
  BY DEF RowItems, Items
<1>2. /\ Log[i].end \in Nat /\ Log[j].end \in Nat /\ Log[j].start \in Nat
      /\ Log[j].start < Log[j].end
  BY <1>1, LogItems
<1>3. CASE j < i
  BY <1>1, <1>3, LogOrder
<1>4. CASE i < j
  BY <1>1, <1>2, <1>4, LogOrder
<1> QED BY <1>1, <1>3, <1>4

\* What the cleanup finds before a write it finds after it.
LEMMA FindsGrown ==
    ASSUME NEW y, NEW x, Good(y), Good(x), Grown(y, x), NEW p, NEW f \in Nat, Finds(y, p, f)
    PROVE  Finds(x, p, f)
<1>1. y.next \in Nat /\ x.next \in Nat /\ y.next <= x.next /\ f <= x.next
  BY DEF Good, Writer, Grown, Finds
<1>2. \A r \in New(x) : r.id \in Nat /\ (r \in New(y) \/ r.id >= y.next)
  BY DEF New, Good, Writer, Row, Grown
<1> QED BY <1>1, <1>2 DEF Finds

\* What is indexed stays indexed while the table grows.
LEMMA IndexedGrown ==
    ASSUME NEW y, NEW x, Grown(y, x), NEW i, Indexed(y, i)
    PROVE  Indexed(x, i)
BY DEF Grown, Indexed

\* With no complete rows waiting, durable means indexed.
LEMMA DurableIndexed ==
    ASSUME NEW x, Good(x), x.done = 0, NEW i, Durable(x, i)
    PROVE  Indexed(x, i)
BY DEF Durable, Indexed

\* The process ends with table x and writes checkpoint c, or none.
LEMMA DownPos ==
    ASSUME Core, PosInv, phase = "run", NEW x, Good(x), Grown(w, x), NEW n, Ordered(x, n), Down(x),
           \/ saved' = saved
           \/ /\ saved' = Checkpoint(st) /\ Mode = "position"
              /\ \A i \in RowItems : Log[i].end <= st.safe => Indexed(x, i)
    PROVE  PosInv'
<1>1. /\ w' = NewTxnBatcher(x.rows, x.next) /\ w'.rows = x.rows /\ w'.next = x.next
      /\ w'.txn = {} /\ phase' = "down"
  BY DEF Down, NewTxnBatcher
<1>2. New(w') = x.rows \ OldRows /\ New(w') \subseteq New(x)
  BY <1>1 DEF New
<1>3. InOrder(New(w')) /\ \A r \in New(w') : r.item \in RowItems
  BY <1>2 DEF Ordered, InOrder
<1>4. saved.exists /\ RunInv /\ saved.floor \in Nat /\ st.floor \in Nat /\ Good(w)
  BY DEF Core, FloorInv, PosInv, StateType, StreamState, SavedState, WriterInv
<1>5. Finds(x, saved.pos, saved.floor) /\ Finds(x, st.safe, st.floor)
  BY <1>4, FindsGrown DEF PosInv, RunInv
<1>6. CASE saved' = saved
  <2>1. Finds(w', saved.pos, saved.floor)
    BY <1>1, <1>2, <1>5 DEF Finds
  <2>2. \A i \in RowItems : Log[i].end <= saved.pos => Indexed(w', i)
    BY <1>1, IndexedGrown DEF PosInv, Indexed
  <2>3. Cut(saved'.pos) /\ Finds(w', saved'.pos, saved'.floor) /\ saved'.exists
    BY <1>4, <1>6, <2>1 DEF PosInv
  <2> QED BY <1>1, <1>3, <1>6, <2>2, <2>3 DEF PosInv, Finds, Indexed, New, InOrder, Cut
<1>7. CASE /\ saved' = Checkpoint(st) /\ Mode = "position"
           /\ \A i \in RowItems : Log[i].end <= st.safe => Indexed(x, i)
  <2>1. saved'.pos = st.safe /\ saved'.floor = st.floor /\ saved'.exists
    BY <1>7 DEF Checkpoint, checkpointPosition
  <2>2. Finds(w', saved'.pos, saved'.floor)
    BY <1>1, <1>2, <1>5, <2>1 DEF Finds
  <2>3. \A i \in RowItems : Log[i].end <= saved'.pos => Indexed(w', i)
    BY <1>1, <1>7, <2>1 DEF Indexed
  <2>4. Cut(saved'.pos)
    BY <1>4, <2>1 DEF RunInv
  <2> QED BY <1>1, <1>3, <2>1, <2>2, <2>3, <2>4 DEF PosInv, Finds, Indexed, New, InOrder, Cut
<1> QED BY <1>6, <1>7

\* The run goes on with writer x, stream state s and last event i, or ends.
LEMMA ContinuePos ==
    ASSUME Core, PosInv, phase = "run", NEW x, Good(x), Grown(w, x),
           NEW i, Ordered(x, i), NEW s, Continue(x, s, i),
           ~x.err => /\ \A j \in RowItems : j <= i => Present(x, j)
                     /\ Cut(s.safe) /\ Finds(x, s.safe, s.floor)
                     /\ \A j \in RowItems : Log[j].end <= s.safe => Durable(x, j)
    PROVE  PosInv'
<1>1. CASE x.err
  <2>1. Down(x) /\ saved' = saved
    BY <1>1 DEF Continue, Abort
  <2> QED BY <2>1, DownPos
<1>2. CASE ~x.err
  <2>1. w' = x /\ st' = s /\ rd' = i /\ phase' = "run" /\ saved' = saved
    BY <1>2 DEF Continue
  <2>2. saved.exists /\ saved.floor \in Nat /\ Good(w)
    BY DEF Core, FloorInv, StateType, SavedState, WriterInv
  <2>3. Finds(x, saved.pos, saved.floor)
    BY <2>2, FindsGrown DEF PosInv
  <2>4. \A j \in RowItems : Log[j].end <= saved.pos => Indexed(x, j)
    BY IndexedGrown DEF PosInv
  <2>5. RunInv'
    BY <1>2, <2>1 DEF RunInv
  <2>6. InOrder(New(x)) /\ \A r \in New(x) : r.item \in RowItems
    BY DEF Ordered
  <2>7. Cut(saved.pos)
    BY DEF PosInv
  <2> QED BY <2>1, <2>2, <2>3, <2>4, <2>5, <2>6, <2>7 DEF PosInv
<1> QED BY <1>1, <1>2

\* In position mode a GTID changes nothing.
LEMMA PositionStreamState ==
    ASSUME Mode = "position", Core, NEW i \in Items, NEW f, NEW b \in BOOLEAN
    PROVE  LET s == [advanceGTID(Tracked(i), i, f) EXCEPT !.claimed = b]
           IN  /\ s.safe = Tracked(i).safe /\ s.floor = Tracked(i).floor
               /\ IF Log[i].type \in {"commit", "ddl"}
                  THEN /\ Tracked(i).safe = Log[i].end
                       /\ Tracked(i).floor = IF w.first > st.floor THEN w.first ELSE st.floor
                  ELSE Tracked(i).safe = st.safe /\ Tracked(i).floor = st.floor
<1> DEFINE e == [st EXCEPT !.pos = Log[i].end]
           b2 == [e EXCEPT !.safe = Log[i].end]
<1>1. st \in StreamState /\ w.first \in Nat /\ Log[i].end \in Coords
  BY LogItems DEF Core, StateType, WriterInv, Good, Writer
<1>2. /\ e \in StreamState /\ b2 \in StreamState /\ e.safe = st.safe /\ e.floor = st.floor
      /\ b2.safe = Log[i].end /\ b2.floor = st.floor
  BY <1>1 DEF StreamState
<1>3. /\ noteDedupFloor(b2, w.first).safe = Log[i].end
      /\ noteDedupFloor(b2, w.first).floor = IF w.first > st.floor THEN w.first ELSE st.floor
  BY <1>1, <1>2, NoteType
<1>4. Tracked(i) = IF Log[i].type \in {"commit", "ddl"} THEN noteDedupFloor(b2, w.first) ELSE e
  BY DEF Tracked, isPositionCheckpointBoundary
<1>5. advanceGTID(Tracked(i), i, f) = Tracked(i)
  BY DEF advanceGTID
<1>6. Tracked(i) \in StreamState
  BY <1>1, TrackedType
<1>7. /\ [Tracked(i) EXCEPT !.claimed = b].safe = Tracked(i).safe
      /\ [Tracked(i) EXCEPT !.claimed = b].floor = Tracked(i).floor
  BY <1>6 DEF StreamState
<1> HIDE DEF e, b2
<1> QED BY <1>2, <1>3, <1>4, <1>5, <1>7

\* A commit or a DDL: all that was read is durable, and a resume point.
LEMMA BoundaryPos ==
    ASSUME Mode = "position", Core, PosInv, phase = "run",
           NEW i \in Items, i = rd + 1, Log[i].type \in {"commit", "ddl"},
           NEW x, Progress(w, x), NEW f, NEW b \in BOOLEAN,
           ~x.err => \A j \in RowItems : Present(w, j) => Durable(x, j),
           Continue(x, [advanceGTID(Tracked(i), i, f) EXCEPT !.claimed = b], i)
    PROVE  PosInv'
<1> DEFINE s == [advanceGTID(Tracked(i), i, f) EXCEPT !.claimed = b]
<1>1. /\ s.safe = Log[i].end
      /\ s.floor = IF w.first > st.floor THEN w.first ELSE st.floor
  BY PositionStreamState
<1>2. /\ rd \in Nat /\ i \in Nat /\ RunInv /\ Good(w) /\ w.first \in Nat /\ st.floor \in Nat
      /\ w.next \in Nat /\ w.first <= w.next
  BY DEF Core, StateType, StreamState, PosInv, WriterInv, Good, Writer, Items
<1>3. Good(x) /\ Grown(w, x) /\ x.next \in Nat /\ w.next <= x.next /\ Ordered(x, rd)
  BY <1>2 DEF Progress, Good, Writer, Grown, RunInv
<1>4. \A j \in RowItems : j \in Nat /\ j \in Items
  BY DEF RowItems, Items
<1>5. Ordered(x, i)
  BY <1>2, <1>3, <1>4 DEF Ordered
<1> HIDE DEF s
<1>6. ASSUME ~x.err
      PROVE  /\ \A j \in RowItems : j <= i => Present(x, j)
             /\ Cut(s.safe) /\ Finds(x, s.safe, s.floor)
             /\ \A j \in RowItems : Log[j].end <= s.safe => Durable(x, j)
  <2>1. \A j \in RowItems : j <= i => j <= rd
    <3>1. i \notin RowItems
      BY DEF RowItems
    <3> QED BY <1>2, <1>4, <3>1
  <2>2. \A j \in RowItems : j <= i => Present(x, j) /\ Durable(x, j)
    BY <1>2, <1>6, <2>1 DEF RunInv, Progress
  <2>3. \A j \in RowItems : Log[j].end <= s.safe => j <= i
    BY <1>1, <1>2, <1>4, BeforeBoundary
  <2>4. Finds(x, s.safe, s.floor)
    <3>1. s.floor <= x.next
      BY <1>1, <1>2, <1>3 DEF RunInv, Finds
    <3>2. \A r \in New(x) : Log[r.item].end <= s.safe
      <4>1. \A r \in New(x) : r.item \in RowItems /\ r.item < i
        BY <1>2, <1>3, <1>4 DEF Ordered
      <4> QED BY <1>1, <4>1, BeforeBoundary
    <3>3. s.safe > 0
      BY <1>1, LogItems
    <3> QED BY <3>1, <3>2, <3>3 DEF Finds
  <2>5. Cut(s.safe)
    BY <1>1, BoundaryCuts
  <2> QED BY <2>2, <2>3, <2>4, <2>5
<1>7. Continue(x, s, i)
  BY DEF s
<1> QED BY <1>3, <1>5, <1>6, <1>7, ContinuePos

\* What the invariants say of a run (streamLoop).
LEMMA Running ==
    ASSUME Core, PosInv, phase = "run"
    PROVE  /\ Good(w) /\ ~w.err /\ RunInv /\ rd \in Nat
           /\ st \in StreamState /\ st.floor \in Nat
           /\ saved.exists /\ saved.floor \in Nat
<1>1. Good(w) /\ ~w.err /\ RunInv /\ saved.exists
  BY DEF Core, WriterInv, FloorInv, PosInv
<1>2. rd \in Nat /\ st \in StreamState /\ saved \in SavedState
  BY DEF Core, StateType
<1> QED BY <1>1, <1>2 DEF StreamState, SavedState

\* The source sends every event: a read takes the next one.
LEMMA ReadPos ==
    ASSUME Mode = "position", Core, PosInv, Read
    PROVE  PosInv'
<1>1. /\ phase = "run" /\ Good(w) /\ ~w.err /\ RunInv /\ rd \in Nat
      /\ st \in StreamState /\ st.floor \in Nat
  BY Running DEF Read, Selecting
<1>2. PICK i \in Items : /\ i > rd /\ \A j \in rd + 1 .. i - 1 : ~Sent(j)
                         /\ OnGTID(i) \/ OnCommit(i) \/ OnDDL(i) \/ OnRow(i)
  BY DEF Read
<1>3. i = rd + 1 /\ i \in Nat /\ rd < i
  <2>1. i \in Nat /\ \A j \in rd + 1 .. i - 1 : FALSE
    BY <1>2 DEF Sent, Items
  <2>2. i - 1 < rd + 1
    <3> SUFFICES ASSUME rd + 1 <= i - 1 PROVE FALSE
      BY <1>1, <2>1
    <3> QED BY <1>1, <2>1
  <2> QED BY <1>1, <1>2, <2>1, <2>2
<1>4. \A j \in RowItems : j \in Nat /\ j \in Items
  BY DEF RowItems, Items
<1>5. /\ Log[i].type \notin {"commit", "ddl"} =>
            Tracked(i).safe = st.safe /\ Tracked(i).floor = st.floor
      /\ Log[i].type \notin {"commit", "ddl"} =>
            /\ [Tracked(i) EXCEPT !.claimed = FALSE].safe = st.safe
            /\ [Tracked(i) EXCEPT !.claimed = FALSE].floor = st.floor
  <2>1. FALSE \in BOOLEAN
    OBVIOUS
  <2>2. Tracked(i) \in StreamState
    BY <1>1, TrackedType DEF Core, WriterInv, Good, Writer
  <2>3. [Tracked(i) EXCEPT !.claimed = FALSE].safe = Tracked(i).safe
    BY <2>2 DEF StreamState
  <2>4. [Tracked(i) EXCEPT !.claimed = FALSE].floor = Tracked(i).floor
    BY <2>2 DEF StreamState
  <2> QED BY <2>1, <2>3, <2>4, PositionStreamState
<1>6. CASE OnGTID(i)
  <2> DEFINE s == [Tracked(i) EXCEPT !.claimed = FALSE]
  <2>1. Continue(w, s, i) /\ Log[i].type = "gtid" /\ i \notin RowItems
    BY <1>6 DEF OnGTID, RowItems
  <2>2. s.safe = st.safe /\ s.floor = st.floor
    BY <1>5, <2>1
  <2> HIDE DEF s
  <2>3. Grown(w, w)
    BY <1>1, GrownSame
  <2>4. Ordered(w, i)
    BY <1>1, <1>3, <1>4 DEF RunInv, Ordered
  <2>5. \A j \in RowItems : j <= i => Present(w, j)
    BY <1>1, <1>3, <1>4, <2>1 DEF RunInv
  <2>6. /\ Cut(s.safe) /\ Finds(w, s.safe, s.floor)
        /\ \A j \in RowItems : Log[j].end <= s.safe => Durable(w, j)
    BY <1>1, <2>2 DEF RunInv
  <2> QED BY <1>1, <2>1, <2>3, <2>4, <2>5, <2>6, ContinuePos
<1>7. CASE OnCommit(i)
  <2>1. PICK x \in End(w) :
           Continue(x, [advanceGTID(Tracked(i), i, w.first) EXCEPT !.claimed = FALSE], i)
    BY <1>7 DEF OnCommit
  <2>2. FALSE \in BOOLEAN /\ Log[i].type \in {"commit", "ddl"}
    BY <1>7 DEF OnCommit
  <2> QED BY <1>1, <1>3, <2>1, <2>2, EndProgress, BoundaryPos
<1>8. CASE OnDDL(i)
  <2>1. PICK x \in Then(End(w), CommitComplete) :
           Continue(x, [advanceGTID(Tracked(i), i, x.first) EXCEPT
                          !.claimed = Mode = "gtid" /\ Log[i].gtid], i)
    BY <1>8 DEF OnDDL
  <2>2. (Mode = "gtid" /\ Log[i].gtid) \in BOOLEAN /\ Log[i].type \in {"commit", "ddl"}
    BY <1>8 DEF OnDDL
  <2> QED BY <1>1, <1>3, <2>1, <2>2, FlushProgress, BoundaryPos
<1>9. CASE OnRow(i)
  <2>1. PICK x \in Add(w, i) : Continue(x, Tracked(i), i)
    BY <1>9 DEF OnRow
  <2>2. i \in RowItems /\ Log[i].type = "row"
    BY <1>9 DEF OnRow, RowItems
  <2>3. /\ Good(x) /\ Grown(w, x) /\ Ordered(x, i)
        /\ ~x.err => /\ Present(x, i)
                     /\ \A j \in RowItems : /\ Present(w, j) => Present(x, j)
                                            /\ Durable(w, j) => Durable(x, j)
    BY <1>1, <1>3, <2>1, <2>2, AddProgress DEF RunInv
  <2>4. Tracked(i).safe = st.safe /\ Tracked(i).floor = st.floor
    BY <1>5, <2>2
  <2>5. Finds(x, st.safe, st.floor)
    BY <1>1, <2>3, FindsGrown DEF RunInv
  <2>6. ~x.err => \A j \in RowItems : j <= i => Present(x, j)
    BY <1>1, <1>3, <1>4, <2>3 DEF RunInv
  <2>7. ~x.err => \A j \in RowItems : Log[j].end <= st.safe => Durable(x, j)
    BY <1>1, <2>3 DEF RunInv
  <2>8. Cut(st.safe)
    BY <1>1 DEF RunInv
  <2> QED BY <1>1, <2>1, <2>3, <2>4, <2>5, <2>6, <2>7, <2>8, ContinuePos
<1> QED BY <1>2, <1>6, <1>7, <1>8, <1>9

\* A tick commits the complete rows and saves nothing yet.
LEMMA TickPos ==
    ASSUME Mode = "position", Core, PosInv, Tick
    PROVE  PosInv'
<1>1. /\ phase = "run" /\ Good(w) /\ ~w.err /\ RunInv /\ rd \in Nat
      /\ st \in StreamState /\ st.floor \in Nat /\ saved.floor \in Nat /\ saved.exists
  BY Running DEF Tick, Selecting
<1>2. PICK x \in CommitComplete(w) :
          IF x.err THEN Abort(x)
          ELSE /\ w' = x /\ st' = [st EXCEPT !.saving = TRUE]
               /\ UNCHANGED <<phase, rd, since, saved>>
  BY DEF Tick
<1>3. Progress(w, x)
  BY <1>1, <1>2, CommitCompleteProgress
<1>4. Good(x) /\ Grown(w, x) /\ Ordered(x, rd)
  BY <1>1, <1>3 DEF Progress, RunInv
<1>5. CASE x.err
  <2>1. Down(x) /\ saved' = saved
    BY <1>2, <1>5 DEF Abort
  <2> QED BY <1>1, <1>4, <2>1, DownPos
<1>6. CASE ~x.err
  <2>1. w' = x /\ phase' = phase /\ rd' = rd /\ saved' = saved
    BY <1>2, <1>6
  <2>2. st'.safe = st.safe /\ st'.floor = st.floor
    BY <1>1, <1>2, <1>6 DEF StreamState
  <2>3. Finds(x, st.safe, st.floor) /\ Finds(x, saved.pos, saved.floor)
    BY <1>1, <1>4, FindsGrown DEF RunInv, PosInv
  <2>4. \A j \in RowItems : /\ j <= rd => Present(x, j)
                            /\ Log[j].end <= st.safe => Durable(x, j)
    BY <1>1, <1>3, <1>6 DEF RunInv, Progress
  <2>5. RunInv'
    BY <1>1, <1>4, <2>1, <2>2, <2>3, <2>4 DEF RunInv
  <2>6. InOrder(New(x)) /\ \A r \in New(x) : r.item \in RowItems
    BY <1>4 DEF Ordered
  <2>7. \A j \in RowItems : Log[j].end <= saved.pos => Indexed(x, j)
    BY <1>4, IndexedGrown DEF PosInv
  <2>8. Cut(saved.pos)
    BY DEF PosInv
  <2> QED BY <1>1, <2>1, <2>3, <2>5, <2>6, <2>7, <2>8 DEF PosInv
<1> QED BY <1>5, <1>6

\* The save claims the safe position, before which every row is committed.
LEMMA SavePos ==
    ASSUME Mode = "position", Core, SaveInv, PosInv, Save
    PROVE  PosInv'
<1>1. /\ phase = "run" /\ Good(w) /\ RunInv /\ w.done = 0
      /\ st \in StreamState /\ saved.exists
  BY Running DEF Save, SaveInv
<1>2. UNCHANGED <<phase, w, rd>> /\ (saved' = saved \/ saved' = Checkpoint(st))
  BY DEF Save, SaveSucceeded, SaveFailed
<1>3. \/ st' = [st EXCEPT !.saving = FALSE]
      \/ st' = [st EXCEPT !.caught = 0, !.saving = FALSE]
  BY DEF Save, SaveSucceeded, SaveFailed
<1>4. st'.safe = st.safe /\ st'.floor = st.floor
  BY ONLY <1>1, <1>3 DEF StreamState
<1>5. RunInv'
  BY ONLY <1>1, <1>2, <1>4 DEF RunInv, Finds, New, InOrder, Ordered, Present, Durable
<1>6. \A j \in RowItems : Log[j].end <= st.safe => Indexed(w, j)
  BY <1>1, DurableIndexed DEF RunInv
<1>7. CASE saved' = saved
  BY ONLY PosInv, <1>1, <1>2, <1>5, <1>7 DEF PosInv, Finds, Indexed, New, InOrder
<1>8. CASE saved' = Checkpoint(st)
  <2>1. saved'.exists /\ saved'.pos = st.safe /\ saved'.floor = st.floor
    BY <1>8 DEF Checkpoint, checkpointPosition
  <2>2. /\ w' = w /\ phase' = "run" /\ Cut(saved'.pos) /\ Finds(w, saved'.pos, saved'.floor)
        /\ \A j \in RowItems : Log[j].end <= saved'.pos => Indexed(w, j)
    BY <1>1, <1>2, <1>6, <2>1 DEF RunInv
  <2>3. InOrder(New(w)) /\ \A r \in New(w) : r.item \in RowItems
    BY DEF PosInv
  <2> QED BY ONLY <1>5, <2>1, <2>2, <2>3 DEF PosInv, Finds, Indexed, New, InOrder
<1> QED BY <1>2, <1>7, <1>8

\* The caught-up marker and the loss of the lock move no row.
LEMMA QuietPos ==
    ASSUME Mode = "position", Core, PosInv, CaughtUp \/ LoseLock
    PROVE  PosInv'
<1>1. /\ phase = "run" /\ RunInv /\ w \in Writer /\ st \in StreamState
      /\ phase' = phase /\ rd' = rd /\ saved' = saved
  BY DEF CaughtUp, LoseLock, Selecting, Core, StateType, WriterInv, Good, PosInv
<1>2. /\ w'.rows = w.rows /\ w'.txn = w.txn /\ w'.next = w.next /\ w'.err = w.err
      /\ w'.batch = w.batch /\ w'.done = w.done
  BY <1>1 DEF CaughtUp, LoseLock, Writer
<1>3. st'.safe = st.safe /\ st'.floor = st.floor
  BY <1>1 DEF CaughtUp, LoseLock, StreamState
<1>4. New(w') = New(w) /\ \A i : Indexed(w, i) => Indexed(w', i)
  BY <1>2 DEF New, Indexed
<1>5. \A i : (Present(w, i) => Present(w', i)) /\ (Durable(w, i) => Durable(w', i))
  BY <1>2, <1>4 DEF Present, Durable
<1>6. \A p, f : Finds(w, p, f) => Finds(w', p, f)
  BY <1>2, <1>4 DEF Finds
<1>7. Ordered(w', rd)
  BY <1>1, <1>2, <1>4 DEF RunInv, Ordered
<1>8. RunInv'
  BY ONLY <1>1, <1>3, <1>5, <1>6, <1>7 DEF RunInv
<1> QED BY ONLY PosInv, <1>1, <1>4, <1>6, <1>8 DEF PosInv

\* A cap publishes rows that were read, and moves no coordinate.
LEMMA CapTimerPos ==
    ASSUME Mode = "position", Core, PosInv, CapTimer
    PROVE  PosInv'
<1>1. /\ phase = "run" /\ Good(w) /\ ~w.err /\ w.open /\ RunInv /\ rd \in Nat
      /\ st.floor \in Nat
  BY Running DEF CapTimer, Selecting
<1>2. PICK x \in Split(w) : Continue(x, st, rd)
  BY DEF CapTimer
<1>3. Progress(w, x)
  BY <1>1, <1>2, SplitProgress
<1>4. Good(x) /\ Grown(w, x) /\ Ordered(x, rd)
  BY <1>1, <1>3 DEF Progress, RunInv
<1>5. Finds(x, st.safe, st.floor) /\ Cut(st.safe)
  BY <1>1, <1>4, FindsGrown DEF RunInv
<1>6. ~x.err => \A j \in RowItems : /\ j <= rd => Present(x, j)
                                    /\ Log[j].end <= st.safe => Durable(x, j)
  BY <1>1, <1>3 DEF RunInv, Progress
<1> QED BY <1>1, <1>2, <1>4, <1>5, <1>6, ContinuePos

\* The last checkpoint of a stop claims the safe position, which is durable.
LEMMA StopPos ==
    ASSUME Mode = "position", Core, PosInv, Stop
    PROVE  PosInv'
<1>1. phase = "run" /\ Good(w) /\ ~w.err /\ RunInv /\ rd \in Nat
  BY Running DEF Stop, Selecting
<1>2. CASE Down(w) /\ saved' = saved
  <2>1. Grown(w, w) /\ Ordered(w, rd)
    BY <1>1, GrownSame DEF RunInv
  <2> QED BY <1>1, <1>2, <2>1, DownPos
<1>3. ASSUME NEW x \in Then(Settled, CommitComplete), Down(x),
             saved' \in IF x.err THEN {saved} ELSE {saved, Checkpoint(st)}
      PROVE  PosInv'
  <2>1. /\ Good(x) /\ Grown(w, x) /\ Ordered(x, rd)
        /\ ~x.err => x.done = 0 /\ \A i \in RowItems : Durable(w, i) => Durable(x, i)
    BY <1>1, <1>3, FinishKeeps DEF RunInv
  <2>2. ~x.err => \A i \in RowItems : Log[i].end <= st.safe => Indexed(x, i)
    BY <1>1, <2>1, DurableIndexed DEF RunInv
  <2>3. saved' = saved \/ (saved' = Checkpoint(st) /\ ~x.err)
    BY <1>3
  <2>4. CASE saved' = saved
    BY ONLY Mode = "position", Core, PosInv, <1>1, <1>3, <2>1, <2>4, DownPos
  <2>5. CASE saved' = Checkpoint(st) /\ ~x.err
    BY ONLY Mode = "position", Core, PosInv, <1>1, <1>3, <2>1, <2>2, <2>5, DownPos
  <2> QED BY ONLY <2>3, <2>4, <2>5
<1> QED BY <1>2, <1>3 DEF Stop

\* A crash loses the open index transaction and the batch, nothing else.
LEMMA CrashPos ==
    ASSUME Mode = "position", Core, PosInv, Crash
    PROVE  PosInv'
<1>1. phase = "run" /\ Down(w) /\ saved' = saved
  BY DEF Core, StateType, Crash, PosInv
<1>2. Good(w) /\ Grown(w, w) /\ Ordered(w, rd)
  BY <1>1, Running, GrownSame DEF RunInv
<1> QED BY <1>1, <1>2, DownPos

\* Coordinate 1, and the empty 0, precede every event of the log.
LEMMA StartCuts == \A p \in {0, 1} : Cut(p) /\ \A i \in Items : ~(Log[i].end <= p)
<1> SUFFICES ASSUME NEW p \in {0, 1}, NEW i \in Items
             PROVE  p <= Log[i].start /\ ~(Log[i].end <= p)
  BY DEF Cut
<1>1. Log[i].start \in Nat /\ Log[i].start # 0 /\ Log[i].end \in Nat /\ Log[i].start < Log[i].end
  BY LogItems
<1> QED BY <1>1

\* Nothing is written and nothing is claimed at first.
LEMMA InitPos == Init => PosInv
<1> SUFFICES ASSUME Init PROVE PosInv
  OBVIOUS
<1>1. phase = "down" /\ w.rows = OldRows /\ w.txn = {} /\ saved.pos = 0 /\ ~saved.exists
  BY DEF Init, NewTxnBatcher
<1>2. New(w) = {}
  BY <1>1 DEF New
<1>3. Cut(saved.pos) /\ \A i \in RowItems : ~(Log[i].end <= saved.pos)
  BY <1>1, StartCuts DEF RowItems
<1> QED BY <1>1, <1>2, <1>3 DEF PosInv, InOrder

\* A first start claims nothing and its floor is above the old history.
LEMMA StartFreshPos ==
    ASSUME Mode = "position", Core, PosInv, StartFresh
    PROVE  PosInv'
<1>1. PICK p \in StartCoords : /\ st' = Started(p, {}, freshDedupFloor)
                               /\ saved' = [exists |-> TRUE, pos |-> p, gset |-> {},
                                            floor |-> freshDedupFloor, caught |-> 0]
  BY DEF StartFresh
<1>2. /\ phase = "down" /\ ~saved.exists /\ phase' = "run" /\ w' = w /\ rd' = 0
      /\ New(w) = {} /\ w.batch = << >>
  BY DEF StartFresh, PosInv, Core, WriterInv
<1>3. p = 1 /\ p \in {0, 1}
  BY CaptureAssumption
<1>4. Cut(p) /\ \A i \in RowItems : ~(Log[i].end <= p)
  BY <1>3, StartCuts DEF RowItems
<1>5. st'.safe = p /\ st'.floor = freshDedupFloor
  BY <1>1 DEF Started
<1>6. saved'.exists /\ saved'.pos = p /\ saved'.floor = freshDedupFloor
  BY <1>1
<1>7. Finds(w, p, freshDedupFloor)
  BY <1>2, <1>3, FreshFloor DEF Finds
<1>8. Ordered(w, 0) /\ InOrder(New(w))
  BY <1>2 DEF Ordered, InOrder
<1>9. \A i \in RowItems : ~(i <= 0)
  BY DEF RowItems, Items
<1>10. RunInv'
  <2>1. Ordered(w', rd') /\ Cut(st'.safe) /\ Finds(w', st'.safe, st'.floor)
    BY ONLY <1>2, <1>4, <1>5, <1>7, <1>8
  <2>2. \A i \in RowItems : ~(i <= rd') /\ ~(Log[i].end <= st'.safe)
    BY ONLY <1>2, <1>4, <1>5, <1>9
  <2> QED BY ONLY <2>1, <2>2, Zenon DEF RunInv
<1> QED BY ONLY <1>2, <1>4, <1>6, <1>7, <1>8, <1>10 DEF PosInv

\* The cleanup of a resume leaves exactly the rows before the checkpoint, and
\* reading goes on right after them.
LEMMA ResumePositionPos ==
    ASSUME Mode = "position", Core, PosInv, ResumePosition
    PROVE  PosInv'
<1> DEFINE p == saved.pos
           kept == w.rows \ SinceCheckpoint
<1>1. /\ phase = "down" /\ saved.exists /\ Kept(SinceCheckpoint) /\ saved' = saved
      /\ st' = Started(p, saved.gset, saved.floor) /\ rd' = ReadTo(p) /\ phase' = "run"
  BY DEF ResumePosition
<1>2. /\ w'.next = w.next /\ w'.rows = kept /\ w'.txn = {} /\ w'.batch = << >>
      /\ w.txn = {} /\ Good(w)
  BY <1>1, KeptCore, SinceAboveFloor DEF Core, WriterInv, Good
<1>3. p \in Nat /\ saved.floor \in Nat
  BY CoordsNat DEF Core, StateType, SavedState
<1>4. New(w') = kept \ OldRows /\ New(w) = w.rows \ OldRows
  BY <1>2 DEF New
<1>5. \A i \in RowItems : /\ i \in Items /\ Log[i].start \in Nat /\ Log[i].end \in Nat
                          /\ Log[i].start < Log[i].end /\ i \in Nat
  BY LogItems DEF RowItems, Items
<1>6. Cut(p) /\ Finds(w, p, saved.floor) /\ \A r \in New(w) : r.item \in RowItems
  BY <1>1 DEF PosInv
<1>7. \A r \in New(w') : r \in New(w) /\ r.item \in RowItems /\ Log[r.item].end <= p
  <2> SUFFICES ASSUME NEW r \in New(w') PROVE r \in New(w) /\ r.item \in RowItems /\ Log[r.item].end <= p
    OBVIOUS
  <2>1. r \in w.rows /\ r \in New(w) /\ r \notin SinceCheckpoint /\ r.item \in RowItems
    BY <1>4, <1>6
  <2> SUFFICES ASSUME ~(Log[r.item].end <= p) PROVE FALSE
    BY <2>1
  <2>2. r.id >= saved.floor /\ p <= Log[r.item].start
    BY <1>5, <1>6, <2>1 DEF Finds, Cut
  <2> QED BY <1>3, <1>5, <1>6, <2>1, <2>2 DEF SinceCheckpoint, AboveFloor, Finds
<1>8. ASSUME NEW i \in RowItems, Log[i].end <= p
      PROVE  Indexed(w', i)
  <2>1. PICK r \in w.rows \ OldRows : r.item = i
    BY <1>8 DEF PosInv, Indexed
  <2>2. r \notin SinceCheckpoint
    BY <1>3, <1>5, <1>8, <2>1 DEF SinceCheckpoint
  <2> QED BY <1>2, <2>1, <2>2 DEF Indexed
<1>9. ASSUME NEW i \in RowItems
      PROVE  Log[i].end <= p <=> i <= ReadTo(p)
  <2>1. /\ ReadTo(p) \in Nat /\ (Log[i].end <= p => i <= ReadTo(p))
        /\ ReadTo(p) # 0 => ReadTo(p) \in Items /\ Log[ReadTo(p)].end <= p
    <3>1. ReadTo(p) \in 0 .. Len(Log) /\ i \in Items
      BY <1>3, <1>5, ReadToType
    <3>2. ReadTo(p) \in Nat
      BY <3>1
    <3> HIDE DEF p
    <3> QED BY <1>3, <3>1, <3>2, ReadToType
  <2> SUFFICES ASSUME i <= ReadTo(p) PROVE Log[i].end <= p
    BY <2>1
  <2>2. i \in Items /\ i # 0 /\ ReadTo(p) # 0 /\ i \in Nat
    BY <1>5, <2>1 DEF Items
  <2>3. Log[ReadTo(p)].end \in Nat /\ Log[i].end \in Nat
    BY <1>5, <2>1, <2>2, LogItems
  <2>4. CASE i < ReadTo(p)
    BY <1>3, <2>1, <2>2, <2>3, <2>4, LogOrder
  <2> QED BY <2>1, <2>2, <2>4
<1> HIDE DEF kept
<1>10. Finds(w', p, saved.floor)
  BY <1>2, <1>6, <1>7 DEF Finds
<1>11. InOrder(New(w')) /\ Ordered(w', rd')
  <2>1. InOrder(New(w'))
    BY <1>7 DEF PosInv, InOrder
  <2>2. \A r \in New(w') : r.item \in RowItems /\ r.item <= rd'
    BY <1>1, <1>7, <1>9
  <2>3. \A k \in 1 .. Len(w'.batch) : FALSE
    BY <1>2
  <2> QED BY <2>1, <2>2, <2>3 DEF Ordered
<1>12. st'.safe = p /\ st'.floor = saved.floor
  BY <1>1 DEF Started
<1>13. \A i \in RowItems : Indexed(w', i) => Present(w', i) /\ Durable(w', i)
  BY DEF Indexed, Present, Durable, New
<1>14. RunInv'
  BY <1>1, <1>6, <1>8, <1>9, <1>10, <1>11, <1>12, <1>13 DEF RunInv
<1> QED BY <1>1, <1>6, <1>7, <1>8, <1>10, <1>11, <1>14 DEF PosInv

\* Every step of position mode keeps PosInv.
LEMMA NextPos == Mode = "position" /\ Core /\ SaveInv /\ PosInv /\ [Next]_vars => PosInv'
<1> SUFFICES ASSUME Mode = "position", Core, SaveInv, PosInv, [Next]_vars PROVE PosInv'
  OBVIOUS
<1>1. CASE ResumeGTID \/ DeleteStragglers
  <2>1. ~ResumeGTID
    BY ONLY Mode = "position" DEF ResumeGTID
  <2>2. ~DeleteStragglers
    BY ONLY PosInv, Zenon DEF DeleteStragglers, PosInv
  <2> QED BY ONLY <1>1, <2>1, <2>2
<1>2. CASE UNCHANGED vars
  BY <1>2 DEF vars, PosInv, RunInv, Finds, Indexed, New, InOrder, Ordered, Present, Durable
<1> QED BY <1>1, <1>2, ReadPos, TickPos, SavePos, QuietPos, CapTimerPos, StopPos, CrashPos,
           StartFreshPos, ResumePositionPos DEF Next, Start
-----------------------------------------------------------------------------
\* In position mode, from every start: Core and PosInv (streamLoop,
\* saveCheckpoint, deleteEventsSinceCheckpoint).
THEOREM PositionInvariant == Mode = "position" => (Spec => [](Core /\ PosInv))
<1> SUFFICES ASSUME Mode = "position" PROVE Spec => [](Core /\ PosInv)
  OBVIOUS
<1>1. Init => Core /\ PosInv
  BY InitCore, InitPos
<1>2. Core /\ SaveInv /\ PosInv /\ [Next]_vars => (Core /\ PosInv)'
  BY NextCore, NextPos
<1> QED BY <1>1, <1>2, SaveInvariant, PTL DEF Spec

\* A position-mode checkpoint never claims a row that is not committed in
\* binlog_events, so no resume skips one (checkpointPosition).
THEOREM PositionLosesNothing == Mode = "position" => (Spec => []ClaimedIsIndexed)
<1> SUFFICES ASSUME Mode = "position" PROVE Spec => []ClaimedIsIndexed
  OBVIOUS
<1>1. Core /\ PosInv => ClaimedIsIndexed
  BY DEF PosInv, ClaimedIsIndexed, Claimed, Indexed, Visible
<1> QED BY <1>1, PositionInvariant, PTL

\* In position mode no event is in binlog_events twice, through any sequence
\* of crashes, failed writes that landed and restarts
\* (deleteEventsSinceCheckpoint).
THEOREM PositionIndexesOnce == Mode = "position" => (Spec => []NoDuplicate)
<1> SUFFICES ASSUME Mode = "position" PROVE Spec => []NoDuplicate
  OBVIOUS
<1>1. Core /\ PosInv => NoDuplicate
  <2> SUFFICES ASSUME Core, PosInv, NEW r \in w.rows \ OldRows, NEW q \in w.rows \ OldRows,
                      r.item = q.item
               PROVE  r.id = q.id
    BY DEF NoDuplicate
  <2>1. r \in New(w) /\ q \in New(w) /\ r.id \in Nat /\ q.id \in Nat /\ r.item \in Nat
    BY DEF New, Core, WriterInv, Good, Writer, Row, Items
  <2>2. /\ r.id < q.id => r.item < q.item
        /\ q.id < r.id => q.item < r.item
    <3>1. InOrder(New(w))
      BY ONLY PosInv DEF PosInv
    <3> QED BY ONLY <2>1, <3>1 DEF InOrder
  <2> QED BY ONLY <2>1, <2>2, r.item = q.item
<1> QED BY <1>1, PositionInvariant, PTL

\* In position mode the floor a checkpoint carries is at or below the id of
\* every row the next cleanup must find (noteDedupFloor).
THEOREM PositionFloorSound == Mode = "position" => (Spec => []FloorBelowUnclaimed)
<1> SUFFICES ASSUME Mode = "position" PROVE Spec => []FloorBelowUnclaimed
  OBVIOUS
<1>1. Core /\ PosInv => FloorBelowUnclaimed
  BY DEF PosInv, FloorBelowUnclaimed, Claimed, Finds, New
<1> QED BY <1>1, PositionInvariant, PTL
=============================================================================
