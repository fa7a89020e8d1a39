--------------------------- MODULE DeliveryProofs ---------------------------
(***************************************************************************)
(* Capture in position mode implements Delivery, for every log, batch      *)
(* size, row cap and number of failures.                                   *)
(*                                                                         *)
(* PosInv shows that a checkpoint claims only what is indexed.  Two facts  *)
(* are left: a claim is never given up, and only a restart's cleanup       *)
(* deletes rows.  The first needs an invariant of its own.                 *)
(***************************************************************************)
EXTENDS PositionProofs

(***************************************************************************)
(* While capture runs, the position a checkpoint would write is not behind *)
(* the one already written, nor ahead of the next event.                   *)
(***************************************************************************)
Ahead ==
    phase = "run" =>
        /\ saved.pos <= st.safe
        /\ \A i \in Items : rd < i => st.safe <= Log[i].end

\* A step of a running capture: the table and the claim only grow.
Forward ==
    /\ w.rows \subseteq w'.rows
    /\ saved.pos <= saved'.pos
-----------------------------------------------------------------------------
\* Coordinates and event numbers are natural numbers.
LEMMA AheadTypes ==
    ASSUME Core
    PROVE  /\ saved.pos \in Nat /\ st.safe \in Nat /\ rd \in Nat
           /\ \A i \in Items : i \in Nat /\ Log[i].end \in Nat
<1>1. saved.pos \in Coords /\ st.safe \in Coords /\ rd \in 0 .. Len(Log)
  BY DEF Core, StateType, SavedState, StreamState
<1>2. \A i \in Items : i \in Nat /\ Log[i].end \in Nat
  BY LogItems DEF Items
<1> QED BY <1>1, <1>2, CoordsNat, CaptureAssumption

\* The process ends with a table that has grown.
LEMMA DownForward ==
    ASSUME Core, Ahead, phase = "run", NEW x, Grown(w, x), Down(x),
           \/ saved' = saved
           \/ saved'.pos = st.safe
    PROVE  Forward /\ Ahead'
<1>1. phase' = "down" /\ w'.rows = x.rows
  BY DEF Down, NewTxnBatcher
<1>2. saved.pos <= saved'.pos
  BY AheadTypes DEF Ahead
<1> QED BY <1>1, <1>2 DEF Forward, Ahead, Grown

\* The loop goes on after event i, or ends on an error.
LEMMA ContinueForward ==
    ASSUME Core, Ahead, phase = "run", NEW x, Grown(w, x), NEW i, NEW s, Continue(x, s, i),
           saved.pos <= s.safe, \A j \in Items : i < j => s.safe <= Log[j].end
    PROVE  Forward /\ Ahead'
<1>1. CASE x.err
  <2>1. Down(x) /\ saved' = saved
    BY <1>1 DEF Continue, Abort
  <2> QED BY <2>1, DownForward
<1>2. CASE ~x.err
  <2>1. w' = x /\ st' = s /\ rd' = i /\ phase' = phase /\ saved' = saved
    BY <1>2 DEF Continue
  <2>2. saved.pos <= saved.pos
    BY AheadTypes
  <2> QED BY <2>1, <2>2 DEF Forward, Ahead, Grown
<1> QED BY <1>1, <1>2

\* Every event the loop reads in position mode.
LEMMA ReadForward ==
    ASSUME Mode = "position", Core, PosInv, Ahead, Read
    PROVE  Forward /\ Ahead'
<1>1. phase = "run" /\ Good(w) /\ ~w.err
  BY Running DEF Read, Selecting
<1>2. PICK i \in Items : i > rd /\ (OnGTID(i) \/ OnCommit(i) \/ OnDDL(i) \/ OnRow(i))
  BY DEF Read
<1>3. /\ saved.pos \in Nat /\ st.safe \in Nat /\ rd \in Nat
      /\ \A j \in Items : j \in Nat /\ Log[j].end \in Nat
  BY AheadTypes
<1>4. ASSUME NEW s, s.safe = st.safe \/ s.safe = Log[i].end
      PROVE  saved.pos <= s.safe /\ \A j \in Items : i < j => s.safe <= Log[j].end
  <2>1. saved.pos <= st.safe /\ st.safe <= Log[i].end
    BY <1>1, <1>2 DEF Ahead
  <2>2. \A j \in Items : i < j => st.safe <= Log[j].end /\ Log[i].end <= Log[j].end
    BY <1>1, <1>2, <1>3, LogOrder DEF Ahead
  <2> QED BY <1>2, <1>3, <1>4, <2>1, <2>2
<1>5. ASSUME NEW x, Grown(w, x), NEW s, Continue(x, s, i), s.safe = st.safe \/ s.safe = Log[i].end
      PROVE  Forward /\ Ahead'
  BY <1>1, <1>4, <1>5, ContinueForward
<1>6. ASSUME NEW f, NEW b \in BOOLEAN
      PROVE  LET s == [advanceGTID(Tracked(i), i, f) EXCEPT !.claimed = b]
             IN  s.safe = st.safe \/ s.safe = Log[i].end
  BY <1>6, PositionStreamState
<1>7. Tracked(i).safe = st.safe \/ Tracked(i).safe = Log[i].end
  BY PositionStreamState
<1>8. CASE OnGTID(i)
  <2>1. Grown(w, w) /\ Continue(w, [Tracked(i) EXCEPT !.claimed = FALSE], i)
    BY <1>1, <1>8, GrownSame DEF OnGTID
  <2>2. [Tracked(i) EXCEPT !.claimed = FALSE] = [advanceGTID(Tracked(i), i, 0) EXCEPT !.claimed = FALSE]
    BY DEF advanceGTID
  <2> QED BY <1>5, <1>6, <2>1, <2>2
<1>9. CASE OnCommit(i)
  <2>1. PICK x \in End(w) :
           Continue(x, [advanceGTID(Tracked(i), i, w.first) EXCEPT !.claimed = FALSE], i)
    BY <1>9 DEF OnCommit
  <2>2. Grown(w, x)
    BY <1>1, <2>1, EndProgress DEF Progress
  <2> QED BY <1>5, <1>6, <2>1, <2>2
<1>10. CASE OnDDL(i)
  <2>1. PICK x \in Then(End(w), CommitComplete) :
           Continue(x, [advanceGTID(Tracked(i), i, x.first) EXCEPT
                          !.claimed = Mode = "gtid" /\ Log[i].gtid], i)
    BY <1>10 DEF OnDDL
  <2>2. Grown(w, x)
    BY <1>1, <2>1, FlushProgress DEF Progress
  <2>3. (Mode = "gtid" /\ Log[i].gtid) \in BOOLEAN
    OBVIOUS
  <2> QED BY <1>5, <1>6, <2>1, <2>2, <2>3
<1>11. CASE OnRow(i)
  <2>1. PICK x \in Add(w, i) : Continue(x, Tracked(i), i)
    BY <1>11 DEF OnRow
  <2>2. Grown(w, x)
    BY <1>1, <1>11, <2>1, AddProgress DEF OnRow, RowItems
  <2> QED BY <1>5, <1>7, <2>1, <2>2
<1> QED BY <1>2, <1>8, <1>9, <1>10, <1>11

\* The commit before a checkpoint.
LEMMA TickForward ==
    ASSUME Mode = "position", Core, PosInv, Ahead, Tick
    PROVE  Forward /\ Ahead'
<1>1. phase = "run" /\ Good(w) /\ ~w.err /\ st \in StreamState
  BY Running DEF Tick, Selecting
<1>2. PICK x \in CommitComplete(w) :
         IF x.err THEN Abort(x)
         ELSE /\ w' = x /\ st' = [st EXCEPT !.saving = TRUE]
              /\ UNCHANGED <<phase, rd, since, saved>>
  BY DEF Tick
<1>3. Grown(w, x)
  BY <1>1, <1>2, CommitCompleteProgress DEF Progress
<1>4. CASE x.err
  BY <1>1, <1>2, <1>3, <1>4, DownForward DEF Abort
<1>5. CASE ~x.err
  <2>1. st'.safe = st.safe
    BY <1>1, <1>2, <1>5 DEF StreamState
  <2>2. saved.pos <= saved.pos
    BY AheadTypes
  <2> QED BY <1>1, <1>2, <1>3, <1>5, <2>1, <2>2 DEF Forward, Ahead, Grown
<1> QED BY <1>4, <1>5

\* A checkpoint: its position is the safe one.
LEMMA SaveForward ==
    ASSUME Mode = "position", Core, PosInv, Ahead, Save
    PROVE  Forward /\ Ahead'
<1>1. phase = "run" /\ st \in StreamState /\ UNCHANGED <<phase, w, rd>>
  BY Running DEF Save
<1>2. \/ st' = [st EXCEPT !.saving = FALSE]
      \/ st' = [st EXCEPT !.caught = 0, !.saving = FALSE]
  BY DEF Save, SaveSucceeded, SaveFailed
<1>3. st'.safe = st.safe
  BY ONLY <1>1, <1>2 DEF StreamState
<1>4. saved' = saved \/ saved'.pos = st.safe
  BY DEF Save, SaveSucceeded, SaveFailed, Checkpoint, checkpointPosition
<1>5. saved.pos <= saved'.pos /\ saved'.pos <= st.safe
  BY <1>1, <1>4, AheadTypes DEF Ahead
<1> QED BY <1>1, <1>3, <1>5 DEF Forward, Ahead

\* The steps of a running capture that read nothing.
LEMMA OtherForward ==
    ASSUME Mode = "position", Core, PosInv, Ahead,
           CaughtUp \/ CapTimer \/ Stop \/ LoseLock \/ Crash
    PROVE  Forward /\ Ahead'
<1>1. phase = "run"
  BY DEF CaughtUp, CapTimer, Stop, LoseLock, Crash, Selecting, PosInv, Core, StateType
<1>2. /\ Good(w) /\ ~w.err /\ w \in Writer /\ st \in StreamState /\ Grown(w, w)
      /\ saved.pos <= saved.pos
  BY <1>1, Running, GrownSame, AheadTypes DEF Good
<1>3. CASE CaughtUp \/ LoseLock
  <2>1. w'.rows = w.rows /\ st'.safe = st.safe /\ UNCHANGED <<phase, rd, saved>>
    BY <1>2, <1>3 DEF CaughtUp, LoseLock, Writer, StreamState
  <2> QED BY <1>2, <2>1 DEF Forward, Ahead
<1>4. CASE CapTimer
  <2>1. PICK x \in Split(w) : Continue(x, st, rd)
    BY <1>4 DEF CapTimer
  <2>2. Grown(w, x)
    BY <1>2, <1>4, <2>1, SplitProgress DEF CapTimer, Progress
  <2> QED BY <1>1, <2>1, <2>2, ContinueForward DEF Ahead
<1>5. CASE Stop
  <2>1. CASE Down(w) /\ saved' = saved
    BY <1>1, <1>2, <2>1, DownForward
  <2>2. CASE \E x \in Then(Settled, CommitComplete) :
                /\ Down(x)
                /\ saved' \in IF x.err THEN {saved} ELSE {saved, Checkpoint(st)}
    <3>1. PICK x \in Then(Settled, CommitComplete) : Down(x) /\ saved' \in {saved, Checkpoint(st)}
      BY <2>2
    <3>2. saved' = saved \/ saved'.pos = st.safe
      BY <3>1 DEF Checkpoint, checkpointPosition
    <3> QED BY <1>1, <1>2, <3>1, <3>2, FinishKeeps, DownForward
  <2> QED BY <1>5, <2>1, <2>2 DEF Stop
<1>6. CASE Crash
  BY <1>1, <1>2, <1>6, DownForward DEF Crash
<1> QED BY <1>3, <1>4, <1>5, <1>6

\* A first start writes a checkpoint that claims nothing.
LEMMA StartFreshForward ==
    ASSUME Mode = "position", Core, PosInv, StartFresh
    PROVE  /\ w' = w /\ Ahead'
           /\ \A i \in RowItems : ~(Log[i].end <= saved.pos)
<1>1. PICK p \in StartCoords : st'.safe = p /\ saved'.pos = p
  BY DEF StartFresh, Started
<1>2. p = 1 /\ rd' = 0
  BY <1>1, CaptureAssumption DEF StartFresh
<1>3. \A i \in Items : Log[i].end \in Nat /\ ~(Log[i].end <= 1)
  BY LogItems, StartCuts
<1>4. saved'.pos <= st'.safe /\ \A i \in Items : st'.safe <= Log[i].end
  BY <1>1, <1>2, <1>3
<1>5. \A i \in RowItems : ~(Log[i].end <= saved.pos)
  BY DEF StartFresh, PosInv, Indexed, New
<1>6. w' = w
  BY DEF StartFresh
<1> QED BY <1>4, <1>5, <1>6 DEF Ahead

\* A resume deletes rows and keeps the checkpoint.
LEMMA ResumeAhead ==
    ASSUME Mode = "position", Core, PosInv, ResumePosition
    PROVE  w'.rows \subseteq w.rows /\ saved' = saved /\ Ahead'
<1>1. /\ saved' = saved /\ rd' = ReadTo(saved.pos) /\ st'.safe = saved.pos
      /\ w'.rows = w.rows \ SinceCheckpoint
  BY DEF ResumePosition, Started, Kept, NewTxnBatcher
<1>2. saved.pos \in Nat /\ \A i \in Items : i \in Nat /\ Log[i].end \in Nat
  BY AheadTypes
<1>3. ReadTo(saved.pos) \in Nat /\ \A i \in Items : Log[i].end <= saved.pos => i <= ReadTo(saved.pos)
  <2>1. Len(Log) \in Nat
    BY CaptureAssumption
  <2>2. ReadTo(saved.pos) \in 0 .. Len(Log)
    BY <1>2, ReadToType
  <2>3. \A i \in Items : Log[i].end <= saved.pos => i <= ReadTo(saved.pos)
    BY <1>2, ReadToType
  <2> QED BY <2>1, <2>2, <2>3
<1>4. \A i \in Items : rd' < i => saved.pos <= Log[i].end
  BY <1>1, <1>2, <1>3
<1> QED BY <1>1, <1>2, <1>4 DEF Ahead

\* Every step is one of the promise, and keeps Ahead.
LEMMA NextDelivers ==
    ASSUME Mode = "position", Core, PosInv, PosInv', Core', Ahead, [Next]_vars
    PROVE  [Promise!Next]_(Promise!vars) /\ Ahead'
<1> DEFINE claims == {i \in RowItems : Claimed(i)}
<1>1. claims = {i \in RowItems : Log[i].end <= saved.pos}
  BY DEF Claimed
<1>2. claims' = {i \in RowItems : Log[i].end <= saved'.pos}
  BY DEF Claimed
<1>3. claims' \subseteq Visible'
  BY <1>2 DEF PosInv, Indexed, Visible
<1>4. Visible' \subseteq Items
  BY DEF Core, WriterInv, Good, Writer, Row, Visible
<1>5. saved.pos \in Nat /\ saved'.pos \in Nat /\ \A i \in RowItems : Log[i].end \in Nat
  <2>1. saved'.pos \in Coords
    BY DEF Core, StateType, SavedState
  <2> QED BY <2>1, CoordsNat, AheadTypes DEF RowItems
<1> HIDE DEF claims
<1>6. ASSUME Visible \subseteq Visible', claims \subseteq claims'
      PROVE  Promise!Next
  BY <1>3, <1>4, <1>6 DEF Promise!Next, Promise!Claim, claims
<1>7. ASSUME Forward
      PROVE  Promise!Next
  <2>1. Visible \subseteq Visible'
    BY <1>7 DEF Forward, Visible
  <2>2. claims \subseteq claims'
    BY <1>1, <1>2, <1>5, <1>7 DEF Forward
  <2> QED BY <1>6, <2>1, <2>2
<1>8. CASE Read \/ Tick \/ Save \/ CaughtUp \/ CapTimer \/ Stop \/ LoseLock \/ Crash
  BY <1>7, <1>8, ReadForward, TickForward, SaveForward, OtherForward
<1>9. CASE StartFresh
  <2>1. w' = w /\ Ahead' /\ claims = {}
    BY <1>1, <1>9, StartFreshForward
  <2>2. Visible' = Visible
    BY <2>1 DEF Visible
  <2> QED BY <1>6, <2>1, <2>2
<1>10. CASE ResumePosition
  <2>1. w'.rows \subseteq w.rows /\ saved' = saved /\ Ahead'
    BY <1>10, ResumeAhead
  <2>2. Visible' \subseteq Visible /\ claims' = claims
    BY <1>1, <1>2, <2>1 DEF Visible
  <2>3. Promise!Next
    BY <1>3, <2>2 DEF Promise!Next, Promise!Forget, claims
  <2> QED BY <2>1, <2>3
<1>11. CASE ResumeGTID \/ DeleteStragglers
  BY <1>11 DEF ResumeGTID, DeleteStragglers, PosInv
<1>12. CASE UNCHANGED vars
  BY <1>12 DEF vars, Ahead, Promise!vars, Visible, Claimed
<1> QED BY <1>8, <1>9, <1>10, <1>11, <1>12 DEF Next, Start

\* Before the first start nothing is indexed or claimed.
LEMMA InitDelivers == Init => Promise!Init /\ Ahead
<1> SUFFICES ASSUME Init PROVE Promise!Init /\ Ahead
  OBVIOUS
<1>1. phase = "down" /\ w.rows = OldRows /\ saved.pos = 0 /\ saved.gset = {}
  BY DEF Init, NewTxnBatcher
<1>2. Visible = {}
  BY <1>1 DEF Visible
<1>3. {i \in RowItems : Claimed(i)} = {}
  BY <1>1, StartCuts DEF Claimed, RowItems
<1>4. Ahead
  BY <1>1 DEF Ahead
<1> QED BY <1>2, <1>3, <1>4 DEF Promise!Init

\* Capture in position mode implements Delivery: a checkpoint claims only
\* what is indexed, no claim is ever given up, and the cleanup of a restart
\* deletes only rows it does not claim (saveCheckpoint, streamLoop,
\* deleteEventsSinceCheckpoint).
THEOREM PositionImplementsDelivery == Mode = "position" => (Spec => ImplementsDelivery)
<1> SUFFICES ASSUME Mode = "position" PROVE Spec => ImplementsDelivery
  OBVIOUS
<1>1. Init => Promise!Init /\ Ahead
  BY InitDelivers
<1>2. /\ Core /\ PosInv /\ (Core /\ PosInv)' /\ Ahead /\ [Next]_vars
      => [Promise!Next]_(Promise!vars) /\ Ahead'
  BY NextDelivers
<1>3. Spec => [](Core /\ PosInv)
  BY PositionInvariant
<1> QED BY <1>1, <1>2, <1>3, PTL DEF Spec, ImplementsDelivery, Promise!Spec
=============================================================================
