---------------------------- MODULE WriterProofs ----------------------------
(***************************************************************************)
(* What the writer's methods keep and promise, for every batch size, row   *)
(* cap and log: the lemmas CaptureProofs builds on.                        *)
(***************************************************************************)
EXTENDS Capture, TLAPS

(***************************************************************************)
(* A writer state: an open index transaction leaves no complete rows in    *)
(* the batch, ids below the counter are used up, and what an earlier       *)
(* capture wrote is in the table.                                          *)
(***************************************************************************)
Good(x) ==
    /\ x \in Writer
    /\ x.done <= Len(x.batch)
    /\ x.open => x.done = 0
    /\ ~x.open => x.txn = {}
    /\ x.first <= x.next
    /\ \A r \in x.rows \cup x.txn : r.id < x.next
    /\ OldRows \subseteq x.rows
    /\ x.txn \cap OldRows = {}

(***************************************************************************)
(* From y to x: the table only gained rows, rows of the open index         *)
(* transaction or rows with new ids, and none once the lock was lost.      *)
(***************************************************************************)
Grown(y, x) ==
    /\ y.rows \subseteq x.rows
    /\ y.next <= x.next
    /\ x.stopped = y.stopped
    /\ \A r \in x.rows : r \in y.rows \/ r \in y.txn \/ r.id >= y.next
    /\ \A r \in x.txn : r \in y.txn \/ r.id >= y.next
    /\ y.stopped => x.rows = y.rows

(***************************************************************************)
(* A capture that reads the log in order writes it in order: up to event n *)
(* the ids of the rows it wrote grow with their events, and what waits in  *)
(* the batch comes after all of them.                                      *)
(***************************************************************************)
New(x) == (x.rows \ OldRows) \cup x.txn

InOrder(S) ==
    \A r, q \in S : /\ r.id < q.id => r.item < q.item
                    /\ r.id = q.id => r = q

Ordered(x, n) ==
    /\ InOrder(New(x))
    /\ \A r \in New(x) : r.item \in RowItems /\ r.item <= n
    /\ ~x.err => \A k \in 1 .. Len(x.batch) :
          /\ x.batch[k] \in RowItems /\ x.batch[k] <= n
          /\ \A r \in New(x) : r.item < x.batch[k]
          /\ \A j \in 1 .. k - 1 : x.batch[j] < x.batch[k]

(***************************************************************************)
(* Event i is still held somewhere; it is in the table, or will be after   *)
(* the next CommitComplete.                                                *)
(***************************************************************************)
Present(x, i) ==
    \/ \E r \in New(x) : r.item = i
    \/ \E k \in 1 .. Len(x.batch) : x.batch[k] = i

Durable(x, i) ==
    \/ \E r \in x.rows \ OldRows : r.item = i
    \/ \E k \in 1 .. x.done : x.batch[k] = i

(***************************************************************************)
(* What every method of the writer promises, from y to x.                  *)
(***************************************************************************)
Progress(y, x) ==
    /\ Good(x) /\ Grown(y, x)
    /\ \A n \in Nat : Ordered(y, n) => Ordered(x, n)
    /\ ~x.err => \A i \in RowItems : /\ Present(y, i) => Present(x, i)
                                     /\ Durable(y, i) => Durable(x, i)

\* A method that does nothing makes progress.
LEMMA ProgressReflexive ==
    ASSUME NEW x, Good(x)
    PROVE  Progress(x, x)
BY DEF Progress, Grown, Good, Writer

\* A method that writes nothing leaves the table as it is.
LEMMA GrownSame ==
    ASSUME NEW y, Good(y), NEW x, x.rows = y.rows, x.txn \subseteq y.txn, x.next = y.next,
           x.stopped = y.stopped
    PROVE  Grown(y, x)
<1>1. y.next <= y.next
  BY DEF Good, Writer
<1> QED BY <1>1 DEF Grown

\* Growth of the table adds up over two calls.
LEMMA GrownTransitive ==
    ASSUME NEW x, NEW y, NEW z, Good(x), Good(y), Good(z), Grown(x, y), Grown(y, z)
    PROVE  Grown(x, z)
BY SMTT(30) DEF Grown, Good, Writer, Row

\* A call after a call that returned no error (Then).
LEMMA ProgressTransitive ==
    ASSUME NEW x, NEW y, NEW z, Good(x), Progress(x, y), ~y.err, Progress(y, z)
    PROVE  Progress(x, z)
<1>1. Grown(x, z)
  BY GrownTransitive DEF Progress
<1> QED BY <1>1 DEF Progress

\* What a write changes keeps its type.
LEMMA WriterUpdate ==
    ASSUME NEW y \in Writer, NEW n \in Nat, NEW f \in Nat, NEW d \in Nat,
           NEW b \in Seq(Items), NEW r \in SUBSET Row
    PROVE  [y EXCEPT !.next = n, !.first = f, !.done = d, !.batch = b, !.rows = r] \in Writer
BY DEF Writer

\* A returned error leaves the types as they are (Failed).
LEMMA WriterFailed ==
    ASSUME NEW y \in Writer, NEW n \in Nat, NEW r \in SUBSET Row
    PROVE  [y EXCEPT !.next = n, !.rows = r, !.err = TRUE] \in Writer
BY DEF Writer

\* The types after a spill.
LEMMA WriterSpilled ==
    ASSUME NEW y \in Writer, NEW n \in Nat, NEW f \in Nat,
           NEW b \in Seq(Items), NEW t \in SUBSET Row
    PROVE  [y EXCEPT !.next = n, !.first = f, !.open = TRUE, !.txn = t, !.batch = b] \in Writer
BY DEF Writer

\* The types after a Discard.
LEMMA WriterDiscarded ==
    ASSUME NEW y \in Writer, NEW b \in Seq(Items)
    PROVE  [y EXCEPT !.batch = b, !.inTxn = FALSE, !.splits = 0, !.open = FALSE, !.txn = {}]
              \in Writer
BY DEF Writer

\* The rest of a batch after its first m rows.
LEMMA Rest ==
    ASSUME NEW s \in Seq(Items), NEW m \in 0 .. Len(s)
    PROVE  /\ SubSeq(s, m + 1, Len(s)) \in Seq(Items)
           /\ Len(SubSeq(s, m + 1, Len(s))) = Len(s) - m
           /\ \A k \in 1 .. Len(s) - m : SubSeq(s, m + 1, Len(s))[k] = s[m + k]
OBVIOUS

\* The first id of the last statement of a write is one of its ids.
LEMMA ChunkStart ==
    ASSUME NEW n \in Nat \ {0}
    PROVE  LastChunk(n) \in Nat /\ LastChunk(n) <= n
BY BatcherAssumption DEF LastChunk

\* The rows of an INSERT get ids at or above the counter (insertBatchOn).
LEMMA NumberedRows ==
    ASSUME NEW y, Good(y), NEW s \in Seq(Items)
    PROVE  /\ Numbered(y, s) \subseteq Row
           /\ \A r \in Numbered(y, s) : y.next <= r.id /\ r.id < y.next + Len(s)
           /\ Numbered(y, s) \cap OldRows = {}
BY SMTT(30) DEF Numbered, Good, Writer, Row

\* Writing the first m rows of the batch keeps the order.
LEMMA WritePrefix ==
    ASSUME NEW y, Good(y), ~y.err, NEW n \in Nat, Ordered(y, n),
           NEW m \in 0 .. Len(y.batch)
    PROVE  LET all == New(y) \cup Numbered(y, SubSeq(y.batch, 1, m))
           IN  /\ InOrder(all)
               /\ \A r \in all : r.item \in RowItems /\ r.item <= n
               /\ \A k \in m + 1 .. Len(y.batch) : \A r \in all : r.item < y.batch[k]
<1> DEFINE s == SubSeq(y.batch, 1, m)
           all == New(y) \cup Numbered(y, s)
<1>1. /\ s \in Seq(Items) /\ Len(s) = m /\ \A k \in 1 .. m : s[k] = y.batch[k]
      /\ y.batch \in Seq(Items) /\ Len(y.batch) \in Nat /\ y.next \in Nat
  BY DEF Good, Writer
<1>2. \A r \in Numbered(y, s) :
         \E k \in 1 .. m : r = [id |-> y.next + k - 1, item |-> y.batch[k]]
  BY <1>1 DEF Numbered
<1>3. \A r \in New(y) : r.id \in Nat /\ r.id < y.next
  BY DEF New, Good, Writer, Row
<1>4. InOrder(all)
  <2> SUFFICES ASSUME NEW r \in all, NEW q \in all
               PROVE  /\ r.id < q.id => r.item < q.item
                      /\ r.id = q.id => r = q
    BY DEF InOrder
  <2>1. CASE r \in New(y) /\ q \in New(y)
    BY <2>1 DEF Ordered, InOrder
  <2>2. CASE r \in New(y) /\ q \in Numbered(y, s)
    BY SMTT(30), <1>1, <1>2, <1>3, <2>2 DEF Ordered
  <2>3. CASE r \in Numbered(y, s) /\ q \in New(y)
    BY <1>1, <1>2, <1>3, <2>3 DEF Ordered
  <2>4. CASE r \in Numbered(y, s) /\ q \in Numbered(y, s)
    <3>1. PICK j \in 1 .. m : r = [id |-> y.next + j - 1, item |-> y.batch[j]]
      BY <1>2, <2>4
    <3>2. PICK k \in 1 .. m : q = [id |-> y.next + k - 1, item |-> y.batch[k]]
      BY <1>2, <2>4
    <3>3. j < k => y.batch[j] < y.batch[k]
      BY <1>1 DEF Ordered
    <3> QED BY <1>1, <3>1, <3>2, <3>3
  <2> QED BY <2>1, <2>2, <2>3, <2>4
<1>5. \A r \in all : r.item \in RowItems /\ r.item <= n
  BY <1>1, <1>2 DEF Ordered
<1>6. \A k \in m + 1 .. Len(y.batch) : \A r \in all : r.item < y.batch[k]
  BY SMTT(30), <1>1, <1>2 DEF Ordered
<1> QED BY <1>4, <1>5, <1>6

\* How CommitComplete may end, field by field.
LEMMA CommitCompleteEnds ==
    ASSUME NEW y, Good(y), ~y.err, NEW x \in CommitComplete(y)
    PROVE  LET written == Numbered(y, SubSeq(y.batch, 1, y.done))
           IN  /\ x \in Writer
               /\ x.open = y.open /\ x.txn = y.txn /\ x.stopped = y.stopped
               /\ x.inTxn = y.inTxn /\ x.splits = y.splits
               /\ \/ x = y /\ y.done = 0
                  \/ /\ x.err /\ x.batch = y.batch /\ x.done = y.done
                     /\ x.first = y.first
                     /\ \/ x.rows = y.rows /\ x.next = y.next
                        \/ /\ ~y.stopped /\ x.next = y.next + y.done
                           /\ x.rows \in {y.rows, y.rows \cup written}
                  \/ /\ ~x.err /\ ~y.stopped /\ x.done = 0 /\ y.done # 0
                     /\ x.rows = y.rows \cup written /\ x.next = y.next + y.done
                     /\ x.batch = SubSeq(y.batch, y.done + 1, Len(y.batch))
                     /\ x.first = y.next + LastChunk(y.done)
<1> DEFINE complete == SubSeq(y.batch, 1, y.done)
           written  == Numbered(y, complete)
<1>1. CASE y.stopped \/ y.done = 0
  <2>1. x = Failed(y) \/ (x = y /\ y.done = 0)
    BY <1>1 DEF CommitComplete
  <2> QED BY <2>1 DEF Failed, Good, Writer
<1>2. CASE ~y.stopped /\ y.done # 0
  <2>1. /\ complete \in Seq(Items) /\ Len(complete) = y.done /\ y.done \in Nat \ {0}
        /\ SubSeq(y.batch, y.done + 1, Len(y.batch)) \in Seq(Items)
        /\ y \in Writer /\ y.next \in Nat /\ y.rows \in SUBSET Row
    BY <1>2 DEF Good, Writer
  <2>2. written \subseteq Row
    BY <2>1, NumberedRows
  <2>3. CASE x \in Ambiguous(y, y.done, written)
    <3>1. PICK r \in {y.rows, y.rows \cup written} :
             x = [y EXCEPT !.next = y.next + y.done, !.rows = r, !.err = TRUE]
      BY <2>1, <2>3 DEF Ambiguous, Failed, Writer
    <3>2. r \in SUBSET Row /\ y.next + y.done \in Nat
      BY <2>1, <2>2
    <3>3. x \in Writer
      BY <2>1, <3>1, <3>2, WriterFailed
    <3> QED BY <1>2, <2>1, <3>1, <3>3 DEF Writer
  <2>4. CASE x = [writeChunks(y, complete) EXCEPT
                  !.rows  = @ \cup written,
                  !.batch = SubSeq(@, y.done + 1, Len(@)),
                  !.done  = 0]
    <3>1. x = [y EXCEPT !.next = y.next + y.done, !.first = y.next + LastChunk(y.done),
                        !.done = 0, !.batch = SubSeq(y.batch, y.done + 1, Len(y.batch)),
                        !.rows = y.rows \cup written]
      BY <2>1, <2>4 DEF writeChunks, Writer
    <3>2. /\ y.next + LastChunk(y.done) \in Nat /\ y.next + y.done \in Nat
          /\ y.rows \cup written \in SUBSET Row
      BY SMTT(30), <2>1, <2>2, ChunkStart
    <3>3. x \in Writer
      BY <2>1, <3>1, <3>2, WriterUpdate
    <3> QED BY <1>2, <2>1, <3>1, <3>3 DEF Writer
  <2> QED BY <1>2, <2>3, <2>4 DEF CommitComplete
<1> QED BY <1>1, <1>2 DEF Good, Writer

\* CommitComplete publishes the complete rows and leaves none waiting.
LEMMA CommitCompleteProgress ==
    ASSUME NEW y, Good(y), ~y.err, NEW x \in CommitComplete(y)
    PROVE  Progress(y, x) /\ x.open = y.open /\ (~x.err => x.done = 0)
<1> DEFINE s == SubSeq(y.batch, 1, y.done)
           written == Numbered(y, s)
<1>1. /\ s \in Seq(Items) /\ Len(s) = y.done /\ y.done \in Nat
      /\ Len(y.batch) \in Nat /\ y.done \in 0 .. Len(y.batch)
      /\ y.next \in Nat /\ y.batch \in Seq(Items)
      /\ \A k \in 1 .. y.done : s[k] = y.batch[k]
  BY DEF Good, Writer
<1>2. /\ written \cap OldRows = {}
      /\ \A r \in written : y.next <= r.id /\ r.id < y.next + y.done
  BY <1>1, NumberedRows
<1>3. CASE x = y /\ y.done = 0
  BY <1>3, ProgressReflexive
<1>4. CASE x.err
  <2>1. /\ x \in Writer /\ x.open = y.open /\ x.txn = y.txn /\ x.stopped = y.stopped
        /\ x.batch = y.batch /\ x.done = y.done /\ x.first = y.first
        /\ \/ x.rows = y.rows /\ x.next = y.next
           \/ /\ ~y.stopped /\ x.next = y.next + y.done
              /\ x.rows \in {y.rows, y.rows \cup written}
    BY <1>4, CommitCompleteEnds
  <2>2. Good(x) /\ Grown(y, x)
    BY <1>1, <1>2, <2>1 DEF Good, Grown, Writer, Row
  <2>3. New(x) \subseteq New(y) \cup written
    BY <2>1 DEF New
  <2>4. ASSUME NEW n \in Nat, Ordered(y, n) PROVE Ordered(x, n)
    <3>1. /\ InOrder(New(y) \cup written)
          /\ \A r \in New(y) \cup written : r.item \in RowItems /\ r.item <= n
      BY <1>1, <2>4, WritePrefix
    <3> QED BY <1>4, <2>3, <3>1 DEF Ordered, InOrder
  <2> QED BY <1>4, <2>1, <2>2, <2>4 DEF Progress
<1>5. CASE ~x.err /\ ~(x = y /\ y.done = 0)
  <2>1. /\ x \in Writer /\ x.open = y.open /\ x.txn = y.txn /\ x.stopped = y.stopped
        /\ ~y.stopped /\ x.done = 0 /\ y.done # 0
        /\ x.rows = y.rows \cup written /\ x.next = y.next + y.done
        /\ x.batch = SubSeq(y.batch, y.done + 1, Len(y.batch))
        /\ x.first = y.next + LastChunk(y.done)
    BY <1>5, CommitCompleteEnds
  <2>2. Good(x) /\ Grown(y, x)
    <3>1. LastChunk(y.done) \in Nat /\ LastChunk(y.done) <= y.done
      BY <1>1, <2>1, ChunkStart
    <3>2. x.first <= x.next
      BY <1>1, <2>1, <3>1
    <3>3. /\ x \in Writer /\ x.open = y.open /\ x.txn = y.txn /\ x.stopped = y.stopped
          /\ ~y.stopped /\ x.done = 0 /\ x.rows = y.rows \cup written
          /\ x.next = y.next + y.done
      BY <2>1
    <3>4. Good(x)
      BY SMTT(30), <1>1, <1>2, <3>2, <3>3 DEF Good, Writer, Row
    <3> QED BY SMTT(30), <1>1, <1>2, <3>3, <3>4 DEF Good, Grown, Writer, Row
  <2>3. New(x) = New(y) \cup written
    BY <1>2, <2>1 DEF New
  <2>4. /\ Len(x.batch) = Len(y.batch) - y.done
        /\ \A k \in 1 .. Len(x.batch) : x.batch[k] = y.batch[y.done + k]
    <3>1. /\ Len(SubSeq(y.batch, y.done + 1, Len(y.batch))) = Len(y.batch) - y.done
          /\ \A k \in 1 .. Len(y.batch) - y.done :
                SubSeq(y.batch, y.done + 1, Len(y.batch))[k] = y.batch[y.done + k]
      BY <1>1, Rest
    <3>2. x.batch = SubSeq(y.batch, y.done + 1, Len(y.batch))
      BY <2>1
    <3> QED BY <3>1, <3>2
  <2>5. ASSUME NEW n \in Nat, Ordered(y, n) PROVE Ordered(x, n)
    <3>1. /\ InOrder(New(x))
          /\ \A r \in New(x) : r.item \in RowItems /\ r.item <= n
          /\ \A k \in y.done + 1 .. Len(y.batch) : \A r \in New(x) : r.item < y.batch[k]
      BY ZenonT(60), <1>1, <2>3, <2>5, WritePrefix DEF Good
    <3>2. ASSUME NEW k \in 1 .. Len(x.batch)
          PROVE  /\ x.batch[k] \in RowItems /\ x.batch[k] <= n
                 /\ \A r \in New(x) : r.item < x.batch[k]
                 /\ \A j \in 1 .. k - 1 : x.batch[j] < x.batch[k]
      <4>1. /\ y.done + k \in 1 .. Len(y.batch)
            /\ y.done + k \in y.done + 1 .. Len(y.batch)
            /\ x.batch[k] = y.batch[y.done + k]
        BY SMTT(30), <1>1, <2>4
      <4>2. /\ x.batch[k] \in RowItems /\ x.batch[k] <= n
            /\ \A r \in New(x) : r.item < x.batch[k]
        BY <1>5, <2>5, <3>1, <4>1 DEF Ordered
      <4>3. ASSUME NEW j \in 1 .. k - 1 PROVE x.batch[j] < x.batch[k]
        <5>1. j \in 1 .. Len(x.batch) /\ y.done + j \in 1 .. (y.done + k) - 1
          BY SMTT(30), <1>1, <2>4
        <5> QED BY <1>5, <2>4, <2>5, <4>1, <5>1 DEF Ordered
      <4> QED BY <4>2, <4>3
    <3> QED BY <3>1, <3>2 DEF Ordered
  <2>6. ASSUME NEW i \in RowItems
        PROVE  (Present(y, i) => Present(x, i)) /\ (Durable(y, i) => Durable(x, i))
    <3>1. ASSUME NEW k \in 1 .. y.done PROVE \E r \in x.rows \ OldRows : r.item = y.batch[k]
      <4>1. [id |-> y.next + k - 1, item |-> y.batch[k]] \in written
        BY <1>1 DEF Numbered
      <4> QED BY <1>2, <2>1, <4>1
    <3>2. ASSUME NEW k \in y.done + 1 .. Len(y.batch)
          PROVE  \E j \in 1 .. Len(x.batch) : x.batch[j] = y.batch[k]
      <4>1. k - y.done \in 1 .. Len(x.batch) /\ y.done + (k - y.done) = k
        BY <1>1, <2>4
      <4> QED BY <2>4, <4>1
    <3>3. Durable(y, i) => Durable(x, i)
      BY <2>1, <3>1 DEF Durable
    <3>4. Present(y, i) => Present(x, i)
      <4>1. CASE \E r \in New(y) : r.item = i
        BY <2>3, <4>1 DEF Present
      <4>2. CASE \E k \in 1 .. Len(y.batch) : y.batch[k] = i
        <5>1. PICK k \in 1 .. Len(y.batch) : y.batch[k] = i
          BY <4>2
        <5>2. k \in 1 .. y.done \/ k \in y.done + 1 .. Len(y.batch)
          BY <1>1
        <5> QED BY <3>1, <3>2, <5>1, <5>2 DEF Present, New
      <4> QED BY <4>1, <4>2 DEF Present
    <3> QED BY <3>3, <3>4
  <2> QED BY <2>1, <2>2, <2>5, <2>6 DEF Progress
<1> QED BY <1>3, <1>4, <1>5

\* spill, called when no complete rows are left in the batch.
LEMMA SpillEnds ==
    ASSUME NEW y, Good(y), ~y.err, y.done = 0, NEW x \in spill(y)
    PROVE  /\ x \in Writer
           /\ x.stopped = y.stopped /\ x.done = 0 /\ x.rows = y.rows
           /\ x.splits = y.splits /\ x.inTxn = y.inTxn
           /\ \/ x = y /\ y.batch = << >>
              \/ /\ x.err /\ x.batch = y.batch /\ x.first = y.first
                 /\ x.open = y.open /\ x.txn = y.txn
                 /\ x.next \in {y.next, y.next + Len(y.batch)}
              \/ /\ ~x.err /\ ~y.stopped /\ x.open
                 /\ x.batch = << >> /\ Len(y.batch) # 0
                 /\ x.txn = y.txn \cup Numbered(y, y.batch)
                 /\ x.next = y.next + Len(y.batch)
                 /\ x.first = y.next + LastChunk(Len(y.batch))
<1> DEFINE n == Len(y.batch)
<1>1. y \in Writer /\ y.batch \in Seq(Items) /\ n \in Nat /\ y.next \in Nat /\ y.txn \in SUBSET Row
  BY DEF Good, Writer
<1>2. CASE y.stopped \/ y.batch = << >>
  <2>1. x = Failed(y) \/ (x = y /\ y.batch = << >>)
    BY <1>2 DEF spill
  <2> QED BY <1>1, <2>1 DEF Failed, Writer
<1>3. CASE ~y.stopped /\ y.batch # << >>
  <2>1. n # 0 /\ << >> \in Seq(Items)
    BY <1>1, <1>3
  <2>2. Numbered(y, y.batch) \subseteq Row
    BY <1>1, NumberedRows
  <2>3. CASE x = Failed([y EXCEPT !.next = @ + Len(y.batch)])
    <3>1. x = [y EXCEPT !.next = y.next + n, !.rows = y.rows, !.err = TRUE]
      BY <1>1, <2>3 DEF Failed, Writer
    <3>2. x \in Writer
      <4>1. y.rows \in SUBSET Row /\ y.next + n \in Nat
        BY <1>1 DEF Writer
      <4> QED BY <1>1, <3>1, <4>1, WriterFailed
    <3> QED BY <1>1, <3>1, <3>2 DEF Writer
  <2>4. CASE x = [writeChunks(y, y.batch) EXCEPT
                    !.open  = TRUE,
                    !.txn   = @ \cup Numbered(y, y.batch),
                    !.batch = << >>]
    <3>1. x = [y EXCEPT !.next = y.next + n, !.first = y.next + LastChunk(n),
                        !.open = TRUE, !.txn = y.txn \cup Numbered(y, y.batch),
                        !.batch = << >>]
      BY <1>1, <2>4 DEF writeChunks, Writer
    <3>2. /\ y.next + LastChunk(n) \in Nat /\ y.next + n \in Nat
          /\ y.txn \cup Numbered(y, y.batch) \in SUBSET Row
      BY <1>1, <2>1, <2>2, ChunkStart
    <3>3. x \in Writer
      BY <1>1, <2>1, <3>1, <3>2, WriterSpilled
    <3> QED BY <1>1, <1>3, <2>1, <3>1, <3>3 DEF Writer
  <2> QED BY <1>3, <2>3, <2>4 DEF spill
<1> QED BY <1>2, <1>3 DEF Good, Writer

\* spill moves the batch into the open index transaction and loses nothing.
LEMMA SpillProgress ==
    ASSUME NEW y, Good(y), ~y.err, y.done = 0, NEW x \in spill(y)
    PROVE  /\ Progress(y, x) /\ x.rows = y.rows
           /\ ~x.err => x.batch = << >> /\ (y.open => x.open)
<1> DEFINE written == Numbered(y, y.batch)
<1>1. /\ y.batch \in Seq(Items) /\ Len(y.batch) \in Nat /\ y.next \in Nat
      /\ SubSeq(y.batch, 1, Len(y.batch)) = y.batch
  BY DEF Good, Writer
<1>2. /\ written \cap OldRows = {}
      /\ \A r \in written : y.next <= r.id /\ r.id < y.next + Len(y.batch)
  BY <1>1, NumberedRows
<1>3. CASE x = y /\ y.batch = << >>
  BY <1>3, ProgressReflexive
<1>4. CASE x.err
  <2>1. /\ x \in Writer /\ x.stopped = y.stopped /\ x.done = 0 /\ x.rows = y.rows
        /\ x.batch = y.batch /\ x.first = y.first /\ x.open = y.open /\ x.txn = y.txn
        /\ x.next \in {y.next, y.next + Len(y.batch)}
    BY <1>4, SpillEnds
  <2>2. Good(x) /\ Grown(y, x)
    BY <1>1, <2>1 DEF Good, Grown, Writer, Row
  <2>3. New(x) = New(y)
    BY <2>1 DEF New
  <2> QED BY <1>4, <2>1, <2>2, <2>3 DEF Progress, Ordered
<1>5. CASE ~x.err /\ ~(x = y /\ y.batch = << >>)
  <2>1. /\ x \in Writer /\ x.stopped = y.stopped /\ x.done = 0 /\ x.rows = y.rows
        /\ ~y.stopped /\ x.open /\ x.batch = << >> /\ Len(y.batch) # 0
        /\ x.txn = y.txn \cup written
        /\ x.next = y.next + Len(y.batch)
    BY <1>5, SpillEnds
  <2>2. x.first <= x.next
    <3>1. x.first = y.next + LastChunk(Len(y.batch)) /\ Len(y.batch) \in Nat \ {0}
      BY <1>1, <1>5, <2>1, SpillEnds
    <3> QED BY <1>1, <2>1, <3>1, ChunkStart
  <2>3. Good(x)
    BY <1>1, <1>2, <2>1, <2>2 DEF Good, Writer, Row
  <2>4. Grown(y, x)
    BY <1>1, <1>2, <2>1 DEF Good, Grown, Writer, Row
  <2>5. New(x) = New(y) \cup written
    BY <2>1 DEF New
  <2>6. ASSUME NEW n \in Nat, Ordered(y, n) PROVE Ordered(x, n)
    <3>1. /\ InOrder(New(x))
          /\ \A r \in New(x) : r.item \in RowItems /\ r.item <= n
      <4>1. Len(y.batch) \in 0 .. Len(y.batch)
        BY <1>1
      <4> QED BY ZenonT(60), <1>1, <2>5, <2>6, <4>1, WritePrefix
    <3> QED BY <2>1, <3>1 DEF Ordered
  <2>7. ASSUME NEW i \in RowItems
        PROVE  (Present(y, i) => Present(x, i)) /\ (Durable(y, i) => Durable(x, i))
    <3>1. ASSUME NEW k \in 1 .. Len(y.batch) PROVE \E r \in New(x) : r.item = y.batch[k]
      <4>1. [id |-> y.next + k - 1, item |-> y.batch[k]] \in written
        BY <1>1 DEF Numbered
      <4> QED BY <2>5, <4>1
    <3>2. Durable(y, i) => Durable(x, i)
      BY <2>1 DEF Durable
    <3> QED BY <2>5, <3>1, <3>2 DEF Present
  <2> QED BY <2>1, <2>3, <2>4, <2>6, <2>7 DEF Progress
<1> QED BY <1>3, <1>4, <1>5, SpillEnds

\* A change of inTxn or splits alone.
Marked(y, b, s) == [y EXCEPT !.inTxn = b, !.splits = s]

\* Changing inTxn and splits moves no row.
LEMMA Relabel ==
    ASSUME NEW y, Good(y), NEW b \in BOOLEAN, NEW s \in Nat, NEW x, x = Marked(y, b, s)
    PROVE  /\ Progress(y, x) /\ x.err = y.err /\ x.open = y.open
           /\ x.batch = y.batch /\ x.done = y.done /\ x.txn = y.txn
<1>1. /\ x \in Writer /\ x.err = y.err /\ x.open = y.open /\ x.next = y.next
      /\ x.batch = y.batch /\ x.done = y.done /\ x.txn = y.txn
      /\ x.rows = y.rows /\ x.stopped = y.stopped /\ x.first = y.first
  BY DEF Good, Writer, Marked
<1>2. Good(x) /\ Grown(y, x)
  BY <1>1 DEF Good, Grown, Writer
<1>3. \A n \in Nat : Ordered(y, n) => Ordered(x, n)
  BY <1>1 DEF Ordered, New
<1>4. \A i \in RowItems : /\ Present(y, i) => Present(x, i)
                          /\ Durable(y, i) => Durable(x, i)
  BY <1>1 DEF Present, Durable, New
<1>5. Progress(y, x)
  BY <1>2, <1>3, <1>4 DEF Progress
<1> QED BY <1>1, <1>5

\* COMMIT of the open index transaction.
LEMMA CommitOpenProgress ==
    ASSUME NEW y, Good(y), ~y.err, ~y.stopped, NEW x \in CommitOpen(y)
    PROVE  Progress(y, x) /\ (~x.err => ~x.open /\ x.batch = y.batch)
<1>1. CASE ~y.open
  <2>1. x = y
    BY <1>1 DEF CommitOpen
  <2> QED BY <1>1, <2>1, ProgressReflexive
<1>2. CASE y.open
  <2>1. PICK r \in {y.rows, y.rows \cup y.txn}, e \in BOOLEAN :
           /\ ~e => r = y.rows \cup y.txn
           /\ x = [y EXCEPT !.open = FALSE, !.txn = {}, !.rows = r, !.err = e]
    <3>1. y \in Writer /\ y.next \in Nat /\ y.err = FALSE
      BY DEF Good, Writer
    <3>2. CASE x = [clearTx(y) EXCEPT !.rows = @ \cup y.txn]
      <4>1. x = [y EXCEPT !.open = FALSE, !.txn = {}, !.rows = y.rows \cup y.txn, !.err = FALSE]
        BY <3>1, <3>2 DEF clearTx, Writer
      <4> QED BY <4>1
    <3>3. CASE x \in Ambiguous(clearTx(y), 0, y.txn)
      <4>1. PICK r \in {y.rows, y.rows \cup y.txn} :
               x = [y EXCEPT !.open = FALSE, !.txn = {}, !.rows = r, !.err = TRUE]
        <5> DEFINE c == clearTx(y)
        <5>1. /\ c \in Writer /\ c.rows = y.rows /\ c.next = y.next
              /\ c.next + 0 = c.next
          <6>1. c.next = y.next /\ c.rows = y.rows
            BY <3>1 DEF clearTx, Writer
          <6>2. c \in Writer
            BY <3>1 DEF clearTx, Writer
          <6> QED BY <3>1, <6>1, <6>2
        <5>2. PICK r \in {y.rows, y.rows \cup y.txn} :
                 x = Failed([c EXCEPT !.next = @ + 0, !.rows = r])
          BY <3>3, <5>1 DEF Ambiguous
        <5>3. x = [c EXCEPT !.rows = r, !.err = TRUE]
          BY <5>1, <5>2 DEF Failed, Writer
        <5> QED BY <3>1, <5>3 DEF clearTx, Writer
      <4> QED BY <4>1
    <3> QED BY <1>2, <3>2, <3>3 DEF CommitOpen
  <2>2. y \in Writer /\ r \in SUBSET Row
    BY DEF Good, Writer
  <2>3. /\ x \in Writer /\ x.err = e /\ x.open = FALSE /\ x.txn = {} /\ x.rows = r
        /\ x.batch = y.batch /\ x.done = y.done /\ x.next = y.next
        /\ x.stopped = y.stopped /\ x.first = y.first
    BY <2>1, <2>2 DEF Writer
  <2>4. Good(x)
    BY <2>1, <2>3 DEF Good, Writer, Row
  <2>5. Grown(y, x)
    BY <2>1, <2>3 DEF Grown, Good, Writer, Row
  <2>6. New(x) \subseteq New(y) /\ (~x.err => New(x) = New(y))
    BY <2>1, <2>3 DEF New, Good
  <2>7. \A n \in Nat : Ordered(y, n) => Ordered(x, n)
    BY <2>3, <2>6 DEF Ordered, InOrder
  <2>8. ~x.err => \A i \in RowItems : /\ Present(y, i) => Present(x, i)
                                      /\ Durable(y, i) => Durable(x, i)
    BY <2>1, <2>3, <2>6 DEF Present, Durable
  <2> QED BY <2>3, <2>4, <2>5, <2>7, <2>8 DEF Progress
<1> QED BY <1>1, <1>2

\* A successful commitTx leaves nothing unwritten and nothing uncommitted.
LEMMA CommitTxProgress ==
    ASSUME NEW y, Good(y), ~y.err, y.open, NEW x \in commitTx(y)
    PROVE  Progress(y, x) /\ (~x.err => ~x.open /\ x.batch = << >>)
<1>1. y.done = 0
  BY DEF Good
<1>2. PICK z \in spill(y) : IF z.err THEN x = z ELSE x \in CommitOpen(z)
  BY DEF commitTx, Then
<1>3. Progress(y, z) /\ (~z.err => z.batch = << >>)
  BY <1>1, <1>2, SpillProgress
<1>4. CASE z.err
  BY <1>2, <1>3, <1>4
<1>5. CASE ~z.err
  <2>1. Good(z)
    BY <1>3 DEF Progress
  <2>2. ~z.stopped
    <3>1. CASE y.stopped
      BY <1>2, <1>5, <3>1 DEF spill, Failed, Good, Writer
    <3>2. CASE ~y.stopped
      BY <1>3, <3>2 DEF Progress, Grown
    <3> QED BY <3>1, <3>2
  <2>3. Progress(z, x) /\ (~x.err => ~x.open /\ x.batch = z.batch)
    BY <1>2, <1>5, <2>1, <2>2, CommitOpenProgress
  <2> QED BY <1>3, <1>5, <2>3, ProgressTransitive
<1> QED BY <1>4, <1>5

\* A split publishes the open index transaction and empties the batch.
LEMMA SplitProgress ==
    ASSUME NEW y, Good(y), ~y.err, y.open, NEW x \in Split(y)
    PROVE  Progress(y, x) /\ (~x.err => x.batch = << >>)
<1>1. PICK z \in commitTx(y) : x = [z EXCEPT !.splits = @ + 1]
  BY DEF Split
<1>2. Progress(y, z) /\ (~z.err => ~z.open /\ z.batch = << >>)
  BY <1>1, CommitTxProgress
<1>3. Good(z) /\ z \in Writer /\ z.inTxn \in BOOLEAN /\ z.splits + 1 \in Nat
  BY SMTT(30), <1>2 DEF Progress, Good, Writer
<1>4. x = Marked(z, z.inTxn, z.splits + 1)
  BY <1>1, <1>3 DEF Writer, Marked
<1>5. Progress(z, x) /\ x.err = z.err /\ x.batch = z.batch
  BY <1>3, <1>4, Relabel
<1>6. CASE ~z.err
  BY <1>2, <1>5, <1>6, ProgressTransitive
<1>7. CASE z.err
  <2>1. /\ x.rows = z.rows /\ x.next = z.next /\ x.txn = z.txn /\ x.stopped = z.stopped
    BY <1>3, <1>4 DEF Writer, Marked
  <2>2. Good(x) /\ Grown(y, x)
    BY <1>2, <1>5, <2>1 DEF Progress, Grown
  <2>3. New(x) = New(z)
    BY <2>1 DEF New
  <2> QED BY <1>2, <1>5, <1>7, <2>2, <2>3 DEF Progress, Ordered
<1> QED BY <1>6, <1>7

\* OnCap splits or does nothing.
LEMMA OnCapProgress ==
    ASSUME NEW y, Good(y), ~y.err, NEW x \in OnCap(y)
    PROVE  Progress(y, x)
BY SplitProgress, ProgressReflexive DEF OnCap

\* A full batch is spilled after the complete rows are committed.
LEMMA SpilledProgress ==
    ASSUME NEW y, Good(y), ~y.err, NEW x \in Spilled(y)
    PROVE  Progress(y, x)
<1>1. CASE Len(y.batch) - y.done >= BatchSize
  <2>1. PICK z \in CommitComplete(y) : IF z.err THEN x = z ELSE x \in spill(z)
    BY <1>1 DEF Spilled, Then
  <2>2. Progress(y, z) /\ (~z.err => z.done = 0)
    BY <2>1, CommitCompleteProgress
  <2>3. CASE ~z.err
    <3>1. Progress(z, x)
      BY <2>1, <2>2, <2>3, SpillProgress DEF Progress
    <3> QED BY <2>2, <2>3, <3>1, ProgressTransitive
  <2> QED BY <2>1, <2>2, <2>3
<1>2. CASE ~(Len(y.batch) - y.done >= BatchSize)
  BY <1>2, ProgressReflexive DEF Spilled
<1> QED BY <1>1, <1>2

\* Add: one more event, after all those read before it.
LEMMA AddProgress ==
    ASSUME NEW y, Good(y), ~y.err, NEW i \in RowItems, NEW x \in Add(y, i)
    PROVE  /\ Good(x) /\ Grown(y, x)
           /\ \A n \in Nat : n < i /\ Ordered(y, n) => Ordered(x, i)
           /\ ~x.err => /\ Present(x, i)
                        /\ \A j \in RowItems : /\ Present(y, j) => Present(x, j)
                                               /\ Durable(y, j) => Durable(x, j)
<1> DEFINE a == [y EXCEPT !.inTxn = TRUE, !.batch = Append(@, i)]
           len == Len(y.batch)
<1>1. /\ y \in Writer /\ y.batch \in Seq(Items) /\ len \in Nat /\ y.done \in Nat
      /\ i \in Items /\ i \in Nat /\ y.done <= len
  BY DEF Good, Writer, RowItems, Items
<1>2. /\ Append(y.batch, i) \in Seq(Items) /\ Len(Append(y.batch, i)) = len + 1
      /\ Append(y.batch, i)[len + 1] = i
      /\ \A k \in 1 .. len : Append(y.batch, i)[k] = y.batch[k]
  BY <1>1
<1>3. /\ a \in Writer /\ a.batch = Append(y.batch, i) /\ a.done = y.done /\ a.txn = y.txn
      /\ a.rows = y.rows /\ a.next = y.next /\ a.first = y.first /\ a.err = y.err
      /\ a.stopped = y.stopped /\ a.open = y.open
  BY <1>1, <1>2 DEF Writer
<1> HIDE DEF a
<1>4. Good(a) /\ Grown(y, a)
  BY <1>1, <1>2, <1>3 DEF Good, Grown, Writer
<1>5. ASSUME NEW n \in Nat, n < i, Ordered(y, n) PROVE Ordered(a, i)
  <2>1. New(a) = New(y)
    BY <1>3 DEF New
  <2>2. \A r \in New(y) : r.item \in Nat
    BY <1>5 DEF Ordered, RowItems, Items
  <2>3. ASSUME NEW k \in 1 .. len + 1
        PROVE  /\ a.batch[k] \in RowItems /\ a.batch[k] <= i
               /\ \A r \in New(y) : r.item < a.batch[k]
               /\ \A j \in 1 .. k - 1 : a.batch[j] < a.batch[k]
    <3>1. CASE k = len + 1
      <4>1. \A j \in 1 .. len : y.batch[j] \in Nat /\ y.batch[j] <= n
        BY <1>5 DEF Ordered, RowItems, Items
      <4> QED BY <1>1, <1>2, <1>3, <1>5, <2>2, <3>1, <4>1 DEF Ordered
    <3>2. CASE k \in 1 .. len
      <4>1. y.batch[k] \in RowItems /\ y.batch[k] \in Nat /\ y.batch[k] <= n
        BY <1>5, <3>2 DEF Ordered, RowItems, Items
      <4>2. \A j \in 1 .. k - 1 : j \in 1 .. len
        BY <1>1, <3>2
      <4> QED BY <1>1, <1>2, <1>3, <1>5, <3>2, <4>1, <4>2 DEF Ordered
    <3> QED BY <1>1, <3>1, <3>2
  <2>4. Len(a.batch) = len + 1
    BY <1>2, <1>3
  <2> QED BY <1>1, <1>5, <2>1, <2>2, <2>3, <2>4 DEF Ordered
<1>6. /\ Present(a, i)
      /\ \A j \in RowItems : /\ Present(y, j) => Present(a, j)
                             /\ Durable(y, j) => Durable(a, j)
  <2>1. Present(a, i)
    BY <1>1, <1>2, <1>3 DEF Present
  <2>2. \A k \in 1 .. len : k \in 1 .. Len(a.batch) /\ a.batch[k] = y.batch[k]
    BY <1>1, <1>2, <1>3
  <2>3. \A k \in 1 .. y.done : k \in 1 .. len
    BY <1>1
  <2> QED BY <1>3, <2>1, <2>2, <2>3 DEF Present, Durable, New
<1>7. PICK z \in Spilled(a) : IF z.err THEN x = z ELSE x \in OnCap(z)
  BY DEF Add, Then, a
<1>8. Progress(a, z)
  BY <1>3, <1>4, <1>7, SpilledProgress
<1>9. Progress(a, x)
  <2>1. CASE ~z.err
    BY <1>4, <1>7, <1>8, <2>1, OnCapProgress, ProgressTransitive DEF Progress
  <2> QED BY <1>7, <1>8, <2>1
<1>10. Grown(y, x)
  BY <1>3, <1>4, <1>9 DEF Grown, Progress
<1> QED BY <1>1, <1>5, <1>6, <1>9, <1>10 DEF Progress

\* End: what was read so far is in the table or in the complete part.
LEMMA EndProgress ==
    ASSUME NEW y, Good(y), ~y.err, NEW x \in End(y)
    PROVE  /\ Progress(y, x)
           /\ ~x.err => \A i \in RowItems : Present(y, i) => Durable(x, i)
<1> DEFINE e == Marked(y, FALSE, 0)
           c == Completed(e)
<1>1. Progress(y, e) /\ e.err = y.err /\ e.open = y.open
  BY ZenonT(60), Relabel
<1>2. Good(e) /\ e \in Writer
  BY <1>1 DEF Progress, Good
<1> HIDE DEF e
<1>3. CASE e.open
  <2>1. x \in commitTx(e)
    BY <1>3 DEF End, e, Marked
  <2>2. Progress(e, x) /\ (~x.err => ~x.open /\ x.batch = << >>)
    BY <1>1, <1>2, <1>3, <2>1, CommitTxProgress
  <2>3. Progress(y, x)
    BY <1>1, <2>2, ProgressTransitive
  <2>4. ASSUME ~x.err, NEW i \in RowItems, Present(y, i) PROVE Durable(x, i)
    <3>1. Present(x, i) /\ x.txn = {} /\ Len(x.batch) = 0
      BY <2>2, <2>3, <2>4 DEF Progress, Good
    <3> QED BY <3>1 DEF Present, Durable, New
  <2> QED BY <2>3, <2>4
<1>4. CASE ~e.open
  <2>1. /\ c \in Writer /\ c.done = Len(e.batch) /\ c.batch = e.batch /\ c.txn = e.txn
        /\ c.rows = e.rows /\ c.next = e.next /\ c.first = e.first /\ c.err = e.err
        /\ c.stopped = e.stopped /\ c.open = e.open
    BY <1>2 DEF Completed, Writer
  <2> HIDE DEF c
  <2>2. Good(c) /\ Grown(e, c)
    <3>1. Grown(e, c)
      BY <1>2, <2>1, GrownSame
    <3>2. c.done <= Len(c.batch)
      BY <2>1 DEF Writer
    <3> QED BY <1>2, <1>4, <2>1, <3>1, <3>2 DEF Good
  <2>3. \A n \in Nat : Ordered(e, n) => Ordered(c, n)
    BY <2>1 DEF Ordered, New
  <2>4. \A i \in RowItems : Present(e, i) => Present(c, i) /\ Durable(c, i)
    BY <1>2, <1>4, <2>1 DEF Present, Durable, New, Good
  <2>5. \A i \in RowItems : Durable(e, i) => Present(e, i)
    <3>1. \A k \in 1 .. e.done : k \in 1 .. Len(e.batch)
      BY <1>2 DEF Good, Writer
    <3> QED BY <3>1 DEF Present, Durable, New
  <2>6. Progress(e, c)
    BY <2>2, <2>3, <2>4, <2>5 DEF Progress
  <2>7. Progress(y, c)
    BY <1>1, <2>6, ProgressTransitive
  <2>8. x = c \/ x \in CommitComplete(c)
    BY <1>4 DEF End, e, c, Marked
  <2>9. Progress(c, x)
    BY <1>1, <2>1, <2>2, <2>8, ProgressReflexive, CommitCompleteProgress
  <2>10. Progress(y, x)
    BY <1>1, <2>1, <2>7, <2>9, ProgressTransitive
  <2>11. ~x.err => \A i \in RowItems : Present(y, i) => Durable(x, i)
    BY <1>1, <2>4, <2>9 DEF Progress
  <2> QED BY <2>10, <2>11
<1> QED BY <1>3, <1>4

\* Discard drops what is not complete, and nothing else.
LEMMA DiscardKeeps ==
    ASSUME NEW y, Good(y), ~y.err, NEW x, x = Discard(y)
    PROVE  /\ Good(x) /\ Grown(y, x) /\ ~x.err
           /\ \A n \in Nat : Ordered(y, n) => Ordered(x, n)
           /\ \A i \in RowItems : Durable(y, i) => Durable(x, i)
<1> DEFINE b == SubSeq(y.batch, 1, y.done)
<1>1. /\ y \in Writer /\ b \in Seq(Items) /\ Len(b) = y.done
      /\ y.done \in Nat /\ Len(y.batch) \in Nat /\ y.done <= Len(y.batch)
      /\ \A k \in 1 .. y.done : b[k] = y.batch[k] /\ k \in 1 .. Len(y.batch)
  BY DEF Good, Writer
<1>2. x = [y EXCEPT !.batch = b, !.inTxn = FALSE, !.splits = 0, !.open = FALSE, !.txn = {}]
  BY <1>1 DEF Discard, Close, clearTx, Writer
<1>3. /\ x \in Writer /\ x.done = y.done /\ x.batch = b /\ x.txn = {} /\ x.open = FALSE
      /\ x.rows = y.rows /\ x.next = y.next /\ x.first = y.first /\ x.err = y.err
      /\ x.stopped = y.stopped
  <2>1. x \in Writer
    BY ZenonT(60), <1>1, <1>2, WriterDiscarded
  <2> QED BY <1>1, <1>2, <2>1 DEF Writer
<1>4. Good(x) /\ Grown(y, x)
  <2>1. Grown(y, x)
    BY <1>3, GrownSame
  <2> QED BY <1>1, <1>3, <2>1 DEF Good
<1>5. New(x) \subseteq New(y)
  BY <1>3 DEF New
<1>6. \A n \in Nat : Ordered(y, n) => Ordered(x, n)
  <2> SUFFICES ASSUME NEW n \in Nat, Ordered(y, n) PROVE Ordered(x, n)
    OBVIOUS
  <2>1. InOrder(New(x)) /\ \A r \in New(x) : r.item \in RowItems /\ r.item <= n
    BY <1>5 DEF Ordered, InOrder
  <2>2. \A k \in 1 .. Len(x.batch) :
          /\ x.batch[k] = y.batch[k] /\ k \in 1 .. Len(y.batch)
          /\ \A j \in 1 .. k - 1 : x.batch[j] = y.batch[j]
    BY <1>1, <1>3
  <2>3. \A k \in 1 .. Len(y.batch) :
          /\ y.batch[k] \in RowItems /\ y.batch[k] <= n
          /\ \A r \in New(y) : r.item < y.batch[k]
          /\ \A j \in 1 .. k - 1 : y.batch[j] < y.batch[k]
    BY DEF Ordered
  <2> QED BY <1>5, <2>1, <2>2, <2>3 DEF Ordered
<1>7. \A i \in RowItems : Durable(y, i) => Durable(x, i)
  BY <1>1, <1>3 DEF Durable
<1> QED BY <1>3, <1>4, <1>6, <1>7
=============================================================================
