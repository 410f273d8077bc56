--------------------------- MODULE UploadJobProofs ---------------------------
(***************************************************************************)
(* Proofs about UploadJob, for every size of a chunk, number of chunks and     *)
(* set of schedules: what is recorded is staged and stays, the count of the    *)
(* bytes is the sum of the chunks, and a run reads a schedule that was         *)
(* accepted as a whole.                                                       *)
(***************************************************************************)
EXTENDS UploadJob, Induction, SequenceTheorems, TLAPS

-----------------------------------------------------------------------------
(* The inductive invariant *)

\* The chunk under way belongs to a job that is being received, fits it, and is sent
\* again only as it is on record.
SessionKnown ==
  session.open =>
    /\ status = "RECEIVING"
    /\ Len(session.body) # 0
    /\ Len(session.body) = ChunkLength(session.sequence, job.size)
    /\ session.received <= Len(session.body)
    /\ IF session.repeated
       THEN lengths[session.sequence] = Len(session.body)
              /\ crcs[session.sequence] = session.crc
       ELSE lengths[session.sequence] = 0

\* Of a new chunk, the flash holds what was received so far, and is erased beyond.
PartlyStaged ==
  session.open /\ ~session.repeated =>
    \A k \in 1 .. Len(session.body) :
      staging[Offset(session.sequence) + k - 1] =
        IF k <= session.received THEN session.body[k] ELSE Bits

\* The sum of the recorded lengths.
Sum(f) ==
  LET sum[n \in 0 .. MaxChunks] == IF n = 0 THEN 0 ELSE sum[n - 1] + f[n - 1]
  IN  sum[MaxChunks]

\* Every byte that counts as received is on record, once.
ReceivedIsSum == received = Sum(lengths)

\* What a run reads was accepted as it stands in the flash.
ReadyIsAccepted == status \in Locked => Staged(0, job.size) \in Accepted

IInv ==
  /\ TypeOK
  /\ SessionKnown
  /\ PartlyStaged
  /\ RecordedIsStaged
  /\ ReceivedIsSum
  /\ ReadyIsAccepted

-----------------------------------------------------------------------------
(* Chunks, slices and cells *)

\* The cells of the chunks follow each other and fill the partition.
LEMMA ChunksApart ==
  /\ MaxBytes \in Nat /\ Chunk \subseteq Nat
  /\ \A i \in Chunk : Offset(i) \in Nat /\ Offset(i) + ChunkBytes <= MaxBytes
  /\ \A i, j \in Chunk : i < j => Offset(i) + ChunkBytes <= Offset(j)
<1> ChunkBytes \in Nat \ {0} /\ MaxChunks \in Nat \ {0}
  BY ChunkAssumption
<1>1. ASSUME NEW a \in Nat, NEW b \in Nat, a < b
      PROVE  a * ChunkBytes \in Nat /\ a * ChunkBytes + ChunkBytes <= b * ChunkBytes
  <2>1. PICK d \in Nat : b = a + 1 + d
    <3>1. b - a - 1 \in Nat /\ b = a + 1 + (b - a - 1) BY <1>1
    <3>2. QED BY <3>1
  <2>2. b * ChunkBytes = a * ChunkBytes + ChunkBytes + d * ChunkBytes BY <2>1
  <2>3. d * ChunkBytes \in Nat /\ a * ChunkBytes \in Nat OBVIOUS
  <2>4. QED BY <2>2, <2>3
<1>2. MaxBytes \in Nat BY DEF MaxBytes
<1>3. ChunkBytes * MaxChunks = MaxChunks * ChunkBytes OBVIOUS
<1>4. \A i \in Chunk : Offset(i) \in Nat /\ Offset(i) + ChunkBytes <= MaxBytes
  BY <1>1, <1>3 DEF Chunk, Offset, MaxBytes
<1>5. \A i, j \in Chunk : i < j => Offset(i) + ChunkBytes <= Offset(j)
  BY <1>1 DEF Chunk, Offset
<1>6. QED BY <1>2, <1>4, <1>5 DEF Chunk

\* What a chunk carries fits it, and ends where the job ends.
LEMMA ChunkFits ==
  ASSUME NEW i \in Chunk, NEW size \in 0 .. MaxBytes
  PROVE  /\ ChunkLength(i, size) \in 0 .. ChunkBytes
         /\ ChunkLength(i, size) # 0 => Offset(i) + ChunkLength(i, size) <= size
BY ChunkAssumption, ChunksApart DEF ChunkLength

\* A slice of a schedule is a sequence of bytes of the length the chunk carries.
LEMMA SliceIsChunk ==
  ASSUME NEW s \in Schedules, NEW i \in Chunk
  PROVE  /\ Slice(s, i) \in Seq(Byte)
         /\ Len(Slice(s, i)) = ChunkLength(i, Len(s))
<1> DEFINE size == Len(s)
<1>1. s \in Seq(Byte) /\ size \in 0 .. MaxBytes BY SchedulesAssumption
<1>2. Offset(i) \in Nat /\ ChunkLength(i, size) \in 0 .. ChunkBytes
        /\ (ChunkLength(i, size) # 0 => Offset(i) + ChunkLength(i, size) <= size)
  BY <1>1, ChunksApart, ChunkFits
<1> HIDE DEF size
<1>3. Slice(s, i) = SubSeq(s, Offset(i) + 1, Offset(i) + ChunkLength(i, size))
  BY DEF Slice, size
<1>4. CASE ChunkLength(i, size) = 0
  <2>1. Slice(s, i) = << >> BY <1>1, <1>2, <1>3, <1>4, SubSeqProperties
  <2>2. QED BY <2>1, <1>4 DEF size
<1>5. CASE ChunkLength(i, size) # 0
  <2>1. PICK from, length : from = Offset(i) + 1 /\ length = ChunkLength(i, size)
    OBVIOUS
  <2>2. /\ from \in Nat /\ from >= 1 /\ length \in Nat /\ length # 0
        /\ (from - 1) + length <= size
    BY <1>1, <1>2, <1>5, <2>1, ChunkAssumption
  <2>3. from \in 1 .. size + 1 /\ (from - 1) + length \in from .. size
    BY <1>1, <2>2
  <2>4. /\ SubSeq(s, from, (from - 1) + length) \in Seq(Byte)
        /\ Len(SubSeq(s, from, (from - 1) + length)) = length
    BY <1>1, <2>2, <2>3, SubSeqProperties DEF size
  <2>5. (from - 1) + length = Offset(i) + ChunkLength(i, size) BY <1>2, <2>1
  <2>6. QED BY <1>3, <2>1, <2>4, <2>5 DEF size
<1>6. QED BY <1>4, <1>5

\* A piece is the next n bytes of the body.
LEMMA PieceIsNext ==
  ASSUME session.body \in Seq(Byte), session.received \in Nat,
         NEW n \in 1 .. (Len(session.body) - session.received)
  PROVE  /\ Piece(n) \in Seq(Byte) /\ Len(Piece(n)) = n
         /\ \A k \in 1 .. n : Piece(n)[k] = session.body[session.received + k]
<1> DEFINE body == session.body  from == session.received
<1>1. body \in Seq(Byte) /\ from \in Nat /\ n \in 1 .. (Len(body) - from) /\ Len(body) \in Nat
  OBVIOUS
<1>2. Piece(n) = SubSeq(body, from + 1, from + n) BY DEF Piece
<1> HIDE DEF body, from
<1>3. /\ SubSeq(body, from + 1, from + n) \in Seq(Byte)
      /\ Len(SubSeq(body, from + 1, from + n)) = n
      /\ \A k \in 1 .. n : SubSeq(body, from + 1, from + n)[k] = body[from + k]
  BY <1>1, SubSeqProperties
<1>4. QED BY <1>2, <1>3 DEF body, from

\* The cells of two chunks have nothing in common.
LEMMA CellsApart ==
  ASSUME NEW i \in Chunk, NEW j \in Chunk, i # j, NEW length \in 0 .. ChunkBytes,
         NEW c \in Cells(Offset(i), length)
  PROVE  c \notin Cells(Offset(j), ChunkBytes)
<1> USE ChunksApart, ChunkAssumption
<1>1. i < j \/ j < i BY DEF Chunk
<1>2. c \in Nat /\ c \in Offset(i) .. Offset(i) + length - 1 BY DEF Cells, Cell
<1>3. Offset(i) \in Nat /\ Offset(j) \in Nat OBVIOUS
<1>4. CASE i < j BY <1>2, <1>3, <1>4 DEF Cells
<1>5. CASE j < i BY <1>2, <1>3, <1>5 DEF Cells
<1>6. QED BY <1>1, <1>4, <1>5

-----------------------------------------------------------------------------
(* The sum of the recorded lengths *)

\* The function that Sum defines exists ...
LEMMA SumExists ==
  ASSUME NEW f
  PROVE  \E s : s = [n \in 0 .. MaxChunks |-> IF n = 0 THEN 0 ELSE s[n - 1] + f[n - 1]]
<1> DEFINE G == {m \in Nat :
                   \E s : s = [n \in 0 .. m |-> IF n = 0 THEN 0 ELSE s[n - 1] + f[n - 1]]}
<1>1. 0 \in G
  <2> DEFINE s == [n \in 0 .. 0 |-> 0]
  <2>1. s = [n \in 0 .. 0 |-> IF n = 0 THEN 0 ELSE s[n - 1] + f[n - 1]] OBVIOUS
  <2>2. QED BY <2>1, Zenon
<1>2. ASSUME NEW m \in Nat, m \in G PROVE m + 1 \in G
  <2>1. PICK g : g = [n \in 0 .. m |-> IF n = 0 THEN 0 ELSE g[n - 1] + f[n - 1]]
    BY <1>2
  <2> DEFINE s == [n \in 0 .. m + 1 |-> IF n = m + 1 THEN g[m] + f[m] ELSE g[n]]
  <2>2. \A n \in 0 .. m + 1 : s[n] = IF n = 0 THEN 0 ELSE s[n - 1] + f[n - 1]
    <3> TAKE n \in 0 .. m + 1
    <3>1. CASE n = m + 1 BY <3>1
    <3>2. CASE n # m + 1 /\ n # 0
      <4>1. n \in 0 .. m /\ n - 1 \in 0 .. m + 1 /\ n - 1 # m + 1 BY <3>2
      <4>2. g[n] = g[n - 1] + f[n - 1] BY <4>1, <2>1, <3>2
      <4>3. s[n] = g[n] /\ s[n - 1] = g[n - 1] BY <4>1, <3>2
      <4>4. QED BY <4>2, <4>3, <3>2
    <3>3. CASE n # m + 1 /\ n = 0
      <4>1. g[0] = 0 BY <2>1
      <4>2. QED BY <4>1, <3>3
    <3>4. QED BY <3>1, <3>2, <3>3
  <2>3. s = [n \in 0 .. m + 1 |-> IF n = 0 THEN 0 ELSE s[n - 1] + f[n - 1]]
    BY <2>2
  <2>4. \E h : h = [n \in 0 .. m + 1 |-> IF n = 0 THEN 0 ELSE h[n - 1] + f[n - 1]]
    <3> HIDE DEF s
    <3>1. QED BY <2>3, Zenon
  <2>5. QED BY <2>4
<1>3. QED
  <2> HIDE DEF G
  <2>1. Nat \subseteq G BY <1>1, <1>2, SetInduction
  <2>2. MaxChunks \in Nat BY ChunkAssumption
  <2>3. QED BY <2>1, <2>2 DEF G

\* ... and Sum is its last value.
LEMMA SumRuns ==
  ASSUME NEW f
  PROVE  \E s : /\ s = [n \in 0 .. MaxChunks |-> IF n = 0 THEN 0 ELSE s[n - 1] + f[n - 1]]
                /\ Sum(f) = s[MaxChunks]
BY SumExists, Zenon DEF Sum

\* The lengths of the chunks add up to no more than the partition holds.
LEMMA SumFits ==
  ASSUME NEW f \in [Chunk -> 0 .. ChunkBytes]
  PROVE  Sum(f) \in 0 .. MaxBytes
<1> ChunkBytes \in Nat \ {0} /\ MaxChunks \in Nat \ {0}
  BY ChunkAssumption
<1>1. PICK s : /\ s = [n \in 0 .. MaxChunks |-> IF n = 0 THEN 0 ELSE s[n - 1] + f[n - 1]]
               /\ Sum(f) = s[MaxChunks]
  BY SumRuns
<1> DEFINE G == {n \in Nat : n <= MaxChunks => s[n] \in Nat /\ s[n] <= n * ChunkBytes}
<1>2. 0 \in G BY <1>1
<1>3. ASSUME NEW n \in Nat, n \in G PROVE n + 1 \in G
  <2>1. CASE n + 1 <= MaxChunks
    <3>1. s[n + 1] = s[n] + f[n] BY <1>1, <2>1
    <3>2. f[n] \in 0 .. ChunkBytes BY <2>1 DEF Chunk
    <3>3. s[n] \in Nat /\ s[n] <= n * ChunkBytes BY <1>3, <2>1
    <3>4. (n + 1) * ChunkBytes = n * ChunkBytes + ChunkBytes /\ n * ChunkBytes \in Nat
      OBVIOUS
    <3>5. QED BY <3>1, <3>2, <3>3, <3>4
  <2>2. CASE ~(n + 1 <= MaxChunks) BY <2>2
  <2>3. QED BY <2>1, <2>2
<1>4. MaxChunks \in G
  <2> HIDE DEF G
  <2>1. QED BY <1>2, <1>3, SetInduction
<1>5. MaxChunks * ChunkBytes = MaxBytes BY DEF MaxBytes
<1>6. MaxBytes \in Nat BY ChunksApart
<1>7. QED BY <1>1, <1>4, <1>5, <1>6

\* Nothing recorded, nothing summed.
LEMMA SumOfNone ==
  Sum([i \in Chunk |-> 0]) = 0
<1> MaxChunks \in Nat \ {0}
  BY ChunkAssumption
<1> DEFINE f == [i \in Chunk |-> 0]
<1>1. PICK s : /\ s = [n \in 0 .. MaxChunks |-> IF n = 0 THEN 0 ELSE s[n - 1] + f[n - 1]]
               /\ Sum(f) = s[MaxChunks]
  BY SumRuns
<1> DEFINE G == {n \in Nat : n <= MaxChunks => s[n] = 0}
<1>2. 0 \in G BY <1>1
<1>3. ASSUME NEW n \in Nat, n \in G PROVE n + 1 \in G
  <2>1. CASE n + 1 <= MaxChunks
    <3>1. s[n + 1] = s[n] + f[n] BY <1>1, <2>1
    <3>2. f[n] = 0 BY <2>1 DEF Chunk
    <3>3. QED BY <3>1, <3>2, <1>3, <2>1
  <2>2. CASE ~(n + 1 <= MaxChunks) BY <2>2
  <2>3. QED BY <2>1, <2>2
<1>4. MaxChunks \in G
  <2> HIDE DEF G
  <2>1. QED BY <1>2, <1>3, SetInduction
<1>5. QED BY <1>1, <1>4

\* A chunk that is put on record adds its length.
LEMMA SumGrows ==
  ASSUME NEW f \in [Chunk -> 0 .. ChunkBytes], NEW i \in Chunk, f[i] = 0, NEW length \in Nat
  PROVE  Sum([f EXCEPT ![i] = length]) = Sum(f) + length
<1> ChunkBytes \in Nat \ {0} /\ MaxChunks \in Nat \ {0} /\ i \in 0 .. MaxChunks - 1
  BY ChunkAssumption DEF Chunk
<1> DEFINE g == [f EXCEPT ![i] = length]
<1>1. PICK s : /\ s = [n \in 0 .. MaxChunks |-> IF n = 0 THEN 0 ELSE s[n - 1] + f[n - 1]]
               /\ Sum(f) = s[MaxChunks]
  BY SumRuns
<1>2. PICK t : /\ t = [n \in 0 .. MaxChunks |-> IF n = 0 THEN 0 ELSE t[n - 1] + g[n - 1]]
               /\ Sum(g) = t[MaxChunks]
  BY SumRuns
<1> DEFINE G == {n \in Nat : n <= MaxChunks =>
                   s[n] \in Nat /\ t[n] = IF n <= i THEN s[n] ELSE s[n] + length}
<1>3. 0 \in G BY <1>1, <1>2
<1>4. ASSUME NEW n \in Nat, n \in G PROVE n + 1 \in G
  <2>1. CASE n + 1 <= MaxChunks
    <3>1. s[n + 1] = s[n] + f[n] BY <1>1, <2>1
    <3>2. t[n + 1] = t[n] + g[n] BY <1>2, <2>1
    <3>3. f[n] \in Nat /\ g[n] = IF n = i THEN length ELSE f[n]
      BY <2>1 DEF Chunk
    <3>4. s[n] \in Nat /\ t[n] = IF n <= i THEN s[n] ELSE s[n] + length
      BY <1>4, <2>1
    <3>5. f[i] = 0 OBVIOUS
    <3> HIDE DEF g
    <3>6. CASE n = i BY <3>1, <3>2, <3>3, <3>4, <3>5, <3>6
    <3>7. CASE n # i BY <3>1, <3>2, <3>3, <3>4, <3>7
    <3>8. QED BY <3>6, <3>7
  <2>2. CASE ~(n + 1 <= MaxChunks) BY <2>2
  <2>3. QED BY <2>1, <2>2
<1>5. MaxChunks \in G
  <2> HIDE DEF G
  <2>1. QED BY <1>3, <1>4, SetInduction
<1>6. QED BY <1>1, <1>2, <1>5

-----------------------------------------------------------------------------
(* What the steps do to the flash *)

\* A request that erases or writes leaves every other cell alone, and one that succeeds
\* reaches every cell it should.
LEMMA EraseEffect ==
  ASSUME staging \in [Cell -> Byte], NEW cells \in SUBSET Cell, NEW ok \in BOOLEAN,
         EraseRange(cells, ok)
  PROVE  /\ staging' \in [Cell -> Byte]
         /\ \A c \in Cell \ cells : staging'[c] = staging[c]
         /\ ok => \A c \in cells : staging'[c] = Bits
<1>1. PICK done \in SUBSET cells :
        /\ staging' = [c \in Cell |-> IF c \in done THEN Bits ELSE staging[c]]
        /\ ok => done = cells
  BY DEF EraseRange
<1>2. Bits \in Byte BY DEF Byte
<1>3. QED BY <1>1, <1>2

LEMMA WriteEffect ==
  ASSUME staging \in [Cell -> Byte], NEW offset \in Nat, NEW data \in Seq(Byte),
         NEW ok \in BOOLEAN, WriteRange(offset, data, ok)
  PROVE  /\ staging' \in [Cell -> Byte]
         /\ \A c \in Cell \ Cells(offset, Len(data)) : staging'[c] = staging[c]
         /\ ok => \A c \in Cells(offset, Len(data)) :
                    staging'[c] = staging[c] \intersect data[c - offset + 1]
<1> DEFINE cells == Cells(offset, Len(data))
<1>1. PICK done \in SUBSET cells :
        /\ staging' = [c \in Cell |-> IF c \in done
                                      THEN staging[c] \intersect data[c - offset + 1]
                                      ELSE staging[c]]
        /\ ok => done = cells
  BY DEF WriteRange
<1>2. cells \subseteq Cell BY DEF Cells
<1>3. ASSUME NEW c \in Cell PROVE staging[c] \intersect data[c - offset + 1] \in Byte
  BY DEF Byte
<1>4. QED BY <1>1, <1>2, <1>3

\* What ChunkWrite writes lies in the cells of the chunk under way.
LEMMA WriteStaysInChunk ==
  ASSUME TypeOK, SessionKnown, session.open,
         NEW n \in 1 .. (Len(session.body) - session.received)
  PROVE  /\ Here \in Nat /\ Len(session.body) \in 1 .. ChunkBytes
         /\ Cells(Here, n) \subseteq Cells(Offset(session.sequence), ChunkBytes)
<1>1. /\ session.sequence \in Chunk /\ session.received \in Nat
      /\ session.body \in Seq(Byte) /\ job.size \in 0 .. MaxBytes
  BY ChunkAssumption DEF TypeOK
<1>2. Len(session.body) \in 0 .. ChunkBytes /\ Len(session.body) # 0
  BY <1>1, ChunkFits DEF SessionKnown
<1>3. Offset(session.sequence) \in Nat BY <1>1, ChunksApart
<1>4. n \in Nat /\ session.received + n <= ChunkBytes
  BY <1>1, <1>2, ChunkAssumption
<1> DEFINE offset == Offset(session.sequence)  from == session.received
<1>5. Here = offset + from BY DEF Here
<1>6. offset \in Nat /\ from \in Nat /\ from + n <= ChunkBytes BY <1>1, <1>3, <1>4
<1> HIDE DEF offset, from
<1>7. Here \in Nat /\ Cells(Here, n) \subseteq Cells(offset, ChunkBytes)
  BY <1>4, <1>5, <1>6, ChunkAssumption, ChunksApart DEF Cells, Cell
<1>8. QED BY <1>2, <1>7, ChunkAssumption DEF offset

\* No request touches the cells of a chunk that is on record.
LEMMA RecordedUntouched ==
  ASSUME TypeOK, SessionKnown,
         (\E ok \in BOOLEAN : ChunkRequest(ok)) \/ ChunkStep,
         NEW i \in Chunk, lengths[i] # 0
  PROVE  \A c \in Cells(Offset(i), lengths[i]) : staging'[c] = staging[c]
<1> /\ staging \in [Cell -> Byte] /\ lengths \in [Chunk -> 0 .. ChunkBytes]
    /\ session.sequence \in Chunk /\ session.body \in Seq(Byte) /\ session.received \in Nat
  BY ChunkAssumption DEF TypeOK
<1> lengths[i] \in 0 .. ChunkBytes /\ Cells(Offset(i), lengths[i]) \subseteq Cell
  BY DEF Cells
<1>1. ASSUME NEW ok \in BOOLEAN, ChunkRequest(ok)
      PROVE  \A c \in Cells(Offset(i), lengths[i]) : staging'[c] = staging[c]
  <2>1. PICK id \in JobIds, j \in Chunk : \E body, crc : ChunkBegin(id, j, body, crc, ok)
    BY <1>1 DEF ChunkRequest
  <2>2. CASE lengths[j] # 0 BY <2>1, <2>2 DEF ChunkBegin
  <2>3. CASE lengths[j] = 0
    <3>1. EraseRange(Cells(Offset(j), ChunkBytes), ok) BY <2>1, <2>3 DEF ChunkBegin
    <3>2. Cells(Offset(j), ChunkBytes) \in SUBSET Cell BY DEF Cells
    <3>3. \A c \in Cell \ Cells(Offset(j), ChunkBytes) : staging'[c] = staging[c]
      BY <3>1, <3>2, EraseEffect
    <3>4. i # j BY <2>3
    <3>5. QED BY <3>3, <3>4, CellsApart
  <2>4. QED BY <2>2, <2>3
<1>2. ASSUME NEW ok \in BOOLEAN, NEW n \in 1 .. ChunkBytes, ChunkWrite(n, ok)
      PROVE  \A c \in Cells(Offset(i), lengths[i]) : staging'[c] = staging[c]
  <2>1. session.open /\ n \in 1 .. (Len(session.body) - session.received)
    BY <1>2 DEF ChunkWrite
  <2>2. CASE session.repeated BY <1>2, <2>2 DEF ChunkWrite
  <2>3. CASE ~session.repeated
    <3>1. WriteRange(Here, Piece(n), ok) BY <1>2, <2>3 DEF ChunkWrite
    <3>2. Piece(n) \in Seq(Byte) /\ Len(Piece(n)) = n BY <2>1, PieceIsNext
    <3>3. Here \in Nat /\ Cells(Here, n) \subseteq Cells(Offset(session.sequence), ChunkBytes)
      BY <2>1, WriteStaysInChunk
    <3>4. \A c \in Cell \ Cells(Here, n) : staging'[c] = staging[c]
      BY <3>1, <3>2, <3>3, WriteEffect
    <3>5. i # session.sequence BY <2>1, <2>3 DEF SessionKnown
    <3>6. QED BY <3>3, <3>4, <3>5, CellsApart
  <2>4. QED BY <2>2, <2>3
<1>3. CASE ReceiveFails BY <1>3 DEF ReceiveFails
<1>4. CASE ChunkFinish BY <1>4 DEF ChunkFinish
<1>5. QED BY <1>1, <1>2, <1>3, <1>4 DEF ChunkStep

-----------------------------------------------------------------------------
(* Each part of the invariant is kept, action by action *)

\* The bodies of requests are slices of schedules, with checksums that are numbers.
LEMMA RequestTyped ==
  ASSUME NEW i \in Chunk, NEW body \in Bodies(i), NEW crc \in Checksums(i)
  PROVE  body \in Seq(Byte) /\ Len(body) \in Nat /\ crc \in Nat
<1>1. body \in Seq(Byte) BY SliceIsChunk DEF Bodies
<1>2. crc \in Nat BY CrcAssumption DEF Checksums, Bodies
<1>3. QED BY <1>1, <1>2

\* No request outlives the state of the job it was accepted for.
LEMMA SessionStep ==
  ASSUME TypeOK, SessionKnown, [Next]_vars
  PROVE  SessionKnown'
<1> /\ session \in [open : BOOLEAN, sequence : Chunk, body : Seq(Byte), crc : Nat,
                    repeated : BOOLEAN, received : 0 .. ChunkBytes]
  BY DEF TypeOK
<1> USE DEF SessionKnown
<1>1. ASSUME NEW id \in JobIds, NEW content \in Schedules, NEW ok \in BOOLEAN,
             NEW other \in Schedules, CreateJob(id, content, Len(other), ok)
      PROVE  SessionKnown'
  BY <1>1 DEF CreateJob
<1>2. ASSUME NEW ok \in BOOLEAN, NEW id \in JobIds, NEW i \in Chunk, NEW body \in Bodies(i),
             NEW crc \in Checksums(i), ChunkBegin(id, i, body, crc, ok)
      PROVE  SessionKnown'
  <2>1. Len(body) \in Nat BY RequestTyped
  <2>2. CASE session' = NoSession BY <2>2 DEF NoSession
  <2>3. CASE session' = [open |-> TRUE, sequence |-> i, body |-> body, crc |-> crc,
                         repeated |-> lengths[i] # 0, received |-> 0]
    <3>1. /\ status = "RECEIVING" /\ Len(body) # 0 /\ Len(body) = ChunkLength(i, job.size)
          /\ lengths[i] # 0 => lengths[i] = Len(body) /\ crcs[i] = crc
          /\ UNCHANGED <<status, job, lengths, crcs>>
      BY <1>2 DEF ChunkBegin, MayReceive
    <3>2. ChunkLength(i, job'.size) = ChunkLength(i, job.size) BY <3>1
    <3>3. 0 <= Len(body) BY <2>1
    <3>4. QED BY <2>3, <3>1, <3>2, <3>3
  <2>4. QED BY <1>2, <2>2, <2>3 DEF ChunkBegin
<1>3. ASSUME NEW ok \in BOOLEAN, NEW n \in 1 .. ChunkBytes, ChunkWrite(n, ok)
      PROVE  SessionKnown'
  <2>1. n \in 1 .. (Len(session.body) - session.received) /\ Len(session.body) \in Nat
    BY <1>3 DEF ChunkWrite
  <2>2. CASE session' = NoSession BY <2>2 DEF NoSession
  <2>3. CASE session' = [session EXCEPT !.received = @ + n]
    <3>1. session.received + n <= Len(session.body) BY <2>1, ChunkAssumption
    <3>2. /\ session'.open = session.open /\ session'.body = session.body
          /\ session'.sequence = session.sequence /\ session'.crc = session.crc
          /\ session'.repeated = session.repeated
          /\ session'.received = session.received + n
      BY <2>3
    <3>3. UNCHANGED <<status, job, lengths, crcs>> /\ session.open BY <1>3 DEF ChunkWrite
    <3>4. QED BY <3>1, <3>2, <3>3 DEF ChunkLength, Offset
  <2>4. QED BY <1>3, <2>2, <2>3 DEF ChunkWrite
<1>4. CASE ReceiveFails BY <1>4 DEF ReceiveFails, NoSession
<1>5. CASE ChunkFinish BY <1>5 DEF ChunkFinish, NoSession
<1>6. ASSUME NEW id \in JobIds, NEW content \in Schedules, NEW ok \in BOOLEAN,
             Finalize(id, content, ok)
      PROVE  SessionKnown'
  BY <1>6 DEF Finalize
<1>7. ASSUME NEW id \in JobIds, Cancel(id) PROVE SessionKnown'
  BY <1>7 DEF Cancel
<1>8. CASE Run BY <1>8 DEF Run
<1>9. CASE Reset BY <1>9 DEF Reset, NoSession
<1>10. CASE UNCHANGED vars BY <1>10 DEF vars
<1> QED BY <1>1, <1>2, <1>3, <1>4, <1>5, <1>6, <1>7, <1>8, <1>9, <1>10
     DEF Next, ChunkRequest, ChunkStep

\* A new chunk is erased before its first byte and written once.
LEMMA PartlyStep ==
  ASSUME TypeOK, SessionKnown, PartlyStaged, [Next]_vars
  PROVE  PartlyStaged'
<1> /\ session \in [open : BOOLEAN, sequence : Chunk, body : Seq(Byte), crc : Nat,
                    repeated : BOOLEAN, received : 0 .. ChunkBytes]
    /\ staging \in [Cell -> Byte] /\ job.size \in 0 .. MaxBytes
  BY DEF TypeOK
<1> USE DEF PartlyStaged
<1>1. ASSUME NEW id \in JobIds, NEW content \in Schedules, NEW ok \in BOOLEAN,
             NEW other \in Schedules, CreateJob(id, content, Len(other), ok)
      PROVE  PartlyStaged'
  BY <1>1 DEF CreateJob
<1>2. ASSUME NEW ok \in BOOLEAN, NEW id \in JobIds, NEW i \in Chunk, NEW body \in Bodies(i),
             NEW crc \in Checksums(i), ChunkBegin(id, i, body, crc, ok)
      PROVE  PartlyStaged'
  <2>1. CASE lengths[i] # 0 \/ ~ok BY <1>2, <2>1 DEF ChunkBegin, NoSession
  <2>2. CASE lengths[i] = 0 /\ ok
    <3>1. EraseRange(Cells(Offset(i), ChunkBytes), ok) BY <1>2, <2>2 DEF ChunkBegin
    <3>2. Cells(Offset(i), ChunkBytes) \in SUBSET Cell BY DEF Cells
    <3>3. \A c \in Cells(Offset(i), ChunkBytes) : staging'[c] = Bits
      BY <2>2, <3>1, <3>2, EraseEffect
    <3>4. Len(body) \in 0 .. ChunkBytes
      BY <1>2, ChunkFits DEF ChunkBegin, MayReceive
    <3>5. \A k \in 1 .. Len(body) : Offset(i) + k - 1 \in Cells(Offset(i), ChunkBytes)
      BY <3>4, ChunksApart, ChunkAssumption DEF Cells, Cell
    <3>6. session' = [open |-> TRUE, sequence |-> i, body |-> body, crc |-> crc,
                      repeated |-> FALSE, received |-> 0]
      BY <1>2, <2>2 DEF ChunkBegin
    <3>7. \A k \in 1 .. Len(body) : ~(k <= 0) BY <3>4
    <3>8. QED BY <3>3, <3>5, <3>6, <3>7 DEF Offset
  <2>3. QED BY <2>1, <2>2
<1>3. ASSUME NEW ok \in BOOLEAN, NEW n \in 1 .. ChunkBytes, ChunkWrite(n, ok)
      PROVE  PartlyStaged'
  <2>1. session.open /\ n \in 1 .. (Len(session.body) - session.received)
    BY <1>3 DEF ChunkWrite
  <2>2. CASE session' = NoSession BY <2>2 DEF NoSession
  <2>3. CASE session.repeated /\ session' = [session EXCEPT !.received = @ + n]
    BY <2>3
  <2>4. CASE ok /\ ~session.repeated /\ session' = [session EXCEPT !.received = @ + n]
    <3> DEFINE offset == Offset(session.sequence)  from == session.received
               body == session.body
    <3>1. WriteRange(Here, Piece(n), ok) BY <1>3, <2>4 DEF ChunkWrite
    <3>2. /\ Piece(n) \in Seq(Byte) /\ Len(Piece(n)) = n
          /\ \A k \in 1 .. n : Piece(n)[k] = body[from + k]
      BY <2>1, PieceIsNext, ChunkAssumption
    <3>3. Here \in Nat /\ Len(body) \in 1 .. ChunkBytes BY <2>1, WriteStaysInChunk
    <3>4. /\ \A c \in Cell \ Cells(Here, n) : staging'[c] = staging[c]
          /\ \A c \in Cells(Here, n) :
               staging'[c] = staging[c] \intersect Piece(n)[c - Here + 1]
      <4>1. PICK at, data : at = Here /\ data = Piece(n) OBVIOUS
      <4>2. WriteRange(at, data, ok) BY <3>1, <4>1
      <4>3. at \in Nat /\ data \in Seq(Byte) /\ Len(data) = n BY <3>2, <3>3, <4>1
      <4>4. /\ \A c \in Cell \ Cells(at, Len(data)) : staging'[c] = staging[c]
            /\ ok => \A c \in Cells(at, Len(data)) :
                 staging'[c] = staging[c] \intersect data[c - at + 1]
        BY <4>2, <4>3, WriteEffect
      <4>5. QED BY <4>1, <4>3, <4>4, <2>4
    <3>5. /\ session'.body = body /\ session'.sequence = session.sequence
          /\ session'.received = from + n
      BY <2>4
    <3>6. offset \in Nat /\ offset + ChunkBytes <= MaxBytes /\ Here = offset + from
            /\ from \in Nat /\ n \in Nat /\ from + n <= Len(body) /\ body \in Seq(Byte)
      <4>1. offset \in Nat /\ offset + ChunkBytes <= MaxBytes BY ChunksApart
      <4>2. from \in Nat /\ body \in Seq(Byte) BY ChunkAssumption
      <4>3. Here = offset + from BY DEF Here
      <4>4. n \in 1 .. (Len(body) - from) BY <2>1
      <4> HIDE DEF offset, from, body
      <4>5. n \in Nat /\ from + n <= Len(body) BY <3>3, <4>2, <4>4, ChunkAssumption
      <4>6. QED BY <4>1, <4>2, <4>3, <4>5
    <3>7. \A k \in 1 .. Len(body) : staging[offset + k - 1] = IF k <= from THEN body[k] ELSE Bits
      BY <2>1, <2>4
    <3> HIDE DEF offset, from, body
    <3>8. ASSUME NEW k \in 1 .. Len(body)
          PROVE  staging'[offset + k - 1] = IF k <= from + n THEN body[k] ELSE Bits
      <4> DEFINE c == offset + k - 1
      <4>1. c \in Cell
        BY <3>3, <3>6, ChunkAssumption, ChunksApart DEF Cell
      <4>2. c \in Cells(Here, n) <=> k \in from + 1 .. from + n
        BY <4>1, <3>3, <3>6 DEF Cells
      <4>3. c - Here + 1 = k - from BY <3>3, <3>6
      <4>4. staging[c] = IF k <= from THEN body[k] ELSE Bits BY <3>7
      <4> HIDE DEF c
      <4>5. CASE k \in from + 1 .. from + n
        <5>1. staging[c] = Bits BY <3>6, <4>4, <4>5
        <5>2. k - from \in 1 .. n /\ from + (k - from) = k BY <3>3, <3>6, <4>5
        <5>3. Piece(n)[k - from] = body[k] BY <5>2, <3>2
        <5>4. Bits \intersect body[k] = body[k] BY <3>6 DEF Byte
        <5>5. staging'[c] = staging[c] \intersect Piece(n)[k - from]
          BY <3>4, <4>2, <4>3, <4>5
        <5>6. staging'[c] = body[k] BY <5>1, <5>3, <5>4, <5>5
        <5>7. k <= from + n BY <4>5, <3>6
        <5>8. QED BY <5>6, <5>7 DEF c
      <4>6. CASE k \notin from + 1 .. from + n
        <5>1. staging'[c] = staging[c] BY <3>4, <4>1, <4>2, <4>6
        <5>2. k <= from + n <=> k <= from BY <3>3, <3>6, <4>6
        <5>3. QED BY <5>1, <5>2, <4>4 DEF c
      <4>7. QED BY <4>5, <4>6
    <3>9. Offset(session.sequence)' = offset BY <3>5 DEF offset, Offset
    <3>10. QED BY <3>5, <3>8, <3>9
  <2>5. QED BY <1>3, <2>2, <2>3, <2>4 DEF ChunkWrite
<1>4. CASE ReceiveFails BY <1>4 DEF ReceiveFails, NoSession
<1>5. CASE ChunkFinish BY <1>5 DEF ChunkFinish, NoSession
<1>6. ASSUME NEW id \in JobIds, NEW content \in Schedules, NEW ok \in BOOLEAN,
             Finalize(id, content, ok)
      PROVE  PartlyStaged'
  BY <1>6 DEF Finalize
<1>7. ASSUME NEW id \in JobIds, Cancel(id) PROVE PartlyStaged'
  BY <1>7 DEF Cancel
<1>8. CASE Run BY <1>8 DEF Run
<1>9. CASE Reset BY <1>9 DEF Reset, NoSession
<1>10. CASE UNCHANGED vars BY <1>10 DEF vars, Offset
<1> QED BY <1>1, <1>2, <1>3, <1>4, <1>5, <1>6, <1>7, <1>8, <1>9, <1>10
     DEF Next, ChunkRequest, ChunkStep

\* A chunk is put on record when the flash holds all of it, and no later request changes
\* what is on record.
LEMMA RecordedStep ==
  ASSUME TypeOK, SessionKnown, PartlyStaged, RecordedIsStaged, [Next]_vars
  PROVE  RecordedIsStaged'
<1> /\ session \in [open : BOOLEAN, sequence : Chunk, body : Seq(Byte), crc : Nat,
                    repeated : BOOLEAN, received : 0 .. ChunkBytes]
    /\ staging \in [Cell -> Byte] /\ lengths \in [Chunk -> 0 .. ChunkBytes]
    /\ crcs \in [Chunk -> Nat] /\ job.size \in 0 .. MaxBytes
  BY DEF TypeOK
<1> USE DEF RecordedIsStaged
<1>1. ASSUME NEW id \in JobIds, NEW content \in Schedules, NEW ok \in BOOLEAN,
             NEW other \in Schedules, CreateJob(id, content, Len(other), ok)
      PROVE  RecordedIsStaged'
  BY <1>1 DEF CreateJob
<1>2. ASSUME (\E ok \in BOOLEAN : ChunkRequest(ok)) \/ ChunkStep,
             UNCHANGED <<status, job, lengths, crcs>>
      PROVE  RecordedIsStaged'
  <2> SUFFICES ASSUME status = "RECEIVING", NEW i \in Chunk, lengths[i] # 0
               PROVE  /\ lengths[i] = ChunkLength(i, job.size)
                      /\ Crc([k \in 1 .. lengths[i] |-> staging'[Offset(i) + k - 1]]) = crcs[i]
    BY <1>2 DEF Staged, ChunkLength, Offset
  <2>1. \A c \in Cells(Offset(i), lengths[i]) : staging'[c] = staging[c]
    BY <1>2, RecordedUntouched
  <2>2. ASSUME NEW k \in 1 .. lengths[i] PROVE Offset(i) + k - 1 \in Cells(Offset(i), lengths[i])
    <3>1. /\ Offset(i) \in Nat /\ MaxBytes \in Nat
          /\ Offset(i) + ChunkBytes <= MaxBytes
      BY ChunksApart
    <3>2. \A o \in Nat, m \in 0 .. ChunkBytes :
            o + ChunkBytes <= MaxBytes /\ k \in 1 .. m => o + k - 1 \in Cells(o, m)
      BY <3>1, ChunkAssumption DEF Cells, Cell
    <3>3. lengths[i] \in 0 .. ChunkBytes OBVIOUS
    <3>4. QED BY <3>1, <3>2, <3>3
  <2>3. [k \in 1 .. lengths[i] |-> staging'[Offset(i) + k - 1]] = Staged(Offset(i), lengths[i])
    BY <2>1, <2>2 DEF Staged
  <2>4. QED BY <2>3
<1>3. CASE ChunkFinish
  <2>1. CASE UNCHANGED <<lengths, crcs>>
    BY <1>2, <1>3, <2>1 DEF ChunkFinish, ChunkStep
  <2>2. CASE Crc(session.body) = session.crc /\ ~session.repeated
    <3> DEFINE j == session.sequence  body == session.body
    <3>1. /\ lengths' = [lengths EXCEPT ![j] = Len(body)]
          /\ crcs' = [crcs EXCEPT ![j] = session.crc]
          /\ UNCHANGED <<status, job, staging>>
      BY <1>3, <2>2 DEF ChunkFinish
    <3>2. j \in Chunk /\ body \in Seq(Byte) OBVIOUS
    <3>3. /\ Len(body) = ChunkLength(j, job.size)
          /\ \A k \in 1 .. Len(body) : staging[Offset(j) + k - 1] = body[k]
      BY <1>3, <2>2 DEF ChunkFinish, SessionKnown, PartlyStaged
    <3>4. Staged(Offset(j), Len(body)) = body
      <4>1. body = [k \in 1 .. Len(body) |-> body[k]] BY <3>2
      <4> HIDE DEF j, body
      <4>2. QED BY <3>3, <4>1 DEF Staged
    <3>5. Crc(Staged(Offset(j), Len(body))) = session.crc BY <2>2, <3>4
    <3> HIDE DEF j, body
    <3> SUFFICES ASSUME status = "RECEIVING", NEW i \in Chunk, lengths'[i] # 0
                 PROVE  /\ lengths'[i] = ChunkLength(i, job.size)
                        /\ Crc(Staged(Offset(i), lengths'[i])) = crcs'[i]
      BY <3>1 DEF Staged, ChunkLength, Offset
    <3>6. CASE i = j BY <3>1, <3>2, <3>3, <3>5, <3>6
    <3>7. CASE i # j BY <3>1, <3>7
    <3>8. QED BY <3>6, <3>7
  <2>3. QED BY <1>3, <2>1, <2>2 DEF ChunkFinish
<1>4. ASSUME NEW id \in JobIds, NEW content \in Schedules, NEW ok \in BOOLEAN,
             Finalize(id, content, ok)
      PROVE  RecordedIsStaged'
  BY <1>4 DEF Finalize
<1>5. ASSUME NEW id \in JobIds, Cancel(id) PROVE RecordedIsStaged'
  BY <1>5 DEF Cancel
<1>6. CASE Run BY <1>6 DEF Run, Active, Locked
<1>7. CASE Reset BY <1>7 DEF Reset
<1>8. CASE UNCHANGED vars BY <1>8 DEF vars, Staged, ChunkLength, Offset
<1>9. ASSUME NEW ok \in BOOLEAN, ChunkRequest(ok) PROVE RecordedIsStaged'
  BY <1>2, <1>9 DEF ChunkRequest, ChunkBegin
<1>10. ASSUME NEW ok \in BOOLEAN, NEW n \in 1 .. ChunkBytes, ChunkWrite(n, ok)
       PROVE  RecordedIsStaged'
  BY <1>2, <1>10 DEF ChunkStep, ChunkWrite
<1>11. CASE ReceiveFails BY <1>2, <1>11 DEF ChunkStep, ReceiveFails
<1> QED BY <1>1, <1>3, <1>4, <1>5, <1>6, <1>7, <1>8, <1>9, <1>10, <1>11
     DEF Next, ChunkStep

\* A chunk is counted when it is put on record, and never again.
LEMMA SumStep ==
  ASSUME TypeOK, SessionKnown, ReceivedIsSum, [Next]_vars
  PROVE  ReceivedIsSum'
<1> /\ session \in [open : BOOLEAN, sequence : Chunk, body : Seq(Byte), crc : Nat,
                    repeated : BOOLEAN, received : 0 .. ChunkBytes]
    /\ lengths \in [Chunk -> 0 .. ChunkBytes]
  BY DEF TypeOK
<1> USE DEF ReceivedIsSum
<1>1. CASE UNCHANGED <<lengths, received>>
  <2>1. Sum(lengths') = Sum(lengths) BY <1>1
  <2>2. QED BY <1>1, <2>1
<1>2. CASE lengths' = [i \in Chunk |-> 0] /\ received' = 0
  BY <1>2, SumOfNone
<1>3. CASE ChunkFinish
  <2>1. CASE UNCHANGED <<lengths, received>> BY <1>1, <2>1
  <2>2. CASE ~session.repeated
    <3>1. PICK j \in Chunk, length \in Nat : j = session.sequence /\ length = Len(session.body)
      OBVIOUS
    <3>2. lengths[j] = 0 BY <1>3, <2>2, <3>1 DEF ChunkFinish, SessionKnown
    <3>3. CASE Crc(session.body) = session.crc
      <4>1. lengths' = [lengths EXCEPT ![j] = length] /\ received' = received + length
        BY <1>3, <2>2, <3>1, <3>3 DEF ChunkFinish
      <4>2. Sum([lengths EXCEPT ![j] = length]) = Sum(lengths) + length
        BY <3>2, SumGrows
      <4>3. QED BY <4>1, <4>2
    <3>4. CASE Crc(session.body) # session.crc BY <1>1, <1>3, <3>4 DEF ChunkFinish
    <3>5. QED BY <3>3, <3>4
  <2>3. QED BY <1>1, <1>3, <2>2 DEF ChunkFinish
<1>4. ASSUME NEW id \in JobIds, NEW content \in Schedules, NEW ok \in BOOLEAN,
             NEW other \in Schedules, CreateJob(id, content, Len(other), ok)
      PROVE  ReceivedIsSum'
  BY <1>2, <1>4 DEF CreateJob
<1>5. ASSUME NEW ok \in BOOLEAN, ChunkRequest(ok) PROVE ReceivedIsSum'
  BY <1>1, <1>5 DEF ChunkRequest, ChunkBegin
<1>6. ASSUME NEW ok \in BOOLEAN, NEW n \in 1 .. ChunkBytes, ChunkWrite(n, ok)
      PROVE  ReceivedIsSum'
  BY <1>1, <1>6 DEF ChunkWrite
<1>7. CASE ReceiveFails BY <1>1, <1>7 DEF ReceiveFails
<1>8. ASSUME NEW id \in JobIds, NEW content \in Schedules, NEW ok \in BOOLEAN,
             Finalize(id, content, ok)
      PROVE  ReceivedIsSum'
  BY <1>1, <1>8 DEF Finalize
<1>9. ASSUME NEW id \in JobIds, Cancel(id) PROVE ReceivedIsSum'
  BY <1>2, <1>9 DEF Cancel, Forget
<1>10. CASE Run BY <1>1, <1>10 DEF Run
<1>11. CASE Reset BY <1>2, <1>11 DEF Reset, Forget
<1>12. CASE UNCHANGED vars BY <1>1, <1>12 DEF vars
<1> QED BY <1>3, <1>4, <1>5, <1>6, <1>7, <1>8, <1>9, <1>10, <1>11, <1>12
     DEF Next, ChunkStep

\* Once the staged bytes are accepted, nothing writes to the flash until the job is
\* given up.
LEMMA ReadyStep ==
  ASSUME TypeOK, SessionKnown, ReadyIsAccepted, [Next]_vars
  PROVE  ReadyIsAccepted'
<1> USE DEF ReadyIsAccepted, Locked
<1>1. CASE UNCHANGED <<job, staging>> /\ (status' \in Locked => status \in Locked)
  BY <1>1 DEF Staged
<1>2. CASE status' \notin Locked BY <1>2
<1>3. ASSUME NEW id \in JobIds, NEW content \in Schedules, NEW ok \in BOOLEAN,
             NEW other \in Schedules, CreateJob(id, content, Len(other), ok)
      PROVE  ReadyIsAccepted'
  BY <1>2, <1>3 DEF CreateJob
<1>4. ASSUME NEW ok \in BOOLEAN, ChunkRequest(ok) PROVE ReadyIsAccepted'
  BY <1>2, <1>4 DEF ChunkRequest, ChunkBegin, MayReceive
<1>5. ASSUME NEW ok \in BOOLEAN, NEW n \in 1 .. ChunkBytes, ChunkWrite(n, ok)
      PROVE  ReadyIsAccepted'
  BY <1>2, <1>5 DEF ChunkWrite, SessionKnown
<1>6. CASE ReceiveFails \/ ChunkFinish BY <1>1, <1>6 DEF ReceiveFails, ChunkFinish
<1>7. ASSUME NEW id \in JobIds, NEW content \in Schedules, NEW ok \in BOOLEAN,
             Finalize(id, content, ok)
      PROVE  ReadyIsAccepted'
  <2>1. UNCHANGED <<job, staging>> BY <1>7 DEF Finalize
  <2>2. Staged(0, job.size)' = Staged(0, job.size) BY <2>1 DEF Staged
  <2>3. QED BY <1>2, <1>7, <2>2 DEF Finalize, Verified
<1>8. ASSUME NEW id \in JobIds, Cancel(id) PROVE ReadyIsAccepted'
  BY <1>2, <1>8 DEF Cancel
<1>9. CASE Run BY <1>1, <1>9 DEF Run, Active
<1>10. CASE Reset BY <1>2, <1>10 DEF Reset
<1>11. CASE UNCHANGED vars BY <1>1, <1>11 DEF vars
<1> QED BY <1>3, <1>4, <1>5, <1>6, <1>7, <1>8, <1>9, <1>10, <1>11
     DEF Next, ChunkStep

-----------------------------------------------------------------------------
(* Types *)

\* The state of the job, its announcement and the bounds keep their types.
LEMMA JobTypes ==
  ASSUME TypeOK, [Next]_vars
  PROVE  (/\ status \in Status
          /\ job \in [id : JobIds \union {None}, size : 0 .. MaxBytes,
                      sha : {Sha(s) : s \in Schedules} \union {None}]
          /\ jobs \in 0 .. MaxJobs /\ resets \in 0 .. MaxResets)'
<1> DEFINE Job == [id : JobIds \union {None}, size : 0 .. MaxBytes,
                   sha : {Sha(s) : s \in Schedules} \union {None}]
<1> status \in Status /\ job \in Job /\ jobs \in 0 .. MaxJobs /\ resets \in 0 .. MaxResets
  BY DEF TypeOK
<1>1. NoJob \in Job BY ChunksApart DEF NoJob
<1> DEFINE Goal == /\ status' \in Status /\ job' \in Job
                   /\ jobs' \in 0 .. MaxJobs /\ resets' \in 0 .. MaxResets
<1> SUFFICES Goal
  OBVIOUS
<1>2. ASSUME NEW id \in JobIds, NEW content \in Schedules, NEW ok \in BOOLEAN,
             NEW other \in Schedules, CreateJob(id, content, Len(other), ok)
      PROVE  Goal
  <2>1. Len(other) \in 0 .. MaxBytes BY SchedulesAssumption, ChunksApart
  <2>2. job' \in Job BY <1>2, <2>1 DEF CreateJob
  <2> HIDE DEF Job
  <2>3. QED BY <1>2, <2>2, BoundsAssumption DEF CreateJob, Status
<1> HIDE DEF Job
<1>3. ASSUME NEW ok \in BOOLEAN, ChunkRequest(ok) PROVE Goal
  BY <1>3 DEF ChunkRequest, ChunkBegin
<1>4. ASSUME NEW ok \in BOOLEAN, NEW n \in 1 .. ChunkBytes, ChunkWrite(n, ok) PROVE Goal
  BY <1>4 DEF ChunkWrite
<1>5. CASE ReceiveFails \/ ChunkFinish BY <1>5 DEF ReceiveFails, ChunkFinish
<1>6. ASSUME NEW id \in JobIds, NEW content \in Schedules, NEW ok \in BOOLEAN,
             Finalize(id, content, ok)
      PROVE  Goal
  BY <1>6 DEF Finalize, Status
<1>7. ASSUME NEW id \in JobIds, Cancel(id) PROVE Goal
  BY <1>1, <1>7 DEF Cancel, Forget, Status
<1>8. CASE Run BY <1>8 DEF Run, Status
<1>9. CASE Reset BY <1>1, <1>9, BoundsAssumption DEF Reset, Forget, Status
<1>10. CASE UNCHANGED vars BY <1>10 DEF vars
<1> QED BY <1>2, <1>3, <1>4, <1>5, <1>6, <1>7, <1>8, <1>9, <1>10
     DEF Next, ChunkStep

\* The records of the chunks keep their types.
LEMMA RecordTypes ==
  ASSUME TypeOK, SessionKnown, [Next]_vars
  PROVE  (lengths \in [Chunk -> 0 .. ChunkBytes] /\ crcs \in [Chunk -> Nat])'
<1> DEFINE Goal == lengths' \in [Chunk -> 0 .. ChunkBytes] /\ crcs' \in [Chunk -> Nat]
<1> /\ lengths \in [Chunk -> 0 .. ChunkBytes] /\ crcs \in [Chunk -> Nat]
    /\ session \in [open : BOOLEAN, sequence : Chunk, body : Seq(Byte), crc : Nat,
                    repeated : BOOLEAN, received : 0 .. ChunkBytes]
    /\ job.size \in 0 .. MaxBytes
  BY DEF TypeOK
<1> SUFFICES Goal
  OBVIOUS
<1>1. ASSUME NEW id \in JobIds, NEW content \in Schedules, NEW ok \in BOOLEAN,
             NEW other \in Schedules, CreateJob(id, content, Len(other), ok)
      PROVE  Goal
  BY <1>1, ChunkAssumption DEF CreateJob
<1>2. ASSUME NEW ok \in BOOLEAN, ChunkRequest(ok) PROVE Goal
  BY <1>2 DEF ChunkRequest, ChunkBegin
<1>3. ASSUME NEW ok \in BOOLEAN, NEW n \in 1 .. ChunkBytes, ChunkWrite(n, ok) PROVE Goal
  BY <1>3 DEF ChunkWrite
<1>4. CASE ReceiveFails BY <1>4 DEF ReceiveFails
<1>5. CASE ChunkFinish
  <2>1. Len(session.body) \in 0 .. ChunkBytes
    BY <1>5, ChunkFits DEF ChunkFinish, SessionKnown
  <2>2. QED BY <1>5, <2>1 DEF ChunkFinish
<1>6. ASSUME NEW id \in JobIds, NEW content \in Schedules, NEW ok \in BOOLEAN,
             Finalize(id, content, ok)
      PROVE  Goal
  BY <1>6 DEF Finalize
<1>7. ASSUME NEW id \in JobIds, Cancel(id) PROVE Goal
  BY <1>7, ChunkAssumption DEF Cancel, Forget
<1>8. CASE Run BY <1>8 DEF Run
<1>9. CASE Reset BY <1>9, ChunkAssumption DEF Reset, Forget
<1>10. CASE UNCHANGED vars BY <1>10 DEF vars
<1> QED BY <1>1, <1>2, <1>3, <1>4, <1>5, <1>6, <1>7, <1>8, <1>9, <1>10
     DEF Next, ChunkStep

\* The request under way and the flash keep their types.
LEMMA RequestTypes ==
  ASSUME TypeOK, SessionKnown, [Next]_vars
  PROVE  (/\ staging \in [Cell -> Byte]
          /\ session \in [open : BOOLEAN, sequence : Chunk, body : Seq(Byte), crc : Nat,
                          repeated : BOOLEAN, received : 0 .. ChunkBytes])'
<1> DEFINE Session == [open : BOOLEAN, sequence : Chunk, body : Seq(Byte), crc : Nat,
                       repeated : BOOLEAN, received : 0 .. ChunkBytes]
           Goal == staging' \in [Cell -> Byte] /\ session' \in Session
<1> staging \in [Cell -> Byte] /\ session \in Session
  BY DEF TypeOK
<1> SUFFICES Goal
  OBVIOUS
<1>1. NoSession \in Session BY ChunkAssumption DEF NoSession, Chunk
<1>2. ASSUME NEW id \in JobIds, NEW content \in Schedules, NEW ok \in BOOLEAN,
             NEW other \in Schedules, CreateJob(id, content, Len(other), ok)
      PROVE  Goal
  BY <1>2, EraseEffect DEF CreateJob
<1>3. ASSUME NEW ok \in BOOLEAN, NEW id \in JobIds, NEW i \in Chunk, NEW body \in Bodies(i),
             NEW crc \in Checksums(i), ChunkBegin(id, i, body, crc, ok)
      PROVE  Goal
  <2>1. body \in Seq(Byte) /\ crc \in Nat BY RequestTyped
  <2>2. session' \in Session BY <1>1, <1>3, <2>1, ChunkAssumption DEF ChunkBegin
  <2>3. Cells(Offset(i), ChunkBytes) \in SUBSET Cell BY DEF Cells
  <2>4. staging' \in [Cell -> Byte] BY <1>3, <2>3, EraseEffect DEF ChunkBegin
  <2>5. QED BY <2>2, <2>4
<1>4. ASSUME NEW ok \in BOOLEAN, NEW n \in 1 .. ChunkBytes, ChunkWrite(n, ok) PROVE Goal
  <2>1. session.open /\ n \in 1 .. (Len(session.body) - session.received)
    BY <1>4 DEF ChunkWrite
  <2>2. Piece(n) \in Seq(Byte) BY <2>1, PieceIsNext, ChunkAssumption
  <2>3. Here \in Nat /\ Len(session.body) \in 1 .. ChunkBytes BY <2>1, WriteStaysInChunk
  <2>4. staging' \in [Cell -> Byte] BY <1>4, <2>2, <2>3, WriteEffect DEF ChunkWrite
  <2>5. session.received + n \in 0 .. ChunkBytes BY <2>1, <2>3, ChunkAssumption
  <2>6. [session EXCEPT !.received = @ + n] \in Session BY <2>5
  <2>7. session' \in Session BY <1>1, <1>4, <2>6 DEF ChunkWrite
  <2>8. QED BY <2>4, <2>7
<1>5. CASE ReceiveFails \/ ChunkFinish BY <1>1, <1>5 DEF ReceiveFails, ChunkFinish
<1>6. ASSUME NEW id \in JobIds, NEW content \in Schedules, NEW ok \in BOOLEAN,
             Finalize(id, content, ok)
      PROVE  Goal
  BY <1>6 DEF Finalize
<1>7. ASSUME NEW id \in JobIds, Cancel(id) PROVE Goal
  BY <1>7 DEF Cancel
<1>8. CASE Run BY <1>8 DEF Run
<1>9. CASE Reset BY <1>1, <1>9 DEF Reset
<1>10. CASE UNCHANGED vars BY <1>10 DEF vars
<1> QED BY <1>2, <1>3, <1>4, <1>5, <1>6, <1>7, <1>8, <1>9, <1>10
     DEF Next, ChunkRequest, ChunkStep

-----------------------------------------------------------------------------
(* The theorems *)

\* The invariant holds in every state, whatever the sizes and the schedules.
THEOREM InvariantHolds == Spec => []IInv
<1>1. Init => IInv
  <2> SUFFICES ASSUME Init PROVE IInv
    OBVIOUS
  <2> USE DEF Init
  <2>1. TypeOK
    <3>1. /\ lengths \in [Chunk -> 0 .. ChunkBytes] /\ crcs \in [Chunk -> Nat]
          /\ received \in 0 .. MaxBytes /\ 0 \in Chunk /\ 0 \in 0 .. ChunkBytes
          /\ jobs \in 0 .. MaxJobs /\ resets \in 0 .. MaxResets
      BY ChunkAssumption, ChunksApart, BoundsAssumption DEF Chunk
    <3>2. QED BY <3>1 DEF TypeOK, NoJob, NoSession, Status
  <2>2. SessionKnown /\ PartlyStaged BY DEF SessionKnown, PartlyStaged, NoSession
  <2>3. RecordedIsStaged BY DEF RecordedIsStaged
  <2>4. ReceivedIsSum BY SumOfNone DEF ReceivedIsSum
  <2>5. ReadyIsAccepted BY DEF ReadyIsAccepted, Locked
  <2>6. QED BY <2>1, <2>2, <2>3, <2>4, <2>5 DEF IInv
<1>2. IInv /\ [Next]_vars => IInv'
  <2> SUFFICES ASSUME IInv, [Next]_vars PROVE IInv'
    OBVIOUS
  <2> USE DEF IInv
  <2>1. ReceivedIsSum' BY SumStep
  <2>2. lengths' \in [Chunk -> 0 .. ChunkBytes] BY RecordTypes
  <2>3. received' \in 0 .. MaxBytes BY <2>1, <2>2, SumFits DEF ReceivedIsSum
  <2>4. TypeOK' BY <2>3, JobTypes, RecordTypes, RequestTypes DEF TypeOK
  <2>5. QED BY <2>1, <2>4, SessionStep, PartlyStep, RecordedStep, ReadyStep
<1>3. QED BY <1>1, <1>2, PTL DEF Spec

\* Every variable keeps its type: the count of received bytes never passes the size of the
\* partition, however often chunks are sent.
THEOREM TypeCorrect == Spec => []TypeOK
BY InvariantHolds, PTL DEF IInv

\* What is on record is in the flash, whatever requests broke off and flash operations
\* failed before.
THEOREM RecordedIsStagedHolds == Spec => []RecordedIsStaged
BY InvariantHolds, PTL DEF IInv

\* The count of received bytes is the sum of the chunks on record: no chunk is counted
\* twice, and none that broke off.
THEOREM ReceivedIsSumHolds == Spec => []ReceivedIsSum
BY InvariantHolds, PTL DEF IInv

\* A chunk that was acknowledged stays acknowledged, and its bytes stay in the flash,
\* until the job is given up.
THEOREM AcknowledgedKeptHolds == Spec => AcknowledgedKept
<1> DEFINE Kept ==
      \A i \in Chunk :
        lengths[i] # 0 /\ status \in Locked \union {"RECEIVING"}
          /\ jobs' = jobs /\ resets' = resets /\ status' # "IDLE"
        => /\ lengths'[i] = lengths[i] /\ crcs'[i] = crcs[i]
           /\ \A c \in Cells(Offset(i), lengths[i]) : staging'[c] = staging[c]
<1>1. IInv /\ [Next]_vars => [Kept]_vars
  <2> SUFFICES ASSUME IInv, Next, NEW i \in Chunk, lengths[i] # 0,
                      jobs' = jobs, resets' = resets, status' # "IDLE"
               PROVE  /\ lengths'[i] = lengths[i] /\ crcs'[i] = crcs[i]
                      /\ \A c \in Cells(Offset(i), lengths[i]) : staging'[c] = staging[c]
    BY Zenon
  <2> /\ lengths \in [Chunk -> 0 .. ChunkBytes] /\ crcs \in [Chunk -> Nat]
      /\ jobs \in Nat /\ resets \in Nat
    BY BoundsAssumption DEF IInv, TypeOK
  <2>1. ASSUME NEW id \in JobIds, NEW content \in Schedules, NEW ok \in BOOLEAN,
               NEW other \in Schedules, CreateJob(id, content, Len(other), ok)
        PROVE  FALSE
    BY <2>1 DEF CreateJob
  <2>2. CASE (\E ok \in BOOLEAN : ChunkRequest(ok)) \/ ChunkStep
    <3>1. \A c \in Cells(Offset(i), lengths[i]) : staging'[c] = staging[c]
      BY <2>2, RecordedUntouched DEF IInv
    <3>2. lengths'[i] = lengths[i] /\ crcs'[i] = crcs[i]
      <4>1. CASE ChunkFinish BY <4>1 DEF ChunkFinish, IInv, SessionKnown
      <4>2. CASE ~ChunkFinish
        BY <2>2, <4>2 DEF ChunkRequest, ChunkBegin, ChunkStep, ChunkWrite, ReceiveFails
      <4>3. QED BY <4>1, <4>2
    <3>3. QED BY <3>1, <3>2
  <2>3. ASSUME NEW id \in JobIds, NEW content \in Schedules, NEW ok \in BOOLEAN,
               Finalize(id, content, ok)
        PROVE  UNCHANGED <<lengths, crcs, staging>>
    BY <2>3 DEF Finalize
  <2>4. ASSUME NEW id \in JobIds, Cancel(id) PROVE FALSE BY <2>4 DEF Cancel
  <2>5. CASE Run BY <2>5 DEF Run
  <2>6. ASSUME Reset PROVE FALSE BY <2>6 DEF Reset
  <2>7. QED BY <2>1, <2>2, <2>3, <2>4, <2>5, <2>6 DEF Next
<1>2. QED BY <1>1, InvariantHolds, PTL DEF Spec, AcknowledgedKept

\* The upload implements StagedSchedule: what a run reads appeared all at once, is what the
\* phone announced, was accepted, and stays until it is withdrawn.
THEOREM StagingImplemented == Spec => ImplementsStaging
<1> USE DEF Staging!Init, Staging!Next, Staging!Announce, Staging!Promote,
      Staging!Withdraw
<1> DEFINE Ready == IF status \in Locked THEN Staged(0, job.size) ELSE None
           Announced == IF status = "RECEIVING" \/ status \in Locked THEN job.sha ELSE None
<1>1. Init => Staging!Init
  BY DEF Init, Locked
<1>2. IInv /\ [Next]_vars => [Staging!Next]_<<Announced, Ready>>
  <2> SUFFICES ASSUME IInv, [Next]_vars
               PROVE  [Staging!Next]_<<Announced, Ready>>
    OBVIOUS
  <2> USE DEF IInv
  <2>1. CASE status' \notin Locked /\ status \notin Locked
    BY <2>1
  <2>2. CASE status' \notin Locked /\ status \in Locked
    <3>1. Ready \in Accepted /\ Ready # None
      BY <2>2, SchedulesAssumption, NoneAssumption DEF ReadyIsAccepted
    <3>2. QED BY <2>2, <3>1
  <2>3. CASE UNCHANGED <<job, staging>> /\ status \in Locked /\ status' \in Locked
    BY <2>3 DEF Staged
  <2>4. ASSUME NEW id \in JobIds, NEW content \in Schedules, NEW ok \in BOOLEAN,
               Finalize(id, content, ok), status' \in Locked
        PROVE  Staging!Promote
    <3>1. /\ status = "RECEIVING" /\ status' = "READY" /\ Verified
          /\ UNCHANGED <<job, staging>>
      BY <2>4 DEF Finalize, Locked
    <3>2. status \notin Locked BY <3>1 DEF Locked
    <3>3. Staged(0, job.size)' = Staged(0, job.size) BY <3>1 DEF Staged
    <3>4. Ready = None /\ Ready' = Staged(0, job.size) /\ Announced = job.sha
            /\ Announced' = job.sha
      BY <2>4, <3>1, <3>2, <3>3
    <3>5. QED BY <3>1, <3>4 DEF Verified
  <2>5. ASSUME status \notin Locked, status' \in Locked,
               ~\E id \in JobIds, content \in Schedules, ok \in BOOLEAN :
                  Finalize(id, content, ok)
        PROVE  FALSE
    BY <2>5 DEF Next, CreateJob, ChunkRequest, ChunkBegin, ChunkStep, ChunkWrite,
       ReceiveFails, ChunkFinish, Cancel, Run, Reset, Active, Locked, vars
  <2>6. ASSUME status \in Locked, status' \in Locked
        PROVE  UNCHANGED <<job, staging>>
    BY <2>6 DEF Next, CreateJob, ChunkRequest, ChunkBegin, MayReceive, ChunkStep, ChunkWrite,
       ReceiveFails, ChunkFinish, Finalize, Cancel, Run, Reset, Locked, vars, SessionKnown
  <2>7. QED BY <2>1, <2>2, <2>3, <2>4, <2>5, <2>6
<1>3. QED BY <1>1, <1>2, InvariantHolds, PTL DEF Spec, ImplementsStaging, Staging!Spec
=============================================================================
