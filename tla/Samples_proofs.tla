--------------------------- MODULE Samples_proofs ---------------------------
(***************************************************************************)
(* Theorems about SampleLog, for every size of the channel, the chunks and *)
(* the buffer, and any number of samples; and about SampleStore, for any   *)
(* number of processes, every retention, range and limit.                  *)
(*                                                                         *)
(* The argument for the order: the chunk under way, the buffer and the     *)
(* channel hold, in this order, ever younger samples, and hold every       *)
(* sample that is neither stored nor given up.  So whatever is older than a *)
(* sample of a chunk is settled or in that chunk, when it is posted and    *)
(* from then on, however late the chunk arrives.                           *)
(*                                                                         *)
(* The argument for the store: what a poster was told of is in the table   *)
(* until it is older than the retention, and no range reaches further back. *)
(***************************************************************************)
EXTENDS SampleLog, SampleStore, TLAPS, SequenceTheorems, FiniteSetTheorems

-----------------------------------------------------------------------------
(* Sequences of samples. *)

Sorted(q) == \A i, j \in 1 .. Len(q) : i < j => q[i] < q[j]

Older(p, q) == \A x \in Rows(p), y \in Rows(q) : x < y

\* The rows of a concatenation are those of its parts, and it is sorted if they
\* are and the first is the older.
LEMMA ConcatRows ==
    ASSUME NEW p \in Seq(Nat), NEW q \in Seq(Nat)
    PROVE  /\ p \o q \in Seq(Nat)
           /\ Len(p \o q) = Len(p) + Len(q)
           /\ Rows(p \o q) = Rows(p) \cup Rows(q)
           /\ Sorted(p) /\ Sorted(q) /\ Older(p, q) => Sorted(p \o q)
<1> DEFINE r == p \o q
<1>1. /\ r \in Seq(Nat)
      /\ Len(r) = Len(p) + Len(q) /\ Len(p) \in Nat /\ Len(q) \in Nat
      /\ \A i \in 1 .. Len(p) : r[i] = p[i]
      /\ \A j \in 1 .. Len(q) : r[Len(p) + j] = q[j]
      /\ DOMAIN p = 1 .. Len(p) /\ DOMAIN q = 1 .. Len(q) /\ DOMAIN r = 1 .. Len(r)
  BY ConcatProperties
<1> HIDE DEF r
<1>2. \A i \in 1 .. Len(r) : i \in 1 .. Len(p) \/ \E j \in 1 .. Len(q) : i = Len(p) + j
  <2> SUFFICES ASSUME NEW i \in 1 .. Len(r), i \notin 1 .. Len(p)
               PROVE  \E j \in 1 .. Len(q) : i = Len(p) + j
    OBVIOUS
  <2>1. i - Len(p) \in 1 .. Len(q) /\ i = Len(p) + (i - Len(p))
    BY <1>1
  <2> QED BY <2>1
<1>3. /\ \A i \in 1 .. Len(p) : i \in 1 .. Len(r)
      /\ \A j \in 1 .. Len(q) : Len(p) + j \in 1 .. Len(r)
  BY <1>1
<1>4. Rows(r) = Rows(p) \cup Rows(q)
  <2>1. ASSUME NEW i \in 1 .. Len(r) PROVE r[i] \in Rows(p) \cup Rows(q)
    BY <1>1, <1>2 DEF Rows
  <2>2. ASSUME NEW i \in 1 .. Len(p) PROVE p[i] \in Rows(r)
    BY <1>1, <1>3 DEF Rows
  <2>3. ASSUME NEW j \in 1 .. Len(q) PROVE q[j] \in Rows(r)
    <3>1. Len(p) + j \in DOMAIN r /\ r[Len(p) + j] = q[j]
      BY <1>1, <1>3
    <3> QED BY <3>1 DEF Rows
  <2> QED BY <1>1, <2>1, <2>2, <2>3 DEF Rows
<1>5. ASSUME Sorted(p), Sorted(q), Older(p, q) PROVE Sorted(r)
  <2> SUFFICES ASSUME NEW i \in 1 .. Len(r), NEW j \in 1 .. Len(r), i < j
               PROVE  r[i] < r[j]
    BY DEF Sorted
  <2>1. CASE i \in 1 .. Len(p) /\ j \in 1 .. Len(p)
    BY <1>1, <1>5, <2>1 DEF Sorted
  <2>2. CASE i \in 1 .. Len(p) /\ j \notin 1 .. Len(p)
    <3>1. PICK k \in 1 .. Len(q) : j = Len(p) + k
      BY <1>2, <2>2
    <3>2. p[i] \in Rows(p) /\ q[k] \in Rows(q)
      BY <1>1, <2>2 DEF Rows
    <3> QED BY <1>1, <1>5, <2>2, <3>1, <3>2 DEF Older
  <2>3. CASE i \notin 1 .. Len(p)
    <3>1. PICK k \in 1 .. Len(q) : i = Len(p) + k
      BY <1>2, <2>3
    <3>2. j \notin 1 .. Len(p)
      BY <1>1, <3>1
    <3>3. PICK l \in 1 .. Len(q) : j = Len(p) + l
      BY <1>2, <3>2
    <3>4. k < l
      BY <1>1, <3>1, <3>3
    <3> QED BY <1>1, <1>5, <3>1, <3>3, <3>4 DEF Sorted
  <2> QED BY <2>1, <2>2, <2>3
<1> QED
  BY <1>1, <1>4, <1>5 DEF r

\* A chunk and what it leaves are the buffer, cut in two.
LEMMA ChunkRows ==
    ASSUME NEW b \in Seq(Nat)
    PROVE  /\ Chunk(b).taken \in Seq(Nat) /\ Chunk(b).left \in Seq(Nat)
           /\ Len(Chunk(b).taken) + Len(Chunk(b).left) = Len(b)
           /\ Len(b) > 0 => Len(Chunk(b).taken) > 0
           /\ Rows(b) = Rows(Chunk(b).taken) \cup Rows(Chunk(b).left)
           /\ Sorted(b) => /\ Sorted(Chunk(b).taken) /\ Sorted(Chunk(b).left)
                           /\ Older(Chunk(b).taken, Chunk(b).left)
<1> DEFINE n == IF Len(b) < FlushRows THEN Len(b) ELSE FlushRows
           p == SubSeq(b, 1, n)
           q == SubSeq(b, n + 1, Len(b))
<1>1. n \in Nat /\ n <= Len(b) /\ Len(b) \in Nat /\ DOMAIN b = 1 .. Len(b)
  BY SampleLogAssumption
<1>2. Chunk(b).taken = p /\ Chunk(b).left = q
  BY DEF Chunk
<1> HIDE DEF n
<1>3. /\ p \in Seq(Nat) /\ Len(p) = n /\ DOMAIN p = 1 .. n
      /\ \A i \in 1 .. n : p[i] = b[i]
  BY <1>1
<1>4. /\ q \in Seq(Nat) /\ Len(q) = Len(b) - n /\ DOMAIN q = 1 .. Len(b) - n
      /\ \A i \in 1 .. Len(b) - n : q[i] = b[n + i]
  <2>1. \A i \in n + 1 .. Len(b) : b[i] \in Nat
    BY <1>1
  <2>2. /\ q \in Seq(Nat)
        /\ Len(q) = IF n + 1 <= Len(b) THEN Len(b) - (n + 1) + 1 ELSE 0
        /\ \A i \in 1 .. Len(b) - (n + 1) + 1 : q[i] = b[(n + 1) + i - 1]
    BY <1>1, <2>1, SubSeqProperties
  <2>3. Len(q) = Len(b) - n
    <3>1. CASE n + 1 <= Len(b)
      BY <1>1, <2>2, <3>1
    <3>2. CASE ~(n + 1 <= Len(b))
      <4>1. \A x, y \in Nat : x <= y /\ ~(x + 1 <= y) => x = y /\ y - x = 0
        OBVIOUS
      <4>2. Len(b) - n = 0
        BY <1>1, <3>2, <4>1
      <4> QED BY <2>2, <3>2, <4>2
    <3> QED BY <3>1, <3>2
  <2>4. Len(b) - (n + 1) + 1 = Len(b) - n
    BY <1>1
  <2>5. \A i \in 1 .. Len(b) - n : (n + 1) + i - 1 = n + i
    BY <1>1
  <2>6. \A i \in 1 .. Len(b) - n : q[i] = b[n + i]
    BY <2>2, <2>4, <2>5
  <2>7. DOMAIN q = 1 .. Len(q)
    BY <2>2, LenProperties
  <2> QED BY <2>2, <2>3, <2>6, <2>7
<1> HIDE DEF p, q
<1>5. \A i \in 1 .. Len(b) : i \in 1 .. n \/ (i - n \in 1 .. Len(b) - n /\ i = n + (i - n))
  BY <1>1
<1>6. /\ \A i \in 1 .. n : i \in 1 .. Len(b)
      /\ \A i \in 1 .. Len(b) - n : n + i \in 1 .. Len(b)
  BY <1>1
<1>7. Rows(b) = Rows(p) \cup Rows(q)
  <2>1. Rows(b) \subseteq Rows(p) \cup Rows(q)
    <3> SUFFICES ASSUME NEW i \in 1 .. Len(b) PROVE b[i] \in Rows(p) \cup Rows(q)
      BY <1>1 DEF Rows
    <3>1. CASE i \in 1 .. n
      BY <1>3, <3>1 DEF Rows
    <3>2. CASE i - n \in 1 .. Len(b) - n /\ i = n + (i - n)
      BY <1>4, <3>2 DEF Rows
    <3> QED BY <1>5, <3>1, <3>2
  <2>2. \A i \in 1 .. n : p[i] \in Rows(b)
    BY <1>1, <1>3, <1>6 DEF Rows
  <2>3. ASSUME NEW i \in 1 .. Len(b) - n PROVE q[i] \in Rows(b)
    <3>1. n + i \in DOMAIN b /\ q[i] = b[n + i]
      BY <1>1, <1>4, <1>6
    <3> QED BY <3>1 DEF Rows
  <2>4. Rows(p) \subseteq Rows(b) /\ Rows(q) \subseteq Rows(b)
    BY <1>3, <1>4, <2>2, <2>3 DEF Rows
  <2> QED BY <2>1, <2>4
<1>8. ASSUME Sorted(b) PROVE Sorted(p) /\ Sorted(q) /\ Older(p, q)
  <2>1. Sorted(p)
    BY <1>1, <1>3, <1>6, <1>8 DEF Sorted
  <2>2. Sorted(q)
    BY <1>1, <1>4, <1>6, <1>8 DEF Sorted
  <2>3. ASSUME NEW i \in 1 .. n, NEW j \in 1 .. Len(b) - n PROVE p[i] < q[j]
    <3>1. i < n + j
      BY <1>1
    <3> QED BY <1>3, <1>4, <1>6, <1>8, <3>1 DEF Sorted
  <2> QED BY <1>3, <1>4, <2>1, <2>2, <2>3 DEF Older, Rows
<1>9. Len(p) + Len(q) = Len(b)
  BY <1>1, <1>3, <1>4
<1>10. Len(b) > 0 => Len(p) > 0
  <2>1. Len(b) > 0 => n > 0
    BY SampleLogAssumption DEF n
  <2> QED BY <1>3, <2>1
<1> QED
  BY <1>2, <1>3, <1>4, <1>7, <1>8, <1>9, <1>10

\* Appending a younger sample.
LEMMA AppendRows ==
    ASSUME NEW q \in Seq(Nat), NEW x \in Nat
    PROVE  /\ Append(q, x) \in Seq(Nat) /\ Len(Append(q, x)) = Len(q) + 1
           /\ Rows(Append(q, x)) = Rows(q) \cup {x}
           /\ Sorted(q) /\ (\A y \in Rows(q) : y < x) => Sorted(Append(q, x))
<1> DEFINE r == Append(q, x)
           n == Len(q)
<1>1. /\ r \in Seq(Nat) /\ Len(r) = n + 1 /\ n \in Nat
      /\ \A i \in 1 .. n : r[i] = q[i]
      /\ r[n + 1] = x
      /\ DOMAIN q = 1 .. n /\ DOMAIN r = 1 .. n + 1
  BY AppendProperties
<1> HIDE DEF r, n
<1>2. \A i \in 1 .. n + 1 : i \in 1 .. n \/ i = n + 1
  BY <1>1
<1>3. n + 1 \in 1 .. n + 1 /\ \A i \in 1 .. n : i \in 1 .. n + 1
  BY <1>1
<1>4. Rows(r) = Rows(q) \cup {x}
  BY <1>1, <1>2, <1>3 DEF Rows
<1>5. ASSUME Sorted(q), \A y \in Rows(q) : y < x PROVE Sorted(r)
  <2> SUFFICES ASSUME NEW i \in 1 .. n + 1, NEW j \in 1 .. n + 1, i < j PROVE r[i] < r[j]
    BY <1>1 DEF Sorted
  <2>1. i \in 1 .. n
    BY <1>1
  <2>2. CASE j \in 1 .. n
    BY <1>1, <1>5, <2>1, <2>2 DEF Sorted, n
  <2>3. CASE j = n + 1
    BY <1>1, <1>5, <2>1, <2>3 DEF Rows
  <2> QED BY <1>2, <2>2, <2>3
<1> QED
  BY <1>1, <1>4, <1>5 DEF r, n

\* Taking the oldest sample off.
LEMMA TailRows ==
    ASSUME NEW q \in Seq(Nat), q # <<>>
    PROVE  /\ Head(q) \in Nat /\ Tail(q) \in Seq(Nat) /\ Len(Tail(q)) = Len(q) - 1
           /\ Rows(q) = {Head(q)} \cup Rows(Tail(q))
           /\ Sorted(q) => Sorted(Tail(q)) /\ \A y \in Rows(Tail(q)) : Head(q) < y
<1> DEFINE r == Tail(q)
           n == Len(q)
<1>1. /\ Head(q) \in Nat /\ r \in Seq(Nat) /\ Len(r) = n - 1 /\ n \in Nat /\ n >= 1
      /\ Head(q) = q[1]
      /\ \A i \in 1 .. n - 1 : r[i] = q[i + 1]
      /\ DOMAIN q = 1 .. n /\ DOMAIN r = 1 .. n - 1
  BY HeadTailProperties, EmptySeq
<1> HIDE DEF r, n
<1>2. \A i \in 1 .. n : i = 1 \/ (i - 1 \in 1 .. n - 1 /\ i = (i - 1) + 1)
  BY <1>1
<1>3. 1 \in 1 .. n /\ \A i \in 1 .. n - 1 : i + 1 \in 1 .. n /\ 1 < i + 1
  BY <1>1
<1>4. Rows(q) = {Head(q)} \cup Rows(r)
  <2>1. Rows(q) \subseteq {Head(q)} \cup Rows(r)
    <3> SUFFICES ASSUME NEW i \in 1 .. n PROVE q[i] \in {q[1]} \cup Rows(r)
      BY <1>1 DEF Rows
    <3>1. CASE i - 1 \in 1 .. n - 1 /\ i = (i - 1) + 1
      BY <1>1, <3>1 DEF Rows
    <3> QED BY <1>2, <3>1
  <2>2. {Head(q)} \cup Rows(r) \subseteq Rows(q)
    <3>1. q[1] \in Rows(q)
      BY <1>1, <1>3 DEF Rows
    <3>2. ASSUME NEW i \in 1 .. n - 1 PROVE r[i] \in Rows(q)
      <4>1. i + 1 \in DOMAIN q /\ r[i] = q[i + 1]
        BY <1>1, <1>3
      <4> QED BY <4>1 DEF Rows
    <3> QED BY <1>1, <3>1, <3>2 DEF Rows
  <2> QED BY <2>1, <2>2
<1>5. ASSUME Sorted(q) PROVE Sorted(r) /\ \A y \in Rows(r) : Head(q) < y
  <2>1. \A y \in Rows(r) : Head(q) < y
    BY <1>1, <1>3, <1>5 DEF Rows, Sorted, n
  <2>2. Sorted(r)
    <3> SUFFICES ASSUME NEW i \in 1 .. n - 1, NEW j \in 1 .. n - 1, i < j PROVE r[i] < r[j]
      BY <1>1 DEF Sorted
    <3>1. i + 1 \in 1 .. n /\ j + 1 \in 1 .. n /\ i + 1 < j + 1
      BY <1>1
    <3> QED BY <1>1, <1>5, <3>1 DEF Sorted, n
  <2> QED BY <2>1, <2>2
<1> QED
  BY <1>1, <1>4, <1>5 DEF r, n

-----------------------------------------------------------------------------
(* Types and the bound on memory. *)

\* The types, the bound, and: a chunk is under way while it is posted only.
MemoryInv ==
    /\ TypeOK
    /\ MemoryBounded
    /\ pc = "post" => Len(batch) > 0
    /\ pc # "post" => batch = <<>>

\* Nothing is held at first.
LEMMA MemoryInit == Init => MemoryInv
<1> SUFFICES ASSUME Init PROVE MemoryInv
  OBVIOUS
<1>1. chan = <<>> /\ buffer = <<>> /\ batch = <<>> /\ pc = "select"
  BY DEF Init
<1>2. <<>> \in Seq(Nat) /\ Len(<<>>) = 0
  BY EmptySeq
<1>3. MemoryBounded
  BY <1>1, <1>2, SampleLogAssumption DEF MemoryBounded
<1>4. TypeOK
  <2>1. Len(chan) <= ChannelCap
    BY <1>1, <1>2, SampleLogAssumption
  <2> QED BY <1>1, <1>2, <2>1 DEF Init, TypeOK
<1> QED
  BY <1>1, <1>3, <1>4 DEF MemoryInv

\* Rows of samples are samples.
LEMMA RowsType == ASSUME NEW q \in Seq(Nat) PROVE Rows(q) \subseteq Nat
  BY LenProperties DEF Rows

\* What PutBack leaves in the buffer.
LEMMA PutBackBounded ==
    ASSUME MemoryInv, pc = "post", PutBack
    PROVE  /\ buffer' \in Seq(Nat) /\ lost' \in SUBSET Nat
           /\ Len(buffer') <= MaxBuffered
<1>1. /\ batch \in Seq(Nat) /\ buffer \in Seq(Nat) /\ lost \in SUBSET Nat
      /\ Len(batch) \in Nat /\ Len(buffer) \in Nat /\ MaxBuffered \in Nat
      /\ Len(batch) + Len(buffer) <= MaxBuffered + 1 /\ Len(batch) > 0
  BY SampleLogAssumption, LenProperties DEF MemoryInv, TypeOK, MemoryBounded
<1>2. CASE Len(batch) + Len(buffer) <= MaxBuffered
  <2>1. buffer' = batch \o buffer /\ lost' = lost
    BY <1>2 DEF PutBack
  <2> QED BY <1>1, <1>2, <2>1, ConcatRows
<1>3. CASE ~(Len(batch) + Len(buffer) <= MaxBuffered)
  <2>1. buffer' = buffer /\ lost' = lost \cup Rows(batch)
    BY <1>3 DEF PutBack
  <2>2. Rows(batch) \subseteq Nat
    BY <1>1, RowsType
  <2>3. Len(buffer) <= MaxBuffered
    BY <1>1
  <2> QED BY <1>1, <2>1, <2>2, <2>3
<1> QED BY <1>2, <1>3

\* Every step keeps the types and the bound.
LEMMA MemoryNext == MemoryInv /\ [Next]_vars => MemoryInv'
<1> SUFFICES ASSUME MemoryInv, [Next]_vars PROVE MemoryInv'
  OBVIOUS
<1>0. /\ chan \in Seq(Nat) /\ buffer \in Seq(Nat) /\ batch \in Seq(Nat)
      /\ Len(chan) \in Nat /\ Len(buffer) \in Nat /\ Len(batch) \in Nat
      /\ Len(<<>>) = 0 /\ <<>> \in Seq(Nat)
      /\ FlushRows \in Nat /\ MaxBuffered \in Nat /\ ChannelCap \in Nat
      /\ FlushRows <= MaxBuffered
  BY SampleLogAssumption, LenProperties, EmptySeq DEF MemoryInv, TypeOK
<1>1. CASE Log
  <2>1. next \in Nat /\ next' \in Nat /\ lost \in SUBSET Nat /\ Len(chan) <= ChannelCap
    BY <1>1 DEF Log, MemoryInv, TypeOK
  <2>2. chan' \in Seq(Nat) /\ Len(chan') <= ChannelCap /\ lost' \in SUBSET Nat
    <3>1. CASE Len(chan) < ChannelCap
      <4>1. chan' = Append(chan, next) /\ lost' = lost
        BY <1>1, <3>1 DEF Log
      <4>2. Append(chan, next) \in Seq(Nat) /\ Len(Append(chan, next)) = Len(chan) + 1
        BY <1>0, <2>1, AppendRows
      <4> QED BY <1>0, <2>1, <3>1, <4>1, <4>2
    <3>2. CASE ~(Len(chan) < ChannelCap)
      <4>1. chan' = chan /\ lost' = lost \cup {next}
        BY <1>1, <3>2 DEF Log
      <4> QED BY <1>0, <2>1, <4>1
    <3> QED BY <3>1, <3>2
  <2> QED
    BY <1>1, <2>1, <2>2 DEF Log, MemoryInv, TypeOK, MemoryBounded, loop, database
<1>2. CASE CloseChannel
  BY <1>2 DEF CloseChannel, MemoryInv, TypeOK, MemoryBounded, loop, database
<1>3. CASE Receive
  <2>1. /\ chan' \in Seq(Nat) /\ Len(chan') <= ChannelCap
        /\ buffer' \in Seq(Nat) /\ Len(buffer') = Len(buffer) + 1
    BY <1>0, <1>3, TailRows, AppendRows DEF Receive, MemoryInv, TypeOK
  <2>2. batch = <<>> /\ Len(buffer) <= MaxBuffered
    BY <1>3 DEF Receive, MemoryInv, MemoryBounded
  <2>3. MemoryBounded'
    BY <1>0, <1>3, <2>1, <2>2 DEF Receive, MemoryBounded
  <2> QED
    BY <1>3, <2>1, <2>3 DEF Receive, MemoryInv, TypeOK, database
<1>4. CASE ReceiveClosed
  BY <1>4 DEF ReceiveClosed, MemoryInv, TypeOK, MemoryBounded, database
<1>5. CASE TickFlush
  BY <1>5 DEF TickFlush, MemoryInv, TypeOK, MemoryBounded, database
<1>6. CASE Post
  <2>1. /\ batch' \in Seq(Nat) /\ buffer' \in Seq(Nat)
        /\ Len(batch') + Len(buffer') = Len(buffer) /\ Len(batch') > 0
    <3>1. Len(buffer) > 0
      BY <1>6, EmptySeq, <1>0 DEF Post
    <3> QED BY <1>0, <1>6, <3>1, ChunkRows DEF Post
  <2>2. Rows(batch') \subseteq Nat
    BY <2>1, RowsType
  <2>3. MemoryBounded'
    <3>1. Len(buffer) <= MaxBuffered + 1 /\ pc' = "post"
      <4>1. batch = <<>> /\ Len(batch) + Len(buffer) <= MaxBuffered + 1
        BY <1>6 DEF Post, MemoryInv, MemoryBounded
      <4> QED BY <1>0, <1>6, <4>1 DEF Post
    <3> QED BY <2>1, <3>1 DEF MemoryBounded
  <2> QED
    BY <1>6, <2>1, <2>2, <2>3 DEF Post, MemoryInv, TypeOK, database
<1>7. CASE FlushDone
  <2>1. Len(buffer') <= MaxBuffered
    BY <1>0, <1>7 DEF FlushDone
  <2> QED
    BY <1>7, <2>1 DEF FlushDone, AfterFlush, MemoryInv, TypeOK, MemoryBounded, database
<1>8. CASE PostOk
  <2>1. Len(batch') + Len(buffer') <= MaxBuffered + 1
    BY <1>0, <1>8 DEF PostOk, MemoryInv, MemoryBounded
  <2> QED
    BY <1>0, <1>8, <2>1 DEF PostOk, MemoryInv, TypeOK, MemoryBounded, database
<1>9. CASE PostFailed
  <2>1. /\ buffer' \in Seq(Nat) /\ lost' \in SUBSET Nat
        /\ Len(buffer') <= MaxBuffered /\ Len(buffer') \in Nat
    BY <1>9, PutBackBounded, LenProperties DEF PostFailed
  <2>2. batch' = <<>> /\ pc' \in {"select", "stopped"}
    BY <1>9 DEF PostFailed, AfterFlush
  <2>3. MemoryBounded'
    BY <1>0, <2>1, <2>2 DEF MemoryBounded
  <2>4. late' \in SUBSET Seq(Nat)
    BY <1>0, <1>9 DEF PostFailed, MemoryInv, TypeOK
  <2> QED
    BY <1>0, <1>9, <2>1, <2>2, <2>3, <2>4 DEF PostFailed, MemoryInv, TypeOK
<1>10. CASE Ingest
  <2>1. Rows(batch) \subseteq Nat
    BY <1>0, RowsType
  <2> QED
    BY <1>10, <2>1 DEF Ingest, MemoryInv, TypeOK, MemoryBounded, loop
<1>11. CASE IngestRefused
  BY <1>11 DEF IngestRefused, MemoryInv, TypeOK, MemoryBounded, loop, database
<1>12. CASE IngestLate
  <2>1. PICK b \in late : stored' = stored \cup Rows(b) /\ late' = late \ {b}
    BY <1>12 DEF IngestLate
  <2>2. Rows(b) \subseteq Nat
    BY <2>1, RowsType DEF MemoryInv, TypeOK
  <2> QED
    BY <1>12, <2>1, <2>2 DEF IngestLate, MemoryInv, TypeOK, MemoryBounded, loop
<1>13. CASE UNCHANGED vars
  BY <1>13 DEF vars, MemoryInv, TypeOK, MemoryBounded, loop, database
<1> QED
  BY <1>1, <1>2, <1>3, <1>4, <1>5, <1>6, <1>7, <1>8, <1>9, <1>10, <1>11, <1>12, <1>13
     DEF Next

\* The types and the bound are invariant.
LEMMA MemoryInvariant == Spec => []MemoryInv
  BY MemoryInit, MemoryNext, PTL DEF Spec

\* Every variable of the sample log has its type, and the channel its limit.
THEOREM TypeCorrect == Spec => []TypeOK
  BY MemoryInvariant, PTL DEF MemoryInv

\* Whatever the endpoint does, flush_loop never holds more than MAX_BUFFERED + 1
\* rows, and no more than MAX_BUFFERED between two flushes.
THEOREM BufferBounded == Spec => []MemoryBounded
  BY MemoryInvariant, PTL DEF MemoryInv

-----------------------------------------------------------------------------
(* Order. *)

\* Every sample older than one of these rows is one of them, stored or given up.
Complete(b) ==
    \A t \in Rows(b) : \A s \in 0 .. t : s \in Rows(b) \cup stored \cup lost

Ordered ==
    /\ Sorted(batch) /\ Sorted(buffer) /\ Sorted(chan)
    /\ Older(batch, buffer) /\ Older(batch, chan) /\ Older(buffer, chan)
    /\ \A s \in Held : s < next

Accounted == \A s \in Nat : s < next => s \in Held \cup stored \cup lost

OrderInv ==
    /\ MemoryInv
    /\ Ordered
    /\ Accounted
    /\ \A b \in late \cup {batch} : Complete(b)
    /\ wire = "ok" => Rows(batch) \subseteq stored
    /\ NoOvertaking

\* What is stored or given up stays so, and completeness with it.
LEMMA CompleteGrows ==
    ASSUME NEW b, stored \subseteq stored', lost \subseteq lost', Complete(b)
    PROVE  Complete(b)'
  BY DEF Complete, Rows

\* NoOvertaking, while nothing more is stored.
LEMMA NoOvertakingKept ==
    ASSUME NoOvertaking, stored' = stored, lost \subseteq lost'
    PROVE  NoOvertaking'
  BY DEF NoOvertaking

\* Storing complete rows overtakes nothing.
LEMMA NoOvertakingStored ==
    ASSUME NoOvertaking, NEW b, Complete(b), stored' = stored \cup Rows(b), lost' = lost
    PROVE  NoOvertaking'
  BY DEF NoOvertaking, Complete

\* No sample is held at first.
LEMMA OrderInit == Init => OrderInv
<1> SUFFICES ASSUME Init PROVE OrderInv
  OBVIOUS
<1>1. MemoryInv
  BY MemoryInit
<1>2. /\ chan = <<>> /\ buffer = <<>> /\ batch = <<>> /\ next = 0
      /\ late = {} /\ stored = {} /\ wire = "none"
  BY DEF Init
<1>3. Rows(<<>>) = {} /\ 1 .. Len(<<>>) = {}
  BY EmptySeq DEF Rows
<1>4. Ordered /\ Complete(batch) /\ NoOvertaking
  BY <1>2, <1>3 DEF Ordered, Sorted, Older, Held, Complete, NoOvertaking
<1>5. Accounted
  BY <1>2 DEF Accounted
<1> QED
  BY <1>1, <1>2, <1>4, <1>5 DEF OrderInv

\* The steps that move no sample and settle none.
LEMMA OrderKept ==
    ASSUME OrderInv, MemoryInv',
           UNCHANGED <<next, chan, buffer, batch, late, stored, lost>>,
           wire' = "ok" => wire = "ok"
    PROVE  OrderInv'
  BY DEF OrderInv, Ordered, Accounted, Held, Sorted, Older, Rows, Complete, NoOvertaking

\* Every step keeps the order.
LEMMA OrderNext == OrderInv /\ [Next]_vars => OrderInv'
<1> SUFFICES ASSUME OrderInv, [Next]_vars PROVE OrderInv'
  OBVIOUS
<1>0. MemoryInv'
  BY MemoryNext DEF OrderInv
<1>00. /\ chan \in Seq(Nat) /\ buffer \in Seq(Nat) /\ batch \in Seq(Nat)
       /\ next \in Nat /\ Rows(<<>>) = {} /\ Sorted(<<>>)
       /\ Rows(chan) \subseteq Nat /\ Rows(buffer) \subseteq Nat /\ Rows(batch) \subseteq Nat
  <2>1. chan \in Seq(Nat) /\ buffer \in Seq(Nat) /\ batch \in Seq(Nat) /\ next \in Nat
    BY DEF OrderInv, MemoryInv, TypeOK
  <2>2. Rows(<<>>) = {} /\ Sorted(<<>>)
    BY EmptySeq DEF Rows, Sorted
  <2> QED BY <2>1, <2>2, RowsType
<1>1. CASE Log
  <2>1. /\ next' = next + 1 /\ lost \subseteq lost'
        /\ UNCHANGED <<buffer, batch, late, stored, wire>>
    BY <1>1 DEF Log, loop, database
  <2>2. /\ Sorted(chan') /\ \A x \in Rows(chan') : x \in Rows(chan) \/ x = next
        /\ Rows(chan) \subseteq Rows(chan')
        /\ next \in Rows(chan') \cup lost'
    <3>1. CASE Len(chan) < ChannelCap
      <4>1. chan' = Append(chan, next)
        BY <1>1, <3>1 DEF Log
      <4>2. Sorted(chan) /\ \A y \in Rows(chan) : y < next
        BY DEF OrderInv, Ordered, Held
      <4> QED BY <1>00, <4>1, <4>2, AppendRows
    <3>2. CASE ~(Len(chan) < ChannelCap)
      BY <1>1, <3>2 DEF Log, OrderInv, Ordered
    <3> QED BY <3>1, <3>2
  <2>3. Ordered'
    <3>1. /\ Sorted(batch) /\ Sorted(buffer) /\ Older(batch, buffer)
          /\ Older(batch, chan) /\ Older(buffer, chan) /\ \A s \in Held : s < next
      BY DEF OrderInv, Ordered
    <3>2. \A x \in Rows(batch) \cup Rows(buffer) : x < next
      BY <3>1 DEF Held
    <3>3. Older(batch, chan') /\ Older(buffer, chan')
      BY <2>2, <3>1, <3>2 DEF Older
    <3>4. \A s \in Rows(batch) \cup Rows(buffer) \cup Rows(chan') : s < next + 1
      <4>1. \A s \in Rows(chan) : s < next
        BY <3>1 DEF Held
      <4> QED BY <1>00, <2>2, <3>2, <4>1
    <3>5. \A s \in Held' : s < next'
      BY <2>1, <3>4 DEF Held
    <3> QED
      BY <2>1, <2>2, <3>1, <3>3, <3>5 DEF Ordered
  <2>4. Accounted'
    <3> SUFFICES ASSUME NEW s \in Nat, s < next' PROVE (s \in Held \cup stored \cup lost)'
      BY DEF Accounted
    <3>1. s < next \/ s = next
      BY <1>00, <2>1
    <3> QED BY <2>1, <2>2, <3>1 DEF OrderInv, Accounted, Held, Rows
  <2>5. \A b \in (late \cup {batch})' : Complete(b)'
    BY <2>1, CompleteGrows DEF OrderInv
  <2>6. NoOvertaking'
    BY <2>1, NoOvertakingKept DEF OrderInv
  <2>7. wire' = "ok" => Rows(batch') \subseteq stored'
    BY <2>1 DEF OrderInv
  <2> QED
    BY <1>0, <2>3, <2>4, <2>5, <2>6, <2>7 DEF OrderInv, Rows
<1>2. CASE CloseChannel \/ ReceiveClosed \/ TickFlush \/ FlushDone \/ IngestRefused
  BY <1>0, <1>2, OrderKept
     DEF CloseChannel, ReceiveClosed, TickFlush, FlushDone, IngestRefused, loop, database
<1>3. CASE Receive
  <2>1. /\ UNCHANGED <<next, batch, late, stored, lost, wire>>
        /\ chan' = Tail(chan) /\ buffer' = Append(buffer, Head(chan)) /\ chan # <<>>
    BY <1>3 DEF Receive, database
  <2>2. /\ Head(chan) \in Nat /\ Rows(chan) = {Head(chan)} \cup Rows(chan')
        /\ Sorted(chan') /\ \A y \in Rows(chan') : Head(chan) < y
    BY <1>00, <2>1, TailRows DEF OrderInv, Ordered
  <2>3. \A y \in Rows(buffer) : y < Head(chan)
    BY <2>2 DEF OrderInv, Ordered, Older
  <2>4. Rows(buffer') = Rows(buffer) \cup {Head(chan)} /\ Sorted(buffer')
    BY <1>00, <2>1, <2>2, <2>3, AppendRows DEF OrderInv, Ordered
  <2>5. Held' = Held
    BY <2>1, <2>2, <2>4 DEF Held, Rows
  <2>6. Ordered'
    <3>1. Older(batch, buffer) /\ Older(batch, chan) /\ Older(buffer, chan) /\ Sorted(batch)
      BY DEF OrderInv, Ordered
    <3>2. Older(batch, buffer') /\ Older(batch, chan') /\ Older(buffer', chan')
      BY <2>2, <2>4, <3>1 DEF Older
    <3>3. \A s \in Held' : s < next'
      BY <2>1, <2>5 DEF OrderInv, Ordered
    <3> QED
      BY <2>1, <2>2, <2>4, <3>1, <3>2, <3>3 DEF Ordered, Older, Sorted, Rows
  <2> QED
    BY <1>0, <2>1, <2>5, <2>6 DEF OrderInv, Accounted, Complete, NoOvertaking, Rows
<1>4. CASE Post
  <2>1. /\ UNCHANGED <<next, chan, late, stored, lost>> /\ wire' = "sent"
        /\ batch' = Chunk(buffer).taken /\ buffer' = Chunk(buffer).left
        /\ batch = <<>>
    BY <1>4 DEF Post, database, OrderInv, MemoryInv
  <2>2. /\ Rows(buffer) = Rows(batch') \cup Rows(buffer')
        /\ Sorted(batch') /\ Sorted(buffer') /\ Older(batch', buffer')
    BY <1>00, <2>1, ChunkRows DEF OrderInv, Ordered
  <2>3. Held' = Held
    BY <1>00, <2>1, <2>2 DEF Held
  <2>4. Ordered'
    <3>1. Older(buffer, chan) /\ Sorted(chan) /\ \A s \in Held : s < next
      BY DEF OrderInv, Ordered
    <3>2. Older(batch', chan') /\ Older(buffer', chan')
      BY <2>1, <2>2, <3>1 DEF Older
    <3>3. \A s \in Held' : s < next'
      BY <2>1, <2>3, <3>1
    <3> QED
      BY <2>1, <2>2, <3>1, <3>2, <3>3 DEF Ordered, Older, Sorted, Rows
  <2>5. Complete(batch')
    <3> SUFFICES ASSUME NEW t \in Rows(batch'), NEW s \in 0 .. t
                 PROVE  s \in Rows(batch') \cup stored \cup lost
      BY DEF Complete
    <3>1. t \in Held /\ t < next /\ t \in Nat
      BY <1>00, <2>2 DEF Held, OrderInv, Ordered
    <3>2. s \in Nat /\ s < next /\ s <= t
      BY <1>00, <3>1
    <3>3. s \in Held \cup stored \cup lost
      BY <3>2 DEF OrderInv, Accounted
    <3>4. s \notin Rows(buffer') /\ s \notin Rows(chan)
      <4>1. \A y \in Rows(buffer') : t < y /\ y \in Nat
        BY <1>00, <2>2 DEF Older
      <4>2. \A y \in Rows(chan) : t < y /\ y \in Nat
        BY <1>00, <2>2 DEF OrderInv, Ordered, Older
      <4> QED BY <3>1, <3>2, <4>1, <4>2
    <3> QED BY <1>00, <2>1, <2>2, <3>3, <3>4 DEF Held
  <2>6. \A b \in (late \cup {batch})' : Complete(b)'
    BY <2>1, <2>5, CompleteGrows DEF OrderInv
  <2>7. NoOvertaking'
    BY <2>1, NoOvertakingKept DEF OrderInv
  <2>8. Accounted'
    BY <2>1, <2>3 DEF OrderInv, Accounted
  <2> QED
    BY <1>0, <2>1, <2>4, <2>6, <2>7, <2>8 DEF OrderInv
<1>5. CASE PostOk
  <2>1. /\ UNCHANGED <<next, chan, buffer, late, stored, lost>>
        /\ batch' = <<>> /\ wire' = "none" /\ Rows(batch) \subseteq stored
    BY <1>5 DEF PostOk, database, OrderInv
  <2>2. Rows(batch') = {} /\ Sorted(batch')
    BY <1>00, <2>1
  <2>3. Ordered'
    <3>1. Older(batch', buffer') /\ Older(batch', chan')
      BY <2>2 DEF Older
    <3>2. Sorted(buffer) /\ Sorted(chan) /\ Older(buffer, chan) /\ \A s \in Held : s < next
      BY DEF OrderInv, Ordered
    <3>3. \A s \in Held' : s < next'
      BY <2>1, <2>2, <3>2 DEF Held, Rows
    <3> QED
      BY <2>1, <2>2, <3>1, <3>2, <3>3 DEF Ordered, Older, Sorted, Rows
  <2>4. Accounted'
    BY <2>1 DEF OrderInv, Accounted, Held, Rows
  <2>5. \A b \in (late \cup {batch})' : Complete(b)'
    <3>1. Complete(batch')
      BY <2>2 DEF Complete
    <3> QED BY <2>1, <3>1, CompleteGrows DEF OrderInv
  <2>6. NoOvertaking'
    BY <2>1, NoOvertakingKept DEF OrderInv
  <2> QED
    BY <1>0, <2>1, <2>3, <2>4, <2>5, <2>6 DEF OrderInv
<1>6. CASE PostFailed
  <2>1. /\ UNCHANGED <<next, chan, stored>> /\ batch' = <<>> /\ wire' = "none"
        /\ late' \subseteq late \cup {batch}
        /\ PutBack
    BY <1>6 DEF PostFailed
  <2>2. Rows(batch') = {} /\ Sorted(batch')
    BY <1>00, <2>1
  <2>3. /\ Sorted(batch) /\ Sorted(buffer) /\ Sorted(chan)
        /\ Older(batch, buffer) /\ Older(batch, chan) /\ Older(buffer, chan)
        /\ \A s \in Held : s < next
    BY DEF OrderInv, Ordered
  <2>4. /\ lost \subseteq lost' /\ Sorted(buffer')
        /\ Rows(buffer') \subseteq Rows(batch) \cup Rows(buffer)
        /\ Rows(batch) \cup Rows(buffer) \subseteq Rows(buffer') \cup lost'
    <3>1. CASE Len(batch) + Len(buffer) <= MaxBuffered
      <4>1. buffer' = batch \o buffer /\ lost' = lost
        BY <2>1, <3>1 DEF PutBack
      <4> QED BY <1>00, <2>3, <4>1, ConcatRows
    <3>2. CASE ~(Len(batch) + Len(buffer) <= MaxBuffered)
      <4>1. buffer' = buffer /\ lost' = lost \cup Rows(batch)
        BY <2>1, <3>2 DEF PutBack
      <4> QED BY <2>3, <4>1
    <3> QED BY <3>1, <3>2
  <2>5. Ordered'
    <3>1. Older(batch', buffer') /\ Older(batch', chan')
      BY <2>2 DEF Older
    <3>2. Older(buffer', chan)
      BY <2>3, <2>4 DEF Older
    <3>3. \A s \in Held' : s < next'
      BY <2>1, <2>2, <2>3, <2>4 DEF Held, Rows
    <3> QED
      BY <2>1, <2>2, <2>3, <2>4, <3>1, <3>2, <3>3 DEF Ordered, Older, Sorted, Rows
  <2>6. Accounted'
    BY <2>1, <2>4 DEF OrderInv, Accounted, Held, Rows
  <2>7. \A b \in (late \cup {batch})' : Complete(b)'
    <3>1. Complete(batch')
      BY <2>2 DEF Complete
    <3> QED BY <2>1, <2>4, <3>1, CompleteGrows DEF OrderInv, Complete
  <2>8. NoOvertaking'
    BY <2>1, <2>4, NoOvertakingKept DEF OrderInv
  <2> QED
    BY <1>0, <2>1, <2>5, <2>6, <2>7, <2>8 DEF OrderInv
<1>7. ASSUME NEW b, b = batch \/ b \in late,
             stored' = stored \cup Rows(b), late' \subseteq late, wire' = "ok" => b = batch \/ wire = "ok",
             UNCHANGED <<next, chan, buffer, batch, lost>>
      PROVE  OrderInv'
  <2>1. Complete(b)
    BY <1>7 DEF OrderInv
  <2>2. NoOvertaking'
    BY <1>7, <2>1, NoOvertakingStored DEF OrderInv
  <2>3. \A c \in (late \cup {batch})' : Complete(c)'
    BY <1>7, CompleteGrows DEF OrderInv
  <2>4. Ordered'
    BY <1>7 DEF OrderInv, Ordered, Older, Sorted, Held, Rows
  <2>5. Accounted'
    BY <1>7 DEF OrderInv, Accounted, Held, Rows
  <2>6. wire' = "ok" => Rows(batch') \subseteq stored'
    BY <1>7 DEF OrderInv, Rows
  <2> QED
    BY <1>0, <2>2, <2>3, <2>4, <2>5, <2>6 DEF OrderInv
<1>8. CASE Ingest
  BY <1>7, <1>8 DEF Ingest, loop
<1>9. CASE IngestLate
  <2>1. PICK b \in late : stored' = stored \cup Rows(b) /\ late' = late \ {b}
    BY <1>9 DEF IngestLate
  <2> QED BY <1>7, <1>9, <2>1 DEF IngestLate, loop
<1>10. CASE UNCHANGED vars
  BY <1>0, <1>10, OrderKept DEF vars, loop, database
<1> QED
  BY <1>1, <1>2, <1>3, <1>4, <1>5, <1>6, <1>8, <1>9, <1>10 DEF Next

\* Through timeouts, late arrivals, retries and evictions, no sample reaches the
\* database ahead of an older one that is neither there nor given up.
THEOREM NothingOvertakes == Spec => []NoOvertaking
<1>1. OrderInv => NoOvertaking
  BY DEF OrderInv
<1> QED
  BY <1>1, OrderInit, OrderNext, PTL DEF Spec

-----------------------------------------------------------------------------
(* The abstract queue.  Its pending samples are the chunk under way, the    *)
(* buffer and the channel, end to end.  Receiving, cutting a chunk off and  *)
(* putting it back move samples between the three and leave the whole as it *)
(* is.                                                                      *)

Pending == batch \o buffer \o chan

\* The head of a concatenation, and what is left without it.
LEMMA PrefixGone ==
    ASSUME NEW p \in Seq(Nat), NEW q \in Seq(Nat)
    PROVE  /\ {(p \o q)[i] : i \in 1 .. Len(p)} = Rows(p)
           /\ SubSeq(p \o q, Len(p) + 1, Len(p \o q)) = q
<1> DEFINE r == p \o q
           t == SubSeq(r, Len(p) + 1, Len(r))
<1>1. /\ r \in Seq(Nat) /\ Len(r) = Len(p) + Len(q) /\ Len(p) \in Nat /\ Len(q) \in Nat
      /\ \A i \in 1 .. Len(p) : r[i] = p[i]
      /\ \A j \in 1 .. Len(q) : r[Len(p) + j] = q[j]
      /\ DOMAIN p = 1 .. Len(p) /\ DOMAIN r = 1 .. Len(r)
  BY ConcatProperties
<1> HIDE DEF r
<1>2. {r[i] : i \in 1 .. Len(p)} = Rows(p)
  BY <1>1 DEF Rows
<1>3. /\ t \in Seq(Nat)
      /\ Len(t) = IF Len(p) + 1 <= Len(r) THEN Len(r) - (Len(p) + 1) + 1 ELSE 0
      /\ \A i \in 1 .. Len(r) - (Len(p) + 1) + 1 : t[i] = r[(Len(p) + 1) + i - 1]
  <2>1. \A i \in Len(p) + 1 .. Len(r) : r[i] \in Nat
    BY <1>1
  <2> QED BY <1>1, <2>1, SubSeqProperties
<1> HIDE DEF t
<1>4. Len(t) = Len(q)
  <2>1. \A x, y \in Nat : (IF x + 1 <= x + y THEN (x + y) - (x + 1) + 1 ELSE 0) = y
    OBVIOUS
  <2> QED BY <1>1, <1>3, <2>1
<1>5. ASSUME NEW i \in 1 .. Len(q) PROVE t[i] = q[i]
  <2>1. /\ i \in 1 .. Len(r) - (Len(p) + 1) + 1
        /\ (Len(p) + 1) + i - 1 = Len(p) + i
    BY <1>1
  <2> QED BY <1>1, <1>3, <2>1
<1>6. t = q
  BY <1>3, <1>4, <1>5, SeqEqual
<1> QED
  BY <1>2, <1>6 DEF r, t

\* A chunk and what it leaves, end to end, are the buffer.
LEMMA ChunkWhole ==
    ASSUME NEW b \in Seq(Nat)
    PROVE  Chunk(b).taken \o Chunk(b).left = b
<1> DEFINE n == IF Len(b) < FlushRows THEN Len(b) ELSE FlushRows
<1>1. n \in Nat /\ n <= Len(b) /\ Len(b) \in Nat
  BY SampleLogAssumption
<1>2. Chunk(b).taken = SubSeq(b, 1, n) /\ Chunk(b).left = SubSeq(b, n + 1, Len(b))
  BY DEF Chunk
<1> HIDE DEF n
<1>3. 1 \in 1 .. Len(b) + 1 /\ n \in 1 - 1 .. Len(b) /\ Len(b) \in n .. Len(b)
  BY <1>1
<1>4. SubSeq(b, 1, n) \o SubSeq(b, n + 1, Len(b)) = SubSeq(b, 1, Len(b))
  BY <1>3, ConcatAdjacentSubSeq
<1>5. SubSeq(b, 1, Len(b)) = b
  <2> DEFINE w == SubSeq(b, 1, Len(b))
  <2>1. \A i \in 1 .. Len(b) : b[i] \in Nat
    OBVIOUS
  <2>2. /\ w \in Seq(Nat) /\ Len(w) = IF 1 <= Len(b) THEN Len(b) - 1 + 1 ELSE 0
        /\ \A i \in 1 .. Len(b) - 1 + 1 : w[i] = b[1 + i - 1]
    BY <1>1, <2>1, SubSeqProperties
  <2> HIDE DEF w
  <2>3. Len(w) = Len(b) /\ \A i \in 1 .. Len(b) : w[i] = b[i]
    BY <1>1, <2>2
  <2>4. w = b
    BY <2>2, <2>3, SeqEqual
  <2> QED BY <2>4 DEF w
<1> QED
  BY <1>2, <1>4, <1>5

\* What may still be stored has been posted.
SentInv ==
    /\ OrderInv
    /\ Rows(batch) \subseteq posted
    /\ \A b \in late : Rows(b) \subseteq posted

\* Two lists of numbers, put together.
LEMMA JoinedNumbers ==
    ASSUME NEW s \in Seq(Nat), NEW t \in Seq(Nat)
    PROVE  s \o t \in Seq(Nat) /\ Len(s \o t) = Len(s) + Len(t)
BY ConcatProperties

LEMMA JoinedInAnyOrder ==
    \A p, q, r \in Seq(Nat) : (p \o q) \o r = p \o (q \o r)
BY ConcatAssociative

\* Nothing is sent at first.
LEMMA SentInit == Init => SentInv
<1> SUFFICES ASSUME Init PROVE SentInv
  OBVIOUS
<1>1. OrderInv
  BY OrderInit
<1>2. Rows(<<>>) = {}
  BY EmptySeq DEF Rows
<1> QED
  BY <1>1, <1>2 DEF Init, SentInv

\* A chunk is posted as it is cut off, and stays so.
LEMMA SentNext == SentInv /\ [Next]_vars => SentInv'
<1> SUFFICES ASSUME SentInv, [Next]_vars PROVE SentInv'
  OBVIOUS
<1>1. OrderInv'
  BY OrderNext DEF SentInv
<1>2. Rows(<<>>) = {}
  BY EmptySeq DEF Rows
<1>3. CASE Log \/ CloseChannel \/ IngestRefused
  BY <1>1, <1>3 DEF Log, CloseChannel, IngestRefused, loop, database, SentInv, Rows
<1>4. CASE Receive \/ ReceiveClosed \/ TickFlush \/ FlushDone
  BY <1>1, <1>4 DEF Receive, ReceiveClosed, TickFlush, FlushDone, database, SentInv, Rows
<1>5. CASE Post
  BY <1>1, <1>5 DEF Post, database, SentInv, Rows
<1>6. CASE PostOk
  BY <1>1, <1>2, <1>6 DEF PostOk, database, SentInv, Rows
<1>7. CASE PostFailed
  BY <1>1, <1>2, <1>7 DEF PostFailed, SentInv, Rows
<1>8. CASE Ingest \/ IngestLate
  BY <1>1, <1>8 DEF Ingest, IngestLate, loop, SentInv, Rows
<1>9. CASE UNCHANGED vars
  BY <1>1, <1>9 DEF vars, loop, database, SentInv, Rows
<1> QED
  BY <1>3, <1>4, <1>5, <1>6, <1>7, <1>8, <1>9 DEF Next

\* The queue is empty at first.
LEMMA QueueInit == Init => Abs!Init
<1> SUFFICES ASSUME Init PROVE Abs!Init
  OBVIOUS
<1>1. <<>> \in Seq(Nat)
  BY EmptySeq
<1>2. batch \o buffer \o chan = <<>>
  BY <1>1, ConcatEmptySeq DEF Init
<1> QED
  BY <1>2 DEF Init, Abs!Init

\* Every step is a step of the queue, or leaves it as it is.
LEMMA QueueNext == SentInv /\ [Next]_vars => [Abs!Next]_(Abs!vars)
<1> SUFFICES ASSUME SentInv, [Next]_vars PROVE [Abs!Next]_(Abs!vars)
  OBVIOUS
<1>1. /\ batch \in Seq(Nat) /\ buffer \in Seq(Nat) /\ chan \in Seq(Nat) /\ next \in Nat
      /\ <<>> \in Seq(Nat)
      /\ Len(batch) \in Nat /\ Len(buffer) \in Nat /\ Len(chan) \in Nat
      /\ MaxBuffered \in Nat /\ ChannelCap \in Nat
  BY SampleLogAssumption, LenProperties, EmptySeq DEF SentInv, OrderInv, MemoryInv, TypeOK
<1> DEFINE rest == buffer \o chan
<1>2. /\ Pending = batch \o rest /\ rest \in Seq(Nat) /\ Pending \in Seq(Nat)
      /\ batch \o buffer \in Seq(Nat)
      /\ Len(Pending) = Len(batch) + (Len(buffer) + Len(chan))
  <2>1. rest \in Seq(Nat) /\ batch \o buffer \in Seq(Nat) /\ Len(rest) = Len(buffer) + Len(chan)
    BY ONLY <1>1, JoinedNumbers
  <2>2. Pending = batch \o rest
    <3>1. (batch \o buffer) \o chan = batch \o (buffer \o chan)
      BY ONLY <1>1, JoinedInAnyOrder, Zenon
    <3> QED BY ONLY <3>1 DEF Pending, rest
  <2>3. batch \o rest \in Seq(Nat) /\ Len(batch \o rest) = Len(batch) + Len(rest)
    <3> HIDE DEF rest
    <3> QED BY ONLY <1>1, <2>1, JoinedNumbers
  <2> HIDE DEF rest, Pending
  <2> QED BY ONLY <2>1, <2>2, <2>3
<1>3. ASSUME UNCHANGED <<Pending, next, posted, stored, lost>> PROVE UNCHANGED Abs!vars
  BY <1>3 DEF Abs!vars, Pending
<1>4. CASE Log
  <2>1. next' = next + 1 /\ UNCHANGED <<batch, buffer, posted, stored>>
    BY <1>4 DEF Log, loop, database
  <2>2. CASE Len(chan) < ChannelCap
    <3>1. chan' = Append(chan, next) /\ lost' = lost
      BY <1>4, <2>2 DEF Log
    <3>2. chan' = chan \o <<next>> /\ <<next>> \in Seq(Nat)
      BY <1>1, <3>1, AppendIsConcat
    <3>3. (batch \o buffer) \o (chan \o <<next>>) = ((batch \o buffer) \o chan) \o <<next>>
      <4>1. batch \o buffer \in Seq(Nat) /\ chan \in Seq(Nat) /\ <<next>> \in Seq(Nat)
        BY <1>1, <1>2, <3>2
      <4> QED BY ONLY <4>1, JoinedInAnyOrder, Zenon
    <3>4. Append(Pending, next) = Pending \o <<next>>
      BY <1>1, <1>2, AppendIsConcat
    <3>5. Pending' = Append(Pending, next)
      BY <2>1, <3>2, <3>3, <3>4 DEF Pending
    <3>6. Abs!Accept
      BY <2>1, <3>1, <3>5 DEF Abs!Accept, Pending
    <3> QED BY <3>6 DEF Abs!Next
  <2>3. CASE ~(Len(chan) < ChannelCap)
    <3>1. UNCHANGED chan /\ lost' = lost \cup {next}
      BY <1>4, <2>3 DEF Log
    <3>2. Len(Pending) >= ChannelCap
      BY <1>1, <1>2, <2>3
    <3>3. Abs!Refuse
      BY <2>1, <3>1, <3>2 DEF Abs!Refuse, Pending
    <3> QED BY <3>3 DEF Abs!Next
  <2> QED BY <2>2, <2>3
<1>5. CASE Receive
  <2>1. /\ chan # <<>> /\ chan' = Tail(chan) /\ buffer' = Append(buffer, Head(chan))
        /\ UNCHANGED <<next, batch, posted, stored, lost>>
    BY <1>5 DEF Receive, database
  <2>2. Head(chan) \in Nat /\ Tail(chan) \in Seq(Nat) /\ <<Head(chan)>> \in Seq(Nat)
    BY <1>1, <2>1, HeadTailProperties
  <2>3. buffer' = buffer \o <<Head(chan)>>
    BY <1>1, <2>1, <2>2, AppendIsConcat
  <2>4. chan = <<Head(chan)>> \o Tail(chan)
    <3> DEFINE h == <<Head(chan)>>
    <3>1. h \in Seq(Nat) /\ Len(h) = 1 /\ h[1] = Head(chan) /\ Head(chan) = chan[1]
      BY <2>2
    <3>2. /\ Len(Tail(chan)) = Len(chan) - 1
          /\ \A i \in 1 .. Len(chan) - 1 : Tail(chan)[i] = chan[i + 1]
      BY <1>1, <2>1, HeadTailProperties
    <3> HIDE DEF h
    <3>3. /\ h \o Tail(chan) \in Seq(Nat) /\ Len(h \o Tail(chan)) = Len(chan)
          /\ \A i \in 1 .. Len(chan) : (h \o Tail(chan))[i] =
                IF i <= 1 THEN h[i] ELSE Tail(chan)[i - 1]
      <4>1. /\ h \o Tail(chan) \in Seq(Nat)
            /\ Len(h \o Tail(chan)) = Len(h) + Len(Tail(chan))
            /\ \A i \in 1 .. Len(h) + Len(Tail(chan)) : (h \o Tail(chan))[i] =
                  IF i <= Len(h) THEN h[i] ELSE Tail(chan)[i - Len(h)]
        BY <2>2, <3>1, ConcatProperties
      <4>2. Len(h) + Len(Tail(chan)) = Len(chan)
        BY <1>1, <3>1, <3>2
      <4> QED BY <3>1, <4>1, <4>2
    <3>4. ASSUME NEW i \in 1 .. Len(chan) PROVE (h \o Tail(chan))[i] = chan[i]
      <4>1. CASE i = 1
        BY <3>1, <3>3, <4>1
      <4>2. CASE i # 1
        <5>1. i - 1 \in 1 .. Len(chan) - 1 /\ (i - 1) + 1 = i /\ ~(i <= 1)
          BY <1>1, <4>2
        <5> QED BY <3>2, <3>3, <5>1
      <4> QED BY <4>1, <4>2
    <3>5. h \o Tail(chan) = chan
      BY <1>1, <3>3, <3>4, SeqEqual
    <3> QED BY <3>5 DEF h
  <2>5. (batch \o (buffer \o <<Head(chan)>>)) \o Tail(chan)
          = (batch \o buffer) \o (<<Head(chan)>> \o Tail(chan))
    <3>1. batch \o (buffer \o <<Head(chan)>>) = (batch \o buffer) \o <<Head(chan)>>
      <4>1. batch \in Seq(Nat) /\ buffer \in Seq(Nat) /\ <<Head(chan)>> \in Seq(Nat)
        BY <1>1, <2>2
      <4> QED BY ONLY <4>1, JoinedInAnyOrder, Zenon
    <3>2. ((batch \o buffer) \o <<Head(chan)>>) \o Tail(chan)
            = (batch \o buffer) \o (<<Head(chan)>> \o Tail(chan))
      <4>1. batch \o buffer \in Seq(Nat) /\ <<Head(chan)>> \in Seq(Nat) /\ Tail(chan) \in Seq(Nat)
        BY <1>2, <2>2
      <4> QED BY ONLY <4>1, JoinedInAnyOrder, Zenon
    <3> QED BY <3>1, <3>2
  <2>6. Pending' = Pending
    BY <2>1, <2>3, <2>4, <2>5 DEF Pending
  <2> QED BY <1>3, <2>1, <2>6
<1>6. CASE Post
  <2>1. /\ buffer # <<>> /\ batch' = Chunk(buffer).taken /\ buffer' = Chunk(buffer).left
        /\ posted' = posted \cup Rows(batch')
        /\ UNCHANGED <<next, chan, stored, lost>> /\ batch = <<>>
    BY <1>6 DEF Post, database, SentInv, OrderInv, MemoryInv
  <2>2. /\ batch' \in Seq(Nat) /\ buffer' \in Seq(Nat) /\ Len(batch') > 0
        /\ batch' \o buffer' = buffer
    <3>1. Len(buffer) > 0
      BY <1>1, <2>1, EmptySeq
    <3>2. batch' \in Seq(Nat) /\ buffer' \in Seq(Nat) /\ Len(batch') > 0
      BY <1>1, <2>1, <3>1, ChunkRows
    <3>3. batch' \o buffer' = buffer
      BY <1>1, <2>1, ChunkWhole
    <3> QED BY <3>2, <3>3
  <2>3. Pending = buffer \o chan /\ Pending' = Pending
    <3>1. <<>> \o buffer = buffer
      BY <1>1, ConcatEmptySeq
    <3> QED BY <2>1, <2>2, <3>1 DEF Pending
  <2>4. Pending = batch' \o (buffer' \o chan) /\ buffer' \o chan \in Seq(Nat)
    <3>1. buffer' \o chan \in Seq(Nat)
      BY <1>1, <2>2, ConcatProperties
    <3>3. (batch' \o buffer') \o chan = batch' \o (buffer' \o chan)
      <4>1. batch' \in Seq(Nat) /\ buffer' \in Seq(Nat) /\ chan \in Seq(Nat)
        BY <1>1, <2>2
      <4> QED BY ONLY <4>1, JoinedInAnyOrder, Zenon
    <3> QED BY <2>2, <2>3, <3>1, <3>3
  <2>5. PICK t \in Seq(Nat) : t = batch'
    BY <2>2
  <2>6. PICK u \in Seq(Nat) : u = buffer' \o chan
    BY <2>4
  <2>7. /\ {Pending[i] : i \in 1 .. Len(t)} = Rows(t)
        /\ Len(Pending) = Len(t) + Len(u) /\ Len(t) \in Nat /\ Len(u) \in Nat
    BY <2>4, <2>5, <2>6, PrefixGone, ConcatProperties, LenProperties
  <2>8. Len(t) \in 1 .. Len(Pending)
    BY <2>2, <2>5, <2>7
  <2>9. Rows(batch') = Rows(t)
    BY <2>5
  <2>10. Abs!Post(Len(t))
    BY <2>1, <2>3, <2>7, <2>9 DEF Abs!Post, Abs!First, Pending
  <2> QED BY <2>8, <2>10 DEF Abs!Next, Pending
<1>7. ASSUME pc = "post", batch' = <<>>, UNCHANGED <<next, chan, buffer>>
      PROVE  /\ Len(batch) \in 1 .. Len(Pending)
             /\ Pending' = SubSeq(Pending, Len(batch) + 1, Len(Pending))
             /\ {Pending[i] : i \in 1 .. Len(batch)} = Rows(batch)
  <2>1. Len(batch) > 0
    BY <1>7 DEF SentInv, OrderInv, MemoryInv
  <2>2. Pending' = rest
    <3>1. <<>> \o buffer = buffer
      BY <1>1, ConcatEmptySeq
    <3> QED BY <1>7, <3>1 DEF Pending
  <2>3. Len(batch) \in 1 .. Len(Pending)
    BY <1>1, <1>2, <2>1
  <2> HIDE DEF rest
  <2>4. /\ {(batch \o rest)[i] : i \in 1 .. Len(batch)} = Rows(batch)
        /\ SubSeq(batch \o rest, Len(batch) + 1, Len(batch \o rest)) = rest
    BY <1>1, <1>2, PrefixGone
  <2> QED BY <1>2, <2>2, <2>3, <2>4
<1>8. CASE PostOk
  <2>1. /\ pc = "post" /\ batch' = <<>> /\ Rows(batch) \subseteq stored
        /\ UNCHANGED <<next, chan, buffer, posted, stored, lost>>
    BY <1>8 DEF PostOk, database, SentInv, OrderInv
  <2>2. Abs!Confirm(Len(batch))
    BY <1>7, <2>1 DEF Abs!Confirm, Abs!First, Abs!Rest, Pending
  <2> QED BY <1>7, <2>1, <2>2 DEF Abs!Next, Pending
<1>9. CASE PostFailed
  <2>1. /\ pc = "post" /\ batch' = <<>> /\ PutBack
        /\ UNCHANGED <<next, chan, posted, stored>>
    BY <1>9 DEF PostFailed
  <2>2. CASE Len(batch) + Len(buffer) <= MaxBuffered
    <3>1. buffer' = batch \o buffer /\ lost' = lost
      BY <2>1, <2>2 DEF PutBack
    <3>2. <<>> \o (batch \o buffer) = batch \o buffer
      BY <1>2, ConcatEmptySeq
    <3>3. Pending' = Pending
      BY <2>1, <3>1, <3>2 DEF Pending
    <3> QED BY <1>3, <2>1, <3>1, <3>3
  <2>3. CASE ~(Len(batch) + Len(buffer) <= MaxBuffered)
    <3>1. UNCHANGED buffer /\ lost' = lost \cup Rows(batch)
      BY <2>1, <2>3 DEF PutBack
    <3>2. Len(Pending) > MaxBuffered
      BY <1>1, <1>2, <2>3
    <3>3. Abs!GiveUp(Len(batch))
      BY <1>7, <2>1, <3>1, <3>2 DEF Abs!GiveUp, Abs!First, Abs!Rest, Pending
    <3> QED BY <1>7, <2>1, <3>1, <3>3 DEF Abs!Next, Pending
  <2> QED BY <2>2, <2>3
<1>10. CASE Ingest \/ IngestLate
  <2>1. /\ UNCHANGED <<next, chan, buffer, batch, posted, lost>>
        /\ \E s \in SUBSET posted : stored' = stored \cup s
    BY <1>10 DEF Ingest, IngestLate, loop, SentInv
  <2>2. Pending' = Pending
    BY <2>1 DEF Pending
  <2>3. Abs!Store
    BY <2>1, <2>2 DEF Abs!Store, Pending
  <2> QED BY <2>3 DEF Abs!Next
<1>11. CASE CloseChannel \/ IngestRefused \/ ReceiveClosed \/ TickFlush \/ FlushDone
  BY <1>3, <1>11
     DEF CloseChannel, IngestRefused, ReceiveClosed, TickFlush, FlushDone, loop, database, Pending
<1>12. CASE UNCHANGED vars
  BY <1>3, <1>12 DEF vars, loop, database, Pending
<1> QED
  BY <1>4, <1>5, <1>6, <1>8, <1>9, <1>10, <1>11, <1>12 DEF Next

\* The sample log is the bounded queue that delivers at least once and in order:
\* whatever its task, its channel and the endpoint do is something the queue may do.
THEOREM RefinesQueue == Spec => ImplementsQueue
<1>1. SentInv /\ [Next]_vars => [Abs!Next]_(Abs!vars)
  BY QueueNext
<1> QED
  BY <1>1, SentInit, SentNext, QueueInit, PTL DEF Spec, ImplementsQueue, Abs!Spec

-----------------------------------------------------------------------------
(* What is in the table of samples. *)

\* A sample that a poster was told of is in the table for as long as it is no older
\* than the retention; samples are taken by the day they are, and a sample waits or
\* is stored only once it was taken.
StoreInv ==
    /\ day \in Nat
    /\ DOMAIN taken \subseteq Samples
    /\ \A s \in DOMAIN taken : taken[s] \in Nat
    /\ table \subseteq DOMAIN taken /\ waiting \subseteq DOMAIN taken
    /\ \A s \in DOMAIN taken \ waiting : Old(s) \/ s \in table
    /\ query.pc = "asked" => query.start \in Nat

\* What keeps the samples, the table and the clock as they are keeps the invariant.
LEMMA StoreFrame ==
    ASSUME StoreInv, UNCHANGED <<day, table, taken, waiting>>,
           query' = query \/ query'.pc # "asked"
    PROVE  StoreInv'
<1>1. CASE query' = query
  BY <1>1 DEF StoreInv, Old
<1>2. CASE query'.pc # "asked"
  BY <1>2 DEF StoreInv, Old
<1> QED BY <1>1, <1>2

\* A sample is taken today, and no other day of taking changes.
LEMMA TakeStep ==
    ASSUME StoreInv, NEW s \in Samples, Take(s) PROVE StoreInv'
<1>1. /\ DOMAIN taken' = DOMAIN taken \cup {s} /\ taken'[s] = day
      /\ \A t \in DOMAIN taken : taken'[t] = taken[t]
  BY DEF Take
<1>2. waiting' = waiting \cup {s} /\ UNCHANGED <<day, table, query>>
  BY DEF Take
<1> QED BY <1>1, <1>2 DEF StoreInv, Old

\* Every step of the clock, the processes, the posters and the queries keeps it.
LEMMA StoreInductive ==
    /\ StoreInit => StoreInv
    /\ StoreInv /\ [StoreNext]_storeVars => StoreInv'
<1>1. StoreInit => StoreInv
  BY DEF StoreInit, StoreInv, NoQuery
<1>2. ASSUME StoreInv, [StoreNext]_storeVars PROVE StoreInv'
  <2>1. CASE UNCHANGED storeVars
    BY <1>2, <2>1, StoreFrame DEF storeVars
  <2>2. CASE NextDay
    BY <1>2, <2>2, SampleStoreAssumption DEF NextDay, StoreInv, Old
  <2>3. ASSUME NEW s \in Samples, Take(s) PROVE StoreInv'
    BY <1>2, <2>3, TakeStep
  <2>4. ASSUME NEW p \in Procs, Start(p) \/ Stop(p) \/ Migrate(p) \/ MigrateFails(p)
        PROVE  StoreInv'
    <3>1. UNCHANGED <<day, table, taken, waiting>>
      BY <2>4 DEF Start, Stop, Migrate, MigrateFails, Applied
    <3>2. query' = query \/ query' = NoQuery
      BY <2>4 DEF Start, Stop, Migrate, MigrateFails
    <3> QED BY <1>2, <3>1, <3>2, StoreFrame DEF NoQuery
  <2>5. ASSUME NEW p \in Procs, Purge(p) PROVE StoreInv'
    BY <1>2, <2>5 DEF Purge, StoreInv, Old
  <2>6. ASSUME NEW p \in Procs, Ask(p) PROVE StoreInv'
    <3>1. query'.pc = "asked" /\ query'.start \in Nat
      BY <2>6 DEF Ask
    <3>2. UNCHANGED <<day, table, taken, waiting>>
      BY <2>6 DEF Ask
    <3> QED BY <1>2, <3>1, <3>2 DEF StoreInv, Old
  <2>7. CASE SomeInsert
    <3>1. PICK b \in SUBSET waiting \ {{}} : Insert(b) \/ InsertUnheard(b)
      BY <2>7 DEF SomeInsert
    <3> QED BY <1>2, <3>1 DEF Insert, InsertUnheard, StoreInv, Old
  <2>8. CASE Select \/ SelectFails
    <3>1. query'.pc # "asked"
      <4>1. CASE Select
        <5>1. PICK rows : query' = [pc |-> "answered", rows |-> rows]
          BY <4>1 DEF Select
        <5> QED BY <5>1
      <4>2. CASE SelectFails
        BY <4>2 DEF SelectFails, NoQuery
      <4> QED BY <2>8, <4>1, <4>2
    <3>2. UNCHANGED <<day, table, taken, waiting>>
      BY <2>8 DEF Select, SelectFails
    <3> QED BY <1>2, <3>1, <3>2, StoreFrame
  <2> QED
    BY <1>2, <2>1, <2>2, <2>3, <2>4, <2>5, <2>6, <2>7, <2>8 DEF StoreNext
<1> QED BY <1>1, <1>2

\* A range that lies within MaxRange of today holds no sample that is old enough to
\* be purged.
LEMMA RangeIsKept ==
    ASSUME StoreInv, query.pc = "asked", query.start >= day - MaxRange,
           NEW s \in DOMAIN taken \ waiting, InRange(s)
    PROVE  s \in table
  BY SampleStoreAssumption DEF StoreInv, Old, InRange

\* Whatever is purged, migrated, restarted or posted twice meanwhile: an answer about
\* the range that is kept holds every sample that was confirmed, or the newest of them
\* up to the limit.
THEOREM AnswersAreComplete == StoreSpec => AnswersComplete
<1> DEFINE Whole ==
        query.pc = "asked" /\ query'.pc = "answered" /\ query.start >= day - MaxRange =>
            \A s \in DOMAIN taken \ waiting :
                InRange(s) => \/ s \in query'.rows
                              \/ /\ Cardinality(query'.rows) = Limit
                                 /\ \A t \in query'.rows : taken[t] >= taken[s]
<1>1. ASSUME StoreInv, [StoreNext]_storeVars PROVE Whole
  <2> SUFFICES ASSUME query.pc = "asked", query'.pc = "answered",
                      query.start >= day - MaxRange,
                      NEW s \in DOMAIN taken \ waiting, InRange(s), s \notin query'.rows
               PROVE  /\ Cardinality(query'.rows) = Limit
                      /\ \A t \in query'.rows : taken[t] >= taken[s]
    OBVIOUS
  <2>1. Select
    <3>1. query' # query
      OBVIOUS
    <3>2. ASSUME NEW p \in Procs, Start(p) \/ Migrate(p) \/ MigrateFails(p) \/ Purge(p)
          PROVE  FALSE
      BY <3>1, <3>2 DEF Start, Migrate, MigrateFails, Purge
    <3>3. ASSUME NEW p \in Procs, Stop(p) \/ Ask(p) PROVE FALSE
      BY <3>3, <3>1 DEF Stop, Ask, NoQuery
    <3>4. ~NextDay /\ ~SomeInsert /\ ~SelectFails /\ \A x \in Samples : ~Take(x)
      BY <3>1 DEF NextDay, SomeInsert, Insert, InsertUnheard, SelectFails, NoQuery, Take
    <3> QED BY <1>1, <3>1, <3>2, <3>3, <3>4 DEF StoreNext, storeVars
  <2> DEFINE all == {t \in table : InRange(t)}
  <2>2. PICK rows \in SUBSET all :
          /\ Cardinality(rows) = IF Cardinality(all) < Limit THEN Cardinality(all) ELSE Limit
          /\ Cut(all, rows)
          /\ query' = [pc |-> "answered", rows |-> rows]
    BY <2>1 DEF Select
  <2>3. s \in all /\ s \notin rows /\ query'.rows = rows
    BY <1>1, <2>2, RangeIsKept
  <2>4. \A t \in rows : taken[t] >= taken[s]
    <3>1. \A t \in rows : taken[s] <= taken[t] /\ taken[s] \in Nat /\ taken[t] \in Nat
      BY <1>1, <2>2, <2>3 DEF Cut, StoreInv
    <3> QED BY <3>1
  <2>5. IsFiniteSet(all)
    BY <1>1, FS_Subset, SampleStoreAssumption DEF StoreInv
  <2>6. Cardinality(rows) # Cardinality(all)
    <3> HIDE DEF all
    <3> QED BY <2>2, <2>3, <2>5, FS_Subset
  <2> QED BY <2>2, <2>3, <2>4, <2>6
<1>2. StoreInv /\ [StoreNext]_storeVars => [Whole]_storeVars
  BY <1>1
<1> QED BY <1>2, StoreInductive, PTL DEF StoreSpec, AnswersComplete
=============================================================================
