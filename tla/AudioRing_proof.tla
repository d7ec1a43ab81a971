---------------------------- MODULE AudioRing_proof ----------------------------
(****************************************************************************)
(* Proofs about the ring buffer, for every SIZE, CHUNK, MaxBurst and Frame. *)
(****************************************************************************)
EXTENDS AudioRing, SequenceTheorems, TLAPS

\* x & MASK for the only arguments the code gives it.
LEMMA WrapValue ==
  ASSUME NEW x \in Int, -SIZE <= x, x < 2 * SIZE
  PROVE  Wrap(x) = IF x < 0 THEN x + SIZE ELSE IF x < SIZE THEN x ELSE x - SIZE
  <1>1. CASE x < 0
    BY <1>1, RingAssumption, SMTT(30) DEF Wrap
  <1>2. CASE 0 <= x /\ x < SIZE
    BY <1>2, RingAssumption, SMTT(30) DEF Wrap
  <1>3. CASE SIZE <= x
    BY <1>3, RingAssumption, SMTT(30) DEF Wrap
  <1> QED BY <1>1, <1>2, <1>3, RingAssumption

\* Available and free space in closed form, and that they add up: one slot of
\* the ring always stays empty.
LEMMA Space ==
  ASSUME NEW r \in 0..(SIZE - 1), NEW w \in 0..(SIZE - 1)
  PROVE  /\ Wrap(w - r) = IF r <= w THEN w - r ELSE w - r + SIZE
         /\ Wrap(r - w - 1) = IF r <= w THEN r - w - 1 + SIZE ELSE r - w - 1
         /\ Wrap(w - r) \in 0..(SIZE - 1)
         /\ Wrap(r - w - 1) = SIZE - 1 - Wrap(w - r)
  <1>1. Wrap(w - r) = IF r <= w THEN w - r ELSE w - r + SIZE
    BY WrapValue, RingAssumption
  <1>2. Wrap(r - w - 1) = IF r <= w THEN r - w - 1 + SIZE ELSE r - w - 1
    BY WrapValue, RingAssumption
  <1> QED BY <1>1, <1>2, RingAssumption

\* Moving an index forward by n <= SIZE - 1.
LEMMA Advance ==
  ASSUME NEW s \in 0..(SIZE - 1), NEW n \in 0..(SIZE - 1)
  PROVE  /\ Wrap(s + n) = IF s + n < SIZE THEN s + n ELSE s + n - SIZE
         /\ Wrap(s + n) \in 0..(SIZE - 1)
  BY WrapValue, RingAssumption

\* The two-chunk copy visits the slots in ring order.
LEMMA SlotIsWrap ==
  ASSUME NEW s \in 0..(SIZE - 1), NEW n \in 0..(SIZE - 1), NEW k \in 0..(n - 1)
  PROVE  /\ Slot(s, n, k) = Wrap(s + k)
         /\ Slot(s, n, k) \in 0..(SIZE - 1)
  <1>1. k \in 0..(SIZE - 1)
    BY RingAssumption
  <1> QED BY <1>1, Advance, RingAssumption DEF Slot

------------------------------------------------------------------------------
(* Type correctness and bounds of the whole specification, Init included.    *)

\* What the bounds rest on, whatever Init does to the indices: the lengths
\* that core 0 and core 2 computed are lengths of a copy that fits the ring.
Bounds == /\ Len(samples) <= SIZE - 1
          /\ pc0 = "copy" => copied < Len(samples)
          /\ pc2 \in {"start", "copy", "advance", "publish"} => num >= 1
          /\ pc2 \in {"poll", "read", "start"} => local_buf = <<>>
          /\ pc2 = "copy" => Len(local_buf) < num

LEMMA BurstIsSeq ==
  ASSUME NEW s \in Bursts, NEW n \in Nat, n <= Len(s)
  PROVE  /\ s \in Seq(Frame)
         /\ [i \in 1..n |-> s[i]] \in Seq(Frame)
         /\ Len([i \in 1..n |-> s[i]]) = n
  <1>1. PICK m \in 0..MaxBurst : s \in [1..m -> Frame]
    BY DEF Bursts
  <1>2. m \in Nat /\ s \in Seq(Frame) /\ Len(s) = m
    BY <1>1, RingAssumption
  <1>3. [i \in 1..n |-> s[i]] \in [1..n -> Frame]
    BY <1>1, <1>2
  <1> QED BY <1>2, <1>3

LEMMA TypeInit == Init => TypeOK /\ Bounds
  <1> SUFFICES ASSUME Init PROVE TypeOK /\ Bounds
    OBVIOUS
  <1> USE RingAssumption DEF Init
  <1>1. <<>> \in Seq(Frame) /\ Len(<<>>) = 0
    OBVIOUS
  <1>2. buffer \in [0..(SIZE - 1) -> Frame]
    OBVIOUS
  <1>3. 0 \in 0..(SIZE - 1) /\ copied \in 0..Len(samples)
    BY <1>1
  <1>4. TypeOK
    BY <1>1, <1>2, <1>3 DEF TypeOK
  <1>5. Bounds
    BY <1>1 DEF Bounds
  <1> QED BY <1>4, <1>5

LEMMA TypeStep == TypeOK /\ Bounds /\ [Next]_vars => TypeOK' /\ Bounds'
  <1> SUFFICES ASSUME TypeOK, Bounds, [Next]_vars
               PROVE  TypeOK' /\ Bounds'
    OBVIOUS
  <1> USE RingAssumption
  <1>0. /\ GetAvailable \in 0..(SIZE - 1)
        /\ GetFreeSpace \in 0..(SIZE - 1)
        /\ Wrap(read_idx + num) \in 0..(SIZE - 1)
    <2> USE DEF TypeOK, GetAvailable, GetFreeSpace
    <2>1. GetAvailable \in 0..(SIZE - 1)
      BY Space
    <2>2. GetFreeSpace = SIZE - 1 - GetAvailable
      BY Space
    <2>3. Wrap(read_idx + num) \in 0..(SIZE - 1)
      BY Advance
    <2> HIDE DEF GetAvailable, GetFreeSpace
    <2> QED BY <2>1, <2>2, <2>3
  <1>1. ASSUME NEW s \in Bursts, WriteBegin(s) PROVE TypeOK' /\ Bounds'
    <2> DEFINE n == Least(Len(s), GetFreeSpace)
    <2>1. n \in 1..(SIZE - 1) /\ n <= Len(s)
      BY <1>0, <1>1, BurstIsSeq DEF WriteBegin, Least
    <2>2. samples' \in Seq(Frame) /\ Len(samples') = n
      BY <1>1, <2>1, BurstIsSeq DEF WriteBegin
    <2> QED BY <1>1, <2>1, <2>2 DEF WriteBegin, TypeOK, Bounds, ring, core2
  <1>2. CASE WriteCopy
    <2>1. copied + 1 \in 1..Len(samples) /\ samples[copied + 1] \in Frame
      BY <1>2 DEF WriteCopy, TypeOK, Bounds
    <2>2. buffer' \in [0..(SIZE - 1) -> Frame]
      BY <1>2, <2>1 DEF WriteCopy, TypeOK
    <2> QED BY <1>2, <2>1, <2>2 DEF WriteCopy, TypeOK, Bounds, core2
  <1>3. CASE WritePublish
    <2>1. Len(samples) \in 0..(SIZE - 1)
      BY DEF TypeOK, Bounds
    <2>2. write_idx' \in 0..(SIZE - 1)
      BY <1>3, <2>1, Advance DEF WritePublish, TypeOK
    <2> QED BY <1>3, <2>2 DEF WritePublish, TypeOK, Bounds, core2
  <1>4. CASE Reset
    <2>1. CASE InitBegin
      BY <2>1 DEF InitBegin, TypeOK, Bounds, ring, core2
    <2>2. CASE InitZeroRead
      BY <2>2 DEF InitZeroRead, TypeOK, Bounds, core2
    <2>3. CASE InitZeroWrite
      BY <2>3 DEF InitZeroWrite, TypeOK, Bounds, core2
    <2>4. CASE InitClear
      <3>1. buffer' \in [0..(SIZE - 1) -> Frame]
        BY <2>4 DEF InitClear
      <3> QED BY <2>4, <3>1 DEF InitClear, TypeOK, Bounds, core2
    <2> QED BY <1>4, <2>1, <2>2, <2>3, <2>4 DEF Reset
  <1>5. CASE Poll
    BY <1>0, <1>5 DEF Poll, Least, InInit, TypeOK, Bounds, ring, core0
  <1>6. CASE ReadBegin
    BY <1>0, <1>6 DEF ReadBegin, Least, TypeOK, Bounds, ring, core0
  <1>7. CASE ReadStart
    BY <1>7 DEF ReadStart, TypeOK, Bounds, ring, core0
  <1>8. CASE ReadCopy
    <2>1. Slot(start, num, Len(local_buf)) \in 0..(SIZE - 1)
      BY <1>8, SlotIsWrap DEF ReadCopy, TypeOK, Bounds
    <2> QED BY <1>8, <2>1 DEF ReadCopy, TypeOK, Bounds, ring, core0
  <1>9. CASE ReadAdvance
    BY <1>0, <1>9 DEF ReadAdvance, TypeOK, Bounds, ring, core0
  <1>10. CASE ReadPublish
    BY <1>10 DEF ReadPublish, TypeOK, Bounds, core0
  <1>11. CASE PlayChunk
    BY <1>11 DEF PlayChunk, TypeOK, Bounds, ring, core0
  <1>12. CASE UNCHANGED vars
    BY <1>12 DEF vars, ring, core0, core2, TypeOK, Bounds
  <1> QED BY <1>1, <1>2, <1>3, <1>4, <1>5, <1>6, <1>7, <1>8, <1>9, <1>10, <1>11,
             <1>12 DEF Next, Session, Writer, Reader

\* Type correctness, and with it every bound on the indices, whatever Init
\* does to them while core 2 is inside Read.
THEOREM TypeCorrect == Spec => [](TypeOK /\ Bounds)
  BY TypeInit, TypeStep, PTL DEF Spec

\* No memcpy of Write or Read leaves the array, for any interleaving of the
\* two and of Init.
THEOREM CopiesInBounds == Spec => []InBounds
  <1>1. TypeOK /\ Bounds => InBounds
    <2> SUFFICES ASSUME TypeOK, Bounds PROVE InBounds
      OBVIOUS
    <2> USE RingAssumption DEF TypeOK, Bounds
    <2>1. Filling \subseteq 0..(SIZE - 1)
      BY SlotIsWrap DEF Filling
    <2>2. Reading \subseteq 0..(SIZE - 1)
      BY SlotIsWrap DEF Reading
    <2> QED BY <2>1, <2>2 DEF InBounds
  <1> QED BY <1>1, TypeCorrect, PTL

------------------------------------------------------------------------------
(* A session: the writer and the reader, between two calls of Init.          *)

SessionStrong == TypeOK /\ Bounds /\ SessionInv

\* Slots at different distances from an index are different slots.
LEMMA WrapInjective ==
  ASSUME NEW s \in 0..(SIZE - 1), NEW j \in 0..(SIZE - 1), NEW k \in 0..(SIZE - 1),
         Wrap(s + j) = Wrap(s + k)
  PROVE  j = k
  BY Advance, RingAssumption

\* A slot the writer may fill, seen from the reader: beyond what is available.
LEMMA FreeSlot ==
  ASSUME NEW r \in 0..(SIZE - 1), NEW w \in 0..(SIZE - 1),
         NEW k \in 0..(Wrap(r - w - 1) - 1)
  PROVE  Wrap(w + k) = Wrap(r + Wrap(w - r) + k)
         /\ Wrap(w - r) + k \in 0..(SIZE - 1)
  <1> USE RingAssumption
  <1>1. /\ Wrap(w - r) = IF r <= w THEN w - r ELSE w - r + SIZE
        /\ Wrap(r - w - 1) = SIZE - 1 - Wrap(w - r)
        /\ Wrap(w - r) \in 0..(SIZE - 1)
    BY Space
  <1>2. Wrap(w - r) + k \in 0..(SIZE - 1) /\ k \in 0..(SIZE - 1)
    BY <1>1
  <1>3. Wrap(w + k) = IF w + k < SIZE THEN w + k ELSE w + k - SIZE
    BY <1>2, Advance
  <1>4. Wrap(r + (Wrap(w - r) + k)) =
           IF r + (Wrap(w - r) + k) < SIZE THEN r + (Wrap(w - r) + k)
           ELSE r + (Wrap(w - r) + k) - SIZE
    BY <1>2, Advance
  <1>5. r + Wrap(w - r) + k = r + (Wrap(w - r) + k)
    BY <1>1
  <1> QED BY <1>1, <1>2, <1>3, <1>4, <1>5

\* Publishing n frames makes n more available, reading n makes n fewer.
LEMMA Published ==
  ASSUME NEW r \in 0..(SIZE - 1), NEW w \in 0..(SIZE - 1),
         NEW n \in 0..Wrap(r - w - 1)
  PROVE  Wrap(Wrap(w + n) - r) = Wrap(w - r) + n
  <1> USE RingAssumption
  <1>1. /\ Wrap(w - r) = IF r <= w THEN w - r ELSE w - r + SIZE
        /\ Wrap(w - r) \in 0..(SIZE - 1)
        /\ Wrap(r - w - 1) = SIZE - 1 - Wrap(w - r)
    BY Space
  <1>2. n \in 0..(SIZE - 1)
    BY <1>1
  <1>3. /\ Wrap(w + n) \in 0..(SIZE - 1)
        /\ Wrap(w + n) = IF w + n < SIZE THEN w + n ELSE w + n - SIZE
    BY <1>2, Advance
  <1>4. Wrap(Wrap(w + n) - r) =
           IF r <= Wrap(w + n) THEN Wrap(w + n) - r ELSE Wrap(w + n) - r + SIZE
    BY <1>3, Space
  <1> QED BY <1>1, <1>2, <1>3, <1>4

LEMMA Consumed ==
  ASSUME NEW r \in 0..(SIZE - 1), NEW w \in 0..(SIZE - 1),
         NEW n \in 0..Wrap(w - r)
  PROVE  Wrap(w - Wrap(r + n)) = Wrap(w - r) - n
  <1> USE RingAssumption
  <1>1. /\ Wrap(w - r) = IF r <= w THEN w - r ELSE w - r + SIZE
        /\ Wrap(w - r) \in 0..(SIZE - 1)
        /\ Wrap(r - w - 1) = SIZE - 1 - Wrap(w - r)
    BY Space
  <1>2. n \in 0..(SIZE - 1)
    BY <1>1
  <1>3. /\ Wrap(r + n) \in 0..(SIZE - 1)
        /\ Wrap(r + n) = IF r + n < SIZE THEN r + n ELSE r + n - SIZE
    BY <1>2, Advance
  <1>4. Wrap(w - Wrap(r + n)) =
           IF Wrap(r + n) <= w THEN w - Wrap(r + n) ELSE w - Wrap(r + n) + SIZE
    BY <1>3, Space
  <1> QED BY <1>1, <1>2, <1>3, <1>4

\* Where the writer puts frame k is not among the slots that are available.
LEMMA WriteSlotIsFree ==
  ASSUME TypeOK, WriterInv, pc0 = "copy",
         NEW k \in 0..(Len(samples) - 1), NEW j \in 0..(GetAvailable - 1)
  PROVE  Slot(write_idx, Len(samples), k) # Wrap(read_idx + j)
  <1> USE RingAssumption DEF TypeOK
  <1>1. /\ GetAvailable \in 0..(SIZE - 1)
        /\ GetFreeSpace = SIZE - 1 - GetAvailable
    BY Space DEF GetAvailable, GetFreeSpace
  <1>2. Len(samples) \in 1..GetFreeSpace
    BY DEF WriterInv
  <1>3. Slot(write_idx, Len(samples), k) = Wrap(write_idx + k)
    BY <1>1, <1>2, SlotIsWrap
  <1>4. k \in 0..(GetFreeSpace - 1)
    BY <1>1, <1>2
  <1>5. Wrap(write_idx + k) = Wrap(read_idx + GetAvailable + k)
         /\ GetAvailable + k \in 0..(SIZE - 1)
    BY <1>4, FreeSlot DEF GetAvailable, GetFreeSpace
  <1>6. read_idx + GetAvailable + k = read_idx + (GetAvailable + k)
    BY <1>1
  <1>7. j \in 0..(SIZE - 1) /\ j # GetAvailable + k
    BY <1>1
  <1> QED BY <1>3, <1>5, <1>6, <1>7, WrapInjective

\* The indices and what each of the two distances is while a session runs.
LEMMA Distances ==
  ASSUME TypeOK
  PROVE  /\ GetAvailable \in 0..(SIZE - 1)
         /\ GetFreeSpace \in 0..(SIZE - 1)
         /\ GetFreeSpace = SIZE - 1 - GetAvailable
  <1>1. GetAvailable \in 0..(SIZE - 1)
    BY Space DEF TypeOK, GetAvailable
  <1>2. GetFreeSpace = SIZE - 1 - GetAvailable
    BY Space DEF TypeOK, GetAvailable, GetFreeSpace
  <1> QED BY <1>1, <1>2, RingAssumption

LEMMA SessionInit == Init => SessionStrong
  <1> SUFFICES ASSUME Init PROVE SessionInv
    BY TypeInit DEF SessionStrong
  <1>1. WriterInv
    BY DEF Init, WriterInv, InInit
  <1>2. ReaderInv
    BY DEF Init, ReaderInv
  <1> QED BY <1>1, <1>2 DEF SessionInv

LEMMA SessionStep == SessionStrong /\ [Session]_vars => SessionStrong'
  <1> SUFFICES ASSUME TypeOK, Bounds, WriterInv, ReaderInv, [Session]_vars
               PROVE  WriterInv' /\ ReaderInv'
    BY TypeStep DEF SessionStrong, SessionInv, Next
  <1> USE RingAssumption
  <1>0. /\ GetAvailable \in 0..(SIZE - 1)
        /\ GetFreeSpace \in 0..(SIZE - 1)
        /\ GetFreeSpace = SIZE - 1 - GetAvailable
    BY Distances
  <1>t. TypeOK'
    BY TypeStep DEF Next
  <1>1. ASSUME NEW s \in Bursts, WriteBegin(s) PROVE WriterInv' /\ ReaderInv'
    <2> DEFINE n == Least(Len(s), GetFreeSpace)
    <2>1. n \in 1..GetFreeSpace /\ n <= Len(s)
      BY <1>0, <1>1, BurstIsSeq DEF WriteBegin, Least
    <2>2. Len(samples') = n
      BY <1>0, <1>1, <2>1, BurstIsSeq DEF WriteBegin
    <2>3. GetFreeSpace' = GetFreeSpace /\ GetAvailable' = GetAvailable
      BY <1>1 DEF WriteBegin, ring, GetFreeSpace, GetAvailable
    <2>4. WriterInv'
      BY <1>1, <2>1, <2>2, <2>3 DEF WriteBegin, WriterInv, InInit
    <2>5. ReaderInv'
      BY <1>1, <2>3 DEF WriteBegin, ReaderInv, ring, core2
    <2> QED BY <2>4, <2>5
  <1>2. CASE WriteCopy
    <2> DEFINE slot == Slot(write_idx, Len(samples), copied)
    <2>1. /\ pc0 = "copy" /\ copied \in 0..(Len(samples) - 1)
          /\ Len(samples) \in 1..GetFreeSpace
      BY <1>2 DEF WriteCopy, WriterInv, TypeOK
    <2>2. slot = Wrap(write_idx + copied) /\ slot \in 0..(SIZE - 1)
      <3>1. Len(samples) \in 0..(SIZE - 1) /\ write_idx \in 0..(SIZE - 1)
        BY <1>0, <2>1 DEF TypeOK
      <3> QED BY <2>1, <3>1, SlotIsWrap
    <2>3. /\ GetFreeSpace' = GetFreeSpace /\ GetAvailable' = GetAvailable
          /\ buffer' = [buffer EXCEPT ![slot] = samples[copied + 1]]
          /\ copied' = copied + 1
      BY <1>2 DEF WriteCopy, GetFreeSpace, GetAvailable
    <2>4. ASSUME NEW k \in 0..copied
          PROVE  buffer'[Wrap(write_idx + k)] = samples[k + 1]
      <3>1. k \in 0..(SIZE - 1) /\ copied \in 0..(SIZE - 1)
        BY <1>0, <2>1
      <3>2. Wrap(write_idx + k) \in 0..(SIZE - 1)
        BY <3>1, Advance DEF TypeOK
      <3>3. CASE k = copied
        BY <2>2, <2>3, <3>3, <3>2 DEF TypeOK
      <3>4. CASE k # copied
        <4>1. Wrap(write_idx + k) # slot
          BY <2>2, <3>1, <3>4, WrapInjective DEF TypeOK
        <4>2. buffer[Wrap(write_idx + k)] = samples[k + 1]
          BY <2>1, <3>4 DEF WriterInv, TypeOK
        <4> QED BY <2>3, <3>2, <4>1, <4>2 DEF TypeOK
      <3> QED BY <3>3, <3>4
    <2>5. WriterInv'
      <3>1. \A k \in 0..(copied' - 1) :
               pc0' \in {"copy", "publish"} => buffer'[Wrap(write_idx' + k)] = samples'[k + 1]
        BY <1>2, <2>1, <2>3, <2>4 DEF WriteCopy
      <3>2. /\ pc0' \in {"copy", "publish"} /\ Len(samples') \in 1..GetFreeSpace'
            /\ pc0' = "copy" => copied' < Len(samples')
            /\ pc0' = "publish" => copied' = Len(samples')
        BY <1>0, <1>2, <2>1, <2>3 DEF WriteCopy
      <3> QED BY <3>1, <3>2 DEF WriterInv, InInit
    <2>6. ReaderInv'
      <3>1. ASSUME NEW k \in 0..(Len(local_buf) - 1),
                   pc2 \in {"copy", "advance", "publish"}
            PROVE  local_buf[k + 1] = buffer'[Wrap(read_idx + k)]
        <4>1. k \in 0..(GetAvailable - 1) /\ k \in 0..(SIZE - 1)
          BY <1>0, <3>1 DEF ReaderInv, TypeOK
        <4>2. Wrap(read_idx + k) # slot
          BY <2>1, <4>1, WriteSlotIsFree
        <4>3. Wrap(read_idx + k) \in 0..(SIZE - 1)
          BY <4>1, Advance DEF TypeOK
        <4> QED BY <2>3, <3>1, <4>2, <4>3 DEF ReaderInv, TypeOK
      <3>2. UNCHANGED <<core2, read_idx>>
        BY <1>2 DEF WriteCopy
      <3> QED BY <2>3, <3>1, <3>2 DEF ReaderInv, core2
    <2> QED BY <2>5, <2>6
  <1>3. CASE WritePublish
    <2>1. pc0 = "publish" /\ Len(samples) \in 1..GetFreeSpace
      BY <1>3 DEF WritePublish, WriterInv
    <2>2. GetAvailable' = GetAvailable + Len(samples)
      BY <1>3, <2>1, <1>0, Published DEF WritePublish, GetAvailable, GetFreeSpace, TypeOK
    <2>3. WriterInv'
      BY <1>3 DEF WritePublish, WriterInv, InInit
    <2>4. UNCHANGED <<core2, buffer, read_idx>>
      BY <1>3 DEF WritePublish
    <2>5. ReaderInv'
      BY <1>0, <2>1, <2>2, <2>4 DEF ReaderInv, core2, TypeOK
    <2> QED BY <2>3, <2>5
  <1>4. ASSUME Reader, UNCHANGED <<core0, buffer, write_idx>>,
               GetFreeSpace <= GetFreeSpace', GetFreeSpace' \in Nat
        PROVE  WriterInv'
    BY <1>4, <1>0 DEF WriterInv, InInit, core0
  <1>5. ASSUME UNCHANGED ring, UNCHANGED core0, Reader PROVE WriterInv'
    BY <1>5, <1>0, <1>4 DEF ring, GetFreeSpace
  <1>6. CASE Poll
    <2>1. ReaderInv'
      BY <1>0, <1>6 DEF Poll, Least, ReaderInv, ring, GetAvailable
    <2>2. WriterInv'
      BY <1>5, <1>6 DEF Poll, Reader
    <2> QED BY <2>1, <2>2
  <1>7. CASE ReadBegin
    <2>1. num' = num /\ num \in 1..GetAvailable /\ pc2' = "start"
      BY <1>0, <1>7 DEF ReadBegin, Least, ReaderInv, TypeOK
    <2>2. ReaderInv'
      BY <1>0, <1>7, <2>1 DEF ReadBegin, ReaderInv, ring, GetAvailable
    <2>3. WriterInv'
      BY <1>5, <1>7 DEF ReadBegin, Reader
    <2> QED BY <2>2, <2>3
  <1>8. CASE ReadStart
    <2>1. ReaderInv'
      BY <1>0, <1>8 DEF ReadStart, ReaderInv, ring, GetAvailable, TypeOK
    <2>2. WriterInv'
      BY <1>5, <1>8 DEF ReadStart, Reader
    <2> QED BY <2>1, <2>2
  <1>9. CASE ReadCopy
    <2> DEFINE m == Len(local_buf)
    <2>1. /\ m \in 0..(num - 1) /\ num \in 1..(SIZE - 1)
          /\ num <= GetAvailable /\ start = read_idx
      BY <1>9 DEF ReadCopy, ReaderInv, TypeOK
    <2>2. /\ Slot(start, num, m) = Wrap(read_idx + m)
          /\ Slot(start, num, m) \in 0..(SIZE - 1)
      BY <2>1, SlotIsWrap DEF TypeOK
    <2>3. /\ local_buf' = Append(local_buf, buffer[Wrap(read_idx + m)])
          /\ Len(local_buf') = m + 1
      BY <1>9, <2>2 DEF ReadCopy, TypeOK
    <2>4. ASSUME NEW k \in 0..m
          PROVE  local_buf'[k + 1] = buffer[Wrap(read_idx + k)]
      <3>1. CASE k = m
        BY <2>3, <3>1 DEF TypeOK
      <3>2. CASE k # m
        <4>1. k \in 0..(m - 1) /\ local_buf[k + 1] = buffer[Wrap(read_idx + k)]
          BY <1>9, <3>2 DEF ReadCopy, ReaderInv, TypeOK
        <4> QED BY <2>3, <4>1 DEF TypeOK
      <3> QED BY <3>1, <3>2
    <2>5. /\ UNCHANGED <<ring, num, start, next>>
          /\ pc2' = IF m + 1 = num THEN "advance" ELSE "copy"
      BY <1>9 DEF ReadCopy
    <2>6. GetAvailable' = GetAvailable /\ UNCHANGED <<buffer, read_idx>>
      BY <2>5 DEF ring, GetAvailable
    <2>7. ReaderInv'
      <3>1. \A k \in 0..(Len(local_buf') - 1) : local_buf'[k + 1] = buffer'[Wrap(read_idx' + k)]
        BY <2>1, <2>3, <2>4, <2>6
      <3> QED BY <2>1, <2>3, <2>5, <2>6, <3>1 DEF ReaderInv
    <2>8. WriterInv'
      BY <1>5, <1>9 DEF ReadCopy, Reader
    <2> QED BY <2>7, <2>8
  <1>10. CASE ReadAdvance
    <2>1. ReaderInv'
      BY <1>0, <1>10 DEF ReadAdvance, ReaderInv, ring, GetAvailable
    <2>2. WriterInv'
      BY <1>5, <1>10 DEF ReadAdvance, Reader
    <2> QED BY <2>1, <2>2
  <1>11. CASE ReadPublish
    <2>1. /\ num \in 1..GetAvailable /\ read_idx' = Wrap(read_idx + num)
          /\ UNCHANGED write_idx
      BY <1>11 DEF ReadPublish, ReaderInv, TypeOK
    <2>2. GetAvailable' = GetAvailable - num
      <3>1. num \in 0..Wrap(write_idx - read_idx)
        BY <1>0, <2>1 DEF GetAvailable
      <3>2. Wrap(write_idx - Wrap(read_idx + num)) = Wrap(write_idx - read_idx) - num
        BY <3>1, Consumed DEF TypeOK
      <3> QED BY <2>1, <3>2 DEF GetAvailable
    <2>3. GetFreeSpace' = GetFreeSpace + num
      <3>1. GetFreeSpace' = SIZE - 1 - GetAvailable'
        BY <1>t, Space DEF TypeOK, GetAvailable, GetFreeSpace
      <3> QED BY <1>0, <2>1, <2>2, <3>1
    <2>4. ReaderInv'
      BY <1>11 DEF ReadPublish, ReaderInv
    <2>5. WriterInv'
      BY <1>0, <1>4, <1>11, <2>1, <2>3 DEF ReadPublish, Reader
    <2> QED BY <2>4, <2>5
  <1>12. CASE PlayChunk
    <2>1. ReaderInv'
      BY <1>12 DEF PlayChunk, ReaderInv
    <2>2. WriterInv'
      BY <1>5, <1>12 DEF PlayChunk, Reader
    <2> QED BY <2>1, <2>2
  <1>13. CASE UNCHANGED vars
    BY <1>13 DEF vars, ring, core0, core2, WriterInv, ReaderInv, InInit,
                 GetAvailable, GetFreeSpace
  <1> QED BY <1>1, <1>2, <1>3, <1>6, <1>7, <1>8, <1>9, <1>10, <1>11, <1>12, <1>13
          DEF Session, Writer, Reader

\* The inductive invariant of a session holds always.
THEOREM SessionCorrect == SessionSpec => []SessionInv
  <1>1. SessionStrong => SessionInv
    BY DEF SessionStrong
  <1> QED BY <1>1, SessionInit, SessionStep, PTL DEF SessionSpec

\* The writer never touches a slot core 2 has still to read, nor one it is
\* reading, however full the ring is and wherever it wraps.
THEOREM NeverOverwrites == SessionSpec => []NoOverwrite
  <1>1. SessionStrong => NoOverwrite
    <2> SUFFICES ASSUME TypeOK, WriterInv, ReaderInv PROVE NoOverwrite
      BY DEF SessionStrong, SessionInv
    <2> USE RingAssumption
    <2>0. GetAvailable \in 0..(SIZE - 1)
      BY Distances
    <2>1. Filling \cap Unread = {}
      <3>1. ASSUME NEW k \in copied..(Len(samples) - 1), NEW j \in 0..(GetAvailable - 1),
                   pc0 = "copy"
            PROVE  Slot(write_idx, Len(samples), k) # Wrap(read_idx + j)
        BY <3>1, WriteSlotIsFree DEF TypeOK
      <3> QED BY <3>1 DEF Filling, Unread
    <2>2. Reading \subseteq Unread
      <3>1. ASSUME NEW k \in Len(local_buf)..(num - 1), pc2 = "copy"
            PROVE  /\ k \in 0..(GetAvailable - 1)
                   /\ Slot(start, num, k) = Wrap(read_idx + k)
        <4>1. k \in 0..(num - 1) /\ num <= GetAvailable /\ start = read_idx
          BY <3>1 DEF ReaderInv, TypeOK
        <4> QED BY <2>0, <4>1, SlotIsWrap DEF TypeOK
      <3> QED BY <3>1 DEF Reading, Unread
    <2> QED BY <2>1, <2>2 DEF NoOverwrite
  <1> QED BY <1>1, SessionInit, SessionStep, PTL DEF SessionSpec

------------------------------------------------------------------------------
(* A session implements the bounded FIFO.                                    *)

\* The queue of the FIFO, its length and its elements.
LEMMA QueuedValue ==
  TypeOK /\ ~InInit => /\ queued = [i \in 1..GetAvailable |-> buffer[Wrap(read_idx + i - 1)]]
                       /\ queued \in Seq(Frame)
                       /\ Len(queued) = GetAvailable
  <1> SUFFICES ASSUME TypeOK, ~InInit
               PROVE  /\ queued = [i \in 1..GetAvailable |-> buffer[Wrap(read_idx + i - 1)]]
                      /\ queued \in Seq(Frame)
                      /\ Len(queued) = GetAvailable
    OBVIOUS
  <1>1. GetAvailable \in 0..(SIZE - 1)
    BY Distances
  <1>2. queued = [i \in 1..GetAvailable |-> buffer[Wrap(read_idx + i - 1)]]
    BY DEF queued
  <1>3. ASSUME NEW i \in 1..GetAvailable PROVE buffer[Wrap(read_idx + i - 1)] \in Frame
    <2>1. i - 1 \in 0..(SIZE - 1) /\ read_idx + i - 1 = read_idx + (i - 1)
      BY <1>1, RingAssumption DEF TypeOK
    <2>2. Wrap(read_idx + i - 1) \in 0..(SIZE - 1)
      BY <2>1, Advance DEF TypeOK
    <2> QED BY <2>2 DEF TypeOK
  <1>4. queued \in [1..GetAvailable -> Frame]
    BY <1>2, <1>3
  <1> QED BY <1>1, <1>2, <1>4

\* No shared variable changes, and neither does what the FIFO sees of core 0.
LEMMA QueuedUnchanged ==
  ASSUME UNCHANGED <<ring, core0>>
  PROVE  UNCHANGED queued
  <1>1. UNCHANGED <<buffer, read_idx, write_idx, pc0>>
    BY DEF ring, core0
  <1>2. GetAvailable' = GetAvailable
    BY <1>1 DEF GetAvailable, Wrap
  <1>3. InInit' = InInit
    BY <1>1 DEF InInit
  <1>4. [i \in 1..GetAvailable |-> buffer[Wrap(read_idx + i - 1)]]'
          = [i \in 1..GetAvailable |-> buffer[Wrap(read_idx + i - 1)]]
    BY <1>1, <1>2 DEF Wrap
  <1>5. queued' = queued
    <2>1. CASE InInit
      BY <1>3, <2>1 DEF queued
    <2>2. CASE ~InInit
      BY <1>3, <1>4, <2>2 DEF queued
    <2> QED BY <2>1, <2>2
  <1> QED BY <1>5

LEMMA WrapOfZero == Wrap(0 - 0) = 0
  BY WrapValue, RingAssumption

LEMMA FifoInit == Init => Fifo!Init
  <1> SUFFICES ASSUME Init PROVE Fifo!Init
    OBVIOUS
  <1> USE RingAssumption DEF Init
  <1>1. GetAvailable = 0
    <2>1. 0 \in 0..(SIZE - 1) /\ write_idx = 0 /\ read_idx = 0
      OBVIOUS
    <2> QED BY <2>1, WrapOfZero DEF GetAvailable
  <1>2. queued = <<>>
    BY <1>1 DEF queued, InInit
  <1> QED BY <1>2 DEF Fifo!Init, offered, hand

LEMMA FifoStep == SessionStrong /\ [Session]_vars => [Fifo!Next]_(Fifo!vars)
  <1> SUFFICES ASSUME TypeOK, Bounds, WriterInv, ReaderInv, [Session]_vars
               PROVE  Fifo!Next \/ UNCHANGED <<queued, offered, hand, played>>
    BY DEF SessionStrong, SessionInv, Fifo!vars
  <1> USE RingAssumption
  <1>0. /\ GetAvailable \in 0..(SIZE - 1)
        /\ GetFreeSpace = SIZE - 1 - GetAvailable
    BY Distances
  <1>q. /\ ~InInit
        /\ queued = [i \in 1..GetAvailable |-> buffer[Wrap(read_idx + i - 1)]]
        /\ queued \in Seq(Frame) /\ Len(queued) = GetAvailable
    BY QueuedValue DEF WriterInv
  <1>r. /\ ~InInit'
        /\ queued' = [i \in 1..GetAvailable' |-> buffer'[Wrap(read_idx' + i - 1)]]
        /\ queued' \in Seq(Frame) /\ Len(queued') = GetAvailable'
    <2>1. TypeOK' /\ WriterInv'
      BY SessionStep, TypeStep DEF SessionStrong, SessionInv, Next
    <2>2. TypeOK' /\ ~InInit'
      BY <2>1 DEF WriterInv
    <2>3. (/\ queued = [i \in 1..GetAvailable |-> buffer[Wrap(read_idx + i - 1)]]
           /\ queued \in Seq(Frame)
           /\ Len(queued) = GetAvailable)'
      BY <2>2, QueuedValue, PTL
    <2> QED BY <2>2, <2>3
  <1>1. ASSUME NEW s \in Bursts, WriteBegin(s) PROVE Fifo!Offer
    <2> DEFINE n == Least(Len(s), GetFreeSpace)
    <2>1. n \in 1..GetFreeSpace /\ n <= Len(s)
      BY <1>0, <1>1, BurstIsSeq DEF WriteBegin, Least
    <2>2. samples' \in [1..n -> Frame]
      <3>1. PICK m \in 0..MaxBurst : s \in [1..m -> Frame]
        BY DEF Bursts
      <3>2. m \in Nat /\ Len(s) = m
        BY <3>1
      <3> QED BY <1>1, <2>1, <3>1, <3>2 DEF WriteBegin
    <2>3. n \in 1..((SIZE - 1) - Len(queued))
      BY <1>0, <1>q, <2>1
    <2>4. UNCHANGED <<queued, hand, played>>
      BY <1>1, <1>q, <1>r DEF WriteBegin, ring, core2, hand, GetAvailable, Wrap
    <2>5. offered = <<>> /\ offered' = samples'
      BY <1>1 DEF WriteBegin, offered
    <2> HIDE DEF n
    <2> QED BY <2>2, <2>3, <2>4, <2>5 DEF Fifo!Offer
  <1>2. CASE WriteCopy
    <2> DEFINE slot == Slot(write_idx, Len(samples), copied)
    <2>1. pc0 = "copy" /\ copied \in 0..(Len(samples) - 1)
      BY <1>2 DEF WriteCopy, WriterInv, TypeOK
    <2>2. /\ GetAvailable' = GetAvailable
          /\ buffer' = [buffer EXCEPT ![slot] = samples[copied + 1]]
          /\ UNCHANGED <<read_idx, samples, core2>>
          /\ pc0' \in {"copy", "publish"}
      BY <1>2 DEF WriteCopy, GetAvailable
    <2>3. ASSUME NEW i \in 1..GetAvailable
          PROVE  buffer'[Wrap(read_idx + i - 1)] = buffer[Wrap(read_idx + i - 1)]
      <3>1. /\ i - 1 \in 0..(GetAvailable - 1) /\ i - 1 \in 0..(SIZE - 1)
            /\ read_idx + i - 1 = read_idx + (i - 1)
        BY <1>0 DEF TypeOK
      <3>2. Wrap(read_idx + (i - 1)) \in 0..(SIZE - 1)
        BY <3>1, Advance DEF TypeOK
      <3>3. slot # Wrap(read_idx + (i - 1))
        BY <2>1, <3>1, WriteSlotIsFree
      <3> HIDE DEF slot
      <3> QED BY <2>2, <3>1, <3>2, <3>3 DEF TypeOK
    <2>4. UNCHANGED queued
      BY <1>q, <1>r, <2>2, <2>3
    <2> QED BY <2>1, <2>2, <2>4 DEF offered, hand, core2
  <1>3. CASE WritePublish
    <2>1. /\ pc0 = "publish" /\ Len(samples) \in 1..GetFreeSpace
          /\ copied = Len(samples) /\ samples \in Seq(Frame)
      BY <1>3 DEF WritePublish, WriterInv, TypeOK
    <2>2. /\ UNCHANGED <<buffer, read_idx, core2>>
          /\ pc0' = "idle"
      BY <1>3 DEF WritePublish
    <2>3. GetAvailable' = GetAvailable + Len(samples)
      <3>1. Len(samples) \in 0..Wrap(read_idx - write_idx - 1)
        BY <2>1 DEF GetFreeSpace
      <3>2. Wrap(Wrap(write_idx + Len(samples)) - read_idx)
               = Wrap(write_idx - read_idx) + Len(samples)
        BY <3>1, Published DEF TypeOK
      <3> QED BY <1>3, <3>2 DEF WritePublish, GetAvailable
    <2>4. ASSUME NEW i \in 1..GetAvailable'
          PROVE  queued'[i] = (queued \o samples)[i]
      <3>1. queued'[i] = buffer[Wrap(read_idx + i - 1)]
        BY <1>r, <2>2
      <3>i. i \in 1..(GetAvailable + Len(samples))
        BY <2>3
      <3>c. (queued \o samples)[i] = IF i <= GetAvailable THEN queued[i]
                                    ELSE samples[i - GetAvailable]
        <4>1. \A j \in 1..(Len(queued) + Len(samples)) :
                 (queued \o samples)[j] = IF j <= Len(queued) THEN queued[j]
                                          ELSE samples[j - Len(queued)]
          BY <1>q, <2>1, ConcatProperties
        <4> QED BY <1>q, <3>i, <4>1
      <3>2. CASE i <= GetAvailable
        BY <1>0, <1>q, <3>c, <3>i, <3>1, <3>2
      <3>3. CASE i > GetAvailable
        <4> DEFINE k == i - GetAvailable - 1
        <4>1. /\ k \in 0..(copied - 1) /\ k \in 0..(GetFreeSpace - 1)
              /\ read_idx + i - 1 = read_idx + GetAvailable + k
          BY <1>0, <2>1, <3>i, <3>3 DEF TypeOK
        <4>2. buffer[Wrap(write_idx + k)] = samples[k + 1]
          BY <2>1, <4>1 DEF WriterInv
        <4>3. Wrap(write_idx + k) = Wrap(read_idx + GetAvailable + k)
          BY <4>1, FreeSlot DEF TypeOK, GetAvailable, GetFreeSpace
        <4>4. (queued \o samples)[i] = samples[k + 1]
          BY <1>0, <2>1, <3>c, <3>i, <3>3
        <4> QED BY <3>1, <4>1, <4>2, <4>3, <4>4
      <3>4. i <= GetAvailable \/ i > GetAvailable
        BY <1>0, <2>1, <3>i
      <3> QED BY <3>2, <3>3, <3>4
    <2>5. queued' = queued \o samples
      <3>1. queued \o samples \in Seq(Frame) /\ Len(queued \o samples) = GetAvailable'
        BY <1>q, <2>1, <2>3, ConcatProperties
      <3> QED BY <1>r, <2>4, <3>1, SeqEqual
    <2>6. offered = samples /\ offered' = <<>> /\ samples # <<>> /\ UNCHANGED <<hand, played>>
      BY <1>0, <2>1, <2>2 DEF offered, hand, core2
    <2> QED BY <2>5, <2>6 DEF Fifo!Accept, Fifo!Next
  <1>4. ASSUME UNCHANGED <<ring, core0>> PROVE UNCHANGED <<queued, offered>>
    BY <1>4, QueuedUnchanged DEF core0, offered
  <1>5. CASE Poll \/ ReadBegin \/ ReadStart \/ ReadCopy \/ ReadAdvance
    <2>1. UNCHANGED <<ring, core0, played>> /\ pc2 # "play"
      BY <1>5 DEF Poll, ReadBegin, ReadStart, ReadCopy, ReadAdvance
    <2>2. pc2' # "play"
      BY <1>0, <1>5 DEF Poll, ReadBegin, ReadStart, ReadCopy, ReadAdvance, ReaderInv, Least, TypeOK
    <2> QED BY <1>4, <2>1, <2>2 DEF hand
  <1>6. CASE ReadPublish
    <2>1. /\ num \in 1..GetAvailable /\ Len(local_buf) = num
          /\ read_idx' = Wrap(read_idx + num) /\ local_buf \in Seq(Frame)
      BY <1>6 DEF ReadPublish, ReaderInv, TypeOK
    <2>2. UNCHANGED <<buffer, write_idx, core0, local_buf, played>> /\ pc2 = "publish" /\ pc2' = "play"
      BY <1>6 DEF ReadPublish
    <2>3. GetAvailable' = GetAvailable - num
      <3>1. num \in 0..Wrap(write_idx - read_idx)
        BY <1>0, <2>1 DEF GetAvailable
      <3>2. Wrap(write_idx - Wrap(read_idx + num)) = Wrap(write_idx - read_idx) - num
        BY <3>1, Consumed DEF TypeOK
      <3> QED BY <2>1, <2>2, <3>2 DEF GetAvailable
    <2>4. local_buf = SubSeq(queued, 1, num)
      <3>1. ASSUME NEW i \in 1..num PROVE local_buf[i] = queued[i]
        <4>1. /\ i - 1 \in 0..(Len(local_buf) - 1) /\ read_idx + (i - 1) = read_idx + i - 1
              /\ (i - 1) + 1 = i
          BY <2>1 DEF TypeOK
        <4>2. local_buf[i] = buffer[Wrap(read_idx + i - 1)]
          BY <2>2, <4>1 DEF ReaderInv
        <4> QED BY <1>0, <1>q, <2>1, <4>2
      <3>2. SubSeq(queued, 1, num) \in Seq(Frame)
            /\ Len(SubSeq(queued, 1, num)) = num
            /\ \A i \in 1..num : SubSeq(queued, 1, num)[i] = queued[i]
        BY <1>0, <1>q, <2>1
      <3> QED BY <2>1, <3>1, <3>2, SeqEqual
    <2>5. queued' = SubSeq(queued, num + 1, Len(queued))
      <3>1. ASSUME NEW i \in 1..GetAvailable' PROVE queued'[i] = queued[num + i]
        <4>1. /\ num \in 0..(SIZE - 1) /\ i - 1 \in 0..(SIZE - 1)
              /\ num + (i - 1) \in 0..(SIZE - 1) /\ num + i \in 1..GetAvailable
          BY <1>0, <2>1, <2>3
        <4>2. Wrap(Wrap(read_idx + num) + (i - 1)) = Wrap(read_idx + (num + (i - 1)))
          <5>1. /\ Wrap(read_idx + num) \in 0..(SIZE - 1)
                /\ Wrap(read_idx + num) = IF read_idx + num < SIZE THEN read_idx + num
                                          ELSE read_idx + num - SIZE
            BY <4>1, Advance DEF TypeOK
          <5>2. Wrap(Wrap(read_idx + num) + (i - 1)) =
                   IF Wrap(read_idx + num) + (i - 1) < SIZE THEN Wrap(read_idx + num) + (i - 1)
                   ELSE Wrap(read_idx + num) + (i - 1) - SIZE
            BY <4>1, <5>1, Advance
          <5>3. Wrap(read_idx + (num + (i - 1))) =
                   IF read_idx + (num + (i - 1)) < SIZE THEN read_idx + (num + (i - 1))
                   ELSE read_idx + (num + (i - 1)) - SIZE
            BY <4>1, Advance DEF TypeOK
          <5> QED BY <4>1, <5>1, <5>2, <5>3 DEF TypeOK
        <4>3. queued'[i] = buffer[Wrap(Wrap(read_idx + num) + i - 1)]
          BY <1>r, <2>1, <2>2
        <4>4. queued[num + i] = buffer[Wrap(read_idx + (num + i) - 1)]
          BY <1>q, <4>1
        <4>5. /\ Wrap(read_idx + num) \in 0..(SIZE - 1)
              /\ Wrap(read_idx + num) + i - 1 = Wrap(read_idx + num) + (i - 1)
              /\ read_idx + (num + i) - 1 = read_idx + (num + (i - 1))
          <5>1. Wrap(read_idx + num) \in 0..(SIZE - 1)
            BY <4>1, Advance DEF TypeOK
          <5> QED BY <4>1, <5>1 DEF TypeOK
        <4> QED BY <4>2, <4>3, <4>4, <4>5
      <3> DEFINE rest == SubSeq(queued, num + 1, GetAvailable)
      <3>2. /\ rest \in Seq(Frame) /\ Len(rest) = GetAvailable'
            /\ \A i \in 1..GetAvailable' : rest[i] = queued[num + i]
        BY <1>0, <1>q, <2>1, <2>3
      <3> HIDE DEF rest
      <3>3. queued' = rest
        BY <1>r, <3>1, <3>2, SeqEqual
      <3> QED BY <1>q, <3>3 DEF rest
    <2>6. /\ hand = <<>> /\ hand' = local_buf /\ UNCHANGED offered
      BY <2>2 DEF hand, offered, core0
    <2>7. num \in 1..Len(queued)
      BY <1>q, <2>1
    <2> QED BY <2>2, <2>4, <2>5, <2>6, <2>7 DEF Fifo!Take, Fifo!Next
  <1>7. CASE PlayChunk
    <2>1. /\ UNCHANGED <<ring, core0>> /\ pc2 = "play" /\ pc2' = "poll"
          /\ played' = local_buf
      BY <1>7 DEF PlayChunk
    <2>2. hand = local_buf /\ hand' = <<>> /\ local_buf # <<>>
      BY <2>1 DEF hand, ReaderInv, TypeOK
    <2> QED BY <1>4, <2>1, <2>2 DEF Fifo!Play, Fifo!Next
  <1>8. CASE UNCHANGED vars
    <2>1. UNCHANGED <<ring, core0, core2>>
      BY <1>8 DEF vars
    <2> QED BY <1>4, <2>1 DEF core2, hand
  <1> QED BY <1>1, <1>2, <1>3, <1>5, <1>6, <1>7, <1>8
          DEF Session, Writer, Reader, Fifo!Next

\* Every session behaves as the bounded FIFO of AudioFifo.
THEOREM SessionImplementsFifo == SessionSpec => ImplementsFifo
  BY SessionInit, SessionStep, FifoInit, FifoStep, PTL
     DEF SessionSpec, ImplementsFifo, Fifo!Spec

------------------------------------------------------------------------------
(* The FIFO across boots.                                                    *)

\* While Init runs core 2 waits, nothing is being written, and the indices are
\* zeroed one after the other.
Booting == /\ pc2 = "poll" /\ samples = <<>>
           /\ pc0 = "zeroWrite" => read_idx = 0
           /\ pc0 = "clear" => read_idx = 0 /\ write_idx = 0

\* As long as Init and Read have not overlapped, the ring is in a session or
\* between two of them.
BootInv == ~raced => IF InInit THEN Booting ELSE SessionInv

BootStrong == TypeOK /\ Bounds /\ BootInv

\* Where a step leaves the ghost: once raced, for ever; and core 2 sets it when
\* it looks at the indices in the middle of Init.
LEMMA RacedStays ==
  ASSUME [Next]_vars, TypeOK, ~raced'
  PROVE  ~raced /\ (Poll => ~InInit) /\ (InitBegin => pc2 = "poll")
  <1>1. CASE Writer
    BY <1>1 DEF Writer, WriteBegin, WriteCopy, WritePublish, Poll, InitBegin, TypeOK, core2
  <1>2. CASE Poll
    BY <1>2 DEF Poll, InitBegin, TypeOK, core0
  <1>3. CASE ReadBegin \/ ReadStart \/ ReadCopy \/ ReadAdvance \/ ReadPublish \/ PlayChunk
    BY <1>3 DEF ReadBegin, ReadStart, ReadCopy, ReadAdvance, ReadPublish, PlayChunk, Poll,
                InitBegin, core0
  <1>4. CASE InitBegin
    BY <1>4 DEF InitBegin, Poll, core2
  <1>5. CASE InitZeroRead \/ InitZeroWrite \/ InitClear
    BY <1>5 DEF InitZeroRead, InitZeroWrite, InitClear, InitBegin, Poll, core2
  <1>6. CASE UNCHANGED vars
    BY <1>6 DEF vars, core0, core2, Poll, InitBegin
  <1> QED BY <1>1, <1>2, <1>3, <1>4, <1>5, <1>6 DEF Next, Session, Reader, Reset

\* A step that overlaps nothing is a step of a session, or one of Init while
\* core 2 waits.
LEMMA StepKinds ==
  ASSUME BootStrong, [Next]_vars, ~raced'
  PROVE  \/ SessionStrong /\ [Session]_vars
         \/ SessionStrong /\ InitBegin /\ pc2 = "poll"
         \/ /\ InInit /\ Booting
            /\ InitZeroRead \/ InitZeroWrite \/ InitClear \/ UNCHANGED vars
  <1>1. ~raced /\ (Poll => ~InInit) /\ (InitBegin => pc2 = "poll")
    BY RacedStays DEF BootStrong
  <1>2. CASE ~InInit
    <2>1. SessionStrong
      BY <1>1, <1>2 DEF BootStrong, BootInv, SessionStrong
    <2>2. ~(InitZeroRead \/ InitZeroWrite \/ InitClear)
      BY <1>2 DEF InitZeroRead, InitZeroWrite, InitClear, InInit
    <2> QED BY <1>1, <2>1, <2>2 DEF Next, Reset
  <1>3. CASE InInit
    <2>1. Booting
      BY <1>1, <1>3 DEF BootStrong, BootInv
    <2>2. ~InitBegin /\ ~Writer
      BY <1>3 DEF InitBegin, Writer, WriteBegin, WriteCopy, WritePublish, InInit
    <2>3. ~Reader
      BY <1>1, <1>3, <2>1 DEF Reader, Booting, ReadBegin, ReadStart, ReadCopy, ReadAdvance,
                              ReadPublish, PlayChunk
    <2> QED BY <1>3, <2>1, <2>2, <2>3 DEF Next, Session, Reset
  <1> QED BY <1>2, <1>3

\* What the FIFO sees while Init runs: nothing is queued, offered or in hand.
LEMMA BootingIsClear ==
  ASSUME InInit, pc2 = "poll"
  PROVE  queued = <<>> /\ offered = <<>> /\ hand = <<>>
  BY DEF InInit, queued, offered, hand

LEMMA BootStep ==
  ASSUME TypeOK, Bounds, TypeOK', Booting, InInit,
         InitZeroRead \/ InitZeroWrite \/ InitClear \/ UNCHANGED vars
  PROVE  /\ IF InInit' THEN Booting' ELSE SessionInv'
         /\ UNCHANGED <<queued, offered, hand, played>>
  <1> USE RingAssumption
  <1>1. queued = <<>> /\ offered = <<>> /\ hand = <<>>
    BY BootingIsClear DEF Booting
  <1>2. CASE InitZeroRead
    <2>1. /\ pc0' = "zeroWrite" /\ read_idx' = 0 /\ pc2' = "poll" /\ samples' = <<>>
          /\ UNCHANGED played
      BY <1>2 DEF InitZeroRead, Booting, core2
    <2>2. InInit' /\ queued' = <<>> /\ offered' = <<>> /\ hand' = <<>>
      BY <2>1 DEF InInit, queued, offered, hand
    <2> QED BY <1>1, <2>1, <2>2 DEF Booting
  <1>3. CASE InitZeroWrite
    <2>1. /\ pc0' = "clear" /\ read_idx' = 0 /\ write_idx' = 0 /\ pc2' = "poll"
          /\ samples' = <<>> /\ UNCHANGED played
      BY <1>3 DEF InitZeroWrite, Booting, core2
    <2>2. InInit' /\ queued' = <<>> /\ offered' = <<>> /\ hand' = <<>>
      BY <2>1 DEF InInit, queued, offered, hand
    <2> QED BY <1>1, <2>1, <2>2 DEF Booting
  <1>4. CASE InitClear
    <2>1. /\ pc0' = "idle" /\ read_idx' = 0 /\ write_idx' = 0 /\ pc2 = "poll" /\ pc2' = "poll"
          /\ samples' = <<>> /\ local_buf' = local_buf /\ copied' = copied /\ UNCHANGED played
      BY <1>4 DEF InitClear, Booting, core2
    <2>2. local_buf' = <<>>
      BY <2>1 DEF Bounds
    <2>3. GetAvailable' = 0
      BY <2>1, WrapOfZero DEF GetAvailable
    <2>4. ~InInit' /\ queued' = <<>> /\ offered' = <<>> /\ hand' = <<>>
      <3>1. ~InInit' /\ offered' = <<>> /\ hand' = <<>>
        BY <2>1 DEF InInit, offered, hand
      <3>2. queued' = [i \in 1..GetAvailable' |-> buffer'[Wrap(read_idx' + i - 1)]]
        BY <3>1 DEF queued, Wrap
      <3>3. queued' = <<>>
        BY <2>3, <3>2
      <3> QED BY <3>1, <3>3
    <2>5. WriterInv'
      BY <2>1, <2>4 DEF WriterInv
    <2>6. ReaderInv'
      BY <2>1, <2>2 DEF ReaderInv
    <2> QED BY <1>1, <2>1, <2>4, <2>5, <2>6 DEF SessionInv
  <1>5. CASE UNCHANGED vars
    <2>1. UNCHANGED <<pc0, pc2, samples, read_idx, write_idx, played>>
      BY <1>5 DEF vars, ring, core0, core2
    <2>2. InInit'
      BY <2>1 DEF InInit
    <2>3. Booting'
      BY <2>1 DEF Booting
    <2>4. queued' = <<>> /\ offered' = <<>> /\ hand' = <<>>
      BY <2>1, <2>2, <2>3 DEF queued, offered, hand, Booting, InInit
    <2> QED BY <1>1, <2>1, <2>2, <2>3, <2>4
  <1> QED BY <1>2, <1>3, <1>4, <1>5

\* The first step of Init empties the FIFO.
LEMMA ClearStep ==
  ASSUME SessionStrong, InitBegin, pc2 = "poll"
  PROVE  InInit' /\ Booting' /\ Fifo!Clear
  <1>1. /\ pc0 = "idle" /\ pc0' = "zeroRead" /\ pc2' = "poll" /\ samples' = samples
        /\ played' = played
    BY DEF InitBegin, core2
  <1>2. samples = <<>>
    BY <1>1 DEF SessionStrong, SessionInv, WriterInv
  <1>3. InInit' /\ Booting'
    BY <1>1, <1>2 DEF InInit, Booting
  <1>4. queued' = <<>> /\ offered' = <<>> /\ hand' = <<>> /\ offered = <<>> /\ hand = <<>>
    BY <1>1, <1>3 DEF queued, offered, hand
  <1> QED BY <1>1, <1>3, <1>4 DEF Fifo!Clear

LEMMA BootInvStep == BootStrong /\ [Next]_vars => BootStrong'
  <1> SUFFICES ASSUME BootStrong, [Next]_vars PROVE BootStrong'
    OBVIOUS
  <1>1. TypeOK' /\ Bounds'
    BY TypeStep DEF BootStrong
  <1>2. ASSUME ~raced' PROVE IF InInit' THEN Booting' ELSE SessionInv'
    <2>1. CASE SessionStrong /\ [Session]_vars
      <3>1. SessionInv' /\ ~InInit'
        BY <2>1, SessionStep DEF SessionStrong, SessionInv, WriterInv
      <3> QED BY <3>1
    <2>2. CASE SessionStrong /\ InitBegin /\ pc2 = "poll"
      BY <2>2, ClearStep
    <2>3. CASE /\ InInit /\ Booting
               /\ InitZeroRead \/ InitZeroWrite \/ InitClear \/ UNCHANGED vars
      BY <1>1, <2>3, BootStep DEF BootStrong
    <2> QED BY <1>2, <2>1, <2>2, <2>3, StepKinds
  <1> QED BY <1>1, <1>2 DEF BootStrong, BootInv

LEMMA BootFifoStep ==
  BootStrong /\ [Next]_vars
    => [~raced' => Fifo!Next \/ (InitBegin /\ Fifo!Clear)]_(Fifo!vars)
  <1> SUFFICES ASSUME BootStrong, [Next]_vars, ~raced'
               PROVE  Fifo!Next \/ (InitBegin /\ Fifo!Clear)
                        \/ UNCHANGED <<queued, offered, hand, played>>
    BY DEF Fifo!vars
  <1>1. CASE SessionStrong /\ [Session]_vars
    BY <1>1, FifoStep DEF Fifo!vars
  <1>2. CASE SessionStrong /\ InitBegin /\ pc2 = "poll"
    BY <1>2, ClearStep
  <1>3. CASE /\ InInit /\ Booting
             /\ InitZeroRead \/ InitZeroWrite \/ InitClear \/ UNCHANGED vars
    <2>1. TypeOK'
      BY TypeStep DEF BootStrong
    <2> QED BY <1>3, <2>1, BootStep DEF BootStrong
  <1> QED BY <1>1, <1>2, <1>3, StepKinds

\* FifoUnlessRaced: the ring stays the FIFO across any number of boots, and is
\* emptied by nothing else, unless Init and a Read overlap.
THEOREM BootsKeepFifo == Spec => FifoUnlessRaced
  <1>1. Init => BootStrong
    <2> SUFFICES ASSUME Init PROVE BootStrong
      OBVIOUS
    <2>1. TypeOK /\ Bounds /\ SessionInv
      BY TypeInit, SessionInit DEF SessionStrong
    <2>2. ~InInit
      BY DEF Init, InInit
    <2> QED BY <2>1, <2>2 DEF BootStrong, BootInv
  <1> QED BY <1>1, BootInvStep, BootFifoStep, PTL DEF Spec, FifoUnlessRaced

------------------------------------------------------------------------------
(* What is heard of a game.  Two history variables record every frame that    *)
(* Write published and every frame that was handed to the sound device since  *)
(* the last boot; they only watch the ring.                                   *)

VARIABLES written, heard

Recorded ==
  /\ written' = IF InitBegin THEN <<>>
                ELSE written \o (IF WritePublish THEN samples ELSE <<>>)
  /\ heard'   = IF InitBegin THEN <<>>
                ELSE heard \o (IF PlayChunk THEN local_buf ELSE <<>>)

RecordedVars == <<vars, written, heard>>
RecordedSpec == Init /\ written = <<>> /\ heard = <<>> /\ [][Next /\ Recorded]_RecordedVars

HeardAsWritten == written = heard \o hand \o queued

HistoryInv == /\ written \in Seq(Frame) /\ heard \in Seq(Frame)
              /\ ~raced => HeardAsWritten

\* What the FIFO holds is sequences of frames.
LEMMA HandAndQueue == TypeOK => hand \in Seq(Frame) /\ queued \in Seq(Frame)
  <1>1. CASE InInit
    BY <1>1 DEF TypeOK, hand, queued
  <1>2. CASE ~InInit
    BY <1>2, QueuedValue DEF TypeOK, hand
  <1> QED BY <1>1, <1>2

\* A step of a session publishes, plays, or keeps hand and queue together what
\* they were: each of the three is a step of the FIFO.
LEMMA StreamStep ==
  ASSUME SessionStrong, [Session]_vars
  PROVE  /\ ~InitBegin
         /\ WritePublish => ~PlayChunk /\ queued' = queued \o samples /\ hand' = hand
         /\ PlayChunk => hand = local_buf /\ hand' = <<>> /\ queued' = queued
         /\ ~WritePublish /\ ~PlayChunk => hand' \o queued' = hand \o queued
  <1>1. SessionStrong'
    BY SessionStep
  <1>2. ~InitBegin
    BY <1>1 DEF SessionStrong, SessionInv, WriterInv, InitBegin, InInit
  <1>3. Fifo!Next \/ UNCHANGED <<queued, offered, hand, played>>
    BY FifoStep DEF Fifo!vars
  <1>4. ASSUME WritePublish
        PROVE  ~PlayChunk /\ queued' = queued \o samples /\ hand' = hand
    <2>1. offered = samples /\ offered' = <<>> /\ samples # <<>> /\ UNCHANGED core2
      BY <1>4 DEF WritePublish, offered, SessionStrong, SessionInv, WriterInv, TypeOK
    <2>2. ~PlayChunk
      BY <2>1 DEF PlayChunk, core2
    <2> QED BY <1>3, <2>1, <2>2 DEF Fifo!Next, Fifo!Offer, Fifo!Accept, Fifo!Take, Fifo!Play
  <1>5. ASSUME PlayChunk PROVE hand = local_buf /\ hand' = <<>> /\ queued' = queued
    <2>1. hand = local_buf /\ hand' = <<>> /\ local_buf # <<>>
      BY <1>5 DEF PlayChunk, hand, SessionStrong, SessionInv, ReaderInv, TypeOK
    <2> QED BY <1>3, <2>1 DEF Fifo!Next, Fifo!Offer, Fifo!Accept, Fifo!Take, Fifo!Play
  <1>6. ASSUME ~WritePublish, ~PlayChunk PROVE hand' \o queued' = hand \o queued
    <2>1. offered # <<>> => offered' # <<>>
      <3>1. offered # <<>> => pc0 \in {"copy", "publish"} /\ offered = samples
        BY DEF offered
      <3>2. pc0 \in {"copy", "publish"} => pc0' \in {"copy", "publish"} /\ samples' = samples
        BY <1>6 DEF Session, Writer, WriteBegin, WriteCopy, Reader, Poll, ReadBegin, ReadStart,
                    ReadCopy, ReadAdvance, ReadPublish, vars, core0
      <3> QED BY <3>1, <3>2 DEF offered
    <2>2. hand # <<>> => hand' # <<>>
      <3>1. hand # <<>> => pc2 = "play" /\ hand = local_buf
        BY DEF hand
      <3>2. pc2 = "play" => pc2' = "play" /\ local_buf' = local_buf
        BY <1>6 DEF Session, Writer, WriteBegin, WriteCopy, Reader, Poll, ReadBegin, ReadStart,
                    ReadCopy, ReadAdvance, ReadPublish, vars, core2
      <3> QED BY <3>1, <3>2 DEF hand
    <2>3. CASE Fifo!Take
      <3>1. PICK n \in 1..Len(queued) : /\ hand' = SubSeq(queued, 1, n)
                                        /\ queued' = SubSeq(queued, n + 1, Len(queued))
        BY <2>3 DEF Fifo!Take
      <3>2. hand = <<>> /\ queued \in Seq(Frame)
        BY <2>3, HandAndQueue DEF Fifo!Take, SessionStrong
      <3>3. 1 \in 1..(Len(queued) + 1) /\ n \in (1 - 1)..Len(queued) /\ Len(queued) \in n..Len(queued)
        BY <3>1, <3>2
      <3>4. SubSeq(queued, 1, n) \o SubSeq(queued, n + 1, Len(queued)) = SubSeq(queued, 1, Len(queued))
        BY <3>2, <3>3, ConcatAdjacentSubSeq
      <3>5. SubSeq(queued, 1, Len(queued)) = queued /\ <<>> \o queued = queued
        BY <3>2, SubSeqFull, ConcatEmptySeq
      <3> QED BY <3>1, <3>2, <3>4, <3>5
    <2>4. CASE ~Fifo!Take
      BY <1>3, <2>1, <2>2, <2>4 DEF Fifo!Next, Fifo!Offer, Fifo!Accept, Fifo!Play
    <2> QED BY <2>3, <2>4
  <1> QED BY <1>2, <1>4, <1>5, <1>6

LEMMA ConcatAssociates == \A s, t, u \in Seq(Frame) : (s \o t) \o u = s \o (t \o u)
  BY ConcatAssociative

LEMMA HistoryInit == Init /\ written = <<>> /\ heard = <<>> => BootStrong /\ HistoryInv
  <1> SUFFICES ASSUME Init, written = <<>>, heard = <<>> PROVE BootStrong /\ HistoryInv
    OBVIOUS
  <1>1. TypeOK /\ Bounds /\ SessionInv /\ ~InInit
    BY TypeInit, SessionInit DEF SessionStrong, Init, InInit
  <1>2. queued = <<>> /\ hand = <<>>
    BY FifoInit DEF Fifo!Init
  <1>3. <<>> \in Seq(Frame) /\ <<>> \o <<>> \o <<>> = <<>>
    OBVIOUS
  <1> QED BY <1>1, <1>2, <1>3 DEF BootStrong, BootInv, HistoryInv, HeardAsWritten

LEMMA HistoryStep ==
  ASSUME BootStrong, HistoryInv, [Next /\ Recorded]_RecordedVars
  PROVE  HistoryInv'
  <1>1. [Next]_vars /\ BootStrong'
    BY BootInvStep DEF RecordedVars
  <1>2. /\ hand \in Seq(Frame) /\ queued \in Seq(Frame)
        /\ hand' \in Seq(Frame) /\ queued' \in Seq(Frame)
        /\ samples \in Seq(Frame) /\ local_buf \in Seq(Frame) /\ <<>> \in Seq(Frame)
    <2>1. (TypeOK => hand \in Seq(Frame) /\ queued \in Seq(Frame))'
      BY HandAndQueue, PTL
    <2>2. samples \in Seq(Frame) /\ local_buf \in Seq(Frame) /\ <<>> \in Seq(Frame)
      BY DEF BootStrong, TypeOK
    <2> QED BY <1>1, <2>1, <2>2, HandAndQueue, Zenon DEF BootStrong
  <1>h. hand \in Seq(Frame)
    BY <1>2
  <1>q. queued \in Seq(Frame)
    BY <1>2
  <1>s. samples \in Seq(Frame)
    BY <1>2
  <1>3. written' \in Seq(Frame) /\ heard' \in Seq(Frame)
    <2>1. CASE Recorded
      BY <1>2, <2>1, ConcatProperties DEF Recorded, HistoryInv
    <2>2. CASE UNCHANGED RecordedVars
      BY <2>2 DEF RecordedVars, HistoryInv
    <2> QED BY <2>1, <2>2
  <1>4. ASSUME ~raced' PROVE HeardAsWritten'
    <2>0. ~raced /\ written = heard \o hand \o queued /\ written \in Seq(Frame) /\ heard \in Seq(Frame)
      BY <1>1, <1>4, RacedStays DEF BootStrong, HistoryInv, HeardAsWritten
    <2>h. heard \in Seq(Frame)
      BY <2>0
    <2>1. heard \o hand \o queued = heard \o (hand \o queued)
      BY <1>h, <1>q, <2>h, ConcatAssociates
    <2>2. heard' \o hand' \o queued' = heard' \o (hand' \o queued')
      <3>1. hand' \in Seq(Frame)
        BY <1>2
      <3>2. queued' \in Seq(Frame)
        BY <1>2
      <3>3. heard' \in Seq(Frame)
        BY <1>3
      <3> QED BY <3>1, <3>2, <3>3, ConcatAssociates
    <2>3. SUFFICES ASSUME Recorded PROVE written' = heard' \o (hand' \o queued')
      <3>1. CASE UNCHANGED RecordedVars
        <4>1. UNCHANGED <<written, heard, ring, core0, core2>>
          BY <3>1 DEF RecordedVars, vars
        <4>2. UNCHANGED <<queued, hand>>
          BY <4>1, QueuedUnchanged DEF hand, core2
        <4> QED BY <2>0, <4>1, <4>2 DEF HeardAsWritten
      <3> QED BY <2>2, <3>1 DEF HeardAsWritten
    <2>4. CASE SessionStrong /\ [Session]_vars
      <3>0. ~InitBegin
        BY <2>4, StreamStep
      <3>1. CASE WritePublish
        <4>1. /\ ~PlayChunk /\ queued' = queued \o samples /\ hand' = hand
              /\ written' = written \o samples /\ heard' = heard \o <<>>
          BY <2>3, <2>4, <3>0, <3>1, StreamStep DEF Recorded
        <4>2. heard' = heard
          BY <2>0, <4>1, ConcatEmptySeq
        <4>s. heard \o hand \in Seq(Frame) /\ queued \o samples \in Seq(Frame)
          BY <1>2, <2>0, ConcatProperties
        <4>3. ((heard \o hand) \o queued) \o samples = (heard \o hand) \o (queued \o samples)
          BY <1>q, <1>s, <4>s, ConcatAssociates
        <4>4. (heard \o hand) \o (queued \o samples) = heard \o (hand \o (queued \o samples))
          BY <1>h, <2>h, <4>s, ConcatAssociates
        <4> QED BY <2>0, <4>1, <4>2, <4>3, <4>4
      <3>2. CASE PlayChunk
        <4>1. /\ ~WritePublish /\ hand = local_buf /\ hand' = <<>> /\ queued' = queued
              /\ written' = written \o <<>> /\ heard' = heard \o hand
          BY <2>3, <2>4, <3>0, <3>2, StreamStep DEF Recorded
        <4>2. written' = written /\ hand' \o queued' = queued
          BY <1>2, <2>0, <4>1, ConcatEmptySeq
        <4> QED BY <2>0, <4>1, <4>2
      <3>3. CASE ~WritePublish /\ ~PlayChunk
        <4>1. /\ hand' \o queued' = hand \o queued
              /\ written' = written \o <<>> /\ heard' = heard \o <<>>
          BY <2>3, <2>4, <3>0, <3>3, StreamStep DEF Recorded
        <4>2. written' = written /\ heard' = heard
          BY <2>0, <4>1, ConcatEmptySeq
        <4> QED BY <2>0, <2>1, <4>1, <4>2
      <3> QED BY <3>1, <3>2, <3>3
    <2>5. CASE SessionStrong /\ InitBegin /\ pc2 = "poll"
      <3>1. written' = <<>> /\ heard' = <<>>
        BY <2>3, <2>5 DEF Recorded
      <3>2. queued' = <<>> /\ hand' = <<>>
        BY <2>5 DEF InitBegin, InInit, queued, hand, core2
      <3> QED BY <3>1, <3>2
    <2>6. CASE /\ InInit /\ Booting
               /\ InitZeroRead \/ InitZeroWrite \/ InitClear \/ UNCHANGED vars
      <3>1. ~InitBegin /\ ~WritePublish /\ ~PlayChunk
        BY <2>6 DEF InInit, Booting, InitBegin, WritePublish, PlayChunk
      <3>2. UNCHANGED <<queued, hand>>
        BY <1>1, <2>6, BootStep DEF BootStrong
      <3>3. written' = written \o <<>> /\ heard' = heard \o <<>>
        BY <2>3, <3>1 DEF Recorded
      <3>4. written' = written /\ heard' = heard
        BY <2>0, <3>3, ConcatEmptySeq
      <3> QED BY <2>0, <2>1, <3>2, <3>4
    <2> QED BY <1>1, <1>4, <2>4, <2>5, <2>6, StepKinds
  <1> QED BY <1>3, <1>4 DEF HistoryInv

\* Every frame that the emulator's Write accepted since the boot of the game was
\* handed to the sound device once and in order, or is in the hand of core 2, or
\* is still in the ring (audio_ring_buffer.h:31-73, kernel.cpp:598-629): nothing
\* is lost, repeated or mixed, across any number of boots, unless Init and a
\* Read overlap.
THEOREM EveryFrameIsHeardOnce == RecordedSpec => [](~raced => HeardAsWritten)
  <1>1. BootStrong /\ [Next /\ Recorded]_RecordedVars => BootStrong'
    BY BootInvStep DEF RecordedVars
  <1>2. BootStrong /\ HistoryInv /\ [Next /\ Recorded]_RecordedVars => HistoryInv'
    BY HistoryStep
  <1>3. HistoryInv => (~raced => HeardAsWritten)
    BY DEF HistoryInv
  <1> QED BY HistoryInit, <1>1, <1>2, <1>3, PTL DEF RecordedSpec
==============================================================================
