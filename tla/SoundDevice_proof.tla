-------------------------- MODULE SoundDevice_proof --------------------------
(****************************************************************************)
(* Proofs about the sound device, for frames of any size, a queue and DMA   *)
(* buffers of any length, and any batches.                                  *)
(****************************************************************************)
EXTENDS SoundDevice, SequenceTheorems, FiniteSetTheorems, TLAPS

------------------------------------------------------------------------------
(* Remainders.                                                               *)

\* x is q whole m's and r more.
Splits(m, x, q, r) ==
  q \in Int /\ r \in Int /\ 0 <= r /\ r < m /\ x = q * m + r

LEMMA Remainder ==
  ASSUME NEW m \in Nat \ {0}, NEW x \in Int, NEW q, NEW r, Splits(m, x, q, r)
  PROVE  x % m = r
  BY SMTT(30) DEF Splits

LEMMA Quotient ==
  ASSUME NEW m \in Nat \ {0}, NEW x \in Nat
  PROVE  Splits(m, x, x \div m, x % m)
  <1>1. PICK q \in Int, r \in Int : q = x \div m /\ r = x % m
    OBVIOUS
  <1>2. 0 <= r /\ r < m
    BY <1>1
  <1>3. x = q * m + r
    BY <1>1, SMTT(30)
  <1>4. Splits(m, x, q, r)
    BY <1>2, <1>3 DEF Splits
  <1> QED BY <1>1, <1>4

LEMMA SplitNext ==
  ASSUME NEW m \in Nat \ {0}, NEW x \in Int, NEW q, NEW r, Splits(m, x, q, r)
  PROVE  /\ r + 1 < m => Splits(m, x + 1, q, r + 1)
         /\ r + 1 = m => Splits(m, x + 1, q + 1, 0)
         /\ r + 1 <= m
  BY SMTT(30) DEF Splits

LEMMA SplitSum ==
  ASSUME NEW m \in Nat \ {0}, NEW x \in Int, NEW y \in Int, NEW q, NEW r, NEW p,
         Splits(m, x, q, r), Splits(m, y, p, 0)
  PROVE  Splits(m, x + y, q + p, r)
  BY SMTT(30) DEF Splits

\* Numbers with the same remainder keep it in common when both grow by one.
LEMMA SameNext ==
  ASSUME NEW m \in Nat \ {0}, NEW x \in Nat, NEW y \in Nat, x % m = y % m
  PROVE  (x + 1) % m = (y + 1) % m
  <1>1. PICK q, p, r : Splits(m, x, q, r) /\ Splits(m, y, p, r)
    BY Quotient
  <1>2. /\ r + 1 < m => Splits(m, x + 1, q, r + 1) /\ Splits(m, y + 1, p, r + 1)
        /\ r + 1 = m => Splits(m, x + 1, q + 1, 0) /\ Splits(m, y + 1, p + 1, 0)
        /\ r + 1 < m \/ r + 1 = m
    <2>1. r \in Int
      BY <1>1 DEF Splits
    <2> QED BY <1>1, <2>1, SplitNext
  <1>3. x + 1 \in Int /\ y + 1 \in Int
    OBVIOUS
  <1> QED BY <1>2, <1>3, Remainder

\* Adding a multiple changes no remainder.
LEMMA Multiples ==
  ASSUME NEW m \in Nat \ {0}, NEW x \in Nat, NEW y \in Nat, y % m = 0
  PROVE  (x + y) % m = x % m
  <1>1. PICK q, p, r : Splits(m, x, q, r) /\ Splits(m, y, p, 0) /\ r = x % m
    BY Quotient
  <1>2. Splits(m, x + y, q + p, r)
    BY <1>1, SplitSum
  <1>3. x + y \in Int
    OBVIOUS
  <1> QED BY <1>1, <1>2, <1>3, Remainder

LEMMA MultipleOf ==
  ASSUME NEW m \in Nat \ {0}, NEW q \in Nat
  PROVE  m * q \in Nat /\ (m * q) % m = 0
  <1>1. m * q \in Nat
    OBVIOUS
  <1>2. (m * q) % m = 0
    BY SMTT(30)
  <1> QED BY <1>1, <1>2

\* A byte of a batch belongs to a frame of the batch.
LEMMA FrameOfByte ==
  ASSUME NEW m \in Nat \ {0}, NEW n \in Nat, NEW k \in Nat, k < m * n
  PROVE  /\ k \div m + 1 \in 1..n
         /\ k % m \in 0..(m - 1)
         /\ k + 1 \in 0..(m * n)
  <1>1. PICK q \in Nat, r \in Nat :
           q = k \div m /\ r = k % m /\ k = q * m + r /\ r < m
    <2>1. k \div m \in Nat /\ k % m \in Nat
      OBVIOUS
    <2> QED BY <2>1, Quotient DEF Splits
  <1>2. q < n
    <2>1. SUFFICES ASSUME q >= n PROVE FALSE
      BY <1>1
    <2>2. q * m >= n * m
      BY <1>1, <2>1
    <2> QED BY <1>1, <2>2
  <1>3. m * n \in Nat
    OBVIOUS
  <1> QED BY <1>1, <1>2, <1>3

------------------------------------------------------------------------------
(* The queue.                                                                *)

LEMMA Sizes ==
  /\ BYTES * FRAMES \in Nat /\ BYTES * FRAMES >= 1 /\ m_nQueueSize = BYTES * FRAMES + 1
  /\ ChunkBytes \in Nat /\ ChunkBytes >= 1
  /\ (BYTES * FRAMES) % BYTES = 0 /\ ChunkBytes % BYTES = 0
  <1>1. /\ BYTES * FRAMES \in Nat /\ (BYTES * FRAMES) % BYTES = 0
        /\ BYTES * CHUNK \in Nat /\ (BYTES * CHUNK) % BYTES = 0
    BY SoundAssumption, MultipleOf
  <1>2. BYTES * FRAMES >= 1 /\ BYTES * CHUNK >= 1
    BY SoundAssumption
  <1> QED BY <1>1, <1>2 DEF m_nQueueSize, ChunkBytes

\* What is available and what is free add up to the queue but for its free
\* byte, and the pointers move by single bytes.
LEMMA Space ==
  ASSUME m_nInPtr \in 0..(m_nQueueSize - 1), m_nOutPtr \in 0..(m_nQueueSize - 1)
  PROVE  /\ GetQueueBytesAvail \in 0..(BYTES * FRAMES)
         /\ GetQueueBytesFree = BYTES * FRAMES - GetQueueBytesAvail
         /\ Bump(m_nInPtr) \in 0..(m_nQueueSize - 1)
         /\ Bump(m_nOutPtr) \in 0..(m_nQueueSize - 1)
  <1> DEFINE N == BYTES * FRAMES
  <1>1. N \in Nat /\ N >= 1 /\ m_nQueueSize = N + 1
    BY Sizes
  <1> HIDE DEF N
  <1>2. /\ GetQueueBytesAvail \in 0..N
        /\ GetQueueBytesFree = N - GetQueueBytesAvail
    BY <1>1 DEF GetQueueBytesAvail, GetQueueBytesFree
  <1>3. Bump(m_nInPtr) \in 0..(m_nQueueSize - 1) /\ Bump(m_nOutPtr) \in 0..(m_nQueueSize - 1)
    BY <1>1 DEF Bump
  <1> QED BY <1>2, <1>3 DEF N

LEMMA InMoves ==
  ASSUME m_nInPtr \in 0..(m_nQueueSize - 1), m_nOutPtr \in 0..(m_nQueueSize - 1),
         GetQueueBytesFree >= 1, m_nInPtr' = Bump(m_nInPtr), m_nOutPtr' = m_nOutPtr
  PROVE  GetQueueBytesAvail' = GetQueueBytesAvail + 1
  <1> DEFINE N == BYTES * FRAMES
  <1>1. N \in Nat /\ N >= 1 /\ m_nQueueSize = N + 1
    BY Sizes
  <1>2. m_nQueueSize' = m_nQueueSize
    BY DEF m_nQueueSize
  <1> HIDE DEF N
  <1> QED BY <1>1, <1>2 DEF GetQueueBytesAvail, GetQueueBytesFree, Bump

LEMMA OutMoves ==
  ASSUME m_nInPtr \in 0..(m_nQueueSize - 1), m_nOutPtr \in 0..(m_nQueueSize - 1),
         GetQueueBytesAvail >= 1, m_nOutPtr' = Bump(m_nOutPtr), m_nInPtr' = m_nInPtr
  PROVE  GetQueueBytesAvail' = GetQueueBytesAvail - 1
  <1> DEFINE N == BYTES * FRAMES
  <1>1. N \in Nat /\ N >= 1 /\ m_nQueueSize = N + 1
    BY Sizes
  <1>2. m_nQueueSize' = m_nQueueSize
    BY DEF m_nQueueSize
  <1> HIDE DEF N
  <1> QED BY <1>1, <1>2 DEF GetQueueBytesAvail, Bump

LEMMA Stays ==
  ASSUME UNCHANGED fifo
  PROVE  GetQueueBytesAvail' = GetQueueBytesAvail /\ GetQueueBytesFree' = GetQueueBytesFree
  <1>1. m_nInPtr' = m_nInPtr /\ m_nOutPtr' = m_nOutPtr /\ m_nQueueSize' = m_nQueueSize
    BY DEF fifo, m_nQueueSize
  <1> QED BY <1>1 DEF GetQueueBytesAvail, GetQueueBytesFree

------------------------------------------------------------------------------
(* The inductive invariant.                                                  *)

\* What the actors rely on besides the properties: the counters of a call are
\* only in use during the call, the handler takes no more than there is, and it
\* does not run before Start is done.
Phases ==
  /\ pc2 # "write" => copied = 0
  /\ pcI \in {"idle", "wait"} => nBytes = 0 /\ taken = 0
  /\ pcI = "take" => nBytes - taken <= GetQueueBytesAvail
  /\ pcI = "pad" => taken = nBytes
  /\ (dma = "off") <=> (pc2 = "start")
  /\ pc2 \in {"start", "fill"} => pcI = "idle" /\ ~irq
  /\ pc2 = "fill" => m_nNextBuffer = 1 /\ playing = 0
  /\ ~late /\ dma = "on" => ~irq \/ pcI = "idle"

Inv == TypeOK /\ WholeFrames /\ NotWhilePlaying /\ Phases

LEMMA ByteFacts ==
  /\ \A k \in 1..ChunkBytes : SilentByte(k) \in Bytes
  /\ Silent \in [1..ChunkBytes -> Bytes]
  /\ \A f \in Frame, j \in 0..(BYTES - 1) : <<f, j>> \in Bytes
  <1>1. \A k \in 1..ChunkBytes : (k - 1) % BYTES \in 0..(BYTES - 1)
    BY Sizes, SoundAssumption
  <1>2. \A k \in 1..ChunkBytes : SilentByte(k) \in Bytes
    BY <1>1 DEF SilentByte, Bytes
  <1>3. Silent \in [1..ChunkBytes -> Bytes]
    BY <1>2 DEF Silent
  <1> QED BY <1>2, <1>3 DEF Bytes

LEMMA InvInit == Init => Inv
  <1> SUFFICES ASSUME Init PROVE Inv
    OBVIOUS
  <1>1. /\ m_nQueueSize \in Nat /\ m_nQueueSize >= 1 /\ 0 \in 0..(m_nQueueSize - 1)
        /\ 0 \in 0..ChunkBytes
    BY Sizes
  <1>2. <<Silence, 0>> \in Bytes
    BY SoundAssumption DEF Bytes
  <1>3. batch \in Seq(Frame) /\ Len(batch) = 0 /\ copied \in 0..(BYTES * Len(batch))
    BY SoundAssumption DEF Init
  <1>4. TypeOK
    <2>1. m_pQueue \in [0..(m_nQueueSize - 1) -> Bytes]
      BY <1>2 DEF Init
    <2>2. m_pDMABuffer \in [0..1 -> [1..ChunkBytes -> Bytes]]
      BY ByteFacts DEF Init
    <2>3. /\ m_nInPtr = 0 /\ m_nOutPtr = 0 /\ nBytes = 0 /\ taken = 0 /\ 0 \in 0..0
          /\ m_SpinLock = "none" /\ pc2 = "start" /\ m_State = "idle" /\ dma = "off" /\ pcI = "idle"
          /\ m_nNextBuffer \in 0..1 /\ playing \in 0..1 /\ irq \in BOOLEAN /\ late \in BOOLEAN
      BY DEF Init
    <2> QED BY <1>1, <1>3, <2>1, <2>2, <2>3 DEF TypeOK
  <1>5. GetQueueBytesAvail = 0 /\ 0 % BYTES = 0
    BY SoundAssumption DEF Init, GetQueueBytesAvail
  <1>6. WholeFrames
    BY <1>5 DEF Init, WholeFrames
  <1>7. NotWhilePlaying
    BY DEF Init, NotWhilePlaying
  <1>8. Phases
    BY DEF Init, Phases
  <1> QED BY <1>4, <1>6, <1>7, <1>8 DEF Inv

------------------------------------------------------------------------------
(* A step keeps the types.                                                   *)

LEMMA TypeStep == Inv /\ [Next]_vars => TypeOK'
  <1> SUFFICES ASSUME Inv, [Next]_vars PROVE TypeOK'
    OBVIOUS
  <1> USE DEF Inv, TypeOK, fifo, core2, buffers, channel, core0
  <1>0. m_nQueueSize' = m_nQueueSize /\ ChunkBytes' = ChunkBytes /\ Bytes' = Bytes
    BY DEF m_nQueueSize, ChunkBytes, Bytes
  <1>1. CASE StartDMA
    <2>1. m_pDMABuffer' \in [0..1 -> [1..ChunkBytes -> Bytes]]
      BY <1>1, ByteFacts DEF StartDMA
    <2> QED BY <1>0, <1>1, <2>1 DEF StartDMA
  <1>2. CASE StartFill
    <2>1. m_pDMABuffer' \in [0..1 -> [1..ChunkBytes -> Bytes]]
      BY <1>2, ByteFacts DEF StartFill
    <2> QED BY <1>0, <1>2, <2>1 DEF StartFill
  <1>3. ASSUME NEW s \in Batches, WriteCall(s) PROVE TypeOK'
    <2>1. batch' \in Seq(Frame) /\ Len(batch') \in Nat
      BY <1>3, SoundAssumption DEF WriteCall
    <2>2. copied' = 0
      BY <1>3 DEF WriteCall, Phases
    <2>3. copied' \in 0..(BYTES * Len(batch'))
      BY <2>1, <2>2, SoundAssumption, SMTT(30)
    <2> QED BY <1>0, <1>3, <2>1, <2>3 DEF WriteCall
  <1>4. CASE WriteLock
    BY <1>0, <1>4 DEF WriteLock
  <1>5. CASE WriteByte
    <2>1. /\ copied \div BYTES + 1 \in 1..Len(batch) /\ copied % BYTES \in 0..(BYTES - 1)
          /\ copied + 1 \in 0..(BYTES * Len(batch))
      <3>1. copied \in Nat /\ Len(batch) \in Nat /\ copied < BYTES * Len(batch)
        <4>1. BYTES * Len(batch) \in Nat
          BY SoundAssumption
        <4> QED BY <1>5, <4>1 DEF WriteByte, MoreToWrite
      <3> QED BY <3>1, SoundAssumption, FrameOfByte
    <2>2. batch[copied \div BYTES + 1] \in Frame
      BY <2>1
    <2>3. <<batch[copied \div BYTES + 1], copied % BYTES>> \in Bytes
      BY <2>1, <2>2, ByteFacts
    <2>4. m_pQueue' \in [0..(m_nQueueSize - 1) -> Bytes]
      BY <1>5, <2>3 DEF WriteByte
    <2>5. m_nInPtr' \in 0..(m_nQueueSize - 1)
      BY <1>5, Space DEF WriteByte
    <2>6. copied' \in 0..(BYTES * Len(batch'))
      BY <1>5, <2>1 DEF WriteByte
    <2> QED BY <1>0, <1>5, <2>4, <2>5, <2>6 DEF WriteByte
  <1>6. CASE WriteEnd
    <2>1. batch' \in Seq(Frame) /\ Len(batch') = 0 /\ copied' = 0
      BY <1>6 DEF WriteEnd
    <2>2. copied' \in 0..(BYTES * Len(batch'))
      BY <2>1, SoundAssumption
    <2> QED BY <1>0, <1>6, <2>1, <2>2 DEF WriteEnd
  <1>7. CASE ChunkDone
    <2>1. playing' \in 0..1
      BY <1>7 DEF ChunkDone
    <2> QED BY <1>0, <1>7, <2>1 DEF ChunkDone
  <1>8. CASE ChunkError
    BY <1>0, <1>8 DEF ChunkError
  <1>9. CASE Interrupt
    <2>1. m_State' \in {"idle", "running", "failed"} /\ pcI' \in {"idle", "wait", "take", "pad"}
      BY <1>9 DEF Interrupt
    <2> QED BY <1>0, <1>9, <2>1 DEF Interrupt
  <1>10. CASE GetLock
    <2>1. nBytes' \in 0..ChunkBytes /\ taken' \in 0..nBytes'
      BY <1>10, Space, Sizes DEF GetLock, Least
    <2> QED BY <1>0, <1>10, <2>1 DEF GetLock
  <1>11. CASE TakeByte
    <2>1. taken + 1 \in 1..ChunkBytes /\ taken' \in 0..nBytes'
      BY <1>11, Sizes DEF TakeByte
    <2>2. m_pQueue[m_nOutPtr] \in Bytes
      BY <1>11
    <2>3. [m_pDMABuffer[m_nNextBuffer] EXCEPT ![taken + 1] = m_pQueue[m_nOutPtr]]
             \in [1..ChunkBytes -> Bytes]
      BY <2>1, <2>2
    <2>4. m_pDMABuffer' \in [0..1 -> [1..ChunkBytes -> Bytes]]
      BY <1>11, <2>3 DEF TakeByte
    <2>5. m_nOutPtr' \in 0..(m_nQueueSize - 1)
      BY <1>11, Space DEF TakeByte
    <2> QED BY <1>0, <1>11, <2>1, <2>4, <2>5 DEF TakeByte
  <1>12. CASE GetUnlock
    BY <1>0, <1>12 DEF GetUnlock
  <1>13. CASE Pad
    <2> DEFINE filled == [k \in 1..ChunkBytes |->
                            IF k <= nBytes THEN m_pDMABuffer[m_nNextBuffer][k]
                            ELSE SilentByte(k - nBytes)]
    <2>1. ASSUME NEW k \in 1..ChunkBytes PROVE filled[k] \in Bytes
      <3>1. CASE k <= nBytes
        BY <3>1
      <3>2. CASE k > nBytes
        <4>1. k - nBytes \in 1..ChunkBytes
          BY <3>2, Sizes
        <4> QED BY <3>2, <4>1, ByteFacts
      <3> QED BY <3>1, <3>2, Sizes
    <2>2. filled \in [1..ChunkBytes -> Bytes]
      BY <2>1
    <2>3. m_pDMABuffer' = [m_pDMABuffer EXCEPT ![m_nNextBuffer] = filled]
      BY <1>13 DEF Pad
    <2> HIDE DEF filled
    <2>4. m_pDMABuffer' \in [0..1 -> [1..ChunkBytes -> Bytes]]
      BY <2>2, <2>3
    <2>5. m_nNextBuffer' \in 0..1 /\ nBytes' \in 0..ChunkBytes /\ taken' \in 0..nBytes'
      BY <1>13, Sizes DEF Pad
    <2> QED BY <1>0, <1>13, <2>4, <2>5 DEF Pad
  <1>14. CASE UNCHANGED vars
    BY <1>0, <1>14 DEF vars
  <1> QED BY <1>1, <1>2, <1>3, <1>4, <1>5, <1>6, <1>7, <1>8, <1>9, <1>10, <1>11, <1>12,
             <1>13, <1>14 DEF Next, Core2, Core0

------------------------------------------------------------------------------
(* A step keeps whole frames in the queue.                                   *)

\* A byte is only written where there is room for it: a frame that was begun
\* fits to its end, because the queue holds whole frames besides it.
LEMMA RoomForByte ==
  ASSUME Inv, WriteByte
  PROVE  GetQueueBytesFree >= 1
  <1>1. /\ GetQueueBytesFree = BYTES * FRAMES - GetQueueBytesAvail
        /\ GetQueueBytesAvail \in 0..(BYTES * FRAMES)
    BY Space DEF Inv, TypeOK
  <1>2. CASE copied % BYTES = 0
    <2>1. GetQueueBytesFree >= BYTES
      BY <1>2 DEF WriteByte, MoreToWrite
    <2> QED BY <1>1, <2>1, Sizes, SoundAssumption
  <1>3. CASE copied % BYTES # 0
    <2>1. pc2 = "write" /\ pcI # "take"
      BY DEF WriteByte, Inv, WholeFrames
    <2>2. (GetQueueBytesAvail + 0) % BYTES = copied % BYTES
      BY <2>1 DEF Inv, WholeFrames
    <2>3. GetQueueBytesAvail # BYTES * FRAMES
      BY <1>1, <1>3, <2>2, Sizes
    <2> QED BY <1>1, <2>3, Sizes
  <1> QED BY <1>2, <1>3

LEMMA WholeStep == Inv /\ [Next]_vars => WholeFrames'
  <1> SUFFICES ASSUME Inv, [Next]_vars PROVE WholeFrames'
    OBVIOUS
  <1> DEFINE avail == GetQueueBytesAvail
             had   == IF pcI = "take" THEN taken ELSE 0
             wrote == IF pc2 = "write" THEN copied ELSE 0
  <1>0. /\ avail \in Nat /\ had \in Nat /\ wrote \in Nat /\ nBytes \in Nat /\ taken \in Nat
        /\ copied \in Nat /\ copied = wrote
        /\ (avail + had) % BYTES = wrote % BYTES
        /\ nBytes % BYTES = 0 /\ BYTES \in Nat \ {0} /\ 0 % BYTES = 0
    <2>1. avail \in Nat /\ nBytes \in Nat /\ taken \in Nat /\ copied \in Nat
      <3>1. BYTES * Len(batch) \in Nat /\ ChunkBytes \in Nat /\ BYTES * FRAMES \in Nat
        BY SoundAssumption, Sizes DEF Inv, TypeOK
      <3>2. avail \in 0..(BYTES * FRAMES)
        BY Space DEF Inv, TypeOK
      <3> QED BY <3>1, <3>2 DEF Inv, TypeOK
    <2>2. copied = wrote
      BY DEF Inv, Phases
    <2>3. 0 % BYTES = 0
      BY SoundAssumption
    <2> QED BY <2>1, <2>2, <2>3, SoundAssumption DEF Inv, WholeFrames
  <1>1. CASE StartDMA \/ StartFill \/ ChunkDone \/ ChunkError \/ Interrupt
        \/ (\E s \in Batches : WriteCall(s)) \/ UNCHANGED vars
    <2>1. /\ UNCHANGED <<fifo, m_SpinLock, nBytes, taken>>
          /\ (pc2 = "write") <=> (pc2' = "write")
          /\ (pcI = "take") <=> (pcI' = "take")
          /\ pc2 = "write" => copied' = copied
      BY <1>1 DEF StartDMA, StartFill, ChunkDone, ChunkError, Interrupt, WriteCall, vars,
                  core2, core0
    <2>2. avail' = avail
      BY <2>1, Stays
    <2> QED BY <1>0, <2>1, <2>2 DEF Inv, WholeFrames
  <1>2. CASE WriteLock
    <2>1. avail' = avail
      BY <1>2, Stays DEF WriteLock
    <2>2. copied = 0 /\ pcI # "take" /\ pcI' = pcI /\ taken' = taken /\ nBytes' = nBytes
      BY <1>2 DEF WriteLock, core0, Inv, WholeFrames, Phases
    <2> QED BY <1>0, <1>2, <2>1, <2>2 DEF WriteLock, Inv, WholeFrames
  <1>3. CASE WriteByte
    <2>1. pcI # "take" /\ pcI' = pcI /\ taken' = taken /\ nBytes' = nBytes
      BY <1>3 DEF WriteByte, core0, Inv, WholeFrames
    <2>2. GetQueueBytesFree >= 1
      BY <1>3, RoomForByte
    <2>3. avail' = avail + 1
      BY <1>3, <2>2, InMoves DEF WriteByte, Inv, TypeOK
    <2>4. (avail + 1) % BYTES = (copied + 1) % BYTES
      <3>1. avail + had = avail
        BY <1>0, <2>1
      <3>2. avail % BYTES = copied % BYTES
        BY <1>0, <3>1
      <3> HIDE DEF avail
      <3> QED BY <1>0, <3>2, SameNext
    <2>5. copied' = copied + 1 /\ pc2 = "write" /\ pc2' = "write" /\ m_SpinLock' = m_SpinLock
      BY <1>3 DEF WriteByte
    <2>6. avail + 1 + 0 = avail + 1
      BY <1>0
    <2> QED BY <1>0, <2>1, <2>3, <2>4, <2>5, <2>6 DEF Inv, WholeFrames
  <1>4. CASE WriteEnd
    <2>1. avail' = avail
      BY <1>4, Stays DEF WriteEnd
    <2>2. pcI # "take" /\ pcI' = pcI /\ taken' = taken /\ nBytes' = nBytes
      BY <1>4 DEF WriteEnd, core0, Inv, WholeFrames
    <2>3. copied % BYTES = 0
      <3>1. Len(batch) \in Nat /\ BYTES * Len(batch) \in Nat /\ (BYTES * Len(batch)) % BYTES = 0
        <4>1. Len(batch) \in Nat
          BY DEF Inv, TypeOK
        <4> QED BY <4>1, SoundAssumption, MultipleOf
      <3>2. copied = BYTES * Len(batch) \/ copied % BYTES = 0
        BY <1>0, <1>4, <3>1 DEF WriteEnd, MoreToWrite, Inv, TypeOK
      <3> QED BY <3>1, <3>2
    <2>4. pc2' = "poll" /\ m_SpinLock' = "none"
      BY <1>4 DEF WriteEnd
    <2> QED BY <1>0, <2>1, <2>2, <2>3, <2>4 DEF Inv, WholeFrames
  <1>5. CASE GetLock
    <2>1. avail' = avail
      BY <1>5, Stays DEF GetLock
    <2>2. pc2 # "write" /\ pc2' = pc2 /\ taken' = 0 /\ pcI' = "take" /\ m_SpinLock' = "irq"
          /\ had = 0 /\ wrote = 0
      BY <1>5 DEF GetLock, core2, Inv, WholeFrames
    <2>3. nBytes' % BYTES = 0
      <3>1. avail % BYTES = 0
        BY <1>0, <2>2
      <3>2. nBytes' = Least(avail, ChunkBytes)
        BY <1>5 DEF GetLock
      <3>3. nBytes' = avail \/ nBytes' = ChunkBytes
        BY <3>2 DEF Least
      <3> QED BY <3>1, <3>3, Sizes
    <2> QED BY <1>0, <2>1, <2>2, <2>3 DEF Inv, WholeFrames
  <1>6. CASE TakeByte
    <2>1. pcI = "take" /\ pcI' = "take" /\ pc2 # "write" /\ pc2' = pc2 /\ taken' = taken + 1
          /\ m_SpinLock' = m_SpinLock /\ nBytes' = nBytes /\ taken < nBytes
      BY <1>6 DEF TakeByte, core2, Inv, WholeFrames
    <2>2. avail >= 1
      BY <1>0, <2>1 DEF Inv, Phases
    <2>3. avail' = avail - 1
      BY <1>6, <2>2, OutMoves DEF TakeByte, Inv, TypeOK
    <2>4. avail - 1 + (taken + 1) = avail + taken
      BY <1>0
    <2> QED BY <1>0, <2>1, <2>3, <2>4 DEF Inv, WholeFrames
  <1>7. CASE GetUnlock
    <2>1. avail' = avail
      BY <1>7, Stays DEF GetUnlock
    <2>2. pcI = "take" /\ pcI' = "pad" /\ pc2 # "write" /\ pc2' = pc2 /\ m_SpinLock' = "none"
          /\ nBytes' = nBytes /\ taken = nBytes
      BY <1>7 DEF GetUnlock, core2, Inv, WholeFrames
    <2>3. avail % BYTES = 0
      BY <1>0, <2>2, Multiples
    <2> QED BY <1>0, <2>1, <2>2, <2>3 DEF Inv, WholeFrames
  <1>8. CASE Pad
    <2>1. avail' = avail
      BY <1>8, Stays DEF Pad
    <2>2. pcI = "pad" /\ pcI' = "idle" /\ pc2' = pc2 /\ copied' = copied /\ m_SpinLock' = m_SpinLock
          /\ nBytes' = 0
      BY <1>8 DEF Pad, core2
    <2> QED BY <1>0, <2>1, <2>2 DEF Inv, WholeFrames
  <1> QED BY <1>1, <1>2, <1>3, <1>4, <1>5, <1>6, <1>7, <1>8 DEF Next, Core2, Core0

------------------------------------------------------------------------------
(* A step keeps the handler off the buffer that is played.                   *)

LEMMA PlayStep == Inv /\ [Next]_vars => NotWhilePlaying' /\ Phases'
  <1> SUFFICES ASSUME Inv, [Next]_vars PROVE NotWhilePlaying' /\ Phases'
    OBVIOUS
  <1> USE DEF fifo, core2, buffers, channel, core0
  <1>0. /\ m_nNextBuffer \in 0..1 /\ playing \in 0..1 /\ irq \in BOOLEAN /\ late \in BOOLEAN
        /\ nBytes \in Nat /\ taken \in 0..nBytes /\ GetQueueBytesAvail \in Nat
    <2>1. nBytes \in 0..ChunkBytes /\ GetQueueBytesAvail \in 0..(BYTES * FRAMES)
      BY Space DEF Inv, TypeOK
    <2> QED BY <2>1, Sizes DEF Inv, TypeOK
  <1>1. CASE StartDMA
    <2>1. GetQueueBytesAvail' = GetQueueBytesAvail
      BY <1>1, Stays DEF StartDMA
    <2> QED BY <1>0, <1>1, <2>1 DEF StartDMA, Inv, NotWhilePlaying, Phases
  <1>2. CASE StartFill
    <2>1. GetQueueBytesAvail' = GetQueueBytesAvail
      BY <1>2, Stays DEF StartFill
    <2> QED BY <1>0, <1>2, <2>1 DEF StartFill, Inv, NotWhilePlaying, Phases
  <1>3. CASE (\E s \in Batches : WriteCall(s)) \/ WriteLock \/ WriteEnd
    <2>1. GetQueueBytesAvail' = GetQueueBytesAvail
      BY <1>3, Stays DEF WriteCall, WriteLock, WriteEnd
    <2>2. /\ pc2 \in {"poll", "wait", "write"} /\ pc2' \in {"poll", "wait", "write"}
          /\ pc2' # "write" => copied' = 0
          /\ UNCHANGED <<buffers, channel, core0>>
      BY <1>3 DEF WriteCall, WriteLock, WriteEnd, Inv, Phases
    <2> QED BY <1>0, <2>1, <2>2 DEF Inv, NotWhilePlaying, Phases
  <1>4. CASE WriteByte
    <2>1. pc2 = "write" /\ pc2' = "write" /\ pcI # "take" /\ UNCHANGED <<buffers, channel, core0>>
      BY <1>4 DEF WriteByte, Inv, WholeFrames
    <2> QED BY <1>0, <2>1 DEF Inv, NotWhilePlaying, Phases
  <1>5. CASE ChunkDone
    <2>1. GetQueueBytesAvail' = GetQueueBytesAvail
      BY <1>5, Stays DEF ChunkDone
    <2>2. UNCHANGED <<core2, core0, m_nNextBuffer, dma>> /\ dma = "on" /\ pc2 # "fill"
          /\ irq' = TRUE /\ playing' = 1 - playing
      BY <1>5 DEF ChunkDone
    <2>3. ~late' => ~late /\ ~irq /\ pcI = "idle"
      BY <1>5 DEF ChunkDone
    <2>4. ~late' => m_nNextBuffer' # playing'
      BY <1>0, <2>2, <2>3 DEF Inv, NotWhilePlaying
    <2>5. pc2' \notin {"start", "fill"}
      BY <2>2 DEF Inv, Phases
    <2>6. NotWhilePlaying'
      BY <2>2, <2>3, <2>4 DEF NotWhilePlaying
    <2>7. Phases'
      BY <2>1, <2>2, <2>3, <2>5 DEF Inv, Phases
    <2> QED BY <2>6, <2>7
  <1>6. CASE ChunkError
    <2>1. GetQueueBytesAvail' = GetQueueBytesAvail
      BY <1>6, Stays DEF ChunkError
    <2>2. UNCHANGED <<core2, core0, m_nNextBuffer, playing, late>> /\ dma = "on" /\ dma' = "error"
          /\ pc2 # "fill"
      BY <1>6 DEF ChunkError
    <2> QED BY <2>1, <2>2 DEF Inv, NotWhilePlaying, Phases
  <1>7. CASE Interrupt
    <2>1. GetQueueBytesAvail' = GetQueueBytesAvail
      BY <1>7, Stays DEF Interrupt
    <2>2. UNCHANGED <<core2, m_nNextBuffer, playing, dma, late, nBytes, taken>>
          /\ irq /\ ~irq' /\ pcI = "idle" /\ pcI' = IF dma = "error" THEN "idle" ELSE "wait"
      BY <1>7 DEF Interrupt
    <2>3. dma \in {"on", "error"} /\ pc2 \notin {"start", "fill"}
      BY <2>2 DEF Inv, TypeOK, Phases
    <2>4. NotWhilePlaying'
      BY <2>2, <2>3 DEF Inv, NotWhilePlaying
    <2>5. Phases'
      BY <2>1, <2>2, <2>3 DEF Inv, Phases
    <2> QED BY <2>4, <2>5
  <1>8. CASE GetLock
    <2>1. GetQueueBytesAvail' = GetQueueBytesAvail
      BY <1>8, Stays DEF GetLock
    <2>2. UNCHANGED <<core2, buffers, channel>> /\ pcI = "wait" /\ pcI' = "take" /\ taken' = 0
          /\ nBytes' = Least(GetQueueBytesAvail, ChunkBytes)
      BY <1>8 DEF GetLock
    <2>3. nBytes' - taken' <= GetQueueBytesAvail
      BY <1>0, <2>2, Sizes DEF Least
    <2> QED BY <2>1, <2>2, <2>3 DEF Inv, NotWhilePlaying, Phases
  <1>9. CASE TakeByte
    <2>1. UNCHANGED <<core2, m_nNextBuffer, channel, pcI, nBytes>> /\ pcI = "take"
          /\ taken' = taken + 1 /\ taken < nBytes
      BY <1>9 DEF TakeByte
    <2>2. GetQueueBytesAvail' = GetQueueBytesAvail - 1
      <3>1. GetQueueBytesAvail >= 1
        BY <1>0, <2>1 DEF Inv, Phases
      <3> QED BY <1>9, <3>1, OutMoves DEF TakeByte, Inv, TypeOK
    <2>3. nBytes' - taken' <= GetQueueBytesAvail'
      BY <1>0, <2>1, <2>2 DEF Inv, Phases
    <2> QED BY <2>1, <2>3 DEF Inv, NotWhilePlaying, Phases
  <1>10. CASE GetUnlock
    <2>1. UNCHANGED <<core2, buffers, channel, nBytes, taken>> /\ pcI = "take" /\ pcI' = "pad"
          /\ taken = nBytes
      BY <1>10 DEF GetUnlock
    <2> QED BY <2>1 DEF Inv, NotWhilePlaying, Phases
  <1>11. CASE Pad
    <2>1. UNCHANGED <<core2, channel>> /\ pcI = "pad" /\ pcI' = "idle" /\ nBytes' = 0 /\ taken' = 0
          /\ m_nNextBuffer' = 1 - m_nNextBuffer
      BY <1>11 DEF Pad
    <2>2. pc2 \notin {"start", "fill"} /\ (~late /\ dma = "on" => ~irq)
      BY <2>1 DEF Inv, Phases
    <2>3. NotWhilePlaying'
      BY <1>0, <2>1, <2>2 DEF Inv, NotWhilePlaying
    <2>4. Phases'
      BY <2>1, <2>2 DEF Inv, Phases
    <2> QED BY <2>3, <2>4
  <1>12. CASE UNCHANGED vars
    <2>1. GetQueueBytesAvail' = GetQueueBytesAvail
      BY <1>12, Stays DEF vars
    <2> QED BY <1>12, <2>1 DEF vars, Inv, NotWhilePlaying, Phases
  <1> QED BY <1>1, <1>2, <1>3, <1>4, <1>5, <1>6, <1>7, <1>8, <1>9, <1>10, <1>11, <1>12
          DEF Next, Core2, Core0

------------------------------------------------------------------------------
(* Theorems.                                                                 *)

LEMMA InvHolds == Spec => []Inv
  <1>1. Init => Inv
    BY InvInit
  <1>2. Inv /\ [Next]_vars => Inv'
    BY TypeStep, WholeStep, PlayStep DEF Inv
  <1> QED BY <1>1, <1>2, PTL DEF Spec

\* Types: the queue's pointers and the bytes of a chunk stay in their arrays,
\* for every frame size, queue and chunk (soundbasedevice.cpp:862-924).
THEOREM TypeCorrect == Spec => []TypeOK
  <1>1. Inv => TypeOK
    BY DEF Inv
  <1> QED BY <1>1, InvHolds, PTL

\* The queue holds whole frames whenever its lock is free, and every chunk is
\* cut from it at a frame boundary, so that padding by frames never runs past
\* the end of a DMA buffer (soundbasedevice.cpp:806-812).
THEOREM FramesStayWhole == Spec => []WholeFrames
  <1>1. Inv => WholeFrames
    BY DEF Inv
  <1> QED BY <1>1, InvHolds, PTL

\* As long as every interrupt is served before the other buffer is played out,
\* the handler fills the buffer that the DMA does not read
\* (dmasoundbuffers.cpp:242-276).
THEOREM HandlerAvoidsPlayedBuffer == Spec => []NotWhilePlaying
  <1>1. Inv => NotWhilePlaying
    BY DEF Inv
  <1> QED BY <1>1, InvHolds, PTL

------------------------------------------------------------------------------
(* Bytes and frames.                                                         *)

\* Where byte j of frame i is in a sequence of bytes.
Place(i, j) == (i - 1) * BYTES + j

LEMMA PlaceIn ==
  ASSUME NEW n \in Nat, NEW i \in 1..n, NEW j \in 1..BYTES
  PROVE  /\ Place(i, j) \in 1..(BYTES * n)
         /\ Place(i, j) \in Nat /\ BYTES * n \in Nat
  <1>1. (i - 1) * BYTES + BYTES <= n * BYTES
    <2>1. PICK d \in Nat : n = i + d
      <3>1. n - i \in Nat /\ n = i + (n - i)
        OBVIOUS
      <3> QED BY <3>1
    <2>2. n * BYTES = (i - 1) * BYTES + BYTES + d * BYTES
      BY <2>1, SoundAssumption
    <2>3. d * BYTES >= 0 /\ (i - 1) * BYTES \in Int /\ d * BYTES \in Int
      BY SoundAssumption
    <2> QED BY <2>2, <2>3, SoundAssumption
  <1>2. (i - 1) * BYTES >= 0 /\ (i - 1) * BYTES \in Int
    BY SoundAssumption
  <1>3. BYTES * n = n * BYTES /\ n * BYTES \in Int
    BY SoundAssumption
  <1> QED BY <1>1, <1>2, <1>3, SoundAssumption DEF Place

\* The frame and the place of a byte that is counted from 0.
LEMMA PlaceOf ==
  ASSUME NEW i \in Nat \ {0}, NEW j \in 1..BYTES
  PROVE  /\ (Place(i, j) - 1) \div BYTES + 1 = i
         /\ (Place(i, j) - 1) % BYTES = j - 1
  <1>1. Place(i, j) - 1 = (i - 1) * BYTES + (j - 1) /\ j - 1 \in 0..(BYTES - 1)
        /\ Place(i, j) - 1 \in Nat
    <2>1. (i - 1) * BYTES >= 0 /\ (i - 1) * BYTES \in Int
      BY SoundAssumption
    <2> QED BY <2>1, SoundAssumption DEF Place
  <1> DEFINE x == Place(i, j) - 1
  <1>2. x \in Nat /\ Splits(BYTES, x, i - 1, j - 1)
    BY <1>1, SoundAssumption DEF Splits
  <1> HIDE DEF x
  <1>3. x % BYTES = j - 1
    BY <1>2, SoundAssumption, Remainder
  <1>s. Splits(BYTES, x, x \div BYTES, x % BYTES)
    BY <1>2, SoundAssumption, Quotient
  <1>t. x \div BYTES \in Int /\ x = (x \div BYTES) * BYTES + (x % BYTES)
    BY <1>s DEF Splits
  <1>4. PICK q \in Int : q = x \div BYTES /\ x = q * BYTES + (j - 1)
    BY <1>3, <1>t
  <1>5. (q - (i - 1)) * BYTES = 0
    BY <1>2, <1>4, SoundAssumption DEF Splits
  <1>6. q = i - 1
    BY <1>5, SoundAssumption
  <1> QED BY <1>3, <1>4, <1>6 DEF x

\* Bytes of a second part follow those of the first.
LEMMA PlaceAfter ==
  ASSUME NEW n \in Nat, NEW i \in Nat \ {0}, NEW j \in 1..BYTES
  PROVE  Place(n + i, j) = BYTES * n + Place(i, j)
  <1>1. (n + i - 1) * BYTES = BYTES * n + (i - 1) * BYTES
    BY SoundAssumption
  <1>2. (i - 1) * BYTES \in Int /\ BYTES * n \in Int
    BY SoundAssumption
  <1> QED BY <1>1, <1>2, SoundAssumption DEF Place

\* The bytes b are those of the frames f.
Spells(b, f) == /\ Len(b) = BYTES * Len(f)
                /\ \A i \in 1..Len(f), j \in 1..BYTES : b[Place(i, j)] = <<f[i], j - 1>>

LEMMA FramesAre ==
  ASSUME NEW S, NEW f \in Seq(S), NEW b, Spells(b, f)
  PROVE  FramesOf(b) = f
  <1>1. Len(f) \in Nat /\ f = [i \in 1..Len(f) |-> f[i]]
    OBVIOUS
  <1>2. Len(b) \div BYTES = Len(f)
    BY <1>1, SoundAssumption, SMTT(30) DEF Spells
  <1> DEFINE whole(i) == \A j \in 1..BYTES :
                            b[(i - 1) * BYTES + j] = <<b[(i - 1) * BYTES + 1][1], j - 1>>
             frame(i) == IF whole(i) THEN b[(i - 1) * BYTES + 1][1] ELSE Torn
  <1>3. ASSUME NEW i \in 1..Len(f) PROVE frame(i) = f[i]
    <2>1. ASSUME NEW j \in 1..BYTES PROVE b[(i - 1) * BYTES + j] = <<f[i], j - 1>>
      BY <1>1 DEF Spells, Place
    <2>2. 1 \in 1..BYTES
      BY SoundAssumption
    <2>3. b[(i - 1) * BYTES + 1][1] = f[i]
      BY <2>1, <2>2
    <2>4. whole(i)
      BY <2>1, <2>3
    <2> QED BY <2>3, <2>4
  <1>4. FramesOf(b) = [i \in 1..Len(f) |-> frame(i)]
    BY <1>2 DEF FramesOf
  <1> HIDE DEF frame
  <1>5. [i \in 1..Len(f) |-> frame(i)] = [i \in 1..Len(f) |-> f[i]]
    BY <1>3
  <1> QED BY <1>1, <1>4, <1>5

\* The frames of the game, up to the silence after them, are all there are.
LEMMA GameFramesAre ==
  ASSUME NEW f \in Seq(Frame), Len(f) <= CHUNK, NEW b,
         Spells(b, [i \in 1..CHUNK |-> IF i <= Len(f) THEN f[i] ELSE Silence])
  PROVE  GameFrames(FramesOf(b)) = f
  <1> DEFINE g == [i \in 1..CHUNK |-> IF i <= Len(f) THEN f[i] ELSE Silence]
             S == Frame \cup {Silence}
  <1>0. Len(f) \in Nat /\ f \in [1..Len(f) -> Frame] /\ CHUNK \in Nat
    BY SoundAssumption
  <1>1. g \in Seq(S) /\ Len(g) = CHUNK /\ \A i \in 1..CHUNK : g[i] \in S
    <2>1. g \in [1..CHUNK -> S]
      BY <1>0
    <2> QED BY <1>0, <2>1
  <1>2. FramesOf(b) = g
    <2> HIDE DEF g, S
    <2> QED BY <1>1, FramesAre DEF g
  <1>3. {i \in 1..CHUNK : g[i] # Silence} = 1..Len(f)
    <2>1. ASSUME NEW i \in 1..CHUNK PROVE (g[i] # Silence) <=> (i \in 1..Len(f))
      BY <1>0, SoundAssumption
    <2> HIDE DEF g
    <2> QED BY <1>0, <2>1
  <1>4. Cardinality(1..Len(f)) = Len(f)
    <2>1. 1 \in Int /\ Len(f) \in Int
      BY <1>0
    <2>2. /\ IsFiniteSet(1..Len(f))
          /\ Cardinality(1..Len(f)) = IF 1 > Len(f) THEN 0 ELSE Len(f) - 1 + 1
      BY <2>1, FS_Interval
    <2> QED BY <1>0, <2>2
  <1>5. SubSeq(g, 1, Len(f)) = f
    <2>1. \A i \in 1..Len(f) : g[i] = f[i] /\ f[i] \in Frame
      BY <1>0
    <2> HIDE DEF g
    <2>2. /\ SubSeq(g, 1, Len(f)) \in Seq(Frame)
          /\ Len(SubSeq(g, 1, Len(f))) = IF 1 <= Len(f) THEN Len(f) - 1 + 1 ELSE 0
          /\ \A i \in 1..(Len(f) - 1 + 1) : SubSeq(g, 1, Len(f))[i] = g[1 + i - 1]
      BY <1>0, <2>1, SubSeqProperties
    <2>3. Len(SubSeq(g, 1, Len(f))) = Len(f)
      BY <1>0, <2>2
    <2>4. ASSUME NEW i \in 1..Len(f) PROVE SubSeq(g, 1, Len(f))[i] = f[i]
      <3>1. 1 + i - 1 = i /\ i \in 1..(Len(f) - 1 + 1)
        BY <1>0
      <3> QED BY <2>1, <2>2, <3>1
    <2> QED BY <2>2, <2>3, <2>4, SeqEqual
  <1> HIDE DEF g
  <1>6. GameFrames(g) = f
    BY <1>3, <1>4, <1>5 DEF GameFrames
  <1> QED BY <1>2, <1>6

------------------------------------------------------------------------------
(* The bytes of the queue, wherever it wraps.                                *)

\* The slot d bytes behind p.
Slot(p, d) == IF p + d < m_nQueueSize THEN p + d ELSE p + d - m_nQueueSize

LEMMA Slots ==
  ASSUME NEW p \in 0..(m_nQueueSize - 1), NEW d \in 0..(m_nQueueSize - 1)
  PROVE  /\ Slot(p, d) \in 0..(m_nQueueSize - 1)
         /\ (p + d) % m_nQueueSize = Slot(p, d)
         /\ Slot(p, 0) = p
         /\ \A e \in 0..(m_nQueueSize - 1) : e # d => Slot(p, e) # Slot(p, d)
         /\ d + 1 \in 0..(m_nQueueSize - 1) => Slot(Bump(p), d) = Slot(p, d + 1)
  <1>1. m_nQueueSize \in Nat /\ m_nQueueSize >= 1
    BY Sizes
  <1> DEFINE N == m_nQueueSize
  <1> HIDE DEF N
  <1>2. N \in Nat \ {0} /\ p \in 0..(N - 1) /\ d \in 0..(N - 1)
    BY <1>1 DEF N
  <1>3. (p + d) % N = IF p + d < N THEN p + d ELSE p + d - N
    <2>1. CASE p + d < N
      BY <1>2, <2>1
    <2>2. CASE p + d >= N
      <3>1. Splits(N, p + d, 1, p + d - N)
        BY <1>2, <2>2 DEF Splits
      <3>2. p + d \in Int
        BY <1>2
      <3>3. (p + d) % N = p + d - N
        BY <1>2, <3>1, <3>2, Remainder
      <3> QED BY <1>2, <2>2, <3>3
    <2> QED BY <1>2, <2>1, <2>2
  <1>4. (p + d) % m_nQueueSize = Slot(p, d)
    BY <1>3 DEF N, Slot
  <1> QED BY <1>1, <1>4 DEF Slot, Bump

\* Where the queue goes on being written.
LEMMA InSlot ==
  ASSUME m_nInPtr \in 0..(m_nQueueSize - 1), m_nOutPtr \in 0..(m_nQueueSize - 1)
  PROVE  m_nInPtr = Slot(m_nOutPtr, GetQueueBytesAvail)
  <1>1. m_nQueueSize \in Nat
    BY Sizes
  <1> QED BY <1>1 DEF GetQueueBytesAvail, Slot

\* The bytes that were dequeued into the buffer and the bytes behind them.
Had  == IF pcI = "take" THEN taken ELSE 0
Kept == Had + GetQueueBytesAvail - Written
ByteAt(k) == IF k <= Had THEN m_pDMABuffer[m_nNextBuffer][k]
             ELSE m_pQueue[Slot(m_nOutPtr, k - Had - 1)]

LEMMA Numbers ==
  ASSUME Inv
  PROVE  /\ GetQueueBytesAvail \in 0..(BYTES * FRAMES) /\ BYTES * FRAMES \in Nat
         /\ GetQueueBytesFree = BYTES * FRAMES - GetQueueBytesAvail
         /\ m_nQueueSize = BYTES * FRAMES + 1
         /\ taken \in Nat /\ nBytes \in 0..ChunkBytes /\ ChunkBytes \in Nat /\ taken <= nBytes
         /\ copied \in Nat /\ Len(batch) \in Nat /\ BYTES * Len(batch) \in Nat
         /\ copied <= BYTES * Len(batch)
         /\ Had \in Nat /\ Written = copied
         /\ (pcI = "take" => pc2 # "write")
  <1>1. BYTES * FRAMES \in Nat /\ m_nQueueSize = BYTES * FRAMES + 1 /\ ChunkBytes \in Nat
    BY Sizes
  <1>2. /\ GetQueueBytesAvail \in 0..(BYTES * FRAMES)
        /\ GetQueueBytesFree = BYTES * FRAMES - GetQueueBytesAvail
    BY Space DEF Inv, TypeOK
  <1>3. /\ taken \in Nat /\ nBytes \in 0..ChunkBytes /\ taken <= nBytes
    BY <1>1 DEF Inv, TypeOK
  <1>4. Len(batch) \in Nat /\ BYTES * Len(batch) \in Nat
    BY SoundAssumption DEF Inv, TypeOK
  <1>5. copied \in Nat /\ copied <= BYTES * Len(batch)
    BY <1>4 DEF Inv, TypeOK
  <1>6. Had \in Nat
    BY <1>3 DEF Had
  <1>7. Written = copied
    BY DEF Written, Inv, Phases
  <1>8. pcI = "take" => pc2 # "write"
    BY DEF Inv, WholeFrames
  <1> QED BY <1>1, <1>2, <1>3, <1>4, <1>5, <1>6, <1>7, <1>8

\* The queue holds the frames f.
Holds(f) == /\ f \in Seq(Frame)
            /\ BYTES * Len(f) = Kept
            /\ \A i \in 1..Len(f), j \in 1..BYTES : ByteAt(Place(i, j)) = <<f[i], j - 1>>

\* While the handler dequeues, nothing is being written.
LEMMA KeptIs ==
  ASSUME Inv, NEW f, Holds(f)
  PROVE  /\ Len(f) \in Nat /\ Kept \in Nat
         /\ GetQueueBytesAvail - Written \in Nat
         /\ Kept = Had + (GetQueueBytesAvail - Written)
         /\ pcI = "take" => Written = 0 /\ Had = taken
         /\ pcI # "take" => Had = 0
  <1>1. Len(f) \in Nat /\ Kept \in Nat
    BY SoundAssumption DEF Holds
  <1>2. pcI = "take" => Written = 0 /\ Had = taken
    BY Numbers DEF Written, Had
  <1>3. pcI # "take" => Had = 0
    BY DEF Had
  <1>4. GetQueueBytesAvail - Written \in Int
    BY Numbers
  <1>5. Kept = Had + (GetQueueBytesAvail - Written)
    BY Numbers DEF Kept
  <1>6. GetQueueBytesAvail - Written >= 0
    <2>1. CASE pcI = "take"
      BY <1>2, <2>1, Numbers
    <2>2. CASE pcI # "take"
      BY <1>1, <1>3, <1>4, <1>5, <2>2
    <2> QED BY <2>1, <2>2
  <1> QED BY <1>1, <1>2, <1>3, <1>4, <1>5, <1>6

LEMMA QueuedIs ==
  ASSUME Inv, NEW f, Holds(f)
  PROVE  queued = f
  <1> DEFINE n == GetQueueBytesAvail - Written
             head == IF pcI = "take" THEN Dequeued ELSE <<>>
  <1>1. /\ n \in Nat /\ n <= m_nQueueSize - 1 /\ Kept = Had + n /\ Had \in Nat /\ Kept \in Nat
        /\ Len(f) \in Nat /\ m_nQueueSize \in Nat
    <2>1. n \in Nat /\ Kept = Had + n /\ Kept \in Nat /\ Len(f) \in Nat
      BY KeptIs
    <2>2. /\ Had \in Nat /\ m_nQueueSize \in Nat /\ GetQueueBytesAvail <= m_nQueueSize - 1
          /\ Written \in Nat /\ GetQueueBytesAvail \in Nat
      BY Numbers
    <2> QED BY <2>1, <2>2
  <1>2. ASSUME NEW k \in 1..n
        PROVE  /\ Ahead(n)[k] = m_pQueue[Slot(m_nOutPtr, k - 1)]
               /\ Ahead(n)[k] \in Bytes
    <2>1. k - 1 \in 0..(m_nQueueSize - 1) /\ m_nOutPtr \in 0..(m_nQueueSize - 1)
          /\ m_nOutPtr + k - 1 = m_nOutPtr + (k - 1)
      BY <1>1 DEF Inv, TypeOK
    <2>2. /\ (m_nOutPtr + (k - 1)) % m_nQueueSize = Slot(m_nOutPtr, k - 1)
          /\ Slot(m_nOutPtr, k - 1) \in 0..(m_nQueueSize - 1)
      BY <2>1, Slots
    <2>3. Ahead(n)[k] = m_pQueue[Slot(m_nOutPtr, k - 1)]
      BY <2>1, <2>2 DEF Ahead
    <2> QED BY <2>2, <2>3 DEF Inv, TypeOK
  <1>3. Ahead(n) \in Seq(Bytes) /\ Len(Ahead(n)) = n
    <2>1. Ahead(n) \in [1..n -> Bytes]
      <3>1. Ahead(n) = [k \in 1..n |-> Ahead(n)[k]]
        BY DEF Ahead
      <3> HIDE DEF n
      <3> QED BY <1>2, <3>1
    <2> HIDE DEF n
    <2> QED BY <1>1, <2>1
  <1>4. /\ head \in Seq(Bytes) /\ Len(head) = Had
        /\ \A k \in 1..Had : head[k] = m_pDMABuffer[m_nNextBuffer][k]
    <2>1. CASE pcI = "take"
      <3>1. Had = taken /\ head = Dequeued /\ taken \in Nat
        BY <2>1, <1>1 DEF Had
      <3>2. ASSUME NEW k \in 1..taken
            PROVE  m_pDMABuffer[m_nNextBuffer][k] \in Bytes
        <4>1. k \in 1..ChunkBytes
          BY <3>1, Numbers
        <4> QED BY <4>1 DEF Inv, TypeOK
      <3>3. Dequeued \in [1..taken -> Bytes]
        BY <3>2 DEF Dequeued
      <3>4. \A k \in 1..taken : Dequeued[k] = m_pDMABuffer[m_nNextBuffer][k]
        BY DEF Dequeued
      <3> HIDE DEF head
      <3> QED BY <3>1, <3>3, <3>4
    <2>2. CASE pcI # "take"
      <3>1. Had = 0 /\ head = <<>>
        BY <2>2 DEF Had
      <3> HIDE DEF head
      <3> QED BY <3>1
    <2> QED BY <2>1, <2>2
  <1> DEFINE tail == Ahead(n)
             b == head \o tail
  <1>5. queued = FramesOf(b)
    BY DEF queued
  <1> HIDE DEF n, head
  <1>6. /\ Len(b) = Kept
        /\ \A k \in 1..Kept : b[k] = IF k <= Had THEN head[k] ELSE tail[k - Had]
    <2>1. head \in Seq(Bytes) /\ tail \in Seq(Bytes) /\ Len(head) = Had /\ Len(tail) = n
      BY <1>3, <1>4
    <2> HIDE DEF tail
    <2>2. /\ Len(b) = Len(head) + Len(tail)
          /\ \A k \in 1..(Len(head) + Len(tail)) :
                b[k] = IF k <= Len(head) THEN head[k] ELSE tail[k - Len(head)]
      BY <2>1, ConcatProperties
    <2> HIDE DEF b
    <2> QED BY <1>1, <2>1, <2>2
  <1>7. ASSUME NEW k \in 1..Kept PROVE b[k] = ByteAt(k)
    <2>1. CASE k <= Had
      <3>1. b[k] = head[k] /\ k \in 1..Had
        BY <1>1, <1>6, <2>1
      <3> QED BY <1>4, <2>1, <3>1 DEF ByteAt
    <2>2. CASE ~(k <= Had)
      <3>1. b[k] = Ahead(n)[k - Had]
        BY <1>6, <2>2
      <3>2. k - Had \in 1..n
        BY <1>1, <2>2
      <3> QED BY <1>2, <2>2, <3>1, <3>2 DEF ByteAt
    <2> QED BY <2>1, <2>2
  <1> HIDE DEF b
  <1>8. Spells(b, f)
    <2>1. ASSUME NEW i \in 1..Len(f), NEW j \in 1..BYTES PROVE b[Place(i, j)] = <<f[i], j - 1>>
      <3>1. Place(i, j) \in 1..Kept
        BY <1>1, PlaceIn DEF Holds
      <3> QED BY <1>7, <3>1 DEF Holds
    <2> QED BY <1>6, <2>1 DEF Spells, Holds
  <1> QED BY <1>5, <1>8, FramesAre DEF Holds

\* What is available changes hands, from the queue to the buffer, byte by byte:
\* the bytes in their order stay.
LEMMA SameBytes ==
  ASSUME NEW f, Holds(f), Inv, Kept' = Kept, \A k \in 1..Kept : ByteAt(k)' = ByteAt(k)
  PROVE  Holds(f)'
  <1>1. Len(f) \in Nat
    BY KeptIs
  <1>2. ASSUME NEW i \in 1..Len(f), NEW j \in 1..BYTES
        PROVE  ByteAt(Place(i, j))' = <<f[i], j - 1>>
    <2>1. Place(i, j) \in 1..Kept
      BY <1>1, PlaceIn DEF Holds
    <2>2. PICK k \in 1..Kept : k = Place(i, j)
      BY <2>1
    <2>3. Place(i, j)' = Place(i, j)
      BY DEF Place
    <2> QED BY <2>1, <2>2, <2>3 DEF Holds
  <1> QED BY <1>2 DEF Holds

------------------------------------------------------------------------------
(* What the bytes are: frames.                                               *)

\* The bytes of a Write in progress follow those of the queue's frames.
Begun == pc2 = "write" =>
  \A c \in 0..(copied - 1) :
     m_pQueue[Slot(m_nOutPtr, GetQueueBytesAvail - copied + c)]
       = <<batch[c \div BYTES + 1], c % BYTES>>

\* The handler has dequeued the frames g.
TakenIs(g) == /\ g \in Seq(Frame)
              /\ nBytes = BYTES * Len(g)
              /\ \A i \in 1..Len(g), j \in 1..BYTES :
                    m_pDMABuffer[m_nNextBuffer][Place(i, j)] = <<g[i], j - 1>>
TakenWhole == pcI = "pad" => \E g : TakenIs(g)

\* Until Start is done there is silence.
Quietly == /\ pc2 \in {"start", "fill"} => m_pDMABuffer = [b \in 0..1 |-> Silent]
           /\ pc2 = "start" => playing = 0

Content == (\E f : Holds(f)) /\ Begun /\ TakenWhole /\ Quietly

\* What a step is to the FIFO.
FifoAction == Fifo!Offer \/ Fifo!Accept \/ Fifo!Take \/ Fifo!Play \/ Quiet
FifoStep   == (~late' /\ dma' # "error" => FifoAction) \/ UNCHANGED <<queued, offered, hand, played>>

QueuedFacts == \A f : Inv /\ Holds(f) => queued = f

LEMMA QueuedAlways == QueuedFacts
  BY QueuedIs DEF QueuedFacts

LEMMA QueuedThen ==
  ASSUME Inv, Inv', NEW f, Holds(f), NEW g, Holds(g)'
  PROVE  queued = f /\ queued' = g
  <1>1. QueuedFacts'
    BY QueuedAlways, PTL
  <1> QED BY <1>1, QueuedIs DEF QueuedFacts

\* How much of the batch fits does not change while it is written.
LEMMA AcceptedIs ==
  ASSUME Inv, NEW f, Holds(f), pcI # "take"
  PROVE  /\ FRAMES - Len(f) \in Nat
         /\ Accepted = Least(Len(batch), FRAMES - Len(f))
         /\ copied + GetQueueBytesFree = BYTES * (FRAMES - Len(f))
  <1>1. /\ Len(f) \in Nat /\ BYTES * Len(f) = GetQueueBytesAvail - copied
        /\ BYTES * Len(f) \in Nat
    BY KeptIs, Numbers DEF Holds
  <1>2. /\ copied + GetQueueBytesFree = BYTES * FRAMES - BYTES * Len(f)
        /\ BYTES * Len(f) <= BYTES * FRAMES
    BY <1>1, Numbers
  <1>3. BYTES * FRAMES - BYTES * Len(f) = BYTES * (FRAMES - Len(f))
    BY <1>1, SoundAssumption
  <1>4. FRAMES - Len(f) \in Nat
    <2>1. SUFFICES ASSUME Len(f) > FRAMES PROVE FALSE
      BY <1>1, SoundAssumption
    <2>2. BYTES * (FRAMES - Len(f)) < 0
      BY <1>1, <2>1, SoundAssumption
    <2> QED BY <1>1, <1>2, <1>3, <2>2, Numbers
  <1>5. (BYTES * (FRAMES - Len(f))) \div BYTES = FRAMES - Len(f)
    <2> DEFINE q == FRAMES - Len(f)
    <2>1. q \in Nat
      BY <1>4
    <2> HIDE DEF q
    <2>2. (BYTES * q) \div BYTES = q
      BY <2>1, SoundAssumption, SMTT(30)
    <2> QED BY <2>2 DEF q
  <1> QED BY <1>2, <1>3, <1>4, <1>5 DEF Accepted

AcceptedFacts ==
  \A f : Inv /\ Holds(f) /\ pcI # "take" => Accepted = Least(Len(batch), FRAMES - Len(f))

LEMMA AcceptedAlways == AcceptedFacts
  BY AcceptedIs DEF AcceptedFacts

LEMMA AcceptedThen ==
  ASSUME Inv', NEW f, Holds(f)', pcI' # "take"
  PROVE  Accepted' = Least(Len(batch'), FRAMES - Len(f))
  <1>1. AcceptedFacts'
    BY AcceptedAlways, PTL
  <1>2. (Least(Len(batch), FRAMES - Len(f)))' = Least(Len(batch'), FRAMES - Len(f))
    BY DEF Least
  <1> QED BY <1>1, <1>2 DEF AcceptedFacts

------------------------------------------------------------------------------
(* What a step leaves alone.                                                 *)

LEMMA QueueStays ==
  ASSUME Inv, NEW f, Holds(f), UNCHANGED fifo, Written' = Written, Had' = Had,
         Had # 0 => UNCHANGED <<m_pDMABuffer, m_nNextBuffer>>
  PROVE  Holds(f)'
  <1>1. GetQueueBytesAvail' = GetQueueBytesAvail
    BY Stays
  <1>2. Kept' = Kept
    BY <1>1 DEF Kept
  <1>3. m_pQueue' = m_pQueue /\ m_nOutPtr' = m_nOutPtr /\ m_nQueueSize' = m_nQueueSize
    BY DEF fifo, m_nQueueSize
  <1>4. ASSUME NEW k \in 1..Kept PROVE ByteAt(k)' = ByteAt(k)
    <2>1. (Slot(m_nOutPtr, k - Had - 1))' = Slot(m_nOutPtr, k - Had - 1)
      BY <1>3 DEF Slot
    <2>2. CASE k <= Had
      <3>1. Had # 0
        BY <2>2, KeptIs
      <3> QED BY <2>2, <3>1 DEF ByteAt
    <2>3. CASE ~(k <= Had)
      BY <1>3, <2>1, <2>3 DEF ByteAt
    <2> QED BY <2>2, <2>3
  <1> QED BY <1>2, <1>4, SameBytes

LEMMA BegunStays ==
  ASSUME Begun, UNCHANGED <<fifo, core2>>
  PROVE  Begun' /\ Written' = Written /\ UNCHANGED offered
  <1>1. /\ GetQueueBytesAvail' = GetQueueBytesAvail /\ GetQueueBytesFree' = GetQueueBytesFree
        /\ UNCHANGED <<m_pQueue, m_nOutPtr, m_nQueueSize, pc2, copied, batch>>
    BY Stays DEF fifo, core2, m_nQueueSize
  <1>2. Begun'
    BY <1>1 DEF Begun, Slot
  <1>3. Accepted' = Accepted
    BY <1>1 DEF Accepted, Least
  <1> QED BY <1>1, <1>2, <1>3 DEF Written, offered

LEMMA TakenStays ==
  ASSUME TakenWhole, UNCHANGED <<m_pDMABuffer, m_nNextBuffer, pcI, nBytes>>
  PROVE  TakenWhole'
  <1>1. SUFFICES ASSUME pcI' = "pad" PROVE \E g : TakenIs(g)'
    BY DEF TakenWhole
  <1>2. PICK g : TakenIs(g)
    BY <1>1 DEF TakenWhole
  <1>3. TakenIs(g)'
    BY <1>2 DEF TakenIs, Place
  <1> QED BY <1>3

LEMMA HandStays ==
  ASSUME UNCHANGED <<m_pDMABuffer, m_nNextBuffer, playing, dma, irq, pcI, taken>>
  PROVE  UNCHANGED <<hand, played>>
  <1>1. Sounding(1 - playing)' = Sounding(1 - playing) /\ Sounding(playing)' = Sounding(playing)
    BY DEF Sounding, FramesOf, GameFrames
  <1>2. Dequeued' = Dequeued /\ FramesOf(Dequeued)' = FramesOf(Dequeued)
    BY DEF Dequeued, FramesOf
  <1> QED BY <1>1, <1>2 DEF hand, played

------------------------------------------------------------------------------
(* Silence.                                                                  *)

LEMMA SilentSounds ==
  /\ GameFrames(FramesOf(Silent)) = <<>>
  <1> DEFINE g == [i \in 1..CHUNK |-> IF i <= Len(<<>>) THEN <<>>[i] ELSE Silence]
  <1>1. Len(g) = CHUNK /\ CHUNK \in Nat /\ \A i \in 1..CHUNK : g[i] = Silence
    BY SoundAssumption
  <1>2. Len(Silent) = ChunkBytes
    BY Sizes DEF Silent
  <1>3. ASSUME NEW i \in 1..CHUNK, NEW j \in 1..BYTES
        PROVE  Silent[Place(i, j)] = <<Silence, j - 1>>
    <2>1. Place(i, j) \in 1..ChunkBytes
      BY <1>1, PlaceIn DEF ChunkBytes
    <2>2. (Place(i, j) - 1) % BYTES = j - 1
      BY <1>1, PlaceOf
    <2> QED BY <2>1, <2>2 DEF Silent, SilentByte
  <1>4. Spells(Silent, g)
    <2> HIDE DEF g
    <2> QED BY <1>1, <1>2, <1>3 DEF Spells, ChunkBytes
  <1>5. <<>> \in Seq(Frame) /\ Len(<<>>) <= CHUNK
    BY <1>1
  <1> QED BY <1>4, <1>5, GameFramesAre

------------------------------------------------------------------------------
(* The steps of core 2.                                                      *)

LEMMA StartSteps ==
  ASSUME Inv, Inv', Content, StartDMA \/ StartFill
  PROVE  Content' /\ FifoStep /\ UNCHANGED <<queued, hand>>
  <1>1. PICK f : Holds(f)
    BY DEF Content
  <1>2. /\ UNCHANGED <<fifo, batch, copied, core0, irq, late>> /\ pcI = "idle" /\ pc2 # "write"
        /\ pc2' # "write" /\ ~irq /\ pc2 \in {"start", "fill"}
        /\ m_pDMABuffer = [b \in 0..1 |-> Silent] /\ playing = 0 /\ playing' = 0
        /\ pc2' \in {"fill", "poll"}
    <2>1. /\ UNCHANGED <<fifo, batch, copied, core0, irq, late>>
          /\ pc2 \in {"start", "fill"} /\ pc2' \in {"fill", "poll"}
          /\ playing' = IF pc2 = "start" THEN 0 ELSE playing
      BY DEF StartDMA, StartFill, channel
    <2>2. pcI = "idle" /\ ~irq /\ playing = 0 /\ m_pDMABuffer = [b \in 0..1 |-> Silent]
      BY <2>1 DEF Content, Quietly, Inv, Phases
    <2> QED BY <2>1, <2>2
  <1>3. m_pDMABuffer' = m_pDMABuffer
    BY <1>2 DEF StartDMA, StartFill
  <1>4. UNCHANGED <<pcI, taken, nBytes>>
    BY <1>2 DEF core0
  <1>5. Had = 0 /\ Had' = 0 /\ Written = 0 /\ Written' = 0
    BY <1>2, <1>4 DEF Had, Written
  <1>6. Holds(f)'
    BY <1>1, <1>2, <1>5, QueueStays
  <1>7. Content'
    <2>1. Begun' /\ TakenWhole'
      BY <1>2, <1>4 DEF Begun, TakenWhole
    <2>2. Quietly'
      BY <1>2, <1>3 DEF Quietly, Silent, SilentByte, ChunkBytes
    <2> QED BY <1>6, <2>1, <2>2 DEF Content
  <1>8. UNCHANGED queued
    BY <1>1, <1>6, QueuedThen
  <1>9. \A b \in 0..1 : Sounding(b) = <<>> /\ Sounding(b)' = <<>>
    <2>1. ASSUME NEW b \in 0..1 PROVE Sounding(b) = <<>>
      BY <1>2, SilentSounds DEF Sounding
    <2>2. ASSUME NEW b \in 0..1 PROVE Sounding(b)' = Sounding(b)
      BY <1>3 DEF Sounding, FramesOf, GameFrames
    <2> QED BY <2>1, <2>2
  <1>10. UNCHANGED <<offered, hand, played>>
    <2>1. UNCHANGED offered
      BY <1>2 DEF offered
    <2>2. played = <<>> /\ played' = <<>>
      BY <1>2, <1>9 DEF played
    <2>3. hand = <<>>
      BY <1>2, <1>9 DEF hand
    <2>4. hand' = <<>>
      <3>1. Sounding(1 - playing)' = <<>>
        <4>1. Sounding(1 - playing)' = Sounding(1 - playing)
          BY <1>2, <1>3 DEF Sounding, FramesOf, GameFrames
        <4> QED BY <1>2, <1>9, <4>1
      <3> QED BY <1>2, <1>4, <3>1 DEF hand
    <2> QED BY <2>1, <2>2, <2>3, <2>4
  <1> QED BY <1>7, <1>8, <1>10 DEF FifoStep

LEMMA CallStep ==
  ASSUME Inv, Inv', Content, NEW s \in Batches, WriteCall(s)
  PROVE  Content' /\ FifoStep /\ UNCHANGED <<queued, hand>>
  <1>1. PICK f : Holds(f)
    BY DEF Content
  <1>2. /\ UNCHANGED <<fifo, m_SpinLock, copied, buffers, channel, core0>>
        /\ pc2 = "poll" /\ pc2' = "wait"
    BY DEF WriteCall
  <1>3. UNCHANGED <<m_pDMABuffer, m_nNextBuffer, playing, dma, irq, pcI, taken, nBytes>>
    BY <1>2 DEF buffers, channel, core0
  <1>4. Written = 0 /\ Written' = 0 /\ Had' = Had
    BY <1>2, <1>3 DEF Written, Had
  <1>5. Holds(f)'
    BY <1>1, <1>2, <1>3, <1>4, QueueStays
  <1>6. Content'
    <2>1. TakenWhole'
      BY <1>3, TakenStays DEF Content
    <2>2. Begun' /\ Quietly'
      BY <1>2 DEF Begun, Quietly
    <2> QED BY <1>5, <2>1, <2>2 DEF Content
  <1>7. UNCHANGED <<queued, offered, hand, played>>
    <2>1. UNCHANGED queued
      BY <1>1, <1>5, QueuedThen
    <2>2. UNCHANGED offered
      BY <1>2 DEF offered
    <2>3. UNCHANGED <<hand, played>>
      BY <1>3, HandStays
    <2> QED BY <2>1, <2>2, <2>3
  <1> QED BY <1>6, <1>7 DEF FifoStep

\* A Write begins: what fits is offered.
LEMMA LockStep ==
  ASSUME Inv, Inv', Content, WriteLock
  PROVE  Content' /\ FifoStep /\ UNCHANGED <<queued, hand>>
  <1>1. PICK f : Holds(f)
    BY DEF Content
  <1>2. /\ UNCHANGED <<fifo, batch, copied, buffers, channel, core0>>
        /\ pc2 = "wait" /\ pc2' = "write" /\ m_SpinLock = "none"
    BY DEF WriteLock
  <1>3. UNCHANGED <<m_pDMABuffer, m_nNextBuffer, playing, dma, irq, pcI, taken, nBytes>>
    BY <1>2 DEF buffers, channel, core0
  <1>4. copied = 0 /\ pcI # "take" /\ batch \in Seq(Frame)
    BY <1>2 DEF Inv, Phases, WholeFrames, TypeOK
  <1>5. Written = 0 /\ Written' = 0 /\ Had' = Had
    BY <1>2, <1>3, <1>4 DEF Written, Had
  <1>6. Holds(f)'
    BY <1>1, <1>2, <1>3, <1>5, QueueStays
  <1>7. Content'
    <2>1. TakenWhole'
      BY <1>3, TakenStays DEF Content
    <2>2. copied' = 0
      BY <1>2, <1>4
    <2>3. Begun' /\ Quietly'
      BY <1>2, <2>2 DEF Begun, Quietly
    <2> QED BY <1>6, <2>1, <2>3 DEF Content
  <1>8. queued = f /\ queued' = f /\ UNCHANGED <<hand, played>>
    BY <1>1, <1>3, <1>6, QueuedThen, HandStays
  <1> DEFINE n == Least(Len(batch), FRAMES - Len(f))
  <1>9. offered = <<>> /\ offered' = SubSeq(batch, 1, n)
    <2>1. Accepted' = n
      BY <1>2, <1>3, <1>4, <1>6, AcceptedThen
    <2>2. offered' = SubSeq(batch', 1, Accepted')
      BY <1>2 DEF offered
    <2> HIDE DEF n
    <2> QED BY <1>2, <2>1, <2>2 DEF offered
  <1>10. n \in Nat /\ n <= Len(batch) /\ n <= FRAMES - Len(f) /\ FRAMES - Len(f) \in Nat
    BY <1>1, <1>4, AcceptedIs, Numbers DEF Least
  <1> HIDE DEF n
  <1>11. ASSUME n = 0 PROVE FifoStep
    <2>1. SubSeq(batch, 1, n) = <<>>
      BY <1>11, SubSeqEmpty
    <2> QED BY <1>8, <1>9, <2>1 DEF FifoStep
  <1>12. ASSUME n # 0 PROVE FifoStep
    <2>1. n \in 1..(FRAMES - Len(queued))
      BY <1>8, <1>10, <1>12
    <2>2. offered' \in [1..n -> Frame]
      <3>1. offered' \in Seq(Frame) /\ Len(offered') = n
        BY <1>4, <1>9, <1>10, <1>12, Numbers
      <3> QED BY <3>1
    <2>3. Fifo!Offer
      BY <1>8, <1>9, <2>1, <2>2 DEF Fifo!Offer
    <2> QED BY <2>3 DEF FifoStep, FifoAction
  <1> QED BY <1>7, <1>8, <1>11, <1>12

\* A byte is written behind all that is queued.
LEMMA ByteStep ==
  ASSUME Inv, Inv', Content, WriteByte
  PROVE  Content' /\ FifoStep /\ UNCHANGED <<queued, offered, hand, played>>
  <1>1. PICK f : Holds(f)
    BY DEF Content
  <1>2. /\ UNCHANGED <<m_nOutPtr, batch, buffers, channel, core0>>
        /\ pc2 = "write" /\ pc2' = "write" /\ copied' = copied + 1 /\ pcI # "take"
        /\ m_nInPtr' = Bump(m_nInPtr)
        /\ m_pQueue' = [m_pQueue EXCEPT ![m_nInPtr] =
                          <<batch[copied \div BYTES + 1], copied % BYTES>>]
    BY DEF WriteByte, Inv, WholeFrames
  <1>3. UNCHANGED <<m_pDMABuffer, m_nNextBuffer, playing, dma, irq, pcI, taken, nBytes>>
    BY <1>2 DEF buffers, channel, core0
  <1> DEFINE avail == GetQueueBytesAvail
  <1>4. avail' = avail + 1
    BY <1>2, RoomForByte, InMoves DEF Inv, TypeOK
  <1>5. /\ Had = 0 /\ Had' = 0 /\ Written = copied /\ Written' = copied + 1
        /\ m_nQueueSize' = m_nQueueSize
    BY <1>2, <1>3 DEF Had, Written, m_nQueueSize
  <1>6. /\ avail \in Nat /\ avail + 1 <= m_nQueueSize - 1 /\ copied \in Nat
        /\ avail - copied \in Nat /\ m_nQueueSize \in Nat /\ Kept = avail - copied
    <2>1. avail \in 0..(m_nQueueSize - 1) /\ copied \in Nat /\ m_nQueueSize \in Nat
      BY Numbers
    <2>2. avail + 1 <= m_nQueueSize - 1
      BY Numbers, RoomForByte
    <2>3. avail - copied \in Nat /\ Kept = avail - copied
      BY <1>1, <1>5, KeptIs, Numbers
    <2> QED BY <2>1, <2>2, <2>3
  <1> HIDE DEF avail
  <1>7. ASSUME NEW d \in 0..(avail - 1)
        PROVE  /\ Slot(m_nOutPtr, d)' = Slot(m_nOutPtr, d)
               /\ m_pQueue'[Slot(m_nOutPtr, d)] = m_pQueue[Slot(m_nOutPtr, d)]
    <2>1. m_nInPtr = Slot(m_nOutPtr, avail)
      BY InSlot DEF avail, Inv, TypeOK
    <2>2. m_nOutPtr \in 0..(m_nQueueSize - 1) /\ d \in 0..(m_nQueueSize - 1) /\ d # avail
          /\ avail \in 0..(m_nQueueSize - 1)
      BY <1>6 DEF Inv, TypeOK
    <2>3. Slot(m_nOutPtr, d) # Slot(m_nOutPtr, avail) /\ Slot(m_nOutPtr, d) \in 0..(m_nQueueSize - 1)
      BY <2>2, Slots
    <2>4. m_pQueue'[Slot(m_nOutPtr, d)] = m_pQueue[Slot(m_nOutPtr, d)]
      BY <1>2, <2>1, <2>3 DEF Inv, TypeOK
    <2> QED BY <1>2, <1>5, <2>4 DEF Slot
  <1>8. Holds(f)'
    <2>1. Kept' = Kept
      BY <1>4, <1>5, <1>6 DEF Kept, avail
    <2>2. ASSUME NEW k \in 1..Kept PROVE ByteAt(k)' = ByteAt(k)
      <3>1. k - 0 - 1 \in 0..(avail - 1)
        BY <1>6
      <3>2. ~(k <= 0)
        OBVIOUS
      <3>3. ByteAt(k) = m_pQueue[Slot(m_nOutPtr, k - 0 - 1)]
        BY <1>5, <3>2 DEF ByteAt
      <3>4. ByteAt(k)' = m_pQueue'[Slot(m_nOutPtr, k - 0 - 1)']
        BY <1>5, <3>2 DEF ByteAt
      <3> QED BY <1>7, <3>1, <3>3, <3>4
    <2> QED BY <1>1, <2>1, <2>2, SameBytes
  <1>9. Begun'
    <2>1. ASSUME NEW c \in 0..copied
          PROVE  m_pQueue'[Slot(m_nOutPtr, avail - copied + c)]
                   = <<batch[c \div BYTES + 1], c % BYTES>>
      <3>1. CASE c < copied
        <4>1. avail - copied + c \in 0..(avail - 1) /\ c \in 0..(copied - 1)
          BY <1>6, <3>1
        <4>2. m_pQueue[Slot(m_nOutPtr, avail - copied + c)] = <<batch[c \div BYTES + 1], c % BYTES>>
          BY <1>2, <4>1 DEF Content, Begun, avail
        <4> QED BY <1>7, <4>1, <4>2
      <3>2. CASE c = copied
        <4>1. avail - copied + c = avail
          BY <1>6, <3>2
        <4>2. m_nInPtr = Slot(m_nOutPtr, avail) /\ m_nInPtr \in 0..(m_nQueueSize - 1)
          BY InSlot DEF avail, Inv, TypeOK
        <4>3. m_pQueue'[m_nInPtr] = <<batch[copied \div BYTES + 1], copied % BYTES>>
          BY <1>2, <4>2 DEF Inv, TypeOK
        <4> QED BY <3>2, <4>1, <4>2, <4>3
      <3> QED BY <1>6, <3>1, <3>2
    <2>2. ASSUME NEW c \in 0..(copied' - 1)
          PROVE  m_pQueue'[Slot(m_nOutPtr, GetQueueBytesAvail - copied + c)']
                   = <<batch'[c \div BYTES + 1], c % BYTES>>
      <3>1. c \in 0..copied
        BY <1>2, <1>6
      <3>2. (GetQueueBytesAvail - copied + c)' = avail - copied + c
        BY <1>2, <1>4, <1>6, <3>1 DEF avail
      <3>3. Slot(m_nOutPtr, GetQueueBytesAvail - copied + c)' = Slot(m_nOutPtr, avail - copied + c)
        BY <1>2, <1>5, <3>2 DEF Slot
      <3> QED BY <1>2, <2>1, <3>1, <3>3
    <2> QED BY <2>2 DEF Begun
  <1>10. Content'
    <2>1. TakenWhole'
      BY <1>3, TakenStays DEF Content
    <2>2. Quietly'
      BY <1>2 DEF Quietly
    <2> QED BY <1>8, <1>9, <2>1, <2>2 DEF Content
  <1>11. UNCHANGED <<queued, offered, hand, played>>
    <2>1. UNCHANGED queued
      BY <1>1, <1>8, QueuedThen
    <2>2. Accepted' = Accepted
      <3>1. Accepted = Least(Len(batch), FRAMES - Len(f))
        BY <1>1, <1>2, AcceptedIs
      <3>2. Accepted' = Least(Len(batch'), FRAMES - Len(f))
        BY <1>2, <1>3, <1>8, AcceptedThen
      <3> QED BY <1>2, <3>1, <3>2
    <2>3. UNCHANGED offered
      BY <1>2, <2>2 DEF offered
    <2> QED BY <1>3, <2>1, <2>3, HandStays
  <1> QED BY <1>10, <1>11 DEF FifoStep

\* A Write ends: it has written the frames it accepted, all of them.
LEMMA AllAccepted ==
  ASSUME Inv, NEW f, Holds(f), WriteEnd
  PROVE  \E m \in Nat : /\ copied = BYTES * m /\ m = Accepted /\ m <= Len(batch)
                        /\ m <= FRAMES - Len(f)
  <1> DEFINE L == Len(batch)
             R == FRAMES - Len(f)
  <1>1. /\ pcI # "take" /\ ~MoreToWrite
    BY DEF WriteEnd, Inv, WholeFrames
  <1>2. /\ R \in Nat /\ Accepted = Least(L, R) /\ copied + GetQueueBytesFree = BYTES * R
        /\ L \in Nat /\ copied \in Nat /\ copied <= BYTES * L /\ BYTES * L \in Nat
        /\ GetQueueBytesFree \in Nat /\ BYTES * R \in Nat
    BY <1>1, AcceptedIs, Numbers, SoundAssumption
  <1>3. \/ copied = BYTES * L
        \/ copied % BYTES = 0 /\ GetQueueBytesFree < BYTES /\ copied < BYTES * L
    <2>1. copied < BYTES * L \/ copied = BYTES * L
      BY <1>2
    <2>2. ~(copied < BYTES * L) \/ (copied % BYTES = 0 /\ ~(GetQueueBytesFree >= BYTES))
      BY <1>1 DEF MoreToWrite
    <2>3. GetQueueBytesFree >= BYTES \/ GetQueueBytesFree < BYTES
      BY <1>2, SoundAssumption
    <2> HIDE DEF L, R
    <2> QED BY <2>1, <2>2, <2>3
  <1> HIDE DEF L, R
  <1>4. CASE copied = BYTES * L
    <2>1. L <= R
      <3>1. SUFFICES ASSUME L > R PROVE FALSE
        BY <1>2
      <3>2. BYTES * L > BYTES * R
        BY <1>2, <3>1, SoundAssumption
      <3> QED BY <1>2, <1>4, <3>2
    <2>2. Accepted = L
      BY <1>2, <2>1 DEF Least
    <2> QED BY <1>2, <1>4, <2>1, <2>2 DEF L, R
  <1>5. CASE copied % BYTES = 0 /\ GetQueueBytesFree < BYTES /\ copied < BYTES * L
    <2>1. PICK m \in Nat : copied = BYTES * m
      <3>1. Splits(BYTES, copied, copied \div BYTES, 0)
        BY <1>2, <1>5, SoundAssumption, Quotient
      <3>2. copied \div BYTES \in Int /\ copied = (copied \div BYTES) * BYTES + 0
        BY <3>1 DEF Splits
      <3>3. PICK q \in Int : q = copied \div BYTES
        BY <3>2
      <3>4. copied = q * BYTES
        BY <3>2, <3>3, SoundAssumption
      <3>5. q >= 0
        BY <1>2, <3>4, SoundAssumption
      <3> QED BY <3>4, <3>5, SoundAssumption
    <2>2. m < L
      BY <1>2, <1>5, <2>1, SoundAssumption
    <2>3. m = R
      <3>1. BYTES * m <= BYTES * R /\ BYTES * R < BYTES * m + BYTES
        BY <1>2, <1>5, <2>1, SoundAssumption
      <3>2. m <= R
        BY <1>2, <2>1, <3>1, SoundAssumption
      <3>3. R < m + 1
        <4>1. SUFFICES ASSUME R >= m + 1 PROVE FALSE
          BY <1>2, <2>1
        <4>2. BYTES * R >= BYTES * (m + 1)
          BY <1>2, <2>1, <4>1, SoundAssumption
        <4>3. BYTES * (m + 1) = BYTES * m + BYTES
          BY <2>1, SoundAssumption
        <4> QED BY <3>1, <4>2, <4>3, <1>2, <2>1, SoundAssumption
      <3> QED BY <1>2, <2>1, <3>2, <3>3
    <2>4. Accepted = m
      BY <1>2, <2>1, <2>2, <2>3 DEF Least
    <2>5. m <= L /\ m <= R
      BY <1>2, <2>1, <2>2, <2>3
    <2> QED BY <2>1, <2>4, <2>5 DEF L, R
  <1> QED BY <1>3, <1>4, <1>5

LEMMA EndStep ==
  ASSUME Inv, Inv', Content, WriteEnd
  PROVE  /\ Content' /\ FifoStep
         /\ queued' = queued \o SubSeq(batch, 1, copied \div BYTES) /\ hand' = hand
  <1>1. PICK f : Holds(f)
    BY DEF Content
  <1>2. /\ UNCHANGED <<fifo, buffers, channel, core0>> /\ pc2 = "write" /\ pc2' = "poll"
        /\ copied' = 0 /\ pcI # "take" /\ batch \in Seq(Frame)
    BY DEF WriteEnd, Inv, WholeFrames, TypeOK
  <1>3. /\ UNCHANGED <<m_pDMABuffer, m_nNextBuffer, playing, dma, irq, pcI, taken, nBytes>>
        /\ UNCHANGED <<m_pQueue, m_nOutPtr, m_nQueueSize>>
    BY <1>2 DEF buffers, channel, core0, fifo, m_nQueueSize
  <1>4. PICK m \in Nat : /\ copied = BYTES * m /\ m = Accepted /\ m <= Len(batch)
                         /\ m <= FRAMES - Len(f)
    BY <1>1, AllAccepted
  <1> DEFINE avail == GetQueueBytesAvail
  <1>5. /\ Had = 0 /\ Had' = 0 /\ Written = BYTES * m /\ Written' = 0 /\ avail' = avail
        /\ avail \in Nat /\ avail <= m_nQueueSize - 1 /\ m_nQueueSize \in Nat
        /\ Len(f) \in Nat /\ Kept = avail - BYTES * m /\ Kept = BYTES * Len(f)
        /\ BYTES * m \in Nat /\ f \in Seq(Frame) /\ Len(batch) \in Nat /\ BYTES * Len(f) \in Nat
    <2>1. /\ Had = 0 /\ Had' = 0 /\ Written = copied /\ Written' = 0 /\ avail' = avail
      BY <1>2, <1>3, Stays DEF Had, Written
    <2>2. /\ avail \in Nat /\ avail <= m_nQueueSize - 1 /\ m_nQueueSize \in Nat
          /\ BYTES * m \in Nat /\ Len(batch) \in Nat
      BY <1>4, Numbers
    <2>3. Len(f) \in Nat /\ Kept = Had + (avail - Written) /\ Kept = BYTES * Len(f)
          /\ f \in Seq(Frame) /\ Kept \in Nat
      BY <1>1, KeptIs DEF Holds
    <2> HIDE DEF avail
    <2> QED BY <1>4, <2>1, <2>2, <2>3
  <1> HIDE DEF avail
  <1>6. offered = SubSeq(batch, 1, m) /\ offered' = <<>>
    BY <1>2, <1>4 DEF offered
  <1>7. /\ offered \in Seq(Frame) /\ Len(offered) = m
        /\ \A i \in 1..m : offered[i] = batch[i]
    BY <1>2, <1>4, <1>5, <1>6
  <1>8. PICK g : g = f \o offered
    OBVIOUS
  <1>9. /\ g \in Seq(Frame) /\ Len(g) = Len(f) + m
        /\ \A i \in 1..(Len(f) + m) : g[i] = IF i <= Len(f) THEN f[i] ELSE offered[i - Len(f)]
    BY <1>5, <1>7, <1>8, ConcatProperties
  <1>10. /\ \A k \in 1..Kept : ByteAt(k)' = ByteAt(k)
         /\ \A k \in 1..avail : ByteAt(k)' = m_pQueue[Slot(m_nOutPtr, k - 1)]
    <2>1. ASSUME NEW k \in 1..avail
          PROVE  ByteAt(k)' = m_pQueue[Slot(m_nOutPtr, k - 1)]
                 /\ ByteAt(k) = m_pQueue[Slot(m_nOutPtr, k - 1)]
      <3>1. ~(k <= 0) /\ k - 0 - 1 = k - 1
        BY <1>5
      <3>2. Slot(m_nOutPtr, k - 1)' = Slot(m_nOutPtr, k - 1)
        BY <1>3 DEF Slot
      <3> QED BY <1>3, <1>5, <3>1, <3>2 DEF ByteAt
    <2>2. \A k \in 1..Kept : k \in 1..avail
      BY <1>5
    <2> QED BY <2>1, <2>2
  <1>11. Holds(g)'
    <2>1. BYTES * Len(g) = Kept'
      <3>1. Kept' = avail
        BY <1>5 DEF Kept, avail
      <3>2. BYTES * (Len(f) + m) = BYTES * Len(f) + BYTES * m
        BY <1>5, SoundAssumption
      <3> QED BY <1>5, <1>9, <3>1, <3>2
    <2>2. ASSUME NEW i \in 1..Len(g), NEW j \in 1..BYTES
          PROVE  ByteAt(Place(i, j))' = <<g[i], j - 1>>
      <3>1. CASE i <= Len(f)
        <4>1. Place(i, j) \in 1..Kept /\ i \in 1..Len(f) /\ g[i] = f[i]
          BY <1>5, <1>9, <3>1, PlaceIn
        <4>2. PICK k \in 1..Kept : k = Place(i, j) /\ k = Place(i, j)'
          BY <4>1 DEF Place
        <4> QED BY <1>1, <1>10, <4>1, <4>2 DEF Holds
      <3>2. CASE i > Len(f)
        <4>1. PICK n \in 1..m : i = Len(f) + n
          <5>1. i - Len(f) \in 1..m /\ i = Len(f) + (i - Len(f))
            BY <1>5, <1>9, <3>2
          <5> QED BY <5>1
        <4>2. g[i] = batch[n]
          <5>1. i \in 1..(Len(f) + m) /\ ~(i <= Len(f)) /\ i - Len(f) = n
            BY <1>5, <1>9, <4>1
          <5>2. g[i] = offered[i - Len(f)]
            BY <1>9, <5>1
          <5> QED BY <1>7, <5>1, <5>2
        <4>3. /\ Place(i, j) = BYTES * Len(f) + Place(n, j)
              /\ Place(n, j) \in 1..(BYTES * m)
              /\ (Place(n, j) - 1) \div BYTES + 1 = n /\ (Place(n, j) - 1) % BYTES = j - 1
          <5>1. n \in Nat \ {0}
            BY <4>1
          <5>2. Place(i, j) = BYTES * Len(f) + Place(n, j)
            BY <1>5, <4>1, <5>1, PlaceAfter
          <5>3. Place(n, j) \in 1..(BYTES * m)
            BY PlaceIn
          <5> QED BY <5>1, <5>2, <5>3, PlaceOf
        <4>c. copied \in Nat /\ Place(n, j) \in 1..copied
          BY <1>4, <1>5, <4>3
        <4>4. PICK c \in 0..(copied - 1) : c = Place(n, j) - 1
          BY <4>c
        <4>5. m_pQueue[Slot(m_nOutPtr, avail - copied + c)] = <<batch[c \div BYTES + 1], c % BYTES>>
          <5>1. \A d \in 0..(copied - 1) :
                   m_pQueue[Slot(m_nOutPtr, GetQueueBytesAvail - copied + d)]
                     = <<batch[d \div BYTES + 1], d % BYTES>>
            BY <1>2 DEF Content, Begun
          <5>2. \A d \in 0..(copied - 1) :
                   m_pQueue[Slot(m_nOutPtr, avail - copied + d)]
                     = <<batch[d \div BYTES + 1], d % BYTES>>
            BY <5>1 DEF avail
          <5> QED BY <5>2
        <4>6. <<batch[c \div BYTES + 1], c % BYTES>> = <<batch[n], j - 1>>
          <5>1. c \div BYTES + 1 = n /\ c % BYTES = j - 1
            BY <4>3, <4>4, Zenon
          <5> QED BY <5>1, Zenon
        <4>7. PICK k \in 1..avail : k = Place(i, j) /\ k - 1 = avail - copied + c
          <5>1. Place(i, j) \in 1..avail
            <6>1. Place(i, j) = BYTES * Len(f) + Place(n, j) /\ BYTES * Len(f) \in Nat
              BY <1>5, <4>3
            <6>2. avail = BYTES * Len(f) + copied
              BY <1>4, <1>5
            <6> QED BY <4>c, <6>1, <6>2
          <5>2. Place(i, j) - 1 = avail - copied + c
            <6>1. Place(i, j) = BYTES * Len(f) + Place(n, j) /\ c = Place(n, j) - 1
              BY <4>3, <4>4
            <6>2. BYTES * Len(f) = avail - copied /\ BYTES * Len(f) \in Nat
              BY <1>4, <1>5
            <6> QED BY <4>c, <6>1, <6>2
          <5> QED BY <5>1, <5>2
        <4>8. Place(i, j)' = Place(i, j)
          BY DEF Place
        <4> QED BY <1>10, <4>2, <4>5, <4>6, <4>7, <4>8
      <3> QED BY <1>5, <1>9, <3>1, <3>2
    <2> QED BY <1>9, <2>1, <2>2 DEF Holds
  <1>12. Content'
    <2>1. TakenWhole'
      BY <1>3, TakenStays DEF Content
    <2>2. Quietly' /\ Begun'
      BY <1>2 DEF Quietly, Begun
    <2> QED BY <1>11, <2>1, <2>2 DEF Content
  <1>13. queued' = queued \o offered /\ queued = f /\ UNCHANGED <<hand, played>>
    <2>1. queued = f /\ queued' = g
      BY <1>1, <1>11, QueuedThen
    <2>2. UNCHANGED <<hand, played>>
      BY <1>3, HandStays
    <2> QED BY <1>8, <2>1, <2>2
  <1>14. ASSUME m = 0 PROVE FifoStep
    <2>1. offered = <<>>
      BY <1>6, <1>14, SubSeqEmpty
    <2>2. queued' = queued
      BY <1>5, <1>13, <2>1, ConcatEmptySeq
    <2> QED BY <1>6, <1>13, <2>1, <2>2 DEF FifoStep
  <1>15. ASSUME m # 0 PROVE FifoStep
    <2>1. offered # <<>>
      BY <1>7, <1>15
    <2>2. Fifo!Accept
      BY <1>6, <1>13, <2>1 DEF Fifo!Accept
    <2> QED BY <2>2 DEF FifoStep, FifoAction
  <1>16. copied \div BYTES = m
    <2>1. (BYTES * m) \div BYTES = m
      BY SoundAssumption, SMTT(30)
    <2> QED BY <1>4, <2>1
  <1> QED BY <1>6, <1>12, <1>13, <1>14, <1>15, <1>16

------------------------------------------------------------------------------
(* The steps of the DMA channel and of the interrupt handler.                *)

\* What these steps leave alone, but for TakeByte and GetUnlock.
LEMMA Core0Content ==
  ASSUME Inv, Inv', Content, UNCHANGED <<fifo, core2>>, Had' = Had, pc2 # "start",
         Had # 0 \/ pc2 = "fill" => UNCHANGED <<m_pDMABuffer, m_nNextBuffer>>
  PROVE  /\ Begun' /\ Quietly' /\ UNCHANGED <<queued, offered>>
         /\ \E f : Holds(f)'
  <1>1. PICK f : Holds(f)
    BY DEF Content
  <1>2. Begun' /\ Written' = Written /\ UNCHANGED offered
    BY BegunStays DEF Content
  <1>3. Holds(f)'
    BY <1>1, <1>2, QueueStays
  <1>4. UNCHANGED queued
    BY <1>1, <1>3, QueuedThen
  <1>5. Quietly'
    <2>1. pc2' = pc2
      BY DEF core2
    <2>2. [b \in 0..1 |-> Silent]' = [b \in 0..1 |-> Silent]
      BY DEF Silent, SilentByte, ChunkBytes
    <2> QED BY <2>1, <2>2 DEF Content, Quietly
  <1> QED BY <1>2, <1>3, <1>4, <1>5

\* The buffer is played: what the handler took for the next one is played now.
LEMMA DoneStep ==
  ASSUME Inv, Inv', Content, ChunkDone
  PROVE  /\ Content' /\ FifoStep
         /\ ~late' => hand = Sounding(1 - playing) /\ hand' = <<>> /\ queued' = queued
  <1>1. /\ UNCHANGED <<fifo, core2, m_pDMABuffer, m_nNextBuffer, pcI, taken, nBytes, dma>>
        /\ dma = "on" /\ pc2 # "fill" /\ playing' = 1 - playing /\ irq' = TRUE
        /\ (~late' => ~irq /\ pcI = "idle")
    BY DEF ChunkDone, buffers, core0
  <1>2. pc2 # "start" /\ playing \in 0..1 /\ Had' = Had
    BY <1>1 DEF Inv, Phases, TypeOK, Had
  <1>3. /\ Begun' /\ Quietly' /\ UNCHANGED <<queued, offered>>
        /\ \E f : Holds(f)'
    BY <1>1, <1>2, Core0Content
  <1>4. Content'
    <2>1. TakenWhole'
      BY <1>1, TakenStays DEF Content
    <2> QED BY <1>3, <2>1 DEF Content
  <1>5. ASSUME ~late'
        PROVE  FifoAction /\ hand = Sounding(1 - playing) /\ hand' = <<>>
    <2>1. hand = Sounding(1 - playing)
      BY <1>1, <1>5 DEF hand
    <2>2. hand' = <<>>
      BY <1>1, <1>5 DEF hand
    <2>3. played' = hand
      <3>1. Sounding(playing)' = Sounding(1 - playing)
        BY <1>1 DEF Sounding, FramesOf, GameFrames
      <3> QED BY <2>1, <3>1 DEF played
    <2>4. ASSUME hand = <<>> PROVE FifoAction
      BY <1>3, <2>2, <2>3, <2>4 DEF Quiet, FifoAction
    <2>5. ASSUME hand # <<>> PROVE FifoAction
      BY <1>3, <2>2, <2>3, <2>5 DEF Fifo!Play, FifoAction
    <2> QED BY <2>1, <2>2, <2>4, <2>5
  <1> QED BY <1>3, <1>4, <1>5 DEF FifoStep

LEMMA SignalSteps ==
  ASSUME Inv, Inv', Content, ChunkError \/ Interrupt
  PROVE  /\ Content' /\ FifoStep
         /\ dma' # "error" => UNCHANGED <<queued, hand>>
  <1>1. /\ UNCHANGED <<fifo, core2, m_pDMABuffer, m_nNextBuffer, taken, nBytes, playing>>
        /\ pc2 # "start" /\ Had' = Had
    <2>1. CASE ChunkError
      BY <2>1 DEF ChunkError, buffers, core0, Had, Inv, Phases
    <2>2. CASE Interrupt
      BY <2>2 DEF Interrupt, Had, Inv, Phases
    <2> QED BY <2>1, <2>2
  <1>2. /\ Begun' /\ Quietly' /\ UNCHANGED <<queued, offered>>
        /\ \E f : Holds(f)'
    BY <1>1, Core0Content
  <1>3. CASE ChunkError
    <2>1. pcI' = pcI /\ dma' = "error"
      BY <1>3 DEF ChunkError, core0
    <2>2. TakenWhole'
      BY <1>1, <2>1, TakenStays DEF Content
    <2> QED BY <1>2, <2>1, <2>2 DEF Content, FifoStep
  <1>4. CASE Interrupt
    <2>1. /\ pcI = "idle" /\ irq /\ dma' = dma
          /\ pcI' = IF dma = "error" THEN "idle" ELSE "wait"
      BY <1>4 DEF Interrupt
    <2>2. TakenWhole'
      BY <2>1 DEF TakenWhole
    <2>3. ASSUME dma' # "error" PROVE UNCHANGED <<hand, played>>
      <3>1. hand = <<>> /\ hand' = <<>>
        BY <2>1, <2>3 DEF hand
      <3>2. played' = played
        BY <1>1 DEF played, Sounding, FramesOf, GameFrames
      <3> QED BY <3>1, <3>2
    <2> QED BY <1>2, <2>2, <2>3 DEF Content, FifoStep
  <1> QED BY <1>3, <1>4

LEMMA GetStep ==
  ASSUME Inv, Inv', Content, GetLock
  PROVE  Content' /\ FifoStep /\ UNCHANGED <<queued, hand>>
  <1>1. /\ UNCHANGED <<fifo, core2, m_pDMABuffer, m_nNextBuffer, playing>>
        /\ pcI = "wait" /\ pcI' = "take" /\ taken' = 0
    BY DEF GetLock, buffers, channel
  <1>2. Had = 0 /\ Had' = 0 /\ pc2 # "start"
    BY <1>1 DEF Had, Inv, Phases
  <1>3. /\ Begun' /\ Quietly' /\ UNCHANGED <<queued, offered>>
        /\ \E f : Holds(f)'
    BY <1>1, <1>2, Core0Content
  <1>4. TakenWhole'
    BY <1>1 DEF TakenWhole
  <1>5. UNCHANGED <<hand, played>>
    <2>1. hand = <<>> /\ hand' = <<>>
      BY <1>1 DEF hand
    <2>2. played' = played
      BY <1>1 DEF played, Sounding, FramesOf, GameFrames
    <2> QED BY <2>1, <2>2
  <1> QED BY <1>3, <1>4, <1>5 DEF Content, FifoStep

\* A byte goes from the queue into the buffer, and stays where it was among the
\* bytes that are kept.
LEMMA TakeStep ==
  ASSUME Inv, Inv', Content, TakeByte
  PROVE  /\ Content' /\ FifoStep
         /\ ~late' => UNCHANGED <<queued, hand>>
  <1>1. PICK f : Holds(f)
    BY DEF Content
  <1>2. /\ UNCHANGED <<m_pQueue, m_nInPtr, core2, m_nNextBuffer, playing, late, dma, pcI, nBytes>>
        /\ pcI = "take" /\ taken < nBytes /\ taken' = taken + 1
        /\ m_nOutPtr' = Bump(m_nOutPtr)
        /\ m_pDMABuffer' = [m_pDMABuffer EXCEPT ![m_nNextBuffer][taken + 1] = m_pQueue[m_nOutPtr]]
    BY DEF TakeByte, channel
  <1>3. /\ pc2 # "write" /\ pc2' = pc2 /\ pc2 \notin {"start", "fill"}
        /\ m_nNextBuffer \in 0..1 /\ m_nOutPtr \in 0..(m_nQueueSize - 1)
    BY <1>2 DEF core2, Inv, WholeFrames, Phases, TypeOK
  <1> DEFINE avail == GetQueueBytesAvail
             row   == m_pDMABuffer[m_nNextBuffer]
  <1>4. /\ avail \in Nat /\ avail >= 1 /\ avail <= m_nQueueSize - 1 /\ avail' = avail - 1
        /\ taken \in Nat /\ taken + 1 \in 1..ChunkBytes /\ m_nQueueSize \in Nat
        /\ ChunkBytes \in Nat
    <2>1. /\ avail \in Nat /\ avail <= m_nQueueSize - 1 /\ m_nQueueSize \in Nat
          /\ taken \in Nat /\ nBytes <= ChunkBytes /\ nBytes \in Nat /\ ChunkBytes \in Nat
      BY Numbers
    <2>2. nBytes - taken <= avail
      BY <1>2 DEF Inv, Phases
    <2>3. avail >= 1
      BY <1>2, <2>1, <2>2
    <2>4. avail' = avail - 1
      BY <1>2, <1>3, <2>3, OutMoves DEF Inv, TypeOK
    <2> HIDE DEF avail
    <2> QED BY <1>2, <2>1, <2>3, <2>4
  <1> HIDE DEF avail
  <1>5. /\ Had = taken /\ Had' = taken + 1 /\ Written = 0 /\ Written' = 0
        /\ Kept = taken + avail /\ Kept' = Kept /\ m_nQueueSize' = m_nQueueSize
    <2>1. Had = taken /\ Had' = taken + 1 /\ Written = 0 /\ Written' = 0
          /\ m_nQueueSize' = m_nQueueSize
      BY <1>2, <1>3 DEF Had, Written, m_nQueueSize
    <2>2. Kept = taken + avail - 0 /\ Kept' = (taken + 1) + avail' - 0
      BY <2>1 DEF Kept, avail
    <2> QED BY <1>4, <2>1, <2>2
  <1>6. /\ m_pDMABuffer'[m_nNextBuffer] = [row EXCEPT ![taken + 1] = m_pQueue[m_nOutPtr]]
        /\ \A b \in 0..1 : b # m_nNextBuffer => m_pDMABuffer'[b] = m_pDMABuffer[b]
        /\ row \in [1..ChunkBytes -> Bytes]
    <2>1. m_pDMABuffer' = [m_pDMABuffer EXCEPT ![m_nNextBuffer] =
                             [row EXCEPT ![taken + 1] = m_pQueue[m_nOutPtr]]]
      BY <1>2
    <2>2. m_pDMABuffer \in [0..1 -> [1..ChunkBytes -> Bytes]]
      BY DEF Inv, TypeOK
    <2> DEFINE new == [row EXCEPT ![taken + 1] = m_pQueue[m_nOutPtr]]
    <2>3. m_pDMABuffer' = [m_pDMABuffer EXCEPT ![m_nNextBuffer] = new]
      BY <2>1
    <2>4. row \in [1..ChunkBytes -> Bytes]
      BY <1>3, <2>2
    <2> HIDE DEF new, row
    <2>5. /\ m_pDMABuffer'[m_nNextBuffer] = new
          /\ \A b \in 0..1 : b # m_nNextBuffer => m_pDMABuffer'[b] = m_pDMABuffer[b]
      BY <1>3, <2>2, <2>3
    <2> QED BY <2>4, <2>5 DEF new
  <1> HIDE DEF row
  <1>7. ASSUME NEW k \in 1..Kept PROVE ByteAt(k)' = ByteAt(k)
    <2>1. CASE k <= taken
      <3>1. k \in 1..ChunkBytes /\ k # taken + 1 /\ k <= taken + 1
        BY <1>4, <2>1
      <3>2. ByteAt(k) = row[k]
        BY <1>5, <2>1 DEF ByteAt, row
      <3>3. ByteAt(k)' = m_pDMABuffer'[m_nNextBuffer][k]
        BY <1>2, <1>5, <3>1 DEF ByteAt
      <3> QED BY <1>6, <3>1, <3>2, <3>3
    <2>2. CASE k = taken + 1
      <3>1. k - taken - 1 = 0 /\ ~(k <= taken) /\ k <= taken + 1
        BY <1>4, <2>2
      <3>2. Slot(m_nOutPtr, 0) = m_nOutPtr
        <4>1. 0 \in 0..(m_nQueueSize - 1)
          BY <1>4
        <4> QED BY <1>3, <4>1, Slots
      <3>3. ByteAt(k) = m_pQueue[m_nOutPtr]
        BY <1>5, <3>1, <3>2 DEF ByteAt
      <3>4. ByteAt(k)' = m_pDMABuffer'[m_nNextBuffer][k]
        BY <1>2, <1>5, <3>1 DEF ByteAt
      <3> QED BY <1>4, <1>6, <2>2, <3>3, <3>4
    <2>3. CASE k > taken + 1
      <3>1. /\ ~(k <= taken) /\ ~(k <= taken + 1) /\ k - taken - 1 = (k - (taken + 1) - 1) + 1
            /\ k - (taken + 1) - 1 \in 0..(m_nQueueSize - 1)
            /\ (k - (taken + 1) - 1) + 1 \in 0..(m_nQueueSize - 1)
        BY <1>4, <1>5, <2>3
      <3>2. Slot(Bump(m_nOutPtr), k - (taken + 1) - 1) = Slot(m_nOutPtr, k - taken - 1)
        BY <1>3, <3>1, Slots
      <3>3. ByteAt(k) = m_pQueue[Slot(m_nOutPtr, k - taken - 1)]
        BY <1>5, <3>1 DEF ByteAt
      <3>4. ByteAt(k)' = m_pQueue[Slot(Bump(m_nOutPtr), k - (taken + 1) - 1)]
        <4>1. Slot(m_nOutPtr, k - Had - 1)' = Slot(Bump(m_nOutPtr), k - (taken + 1) - 1)
          BY <1>2, <1>5 DEF Slot
        <4> QED BY <1>2, <1>5, <3>1, <4>1 DEF ByteAt
      <3> QED BY <3>2, <3>3, <3>4
    <2>4. k \in Int
      BY <1>4, <1>5
    <2> QED BY <1>4, <2>1, <2>2, <2>3, <2>4
  <1>8. Holds(f)'
    BY <1>1, <1>5, <1>7, SameBytes
  <1>9. Content'
    <2>1. Begun' /\ TakenWhole' /\ Quietly'
      BY <1>2, <1>3 DEF Begun, TakenWhole, Quietly
    <2> QED BY <1>8, <2>1 DEF Content
  <1>10. ASSUME ~late' PROVE UNCHANGED <<queued, offered, hand, played>>
    <2>1. UNCHANGED queued
      BY <1>1, <1>8, QueuedThen
    <2>2. offered = <<>> /\ offered' = <<>> /\ hand = <<>> /\ hand' = <<>>
      BY <1>2, <1>3 DEF offered, hand
    <2>3. m_nNextBuffer # playing /\ playing \in 0..1
      BY <1>2, <1>10 DEF Inv, NotWhilePlaying, TypeOK
    <2>4. m_pDMABuffer'[playing'] = m_pDMABuffer[playing]
      BY <1>2, <1>6, <2>3
    <2>5. UNCHANGED played
      BY <2>4 DEF played, Sounding, FramesOf, GameFrames
    <2> QED BY <2>1, <2>2, <2>5
  <1> QED BY <1>9, <1>10 DEF FifoStep

\* What was dequeued leaves the queue, in whole frames.
LEMMA UnlockStep ==
  ASSUME Inv, Inv', Content, GetUnlock
  PROVE  Content' /\ FifoStep /\ hand' \o queued' = hand \o queued
  <1>1. PICK f : Holds(f)
    BY DEF Content
  <1>2. /\ UNCHANGED <<fifo, core2, m_pDMABuffer, m_nNextBuffer, playing, taken, nBytes>>
        /\ pcI = "take" /\ pcI' = "pad" /\ taken = nBytes
        /\ UNCHANGED <<m_pQueue, m_nOutPtr, m_nQueueSize>>
    BY DEF GetUnlock, buffers, channel, fifo, m_nQueueSize
  <1>3. pc2 # "write" /\ pc2' = pc2 /\ pc2 \notin {"start", "fill"} /\ nBytes % BYTES = 0
    BY <1>2 DEF core2, Inv, WholeFrames, Phases
  <1> DEFINE avail == GetQueueBytesAvail
  <1>4. /\ Had = taken /\ Had' = 0 /\ Written = 0 /\ Written' = 0 /\ avail' = avail
        /\ avail \in Nat /\ taken \in Nat /\ Kept = taken + avail /\ Kept' = avail
        /\ Len(f) \in Nat /\ Kept = BYTES * Len(f) /\ f \in Seq(Frame)
    <2>1. Had = taken /\ Had' = 0 /\ Written = 0 /\ Written' = 0 /\ avail' = avail
      BY <1>2, <1>3, Stays DEF Had, Written
    <2>2. avail \in Nat /\ taken \in Nat
      BY Numbers
    <2>3. Len(f) \in Nat /\ Kept = BYTES * Len(f) /\ f \in Seq(Frame)
      BY <1>1, KeptIs DEF Holds
    <2>4. Kept = taken + avail - 0 /\ Kept' = 0 + avail' - 0
      BY <2>1 DEF Kept, avail
    <2> HIDE DEF avail
    <2> QED BY <2>1, <2>2, <2>3, <2>4
  <1> HIDE DEF avail
  <1>5. PICK n \in Nat : taken = BYTES * n
    <2>1. Splits(BYTES, taken, taken \div BYTES, 0)
      BY <1>2, <1>3, <1>4, SoundAssumption, Quotient
    <2>2. taken \div BYTES \in Int /\ taken = (taken \div BYTES) * BYTES + 0
      BY <2>1 DEF Splits
    <2>3. PICK q \in Int : q = taken \div BYTES
      BY <2>2
    <2>4. taken = q * BYTES
      BY <2>2, <2>3, SoundAssumption
    <2>5. q >= 0
      BY <1>4, <2>4, SoundAssumption
    <2> QED BY <2>4, <2>5, SoundAssumption
  <1>6. n <= Len(f)
    <2>1. SUFFICES ASSUME n > Len(f) PROVE FALSE
      BY <1>4
    <2>2. BYTES * n > BYTES * Len(f)
      BY <1>4, <2>1, SoundAssumption
    <2>3. BYTES * n \in Nat /\ BYTES * Len(f) \in Nat
      BY <1>4, SoundAssumption
    <2> QED BY <1>4, <1>5, <2>2, <2>3
  <1>7. PICK g : g = SubSeq(f, 1, n)
    OBVIOUS
  <1>8. PICK h : h = SubSeq(f, n + 1, Len(f))
    OBVIOUS
  <1>9. /\ g \in Seq(Frame) /\ Len(g) = n /\ \A i \in 1..n : g[i] = f[i]
        /\ h \in Seq(Frame) /\ Len(h) = Len(f) - n /\ \A i \in 1..(Len(f) - n) : h[i] = f[n + i]
    BY <1>4, <1>6, <1>7, <1>8
  <1>10. TakenIs(g)
    <2>1. ASSUME NEW i \in 1..Len(g), NEW j \in 1..BYTES
          PROVE  m_pDMABuffer[m_nNextBuffer][Place(i, j)] = <<g[i], j - 1>>
      <3>1. i \in 1..n /\ i \in 1..Len(f)
        BY <1>4, <1>6, <1>9
      <3>2. Place(i, j) \in 1..taken
        BY <1>5, <3>1, PlaceIn
      <3>3. ByteAt(Place(i, j)) = <<f[i], j - 1>>
        BY <1>1, <3>1 DEF Holds
      <3>4. Place(i, j) <= taken
        BY <1>4, <3>2
      <3>5. ByteAt(Place(i, j)) = m_pDMABuffer[m_nNextBuffer][Place(i, j)]
        BY <1>4, <3>4 DEF ByteAt
      <3> QED BY <1>9, <3>1, <3>3, <3>5
    <2> QED BY <1>2, <1>5, <1>9, <2>1 DEF TakenIs
  <1>11. TakenIs(g)'
    BY <1>2, <1>10 DEF TakenIs, Place
  <1>12. Holds(h)'
    <2>1. BYTES * Len(h) = Kept'
      <3>1. BYTES * (Len(f) - n) = BYTES * Len(f) - BYTES * n
        BY <1>4, SoundAssumption
      <3>2. BYTES * n \in Nat /\ BYTES * Len(f) \in Nat
        BY <1>4, SoundAssumption
      <3> QED BY <1>4, <1>5, <1>9, <3>1, <3>2
    <2>2. ASSUME NEW i \in 1..Len(h), NEW j \in 1..BYTES
          PROVE  ByteAt(Place(i, j))' = <<h[i], j - 1>>
      <3>1. i \in Nat \ {0} /\ n + i \in 1..Len(f) /\ i \in 1..(Len(f) - n)
        BY <1>4, <1>6, <1>9
      <3>2. Place(n + i, j) = taken + Place(i, j)
        BY <1>5, <3>1, PlaceAfter
      <3>3. Place(i, j) \in Nat /\ Place(i, j) >= 1
        <4>1. Len(h) \in Nat
          BY <1>9
        <4> QED BY <4>1, PlaceIn
      <3>4. ByteAt(Place(n + i, j)) = <<f[n + i], j - 1>>
        BY <1>1, <3>1 DEF Holds
      <3>5. ~(taken + Place(i, j) <= taken)
            /\ (taken + Place(i, j)) - taken - 1 = Place(i, j) - 0 - 1
            /\ ~(Place(i, j) <= 0)
        BY <1>4, <3>3
      <3>6. ByteAt(Place(n + i, j)) = m_pQueue[Slot(m_nOutPtr, Place(i, j) - 0 - 1)]
        BY <1>4, <3>2, <3>5 DEF ByteAt
      <3>7. Place(i, j)' = Place(i, j)
        BY DEF Place
      <3>8. Slot(m_nOutPtr, Place(i, j) - Had - 1)' = Slot(m_nOutPtr, Place(i, j) - 0 - 1)
        BY <1>2, <1>4, <3>7 DEF Slot
      <3>9. ByteAt(Place(i, j))' = m_pQueue[Slot(m_nOutPtr, Place(i, j) - 0 - 1)]
        BY <1>2, <1>4, <3>5, <3>7, <3>8 DEF ByteAt
      <3> QED BY <1>9, <3>1, <3>4, <3>6, <3>9
    <2> QED BY <1>9, <2>1, <2>2 DEF Holds
  <1>13. Begun' /\ UNCHANGED offered
    BY <1>2, BegunStays DEF Content
  <1>14. Content'
    <2>1. TakenWhole' /\ Quietly'
      BY <1>3, <1>11 DEF TakenWhole, Quietly
    <2> QED BY <1>12, <1>13, <2>1 DEF Content
  <1>15. queued = f /\ queued' = h
    BY <1>1, <1>12, QueuedThen
  <1>16. hand = <<>> /\ hand' = g /\ UNCHANGED played
    <2>1. hand = <<>> /\ hand' = FramesOf(Dequeued)'
      BY <1>2 DEF hand
    <2>2. FramesOf(Dequeued)' = FramesOf(Dequeued)
      BY <1>2 DEF FramesOf, Dequeued
    <2>3. Spells(Dequeued, g)
      <3>1. Len(Dequeued) = taken
        BY <1>4 DEF Dequeued
      <3>2. ASSUME NEW i \in 1..Len(g), NEW j \in 1..BYTES
            PROVE  Dequeued[Place(i, j)] = <<g[i], j - 1>>
        <4>1. Place(i, j) \in 1..taken
          BY <1>5, <1>9, PlaceIn
        <4> QED BY <1>10, <4>1 DEF TakenIs, Dequeued
      <3> QED BY <1>5, <1>9, <3>1, <3>2 DEF Spells
    <2>4. FramesOf(Dequeued) = g
      BY <1>9, <2>3, FramesAre
    <2>5. UNCHANGED played
      BY <1>2 DEF played, Sounding, FramesOf, GameFrames
    <2> QED BY <2>1, <2>2, <2>4, <2>5
  <1>17. ASSUME n = 0 PROVE FifoStep
    <2>1. g = <<>>
      BY <1>7, <1>17, SubSeqEmpty
    <2>2. h = f
      BY <1>4, <1>8, <1>17, SubSeqFull
    <2> QED BY <1>13, <1>15, <1>16, <2>1, <2>2 DEF FifoStep
  <1>18. ASSUME n # 0 PROVE FifoStep
    <2>1. n \in 1..Len(queued)
      BY <1>4, <1>6, <1>15, <1>18
    <2>2. Fifo!Take
      BY <1>7, <1>8, <1>13, <1>15, <1>16, <2>1 DEF Fifo!Take
    <2> QED BY <2>2 DEF FifoStep, FifoAction
  <1>19. hand' \o queued' = hand \o queued
    <2>1. 1 \in 1..(Len(f) + 1) /\ n \in (1 - 1)..Len(f) /\ Len(f) \in n..Len(f)
      BY <1>4, <1>6
    <2>2. SubSeq(f, 1, n) \o SubSeq(f, n + 1, Len(f)) = SubSeq(f, 1, Len(f))
      BY <1>4, <2>1, ConcatAdjacentSubSeq
    <2>3. SubSeq(f, 1, Len(f)) = f /\ <<>> \o f = f
      BY <1>4, SubSeqFull, ConcatEmptySeq
    <2> QED BY <1>7, <1>8, <1>15, <1>16, <2>2, <2>3
  <1> QED BY <1>14, <1>17, <1>18, <1>19

\* Silence goes behind the frames that were taken, and they are still the same.
LEMMA PadStep ==
  ASSUME Inv, Inv', Content, Pad
  PROVE  /\ Content' /\ FifoStep
         /\ ~late' /\ dma' # "error" => UNCHANGED <<queued, offered, hand, played>>
  <1> DEFINE filled == [k \in 1..ChunkBytes |->
                          IF k <= nBytes THEN m_pDMABuffer[m_nNextBuffer][k]
                          ELSE SilentByte(k - nBytes)]
  <1>1. /\ UNCHANGED <<fifo, core2, playing, dma, irq, late>>
        /\ pcI = "pad" /\ pcI' = "idle" /\ taken = nBytes
        /\ m_pDMABuffer' = [m_pDMABuffer EXCEPT ![m_nNextBuffer] = filled]
        /\ m_nNextBuffer \in 0..1 /\ playing \in 0..1
        /\ m_pDMABuffer \in [0..1 -> [1..ChunkBytes -> Bytes]]
    BY DEF Pad, channel, Inv, Phases, TypeOK
  <1>2. pc2 \notin {"start", "fill"} /\ Had = 0 /\ Had' = 0
    BY <1>1 DEF Inv, Phases, Had
  <1>3. /\ Begun' /\ Quietly' /\ UNCHANGED <<queued, offered>>
        /\ \E f : Holds(f)'
    BY <1>1, <1>2, Core0Content
  <1>4. Content'
    <2>1. TakenWhole'
      BY <1>1 DEF TakenWhole
    <2> QED BY <1>3, <2>1 DEF Content
  <1>5. PICK g : TakenIs(g)
    BY <1>1 DEF Content, TakenWhole
  <1>6. /\ nBytes = BYTES * Len(g) /\ Len(g) \in Nat /\ nBytes \in 0..ChunkBytes
        /\ ChunkBytes \in Nat /\ g \in Seq(Frame) /\ ChunkBytes = BYTES * CHUNK
    BY <1>5, Numbers DEF TakenIs, ChunkBytes
  <1>7. Len(g) <= CHUNK
    <2>1. SUFFICES ASSUME Len(g) > CHUNK PROVE FALSE
      BY <1>6, SoundAssumption
    <2>2. BYTES * Len(g) > BYTES * CHUNK
      BY <1>6, <2>1, SoundAssumption
    <2> QED BY <1>6, <2>2
  <1> DEFINE whole == [i \in 1..CHUNK |-> IF i <= Len(g) THEN g[i] ELSE Silence]
  <1>8. Spells(filled, whole)
    <2>1. Len(filled) = ChunkBytes /\ Len(whole) = CHUNK
      BY <1>6, SoundAssumption
    <2>2. ASSUME NEW i \in 1..CHUNK, NEW j \in 1..BYTES
          PROVE  filled[Place(i, j)] = <<whole[i], j - 1>>
      <3>1. Place(i, j) \in 1..ChunkBytes
        BY <1>6, SoundAssumption, PlaceIn
      <3>2. CASE i <= Len(g)
        <4>1. i \in 1..Len(g) /\ whole[i] = g[i]
          BY <3>2
        <4>2. Place(i, j) \in 1..nBytes
          BY <1>6, <4>1, PlaceIn
        <4>3. Place(i, j) <= nBytes
          BY <1>6, <4>2
        <4>4. filled[Place(i, j)] = m_pDMABuffer[m_nNextBuffer][Place(i, j)]
          BY <3>1, <4>3
        <4> QED BY <1>5, <4>1, <4>4 DEF TakenIs
      <3>3. CASE i > Len(g)
        <4>1. PICK n \in Nat \ {0} : i = Len(g) + n
          <5>1. i - Len(g) \in Nat \ {0} /\ i = Len(g) + (i - Len(g))
            BY <1>6, <3>3
          <5> QED BY <5>1
        <4>2. Place(i, j) = nBytes + Place(n, j)
          BY <1>6, <4>1, PlaceAfter
        <4>3. Place(n, j) \in Nat /\ Place(n, j) >= 1
          <5>1. n \in 1..n
            BY <4>1
          <5>2. Place(n, j) \in 1..(BYTES * n) /\ Place(n, j) \in Nat
            BY <4>1, <5>1, PlaceIn
          <5> QED BY <4>1, <5>2, SoundAssumption
        <4>4. ~(Place(i, j) <= nBytes) /\ Place(i, j) - nBytes = Place(n, j)
          BY <1>6, <4>2, <4>3
        <4>5. filled[Place(i, j)] = SilentByte(Place(n, j))
          BY <3>1, <4>4
        <4>6. SilentByte(Place(n, j)) = <<Silence, j - 1>>
          BY <4>1, PlaceOf DEF SilentByte
        <4>7. whole[i] = Silence
          BY <1>6, <3>3
        <4> QED BY <4>5, <4>6, <4>7
      <3> QED BY <1>6, <3>2, <3>3
    <2> HIDE DEF filled, whole
    <2> QED BY <1>6, <2>1, <2>2 DEF Spells
  <1>9. GameFrames(FramesOf(filled)) = g
    <2> HIDE DEF filled
    <2> QED BY <1>6, <1>7, <1>8, GameFramesAre
  <1> HIDE DEF filled
  <1>10. ASSUME ~late', dma' # "error" PROVE UNCHANGED <<hand, played>>
    <2>1. m_nNextBuffer # playing /\ dma = "on" /\ ~irq
      BY <1>1, <1>2, <1>10 DEF Inv, NotWhilePlaying, Phases, TypeOK
    <2>2. m_nNextBuffer = 1 - playing
      BY <1>1, <2>1
    <2>3. m_pDMABuffer'[1 - playing'] = filled /\ m_pDMABuffer'[playing'] = m_pDMABuffer[playing]
      BY <1>1, <2>1, <2>2
    <2>4. UNCHANGED played
      BY <2>3 DEF played, Sounding, FramesOf, GameFrames
    <2>5. hand' = g
      <3>1. hand' = Sounding(1 - playing)'
        BY <1>1, <2>1 DEF hand
      <3>2. Sounding(1 - playing)' = GameFrames(FramesOf(filled))
        BY <2>3 DEF Sounding, FramesOf, GameFrames
      <3> QED BY <1>9, <3>1, <3>2
    <2>6. hand = g
      <3>1. Spells(Dequeued, g)
        <4>1. Len(Dequeued) = nBytes
          BY <1>1, <1>6 DEF Dequeued
        <4>2. ASSUME NEW i \in 1..Len(g), NEW j \in 1..BYTES
              PROVE  Dequeued[Place(i, j)] = <<g[i], j - 1>>
          <5>1. Place(i, j) \in 1..taken
            BY <1>1, <1>6, PlaceIn
          <5> QED BY <1>5, <5>1 DEF TakenIs, Dequeued
        <4> QED BY <1>6, <4>1, <4>2 DEF Spells
      <3>2. FramesOf(Dequeued) = g
        BY <1>6, <3>1, FramesAre
      <3> QED BY <1>1, <3>2 DEF hand
    <2> QED BY <2>4, <2>5, <2>6
  <1> QED BY <1>3, <1>4, <1>10 DEF FifoStep

------------------------------------------------------------------------------
(* The queue and the buffers are a FIFO.                                     *)

LEMMA ContentInit == Init => Content
  <1> SUFFICES ASSUME Init PROVE Content
    OBVIOUS
  <1>1. Kept = 0
    <2>1. GetQueueBytesAvail = 0 /\ Had = 0 /\ Written = 0
      BY DEF Init, GetQueueBytesAvail, Had, Written
    <2> QED BY <2>1 DEF Kept
  <1>2. Holds(<<>>)
    BY <1>1, SoundAssumption DEF Holds
  <1>3. Begun /\ TakenWhole /\ Quietly
    BY DEF Init, Begun, TakenWhole, Quietly
  <1> QED BY <1>2, <1>3 DEF Content

LEMMA StutterStep ==
  ASSUME Inv, Inv', Content, UNCHANGED vars
  PROVE  Content' /\ UNCHANGED <<queued, offered, hand, played>>
  <1>1. PICK f : Holds(f)
    BY DEF Content
  <1>2. /\ UNCHANGED <<fifo, core2, m_pDMABuffer, m_nNextBuffer, playing, dma, irq, pcI, taken, nBytes>>
    BY DEF vars, buffers, channel, core0
  <1>3. Begun' /\ Written' = Written /\ UNCHANGED offered
    BY <1>2, BegunStays DEF Content
  <1>4. Holds(f)'
    BY <1>1, <1>2, <1>3, QueueStays DEF Had
  <1>5. TakenWhole'
    BY <1>2, TakenStays DEF Content
  <1>6. Quietly'
    BY <1>2 DEF core2, Content, Quietly, Silent, SilentByte, ChunkBytes
  <1>7. UNCHANGED <<hand, played>>
    BY <1>2, HandStays
  <1>8. UNCHANGED queued
    BY <1>1, <1>4, QueuedThen
  <1> QED BY <1>3, <1>4, <1>5, <1>6, <1>7, <1>8 DEF Content

LEMMA ContentStep ==
  ASSUME Inv, Inv', Content, [Next]_vars
  PROVE  Content' /\ FifoStep
  <1>1. CASE UNCHANGED vars
    BY <1>1, StutterStep DEF FifoStep
  <1> QED BY <1>1, StartSteps, CallStep, LockStep, ByteStep, EndStep, DoneStep, SignalSteps,
             GetStep, TakeStep, UnlockStep, PadStep DEF Next, Core2, Core0

\* The sound device is a bounded FIFO of whole frames: until an interrupt is a
\* whole buffer late or the channel fails, every frame that Write accepts is
\* taken once, in order, and played in the buffer after it was taken, and only
\* silence is added (soundbasedevice.cpp:325-407 and 772-842,
\* dmasoundbuffers.cpp:242-330).
THEOREM DeviceIsFifo == Spec => DeviceFifo
  <1>1. Init => Inv /\ Content
    BY InvInit, ContentInit
  <1>2. Inv /\ [Next]_vars => Inv'
    BY TypeStep, WholeStep, PlayStep DEF Inv
  <1>3. Inv /\ Content /\ [Next]_vars => Inv' /\ Content'
    BY <1>2, ContentStep
  <1>4. Inv /\ Content /\ [Next]_vars =>
          [~late' /\ dma' # "error" => Fifo!Next \/ Quiet]_(Fifo!vars)
    BY <1>2, ContentStep DEF FifoStep, FifoAction, Fifo!vars, Fifo!Next
  <1> QED BY <1>1, <1>3, <1>4, PTL DEF Spec, DeviceFifo

------------------------------------------------------------------------------
(* What is heard.  Two history variables record every frame that Write took   *)
(* and every frame of the game that the DMA began to play; they only watch    *)
(* the device.                                                                *)

VARIABLES enqueued, heard

Recorded ==
  /\ enqueued' = enqueued \o (IF WriteEnd THEN SubSeq(batch, 1, copied \div BYTES) ELSE <<>>)
  /\ heard'    = heard \o (IF ChunkDone THEN Sounding(1 - playing) ELSE <<>>)

RecordedVars == <<vars, enqueued, heard>>
RecordedSpec == Init /\ enqueued = <<>> /\ heard = <<>> /\ [][Next /\ Recorded]_RecordedVars

HeardAsEnqueued == enqueued = heard \o hand \o queued

\* What a buffer may be cut into.
Cut == Frame \cup {Silence, Torn}

HistoryInv == /\ enqueued \in Seq(Cut) /\ heard \in Seq(Cut)
              /\ ~late /\ dma # "error" => HeardAsEnqueued

LEMMA CutType ==
  ASSUME NEW n \in Nat, NEW b \in [1..n -> Bytes]
  PROVE  FramesOf(b) \in Seq(Cut) /\ Len(FramesOf(b)) = n \div BYTES
  <1> DEFINE q == n \div BYTES
  <1>1. Len(b) = n
    OBVIOUS
  <1>2. q \in Nat /\ BYTES * q <= n
    <2>1. Splits(BYTES, n, q, n % BYTES)
      BY SoundAssumption, Quotient
    <2>2. n \div BYTES >= 0
      BY SoundAssumption
    <2> QED BY <2>1, <2>2, SoundAssumption DEF Splits
  <1>3. ASSUME NEW i \in 1..q PROVE FramesOf(b)[i] \in Cut
    <2>1. Place(i, 1) \in 1..(BYTES * q) /\ BYTES * q \in Nat
      <3>1. 1 \in 1..BYTES
        BY SoundAssumption
      <3> QED BY <1>2, <3>1, PlaceIn
    <2>2. (i - 1) * BYTES + 1 \in 1..n
      BY <1>2, <2>1 DEF Place
    <2>3. b[(i - 1) * BYTES + 1] \in Bytes
      BY <2>2
    <2>4. b[(i - 1) * BYTES + 1][1] \in Frame \cup {Silence}
      BY <2>3 DEF Bytes
    <2>5. \/ FramesOf(b)[i] = b[(i - 1) * BYTES + 1][1]
          \/ FramesOf(b)[i] = Torn
      BY <1>1 DEF FramesOf
    <2> QED BY <2>4, <2>5 DEF Cut
  <1>4. FramesOf(b) = [i \in 1..q |-> FramesOf(b)[i]]
    BY <1>1 DEF FramesOf
  <1> HIDE DEF q
  <1>5. [i \in 1..q |-> FramesOf(b)[i]] \in [1..q -> Cut]
    BY <1>3
  <1>6. FramesOf(b) \in [1..q -> Cut]
    BY <1>4, <1>5
  <1> QED BY <1>2, <1>6 DEF q

LEMMA SoundingType ==
  ASSUME TypeOK, NEW b \in 0..1
  PROVE  Sounding(b) \in Seq(Cut)
  <1> DEFINE f == FramesOf(m_pDMABuffer[b])
             n == Cardinality({i \in 1..CHUNK : f[i] # Silence})
  <1>1. f \in Seq(Cut) /\ Len(f) = ChunkBytes \div BYTES
    <2>1. m_pDMABuffer[b] \in [1..ChunkBytes -> Bytes] /\ ChunkBytes \in Nat
      BY Sizes DEF TypeOK
    <2> QED BY <2>1, CutType
  <1>2. ChunkBytes \div BYTES = CHUNK
    BY SoundAssumption, SMTT(30) DEF ChunkBytes
  <1>3. n \in Nat /\ n <= CHUNK
    <2>1. 1 \in Int /\ CHUNK \in Int /\ CHUNK >= 1
      BY SoundAssumption
    <2>2. IsFiniteSet(1..CHUNK) /\ Cardinality(1..CHUNK) = CHUNK
      <3>1. /\ IsFiniteSet(1..CHUNK)
            /\ Cardinality(1..CHUNK) = IF 1 > CHUNK THEN 0 ELSE CHUNK - 1 + 1
        BY <2>1, FS_Interval
      <3> QED BY <2>1, <3>1
    <2> DEFINE T == {i \in 1..CHUNK : f[i] # Silence}
    <2>3. T \in SUBSET (1..CHUNK)
      OBVIOUS
    <2> HIDE DEF T
    <2>4. IsFiniteSet(T) /\ Cardinality(T) <= Cardinality(1..CHUNK)
      BY <2>2, <2>3, FS_Subset
    <2>5. Cardinality(T) \in Nat
      BY <2>4, FS_CardinalityType
    <2> QED BY <2>2, <2>4, <2>5 DEF T
  <1> HIDE DEF n, f
  <1>4. SubSeq(f, 1, n) \in Seq(Cut)
    BY <1>1, <1>2, <1>3, SoundAssumption
  <1> QED BY <1>4 DEF Sounding, GameFrames, f, n

LEMMA StreamTypes == Inv /\ Content => hand \in Seq(Cut) /\ queued \in Seq(Cut)
  <1> SUFFICES ASSUME Inv, Content PROVE hand \in Seq(Cut) /\ queued \in Seq(Cut)
    OBVIOUS
  <1>1. queued \in Seq(Cut)
    <2>1. PICK f : Holds(f)
      BY DEF Content
    <2>2. queued = f /\ f \in Seq(Frame)
      BY <2>1, QueuedIs DEF Holds
    <2> QED BY <2>2 DEF Cut
  <1>2. FramesOf(Dequeued) \in Seq(Cut)
    <2>1. taken \in Nat /\ taken <= ChunkBytes
      BY Numbers
    <2>2. \A k \in 1..taken : k \in 1..ChunkBytes
      BY <2>1, Sizes
    <2>3. Dequeued \in [1..taken -> Bytes]
      BY <2>2 DEF Dequeued, Inv, TypeOK
    <2> QED BY <2>1, <2>3, CutType
  <1>3. Sounding(1 - playing) \in Seq(Cut)
    <2>1. 1 - playing \in 0..1
      BY DEF Inv, TypeOK
    <2> QED BY <2>1, SoundingType DEF Inv
  <1> QED BY <1>1, <1>2, <1>3 DEF hand

\* An interrupt that was late, and a channel that failed, stay so.
LEMMA StaysLate ==
  ASSUME Inv, [Next]_vars
  PROVE  /\ late => late'
         /\ dma = "error" => dma' = "error"
  <1>1. CASE StartDMA
    BY <1>1 DEF StartDMA, Inv, Phases
  <1>2. CASE ChunkDone
    BY <1>2 DEF ChunkDone
  <1>3. CASE ChunkError
    BY <1>3 DEF ChunkError
  <1>4. CASE ~StartDMA /\ ~ChunkDone /\ ~ChunkError
    <2>1. UNCHANGED <<late, dma>>
      BY <1>4 DEF Next, Core2, Core0, StartFill, WriteCall, WriteLock, WriteByte, WriteEnd,
                  Interrupt, GetLock, TakeByte, GetUnlock, Pad, channel, vars
    <2> QED BY <2>1
  <1> QED BY <1>1, <1>2, <1>3, <1>4

\* A step enqueues, begins to play, or keeps hand and queue together what they
\* were.
LEMMA StreamStep ==
  ASSUME Inv, Inv', Content, [Next]_vars, ~late', dma' # "error"
  PROVE  /\ WriteEnd => /\ ~ChunkDone /\ hand' = hand
                        /\ queued' = queued \o SubSeq(batch, 1, copied \div BYTES)
         /\ ChunkDone => hand = Sounding(1 - playing) /\ hand' = <<>> /\ queued' = queued
         /\ ~WriteEnd /\ ~ChunkDone => hand' \o queued' = hand \o queued
  <1>1. WriteEnd => ~ChunkDone
    BY DEF WriteEnd, ChunkDone, core2
  <1>2. ASSUME ~WriteEnd, ~ChunkDone PROVE hand' \o queued' = hand \o queued
    <2>1. CASE UNCHANGED vars
      BY <2>1, StutterStep
    <2>2. CASE GetUnlock
      BY <2>2, UnlockStep
    <2>3. CASE Next /\ ~GetUnlock
      <3>1. UNCHANGED <<queued, hand>>
        BY <1>2, <2>3, StartSteps, CallStep, LockStep, ByteStep, SignalSteps, GetStep, TakeStep,
           PadStep DEF Next, Core2, Core0
      <3> QED BY <3>1
    <2> QED BY <2>1, <2>2, <2>3
  <1> QED BY <1>1, <1>2, EndStep, DoneStep

LEMMA ConcatAssociates == \A s, t, u \in Seq(Cut) : (s \o t) \o u = s \o (t \o u)
  BY ConcatAssociative

LEMMA HistoryInit == Init /\ enqueued = <<>> /\ heard = <<>> => HistoryInv
  <1> SUFFICES ASSUME Init, enqueued = <<>>, heard = <<>> PROVE HistoryInv
    OBVIOUS
  <1>1. Inv /\ Content
    BY InvInit, ContentInit
  <1>2. queued = <<>>
    <2>1. PICK f : Holds(f)
      BY <1>1 DEF Content
    <2>2. Kept = 0
      <3>1. GetQueueBytesAvail = 0 /\ Had = 0 /\ Written = 0
        BY DEF Init, GetQueueBytesAvail, Had, Written
      <3> QED BY <3>1 DEF Kept
    <2>3. f \in Seq(Frame) /\ Len(f) \in Nat /\ BYTES * Len(f) = 0
      BY <1>1, <2>1, <2>2 DEF Holds
    <2>4. Len(f) = 0
      BY <2>3, SoundAssumption
    <2>5. f = <<>>
      BY <2>3, <2>4
    <2> QED BY <1>1, <2>1, <2>5, QueuedIs
  <1>3. hand = <<>>
    BY DEF Init, hand
  <1>4. <<>> \in Seq(Cut) /\ <<>> \o <<>> \o <<>> = <<>>
    OBVIOUS
  <1> QED BY <1>2, <1>3, <1>4 DEF HistoryInv, HeardAsEnqueued

LEMMA HistoryStep ==
  ASSUME Inv, Inv', Content, Content', HistoryInv, [Next /\ Recorded]_RecordedVars
  PROVE  HistoryInv'
  <1>1. [Next]_vars
    BY DEF RecordedVars
  <1>2. /\ hand \in Seq(Cut) /\ queued \in Seq(Cut) /\ <<>> \in Seq(Cut)
        /\ enqueued \in Seq(Cut) /\ heard \in Seq(Cut)
    BY StreamTypes DEF HistoryInv
  <1>3. hand' \in Seq(Cut) /\ queued' \in Seq(Cut)
    <2>1. (Inv /\ Content => hand \in Seq(Cut) /\ queued \in Seq(Cut))'
      BY StreamTypes, PTL
    <2>2. hand' \in Seq(Cut)' /\ queued' \in Seq(Cut)'
      BY <2>1, Zenon
    <2> QED BY <2>2 DEF Cut, Torn
  <1> DEFINE new   == SubSeq(batch, 1, copied \div BYTES)
             sound == Sounding(1 - playing)
  <1>4. WriteEnd => new \in Seq(Cut)
    <2>1. SUFFICES ASSUME WriteEnd PROVE new \in Seq(Cut)
      OBVIOUS
    <2>2. PICK f : Holds(f)
      BY DEF Content
    <2>3. PICK m \in Nat : copied = BYTES * m /\ m <= Len(batch)
      BY <2>1, <2>2, AllAccepted
    <2>4. copied \div BYTES = m
      <3>1. (BYTES * m) \div BYTES = m
        BY SoundAssumption, SMTT(30)
      <3> QED BY <2>3, <3>1
    <2>5. batch \in Seq(Cut)
      BY DEF Inv, TypeOK, Cut
    <2> QED BY <2>3, <2>4, <2>5
  <1>5. sound \in Seq(Cut)
    <2>1. 1 - playing \in 0..1
      BY DEF Inv, TypeOK
    <2> QED BY <2>1, SoundingType DEF Inv
  <1>w. Recorded => /\ enqueued' = enqueued \o (IF WriteEnd THEN new ELSE <<>>)
                    /\ heard' = heard \o (IF ChunkDone THEN sound ELSE <<>>)
    BY DEF Recorded
  <1>s. ~late' /\ dma' # "error" =>
          /\ WriteEnd => ~ChunkDone /\ hand' = hand /\ queued' = queued \o new
          /\ ChunkDone => hand = sound /\ hand' = <<>> /\ queued' = queued
          /\ ~WriteEnd /\ ~ChunkDone => hand' \o queued' = hand \o queued
    BY <1>1, StreamStep
  <1> HIDE DEF new, sound
  <1>6. enqueued' \in Seq(Cut) /\ heard' \in Seq(Cut)
    <2>1. CASE Recorded
      <3>1. (IF WriteEnd THEN new ELSE <<>>) \in Seq(Cut) /\ (IF ChunkDone THEN sound ELSE <<>>) \in Seq(Cut)
        BY <1>2, <1>4, <1>5
      <3> QED BY <1>2, <1>w, <2>1, <3>1, ConcatProperties
    <2>2. CASE UNCHANGED RecordedVars
      BY <1>2, <2>2 DEF RecordedVars
    <2> QED BY <2>1, <2>2
  <1>7. ASSUME ~late', dma' # "error" PROVE HeardAsEnqueued'
    <2>1. enqueued = heard \o hand \o queued
      BY <1>1, <1>7, StaysLate DEF HistoryInv, HeardAsEnqueued
    <2>2. heard \o hand \o queued = heard \o (hand \o queued)
      BY <1>2, ConcatAssociates
    <2>3. heard' \o hand' \o queued' = heard' \o (hand' \o queued')
      BY <1>3, <1>6, ConcatAssociates
    <2>4. SUFFICES enqueued' = heard' \o (hand' \o queued')
      BY <2>3 DEF HeardAsEnqueued
    <2>5. CASE UNCHANGED RecordedVars
      <3>1. UNCHANGED <<enqueued, heard>> /\ UNCHANGED vars
        BY <2>5 DEF RecordedVars
      <3>2. UNCHANGED <<queued, hand>>
        BY <3>1, StutterStep
      <3> QED BY <2>1, <2>2, <3>1, <3>2
    <2>6. CASE Recorded /\ WriteEnd
      <3>1. /\ queued' = queued \o new /\ hand' = hand
            /\ enqueued' = enqueued \o new /\ heard' = heard \o <<>> /\ new \in Seq(Cut)
        BY <1>4, <1>7, <1>s, <1>w, <2>6
      <3>2. heard' = heard
        BY <1>2, <3>1, ConcatEmptySeq
      <3>3. heard \o hand \in Seq(Cut) /\ queued \o new \in Seq(Cut)
        BY <1>2, <3>1, ConcatProperties
      <3>4. heard \o hand \in Seq(Cut)
        BY <3>3
      <3>5. queued \in Seq(Cut)
        BY <1>2
      <3>6. new \in Seq(Cut)
        BY <3>1
      <3>7. ((heard \o hand) \o queued) \o new = (heard \o hand) \o (queued \o new)
        BY <3>4, <3>5, <3>6, ConcatAssociates
      <3>8. heard \in Seq(Cut) /\ hand \in Seq(Cut)
        BY <1>2
      <3>9. (heard \o hand) \o (queued \o new) = heard \o (hand \o (queued \o new))
        BY <3>3, <3>8, ConcatAssociates
      <3> QED BY <2>1, <3>1, <3>2, <3>7, <3>9
    <2>7. CASE Recorded /\ ChunkDone
      <3>1. /\ hand = sound /\ hand' = <<>> /\ queued' = queued
            /\ enqueued' = enqueued \o <<>> /\ heard' = heard \o hand
        BY <1>7, <1>s, <1>w, <2>7
      <3>2. enqueued' = enqueued /\ hand' \o queued' = queued
        BY <1>2, <3>1, ConcatEmptySeq
      <3> QED BY <2>1, <3>1, <3>2
    <2>8. CASE Recorded /\ ~WriteEnd /\ ~ChunkDone
      <3>1. /\ hand' \o queued' = hand \o queued
            /\ enqueued' = enqueued \o <<>> /\ heard' = heard \o <<>>
        BY <1>7, <1>s, <1>w, <2>8
      <3>2. enqueued' = enqueued /\ heard' = heard
        BY <1>2, <3>1, ConcatEmptySeq
      <3> QED BY <2>1, <2>2, <3>1, <3>2
    <2> QED BY <2>5, <2>6, <2>7, <2>8
  <1> QED BY <1>6, <1>7 DEF HistoryInv

\* Every frame that Write took since the device was started began to play once
\* and in order, or waits in a DMA buffer, or is still in the byte queue
\* (soundbasedevice.cpp:325-407 and 772-842, dmasoundbuffers.cpp:242-330):
\* nothing is lost, repeated, torn or mixed, until an interrupt is a whole
\* buffer late or the channel fails.
THEOREM EveryFrameIsPlayedOnce ==
  RecordedSpec => [](~late /\ dma # "error" => HeardAsEnqueued)
  <1>1. Init /\ enqueued = <<>> /\ heard = <<>> => Inv /\ Content /\ HistoryInv
    BY InvInit, ContentInit, HistoryInit
  <1>2. Inv /\ [Next /\ Recorded]_RecordedVars => Inv'
    BY TypeStep, WholeStep, PlayStep DEF Inv, RecordedVars
  <1>3. Inv /\ Content /\ [Next /\ Recorded]_RecordedVars => Content'
    <2>1. [Next /\ Recorded]_RecordedVars => [Next]_vars
      BY DEF RecordedVars
    <2> QED BY <1>2, <2>1, ContentStep
  <1>4. Inv /\ Content /\ HistoryInv /\ [Next /\ Recorded]_RecordedVars => HistoryInv'
    BY <1>2, <1>3, HistoryStep
  <1>5. HistoryInv => (~late /\ dma # "error" => HeardAsEnqueued)
    BY DEF HistoryInv
  <1> QED BY <1>1, <1>2, <1>3, <1>4, <1>5, PTL DEF RecordedSpec
==============================================================================
