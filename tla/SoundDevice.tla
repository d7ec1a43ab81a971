----------------------------- MODULE SoundDevice -----------------------------
(****************************************************************************)
(* The sound device behind the audio core: the byte queue of                *)
(* CSoundBaseDevice (circle/lib/sound/soundbasedevice.cpp) and the two DMA  *)
(* buffers of CDMASoundBuffers (circle/lib/sound/dmasoundbuffers.cpp).      *)
(*                                                                          *)
(* Three actors share them.  Core 2 starts the device and writes batches of *)
(* frames; the DMA controller plays one buffer, interrupts, and goes on     *)
(* with the other one by itself; the interrupt handler, on core 0, fills    *)
(* the buffer that was played last from the queue, padding it with silence. *)
(* Write and the dequeue of the handler hold the queue's spin lock; the     *)
(* handler's padding and the DMA do not.                                    *)
(*                                                                          *)
(* The queue moves bytes, its users move frames.  A byte is the frame it    *)
(* belongs to and its place in it.  `late' is a history variable: the DMA   *)
(* finished a buffer before the interrupt of the one before was served.     *)
(****************************************************************************)
EXTENDS Integers, Sequences, FiniteSets

CONSTANTS BYTES,      \* m_nHWTXFrameSize: bytes of a frame; 8 in the code
          FRAMES,     \* frames the queue is allocated for; 4410 in the code
          CHUNK,      \* frames of a DMA buffer; 1024 in the code
          Frame,      \* stereo frames
          Batches,    \* what Write is given at a time; 1 to 512 frames in the code
          Silence     \* m_NullFrame, told apart from the frames of the game

ASSUME SoundAssumption == /\ BYTES \in Nat \ {0}
                          /\ FRAMES \in Nat \ {0}
                          /\ CHUNK \in Nat \ {0}
                          /\ Batches \subseteq Seq(Frame) \ {<<>>}
                          /\ Silence \notin Frame

VARIABLES
  m_pQueue, m_nInPtr, m_nOutPtr,
  m_SpinLock,                    \* who holds the queue: "core2", "irq", "none"
  pc2,                           \* core 2: where it is in Start or Write
  batch,                         \* core 2: the frames Write was given
  copied,                        \* core 2: bytes Write has enqueued
  m_pDMABuffer, m_nNextBuffer, m_State,
  playing,                       \* the buffer the DMA reads
  dma,                           \* the DMA channel: "off", "on", "error"
  irq,                           \* CS_INT: an interrupt is pending
  pcI,                           \* core 0: where it is in InterruptHandler
  nBytes,                        \* core 0: bytes GetChunkInternal takes
  taken,                         \* core 0: bytes dequeued so far
  late

fifo   == <<m_pQueue, m_nInPtr, m_nOutPtr>>
core2  == <<pc2, batch, copied>>
buffers == <<m_pDMABuffer, m_nNextBuffer, m_State>>
channel == <<playing, dma, irq, late>>
core0  == <<pcI, nBytes, taken>>
vars   == <<fifo, m_SpinLock, core2, buffers, channel, core0>>

\* "1 byte remains free"
m_nQueueSize == BYTES * FRAMES + 1
ChunkBytes   == BYTES * CHUNK
Bytes        == (Frame \cup {Silence}) \X (0..(BYTES - 1))
Least(a, b)  == IF a <= b THEN a ELSE b

\* (bug) the index goes back one byte too late.
BumpPast(ptr) == IF ptr = m_nQueueSize THEN 0 ELSE ptr + 1
\* ++ptr, back to 0 at the end of the queue
Bump(ptr) == IF ptr + 1 = m_nQueueSize THEN 0 ELSE ptr + 1

GetQueueBytesFree == IF m_nOutPtr <= m_nInPtr
                     THEN m_nQueueSize + m_nOutPtr - m_nInPtr - 1
                     ELSE m_nOutPtr - m_nInPtr - 1
\* (bug) the free byte is counted when the queue wraps.
GetQueueBytesAvailSpare == IF m_nInPtr < m_nOutPtr
                           THEN m_nQueueSize + m_nInPtr - m_nOutPtr - 1
                           ELSE m_nInPtr - m_nOutPtr
GetQueueBytesAvail == IF m_nInPtr < m_nOutPtr
                      THEN m_nQueueSize + m_nInPtr - m_nOutPtr
                      ELSE m_nInPtr - m_nOutPtr

SilentByte(k) == <<Silence, (k - 1) % BYTES>>
Silent == [k \in 1..ChunkBytes |-> SilentByte(k)]

\* The frames a sequence of bytes is made of; bytes that are not a whole frame
\* in the right order make no frame at all.
Torn == <<>>
FramesOf(b) ==
  [i \in 1..(Len(b) \div BYTES) |->
     LET first == b[(i - 1) * BYTES + 1]
     IN  IF \A j \in 1..BYTES : b[(i - 1) * BYTES + j] = <<first[1], j - 1>>
         THEN first[1] ELSE Torn]

\* The frames of the game in a DMA buffer: they come before the silence.
GameFrames(f) == SubSeq(f, 1, Cardinality({i \in 1..CHUNK : f[i] # Silence}))
Sounding(b) == GameFrames(FramesOf(m_pDMABuffer[b]))

Init == /\ m_pQueue = [i \in 0..(m_nQueueSize - 1) |-> <<Silence, 0>>]
        /\ m_nInPtr = 0
        /\ m_nOutPtr = 0
        /\ m_SpinLock = "none"
        /\ pc2 = "start"
        /\ batch = <<>>
        /\ copied = 0
        /\ m_pDMABuffer = [b \in 0..1 |-> Silent]
        /\ m_nNextBuffer = 0
        /\ m_State = "idle"
        /\ playing = 0
        /\ dma = "off"
        /\ irq = FALSE
        /\ pcI = "idle"
        /\ nBytes = 0
        /\ taken = 0
        /\ late = FALSE

------------------------------------------------------------------------------
(* Core 2: Start, then Write for every batch RunAudioDomain read.            *)

\* Buffer 0 is filled with silence and the DMA starts to play it.
StartDMA ==
  /\ pc2 = "start"
  /\ m_pDMABuffer' = [m_pDMABuffer EXCEPT ![0] = Silent]
  /\ m_nNextBuffer' = 1
  /\ m_State' = "running"
  /\ playing' = 0
  /\ dma' = "on"
  /\ pc2' = "fill"
  /\ UNCHANGED <<fifo, m_SpinLock, batch, copied, irq, late, core0>>

\* (bug) Start does not note that buffer 1 is filled.
StartFillSameBuffer ==
  /\ pc2 = "fill"
  /\ m_pDMABuffer' = [m_pDMABuffer EXCEPT ![1] = Silent]
  /\ pc2' = "poll"
  /\ UNCHANGED <<fifo, m_SpinLock, batch, copied, m_nNextBuffer, m_State, channel, core0>>

\* Buffer 1 is filled while buffer 0 plays, outside the lock of the buffers;
\* the queue is still empty, so it is filled with silence too.
StartFill ==
  /\ pc2 = "fill"
  /\ m_pDMABuffer' = [m_pDMABuffer EXCEPT ![1] = Silent]
  /\ m_nNextBuffer' = 0
  /\ pc2' = "poll"
  /\ UNCHANGED <<fifo, m_SpinLock, batch, copied, m_State, channel, core0>>

\* Write(local_buf, read * 4)
WriteCall(s) ==
  /\ pc2 = "poll"
  /\ batch' = s
  /\ pc2' = "wait"
  /\ UNCHANGED <<fifo, m_SpinLock, copied, buffers, channel, core0>>

WriteLock ==
  /\ pc2 = "wait"
  /\ m_SpinLock = "none"
  /\ m_SpinLock' = "core2"
  /\ pc2' = "write"
  /\ UNCHANGED <<fifo, batch, copied, buffers, channel, core0>>

\* The loop of Write: another frame is begun only when the whole of it fits;
\* Enqueue copies a begun frame to its end.
MoreToWrite == /\ copied < BYTES * Len(batch)
               /\ copied % BYTES = 0 => GetQueueBytesFree >= BYTES

WriteByte ==
  /\ pc2 = "write"
  /\ MoreToWrite
  /\ m_pQueue' = [m_pQueue EXCEPT ![m_nInPtr] =
                    <<batch[copied \div BYTES + 1], copied % BYTES>>]
  /\ m_nInPtr' = Bump(m_nInPtr)
  /\ copied' = copied + 1
  /\ UNCHANGED <<m_nOutPtr, m_SpinLock, pc2, batch, buffers, channel, core0>>

\* (bug) what did not fit is tried again until it does.
WriteEndRetry ==
  /\ pc2 = "write"
  /\ ~MoreToWrite
  /\ m_SpinLock' = "none"
  /\ batch' = SubSeq(batch, copied \div BYTES + 1, Len(batch))
  /\ copied' = 0
  /\ pc2' = IF batch' = <<>> THEN "poll" ELSE "wait"
  /\ UNCHANGED <<fifo, buffers, channel, core0>>

\* What did not fit is dropped: RunAudioDomain ignores how much was written.
WriteEnd ==
  /\ pc2 = "write"
  /\ ~MoreToWrite
  /\ m_SpinLock' = "none"
  /\ batch' = <<>>
  /\ copied' = 0
  /\ pc2' = "poll"
  /\ UNCHANGED <<fifo, buffers, channel, core0>>

------------------------------------------------------------------------------
(* The DMA channel.                                                          *)

\* The buffer is played: the channel interrupts and loads the other control
\* block.  Start is done by then: the first buffer plays for 23 ms.
ChunkDone ==
  /\ dma = "on"
  /\ pc2 # "fill"
  /\ playing' = 1 - playing
  /\ irq' = TRUE
  /\ late' = (late \/ irq \/ pcI # "idle")
  /\ UNCHANGED <<fifo, m_SpinLock, core2, buffers, dma, core0>>

\* CS_ERROR: the channel stops and interrupts.
ChunkError ==
  /\ dma = "on"
  /\ pc2 # "fill"
  /\ dma' = "error"
  /\ irq' = TRUE
  /\ UNCHANGED <<fifo, m_SpinLock, core2, buffers, playing, late, core0>>

------------------------------------------------------------------------------
(* Core 0: InterruptHandler, GetNextChunk and GetChunkInternal.              *)

\* The interrupt is acknowledged; after an error the device is failed for good.
Interrupt ==
  /\ irq
  /\ pcI = "idle"
  /\ irq' = FALSE
  /\ IF dma = "error"
     THEN m_State' = "failed" /\ pcI' = "idle"
     ELSE m_State' = m_State /\ pcI' = "wait"
  /\ UNCHANGED <<fifo, m_SpinLock, core2, m_pDMABuffer, m_nNextBuffer, playing, dma,
                 late, nBytes, taken>>

\* (bug) the handler waits until it can fill the whole buffer.
GetLockFull ==
  /\ pcI = "wait"
  /\ m_SpinLock = "none"
  /\ m_SpinLock' = "irq"
  /\ nBytes' = IF GetQueueBytesAvail < ChunkBytes THEN 0 ELSE ChunkBytes
  /\ taken' = 0
  /\ pcI' = "take"
  /\ UNCHANGED <<fifo, core2, buffers, channel>>

GetLock ==
  /\ pcI = "wait"
  /\ m_SpinLock = "none"
  /\ m_SpinLock' = "irq"
  /\ nBytes' = Least(GetQueueBytesAvail, ChunkBytes)
  /\ taken' = 0
  /\ pcI' = "take"
  /\ UNCHANGED <<fifo, core2, buffers, channel>>

\* One byte of Dequeue.
TakeByte ==
  /\ pcI = "take"
  /\ taken < nBytes
  /\ m_pDMABuffer' = [m_pDMABuffer EXCEPT ![m_nNextBuffer][taken + 1] = m_pQueue[m_nOutPtr]]
  /\ m_nOutPtr' = Bump(m_nOutPtr)
  /\ taken' = taken + 1
  /\ UNCHANGED <<m_pQueue, m_nInPtr, m_SpinLock, core2, m_nNextBuffer, m_State, channel, pcI, nBytes>>

GetUnlock ==
  /\ pcI = "take"
  /\ taken = nBytes
  /\ m_SpinLock' = "none"
  /\ pcI' = "pad"
  /\ UNCHANGED <<fifo, core2, buffers, channel, nBytes, taken>>

\* (bug) a buffer that could not be filled completely is not counted.
PadFullOnly ==
  /\ pcI = "pad"
  /\ m_pDMABuffer' = [m_pDMABuffer EXCEPT ![m_nNextBuffer] =
       [k \in 1..ChunkBytes |-> IF k <= nBytes THEN m_pDMABuffer[m_nNextBuffer][k]
                                               ELSE SilentByte(k - nBytes)]]
  /\ m_nNextBuffer' = IF nBytes = ChunkBytes THEN 1 - m_nNextBuffer ELSE m_nNextBuffer
  /\ nBytes' = 0
  /\ taken' = 0
  /\ pcI' = "idle"
  /\ UNCHANGED <<fifo, m_SpinLock, core2, m_State, channel>>

\* Null frames up to the end of the buffer; then the other buffer is next.
Pad ==
  /\ pcI = "pad"
  /\ m_pDMABuffer' = [m_pDMABuffer EXCEPT ![m_nNextBuffer] =
       [k \in 1..ChunkBytes |-> IF k <= nBytes THEN m_pDMABuffer[m_nNextBuffer][k]
                                               ELSE SilentByte(k - nBytes)]]
  /\ m_nNextBuffer' = 1 - m_nNextBuffer
  /\ nBytes' = 0
  /\ taken' = 0
  /\ pcI' = "idle"
  /\ UNCHANGED <<fifo, m_SpinLock, core2, m_State, channel>>

------------------------------------------------------------------------------
Core2 == \/ StartDMA \/ StartFill
         \/ \E s \in Batches : WriteCall(s)
         \/ WriteLock \/ WriteByte \/ WriteEnd
Core0 == Interrupt \/ GetLock \/ TakeByte \/ GetUnlock \/ Pad
Next  == Core2 \/ Core0 \/ ChunkDone \/ ChunkError
Spec  == Init /\ [][Next]_vars

\* Code that runs is not stopped for ever, and the channel plays.  A spin lock
\* that is free again and again is obtained: the other side holds it for at
\* most a batch or a chunk at a time.
Fairness == /\ WF_vars(StartDMA) /\ WF_vars(StartFill)
            /\ WF_vars(WriteByte) /\ WF_vars(WriteEnd) /\ SF_vars(WriteLock)
            /\ WF_vars(Interrupt) /\ SF_vars(GetLock)
            /\ WF_vars(TakeByte) /\ WF_vars(GetUnlock) /\ WF_vars(Pad)
            /\ WF_vars(ChunkDone)
LiveSpec == Spec /\ Fairness

------------------------------------------------------------------------------
(* Properties                                                                *)

TypeOK ==
  /\ m_pQueue \in [0..(m_nQueueSize - 1) -> Bytes]
  /\ m_nInPtr \in 0..(m_nQueueSize - 1)
  /\ m_nOutPtr \in 0..(m_nQueueSize - 1)
  /\ m_SpinLock \in {"core2", "irq", "none"}
  /\ pc2 \in {"start", "fill", "poll", "wait", "write"}
  /\ batch \in Seq(Frame)
  /\ copied \in 0..(BYTES * Len(batch))
  /\ m_pDMABuffer \in [0..1 -> [1..ChunkBytes -> Bytes]]
  /\ m_nNextBuffer \in 0..1
  /\ m_State \in {"idle", "running", "failed"}
  /\ playing \in 0..1
  /\ dma \in {"off", "on", "error"}
  /\ irq \in BOOLEAN
  /\ pcI \in {"idle", "wait", "take", "pad"}
  /\ nBytes \in 0..ChunkBytes
  /\ taken \in 0..nBytes
  /\ late \in BOOLEAN

\* The pointers are only used under the lock, and outside a Write or a dequeue
\* the queue holds whole frames, wherever it wraps: the free byte makes its size
\* no multiple of a frame, so a frame may start at any byte and be split.  So
\* what the handler takes is whole frames too, and its padding, which goes on
\* by whole frames, ends exactly at the end of the buffer.
WholeFrames ==
  /\ (pc2 = "write") <=> (m_SpinLock = "core2")
  /\ (pcI = "take") <=> (m_SpinLock = "irq")
  /\ (GetQueueBytesAvail + (IF pcI = "take" THEN taken ELSE 0)) % BYTES
        = (IF pc2 = "write" THEN copied ELSE 0) % BYTES
  /\ nBytes % BYTES = 0

\* As long as no interrupt is a whole buffer late, the handler never touches
\* the buffer that is being played, and the buffer to be played next is ready.
NotWhilePlaying ==
  ~late => /\ pcI # "idle" => m_nNextBuffer # playing
           /\ irq /\ dma = "on" => m_nNextBuffer # playing
           /\ dma = "on" /\ pc2 # "fill" /\ pcI = "idle" /\ ~irq => m_nNextBuffer = playing

\* The queue and the buffers together are a bounded FIFO: every frame Write
\* accepts is played exactly once, whole and in order, and silence is only
\* added between them.
Ahead(n) == [k \in 1..n |-> m_pQueue[(m_nOutPtr + k - 1) % m_nQueueSize]]
Written  == IF pc2 = "write" THEN copied ELSE 0
Dequeued == [k \in 1..taken |-> m_pDMABuffer[m_nNextBuffer][k]]
queued   == FramesOf((IF pcI = "take" THEN Dequeued ELSE <<>>)
                     \o Ahead(GetQueueBytesAvail - Written))
Accepted == Least(Len(batch), (copied + GetQueueBytesFree) \div BYTES)
offered  == IF pc2 = "write" THEN SubSeq(batch, 1, Accepted) ELSE <<>>
hand     == IF pcI = "pad" THEN FramesOf(Dequeued)
            ELSE IF pcI = "idle" /\ ~irq /\ dma = "on" THEN Sounding(1 - playing)
            ELSE <<>>
played   == Sounding(playing)
Fifo == INSTANCE AudioFifo WITH Capacity <- FRAMES, queue <- queued

\* A buffer of nothing but silence is played.
Quiet == /\ hand = <<>> /\ played' = <<>>
         /\ UNCHANGED <<queued, offered, hand>>

DeviceFifo ==
  [][~late' /\ dma' # "error" => Fifo!Next \/ Quiet]_(Fifo!vars)

\* What is queued goes on to the DMA buffers, unless the device has failed.
QueuedIsPlayed ==
  (GetQueueBytesAvail > 0) ~> ((pcI = "take" /\ nBytes > 0) \/ dma = "error")

\* Write always returns, with a full queue and with a failed device as well:
\* the audio core goes on draining the ring.
WriteReturns == (pc2 = "wait") ~> (pc2 = "poll")
==============================================================================
