------------------------------ MODULE AudioRing ------------------------------
(****************************************************************************)
(* AudioRingBuffer (emulator/audio_ring_buffer.h) with its two users: the   *)
(* sound callback that writes it on core 0 and the loop of RunAudioDomain   *)
(* that reads it on core 2.  Init, called by core 0 when a game boots, is   *)
(* part of the model: it stores to both indices, the reader's included.     *)
(*                                                                          *)
(* Every access to a shared variable is a step of its own.  memcpy is one   *)
(* step per frame.  The DataMemBarrier calls of the code order the copies   *)
(* before the index stores, so the model is sequentially consistent.        *)
(* Reading (write_idx, read_idx) is one step: each side owns one of the two *)
(* and the other side only ever moves its own forward.                      *)
(****************************************************************************)
EXTENDS Integers, Sequences

CONSTANTS SIZE,       \* frames in the ring; 8192 in the code
          CHUNK,      \* frames core 2 reads at a time; 512 in the code
          MaxBurst,   \* frames of one sound callback, at most (882 on PAL)
          Frame,      \* stereo samples
          Silence     \* the frame memset writes

ASSUME RingAssumption == /\ SIZE \in Nat \ {0}
                         /\ CHUNK \in Nat \ {0}
                         /\ MaxBurst \in Nat
                         /\ Silence \in Frame

VARIABLES
  buffer, read_idx, write_idx,   \* the shared object
  pc0,                           \* core 0: where it is in Write or Init
  samples,                       \* core 0: the frames Write copies
  copied,                        \* core 0: frames copied so far
  pc2,                           \* core 2: where it is in its loop
  num,                           \* core 2: num_stereo_samples
  start,                         \* core 2: start
  next,                          \* core 2: the value it will store
  local_buf,                     \* core 2: local_buf, filled so far
  played,                        \* what the sound device got last
  raced                          \* ghost: Init overlapped a step of the reader

ring  == <<buffer, read_idx, write_idx>>
core0 == <<pc0, samples, copied>>
core2 == <<pc2, num, start, next, local_buf, played>>
vars  == <<ring, core0, core2, raced>>

InInit == pc0 \in {"zeroRead", "zeroWrite", "clear"}

Least(a, b) == IF a <= b THEN a ELSE b

\* x & MASK: SIZE is a power of two and divides 2^32, so the unsigned
\* wrap-around of the code is the mathematical remainder.
Wrap(x) == x % SIZE

GetAvailable == Wrap(write_idx - read_idx)
\* (bug) the ring is allowed to fill up completely: full looks like empty.
GetFreeSpaceFull == SIZE - GetAvailable
GetFreeSpace == Wrap(read_idx - write_idx - 1)

\* (bug) a copy is never split at the end of the array.
SlotOneChunk(s, n, k) == s + k

\* Where frame k (from 0) of a copy of n frames from s lives: one contiguous
\* segment, or a first chunk up to the end and a second one from slot 0.
Slot(s, n, k) == IF s + n <= SIZE \/ k < SIZE - s THEN s + k ELSE k - (SIZE - s)

Bursts == UNION {[1..n -> Frame] : n \in 0..MaxBurst}

Init == /\ buffer = [i \in 0..(SIZE - 1) |-> Silence]
        /\ read_idx = 0
        /\ write_idx = 0
        /\ pc0 = "idle"
        /\ samples = <<>>
        /\ copied = 0
        /\ pc2 = "poll"
        /\ num = 0
        /\ start = 0
        /\ next = 0
        /\ local_buf = <<>>
        /\ played = <<>>
        /\ raced = FALSE

------------------------------------------------------------------------------
(* Core 0: EmuSoundCallback calls Write.                                     *)

\* Write(s): clamp to the free space, dropping the newest frames; return at
\* once (a stuttering step) when nothing fits.
WriteBegin(s) ==
  LET n == Least(Len(s), GetFreeSpace) IN
  /\ pc0 = "idle"
  /\ n > 0
  /\ samples' = [i \in 1..n |-> s[i]]
  /\ copied' = 0
  /\ pc0' = "copy"
  /\ UNCHANGED <<ring, core2, raced>>

WriteCopy ==
  /\ pc0 = "copy"
  /\ buffer' = [buffer EXCEPT ![Slot(write_idx, Len(samples), copied)] = samples[copied + 1]]
  /\ copied' = copied + 1
  /\ pc0' = IF copied + 1 = Len(samples) THEN "publish" ELSE "copy"
  /\ UNCHANGED <<read_idx, write_idx, samples, core2, raced>>

\* (bug) the index is stored without the mask.
WritePublishUnmasked ==
  /\ pc0 = "publish"
  /\ write_idx' = write_idx + Len(samples)
  /\ samples' = <<>>
  /\ copied' = 0
  /\ pc0' = "idle"
  /\ UNCHANGED <<buffer, read_idx, core2, raced>>

WritePublish ==
  /\ pc0 = "publish"
  /\ write_idx' = Wrap(write_idx + Len(samples))
  /\ samples' = <<>>
  /\ copied' = 0
  /\ pc0' = "idle"
  /\ UNCHANGED <<buffer, read_idx, core2, raced>>

Writer == (\E s \in Bursts : WriteBegin(s)) \/ WriteCopy \/ WritePublish

------------------------------------------------------------------------------
(* Core 0: Init, when a ROM has been loaded and a game is about to run.      *)

InitBegin ==
  /\ pc0 = "idle"
  /\ pc0' = "zeroRead"
  /\ raced' = (raced \/ pc2 # "poll")
  /\ UNCHANGED <<ring, samples, copied, core2>>

InitZeroRead ==
  /\ pc0 = "zeroRead"
  /\ read_idx' = 0
  /\ pc0' = "zeroWrite"
  /\ UNCHANGED <<buffer, write_idx, samples, copied, core2, raced>>

\* (bug) Init forgets the writer's index.
InitZeroReadOnly ==
  /\ pc0 = "zeroWrite"
  /\ pc0' = "clear"
  /\ UNCHANGED <<ring, samples, copied, core2, raced>>

InitZeroWrite ==
  /\ pc0 = "zeroWrite"
  /\ write_idx' = 0
  /\ pc0' = "clear"
  /\ UNCHANGED <<buffer, read_idx, samples, copied, core2, raced>>

InitClear ==
  /\ pc0 = "clear"
  /\ buffer' = [i \in 0..(SIZE - 1) |-> Silence]
  /\ pc0' = "idle"
  /\ UNCHANGED <<read_idx, write_idx, samples, copied, core2, raced>>

Reset == InitBegin \/ InitZeroRead \/ InitZeroWrite \/ InitClear

------------------------------------------------------------------------------
(* Core 2: the loop of RunAudioDomain around Read.                           *)

\* (bug) the loop waits for more than one frame.
PollTwo ==
  /\ pc2 = "poll"
  /\ GetAvailable > 1
  /\ num' = Least(GetAvailable, CHUNK)
  /\ pc2' = "read"
  /\ raced' = (raced \/ InInit)
  /\ UNCHANGED <<ring, core0, start, next, local_buf, played>>

\* The loop asks for what is available, at most 512 frames.
Poll ==
  /\ pc2 = "poll"
  /\ GetAvailable > 0
  /\ num' = Least(GetAvailable, CHUNK)
  /\ pc2' = "read"
  /\ raced' = (raced \/ InInit)
  /\ UNCHANGED <<ring, core0, start, next, local_buf, played>>

\* Read looks again and clamps; it returns 0 when nothing is left.
ReadBegin ==
  LET n == Least(num, GetAvailable) IN
  /\ pc2 = "read"
  /\ num' = n
  /\ pc2' = IF n = 0 THEN "play" ELSE "start"
  /\ UNCHANGED <<ring, core0, start, next, local_buf, played, raced>>

ReadStart ==
  /\ pc2 = "start"
  /\ start' = read_idx
  /\ pc2' = "copy"
  /\ UNCHANGED <<ring, core0, num, next, local_buf, played, raced>>

ReadCopy ==
  /\ pc2 = "copy"
  /\ local_buf' = Append(local_buf, buffer[Slot(start, num, Len(local_buf))])
  /\ pc2' = IF Len(local_buf) + 1 = num THEN "advance" ELSE "copy"
  /\ UNCHANGED <<ring, core0, num, start, next, played, raced>>

\* (bug) the index moves by what was asked for, not by what was read.
ReadAdvanceChunk ==
  /\ pc2 = "advance"
  /\ next' = Wrap(read_idx + CHUNK)
  /\ pc2' = "publish"
  /\ UNCHANGED <<ring, core0, num, start, local_buf, played, raced>>

\* read_idx = (read_idx + n) & MASK: the volatile index is loaded ...
ReadAdvance ==
  /\ pc2 = "advance"
  /\ next' = Wrap(read_idx + num)
  /\ pc2' = "publish"
  /\ UNCHANGED <<ring, core0, num, start, local_buf, played, raced>>

\* ... and then stored.
ReadPublish ==
  /\ pc2 = "publish"
  /\ read_idx' = next
  /\ pc2' = "play"
  /\ UNCHANGED <<buffer, write_idx, core0, num, start, next, local_buf, played, raced>>

\* pSoundDevice->Write(local_buf, read * 4)
PlayChunk ==
  /\ pc2 = "play"
  /\ played' = local_buf
  /\ local_buf' = <<>>
  /\ num' = 0
  /\ start' = 0
  /\ next' = 0
  /\ pc2' = "poll"
  /\ UNCHANGED <<ring, core0, raced>>

Reader == Poll \/ ReadBegin \/ ReadStart \/ ReadCopy \/ ReadAdvance \/ ReadPublish
             \/ PlayChunk

------------------------------------------------------------------------------
(* While a game runs the ring has a writer and a reader; a boot adds Init.   *)

Session     == Writer \/ Reader
SessionSpec == Init /\ [][Session]_vars

Next == Session \/ Reset
Spec == Init /\ [][Next]_vars

\* Core 2 runs its loop for ever; core 0 finishes a call it has begun.
Fairness == WF_vars(Reader) /\ WF_vars(WriteCopy \/ WritePublish)
LiveSessionSpec == SessionSpec /\ Fairness

------------------------------------------------------------------------------
(* Properties                                                                *)

TypeOK ==
  /\ buffer \in [0..(SIZE - 1) -> Frame]
  /\ read_idx \in 0..(SIZE - 1)
  /\ write_idx \in 0..(SIZE - 1)
  /\ pc0 \in {"idle", "copy", "publish", "zeroRead", "zeroWrite", "clear"}
  /\ samples \in Seq(Frame)
  /\ copied \in 0..Len(samples)
  /\ pc2 \in {"poll", "read", "start", "copy", "advance", "publish", "play"}
  /\ num \in 0..(SIZE - 1)
  /\ start \in 0..(SIZE - 1)
  /\ next \in 0..(SIZE - 1)
  /\ local_buf \in Seq(Frame)
  /\ played \in Seq(Frame)
  /\ raced \in BOOLEAN

\* The slots core 0 has still to fill and the ones core 2 may read or is
\* reading.
Filling == IF pc0 = "copy"
           THEN {Slot(write_idx, Len(samples), k) : k \in copied..(Len(samples) - 1)}
           ELSE {}
Unread  == {Wrap(read_idx + k) : k \in 0..(GetAvailable - 1)}
Reading == IF pc2 = "copy" THEN {Slot(start, num, k) : k \in Len(local_buf)..(num - 1)}
           ELSE {}

\* The two memcpy calls never touch the same slot at the same time, and the
\* writer never overwrites a frame that core 2 has not read yet, even when
\* the ring is full or a copy wraps around its end.
NoOverwrite == /\ Filling \cap Unread = {}
               /\ Filling \cap Reading = {}

\* Whatever Init does to the indices in the middle of a Read or a Write, no
\* copy leaves the array: every slot a copy will touch is one of the ring.
InBounds == (Filling \cup Reading) \subseteq 0..(SIZE - 1)

\* Why a session is correct, as an inductive invariant.  The batch core 0 is
\* copying fits the free space, the chunk core 2 is copying fits what is
\* available (the other side's steps only enlarge both), and the frames copied
\* so far are the ones in the slots they were copied to or from.
WriterInv ==
  /\ ~InInit
  /\ pc0 = "idle" => samples = <<>>
  /\ pc0 \in {"copy", "publish"} => Len(samples) \in 1..GetFreeSpace
  /\ pc0 = "copy" => copied < Len(samples)
  /\ pc0 = "publish" => copied = Len(samples)
  /\ \A k \in 0..(copied - 1) :
        pc0 \in {"copy", "publish"} => buffer[Wrap(write_idx + k)] = samples[k + 1]

ReaderInv ==
  /\ pc2 # "poll" => num \in 1..(SIZE - 1)
  /\ pc2 \in {"read", "start", "copy", "advance", "publish"} => num <= GetAvailable
  /\ pc2 \in {"copy", "advance", "publish"} => start = read_idx
  /\ pc2 = "publish" => next = Wrap(read_idx + num)
  /\ pc2 \in {"poll", "read", "start"} => local_buf = <<>>
  /\ pc2 = "copy" => Len(local_buf) < num
  /\ pc2 \in {"advance", "publish", "play"} => Len(local_buf) = num
  /\ \A k \in 0..(Len(local_buf) - 1) :
        pc2 \in {"copy", "advance", "publish"} => local_buf[k + 1] = buffer[Wrap(read_idx + k)]

SessionInv == WriterInv /\ ReaderInv

\* The ring is a bounded FIFO: frames are played in the order they were
\* accepted, each exactly once, and never more than SIZE - 1 wait.
queued == IF InInit THEN <<>>
          ELSE [i \in 1..GetAvailable |-> buffer[Wrap(read_idx + i - 1)]]
offered == IF pc0 \in {"copy", "publish"} THEN samples ELSE <<>>
hand == IF pc2 = "play" THEN local_buf ELSE <<>>
Fifo == INSTANCE AudioFifo WITH Capacity <- SIZE - 1, queue <- queued

ImplementsFifo == Fifo!Spec

\* The FIFO survives Init as well, as long as core 2 is not inside Read when
\* Init begins and does not look at the indices before Init is done; and only
\* the beginning of Init empties it.
FifoUnlessRaced == [][~raced' => Fifo!Next \/ (InitBegin /\ Fifo!Clear)]_(Fifo!vars)

\* Frames that are queued do not stay there: core 2 goes on to play.
QueuedIsPlayed == (GetAvailable > 0) ~> (pc2 = "play")
==============================================================================
