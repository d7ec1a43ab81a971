------------------------------ MODULE AudioFifo ------------------------------
(****************************************************************************)
(* What the ring buffer between the emulation core and the audio core       *)
(* promises: a bounded FIFO of stereo frames.  Core 0 offers a batch that   *)
(* fits, and publishes all of it at once; core 2 takes a non-empty prefix   *)
(* of what is queued and hands exactly those frames to the sound device.    *)
(* AudioRing implements this specification.                                 *)
(****************************************************************************)
EXTENDS Integers, Sequences

CONSTANTS Frame,      \* the stereo frames
          Capacity    \* frames the queue can hold

VARIABLES queue,      \* published, not yet taken
          offered,    \* the batch core 0 is copying in, <<>> when none
          hand,       \* the batch core 2 took and has not played yet
          played      \* the last batch given to the sound device

vars == <<queue, offered, hand, played>>

Init == /\ queue = <<>>
        /\ offered = <<>>
        /\ hand = <<>>
        /\ played = <<>>

\* Core 0 starts to write a batch: it fits beside what is queued already.
Offer == /\ offered = <<>>
         /\ \E n \in 1..(Capacity - Len(queue)) : offered' \in [1..n -> Frame]
         /\ UNCHANGED <<queue, hand, played>>

\* The batch becomes visible to core 2, complete and at the tail.
Accept == /\ offered # <<>>
          /\ queue' = queue \o offered
          /\ offered' = <<>>
          /\ UNCHANGED <<hand, played>>

\* Core 2 removes a prefix.
Take == /\ hand = <<>>
        /\ \E n \in 1..Len(queue) :
              /\ hand' = SubSeq(queue, 1, n)
              /\ queue' = SubSeq(queue, n + 1, Len(queue))
        /\ UNCHANGED <<offered, played>>

\* ... and plays what it took.
Play == /\ hand # <<>>
        /\ played' = hand
        /\ hand' = <<>>
        /\ UNCHANGED <<queue, offered>>

Next == Offer \/ Accept \/ Take \/ Play

Spec == Init /\ [][Next]_vars

\* A new game starts from an empty queue; no other step drops a frame.
Clear == /\ offered = <<>>
         /\ queue' = <<>>
         /\ UNCHANGED <<offered, hand, played>>
==============================================================================
