------------------------------ MODULE StateSlots ------------------------------
(****************************************************************************)
(* What saving and loading promise: a card with one slot for each name, that *)
(* holds a whole earlier moment of a game or nothing.  A save that ends well *)
(* keeps the moment at which it began; a load that ends well gives back what *)
(* its slot holds, whichever game of the same name put it there.             *)
(* SaveState implements this specification.                                  *)
(****************************************************************************)
EXTENDS Integers

CONSTANTS
  Roms, NoRom,   \* the games; none
  SlotOf,        \* [Roms -> slots]
  Areas, Value,  \* the memory of the machine
  OwnAreas,      \* [Roms -> SUBSET Areas]: what a game keeps and accepts
  Converted      \* areas that a failed save may leave in another form

VARIABLES
  rom,           \* the game that runs
  frame,         \* moves when the game runs, and only then
  memory,        \* area -> what it holds
  slot,          \* slot -> the areas that are kept in it, <<>> when nothing is
  saving,        \* a file is open for writing
  result         \* of the last save or load: 0 or -1

vars == <<rom, frame, memory, slot, saving, result>>

Slots  == {SlotOf[r] : r \in Roms}
Memory == [Areas -> Value]

Init == /\ rom = NoRom
        /\ frame = 0
        /\ memory \in Memory
        /\ slot = [s \in Slots |-> <<>>]
        /\ ~saving
        /\ result = 0

\* Another game is loaded, or the game runs on.
Play == /\ ~saving
        /\ rom' \in Roms
        /\ frame' = frame + 1
        /\ memory' \in Memory
        /\ UNCHANGED <<slot, saving, result>>

\* The next game cannot be loaded, and none runs.
FailPlay == /\ ~saving
            /\ rom' = NoRom
            /\ memory' \in Memory
            /\ UNCHANGED <<frame, slot, saving, result>>

\* The new save takes the place of the old one at once.
BeginSave == /\ ~saving /\ saving'
             /\ rom \in Roms
             /\ slot' = [slot EXCEPT ![SlotOf[rom]] = <<>>]
             /\ result' = 0
             /\ UNCHANGED <<rom, frame, memory>>

\* A save that cannot be begun, or fails on the way.
FailSave == /\ rom \in Roms
            /\ result' = -1
            /\ memory' \in Memory
            /\ \A a \in Areas \ Converted : memory'[a] = memory[a]
            /\ ~saving => memory' = memory
            /\ UNCHANGED <<rom, frame, slot, saving>>

\* The save is closed; that may still fail without a word.
EndSave == /\ saving /\ ~saving'
           /\ \/ /\ result = 0
                 /\ slot' = [slot EXCEPT ![SlotOf[rom]] = [a \in OwnAreas[rom] |-> memory[a]]]
              \/ UNCHANGED slot
           /\ UNCHANGED <<rom, frame, memory, result>>

\* A game takes what it knows: all that its slot holds, or it refuses.
Load == /\ ~saving
        /\ rom \in Roms
        /\ DOMAIN slot[SlotOf[rom]] \subseteq OwnAreas[rom]
        /\ memory' \in Memory
        /\ \A a \in DOMAIN slot[SlotOf[rom]] : memory'[a] = slot[SlotOf[rom]][a]
        /\ result' = 0
        /\ UNCHANGED <<rom, frame, slot, saving>>

\* A load that fails may have read a part of the file.
FailLoad == /\ ~saving
            /\ rom \in Roms
            /\ memory' \in Memory
            /\ result' = -1
            /\ UNCHANGED <<rom, frame, slot, saving>>

\* The power goes; the card keeps its slots, but for the one being written.
PowerCut == /\ rom' = NoRom
            /\ memory' \in Memory
            /\ ~saving' /\ result' = 0
            /\ UNCHANGED <<frame, slot>>

Next == \/ Play \/ FailPlay
        \/ BeginSave \/ FailSave \/ EndSave
        \/ Load \/ FailLoad
        \/ PowerCut

Spec == Init /\ [][Next]_vars
===============================================================================
