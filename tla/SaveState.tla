------------------------------ MODULE SaveState ------------------------------
(****************************************************************************)
(* Saving and loading states: CEmuOrchestrator::SaveState and LoadState,     *)
(* PicoState with its chunks, the stdio wrapper over FatFs, and the card.    *)
(*                                                                           *)
(* The memory of the game is a few areas that stand for the chunks of a      *)
(* state: areas that are read in place, processors that are unpacked from a  *)
(* buffer at the end, the CD's word RAM that is kept in one of two layouts   *)
(* and saved in the 2M one, and the gate array register that holds its mode. *)
(* An area is known by the game and the frame that wrote it.  All steps are  *)
(* core 0's; a save is split where the file on the card changes, so that the *)
(* power can go in between.                                                  *)
(****************************************************************************)
EXTENDS Integers, Sequences, FiniteSets, SequencesExt

CONSTANTS
  Roms,        \* the games
  SlotOf,      \* [Roms -> slots]: the name without its extension, with ".s0"
  IsCD,        \* [Roms -> BOOLEAN]
  NoRom,       \* nothing is loaded
  Discs,       \* [files, last]: the tracks that have a file of their own, counted
               \* from 0, and toc.last
  FILES,       \* open files at a time; 64 in the code
  MaxFrames    \* bound: frames run

ASSUME SaveAssumption == /\ IsCD \in [Roms -> BOOLEAN]
                         /\ NoRom \notin Roms
                         /\ \A d \in Discs : /\ d.last \in Nat
                                              /\ 0 \in d.files /\ d.files \subseteq 0..d.last
                         /\ FILES \in Nat
                         /\ MaxFrames \in Nat

Slots == {SlotOf[r] : r \in Roms}

\* The chunks in the order of state_save.
CartChunks == <<"M68K", "RAM", "VIDEO">>
CDChunks   == <<"M68K", "RAM", "VIDEO", "S68K", "WORD_RAM", "GA_REGS", "CD_MSD">>
ChunksOf(r) == IF IsCD[r] THEN CDChunks ELSE CartChunks
AreasOf(r)  == ToSet(ChunksOf(r))
Processors  == {"M68K", "S68K"}
OnlyCD      == {"S68K", "WORD_RAM", "GA_REGS"}     \* refused by a game without a CD

\* The layout of the word RAM after wram_1M_to_2M and wram_2M_to_1M.
Convert(layout, from, to) == IF layout = from THEN to ELSE "garbled"

VARIABLES
  rom,        \* m_CurrentRomName
  mem,        \* area -> [rom, frame]; frame 0 is a reset
  mode,       \* s68k_regs[3] & 4: "1M" or "2M"
  layout,     \* how the data of the word RAM is arranged
  frame,      \* frames run so far
  held,       \* toc.tracks: the tracks of the disc that have an open file
  last,       \* toc.last
  in_use,     \* slots of s_OpenFiles in use
  gapped,     \* ghost: a disc was taken out that had a gap between its files
  disk,       \* slot -> the file on the card
  file,       \* the file that is being saved, as it is in memory
  pc, ret,    \* core 0: "idle", "write", "close"; result of PicoState
  stored      \* ghost: slot -> the game as the last save that ended well met it

game   == <<rom, mem, mode, layout, frame>>
tracks == <<held, last, gapped>>
files  == <<tracks, in_use>>
vars   == <<game, files, disk, file, pc, ret, stored>>

\* A file is there or not; it has a header or not; it has chunks; it may stop
\* inside a chunk; it may have the end mark.
NoFile == [there |-> FALSE, header |-> FALSE, chunks |-> <<>>, cut |-> FALSE, ended |-> FALSE]
Empty  == [there |-> TRUE, header |-> FALSE, chunks |-> <<>>, cut |-> FALSE, ended |-> FALSE]

Areas == ToSet(CDChunks)

Fresh(r, n) == [a \in Areas |-> [rom |-> r, frame |-> n]]

Snapshot == [ok |-> TRUE, rom |-> rom, mem |-> mem, mode |-> mode, layout |-> layout]
Nothing  == [ok |-> FALSE, rom |-> NoRom, mem |-> Fresh(NoRom, 0), mode |-> "2M", layout |-> "2M"]

Init == /\ rom = NoRom
        /\ mem = Fresh(NoRom, 0)
        /\ mode = "2M" /\ layout = "2M"
        /\ frame = 0
        /\ held = {} /\ last = 0 /\ in_use = 0 /\ gapped = FALSE
        /\ disk = [s \in Slots |-> NoFile]
        /\ file = Empty
        /\ pc = "idle" /\ ret = 0
        /\ stored = [s \in Slots |-> Nothing]

------------------------------------------------------------------------------
(* The game.                                                                 *)

\* (bug) the loop over the tracks ends one too early.
ClosedShort == {j \in held : j = 0 \/ (j < last - 1 /\ \A i \in held \cap 1..j : i..j \subseteq held)}

\* cdd_unload: track 0, and behind it only the first tracks in a row that have a
\* file: the test for single file images compares the next track's file with
\* the one that has just been set to NULL, and ends the loop where there is none.
Closed == {j \in held : j = 0 \/ (j < last /\ \A i \in held \cap 1..j : i..j \subseteq held)}

\* A track without a file, or one that toc.last does not count, between or at
\* the end of those with a file.
HasGap == \/ last \in held \ {0}
          \/ \E i, j \in held \ {0} : ~(i..j \subseteq held)

\* The disc is taken out, and what is not closed stays open for good; the files
\* of the next one are opened.
ChangeDisc(own, n) ==
  /\ held' = own /\ last' = n
  /\ in_use' = in_use - Cardinality(Closed) + Cardinality(own)
  /\ gapped' = (gapped \/ HasGap)

\* load_cd_image: the file of track 0 must open, those of the others may not.
LoadDisc ==
  \E d \in Discs : \E own \in SUBSET d.files :
    /\ 0 \in own
    /\ in_use - Cardinality(Closed) + Cardinality(own) <= FILES
    /\ ChangeDisc(own, d.last)

\* LoadROM: the last disc is taken out, a new one is put in, or a cartridge, and
\* the machine is reset.
LoadROM(r) ==
  /\ pc = "idle"
  /\ frame < MaxFrames
  /\ IF IsCD[r] THEN LoadDisc ELSE ChangeDisc({}, 0)
  /\ rom' = r
  /\ frame' = frame + 1
  /\ mem' = Fresh(r, frame')
  /\ mode' = "2M" /\ layout' = "2M"
  /\ UNCHANGED <<disk, file, pc, ret, stored>>

\* LoadROM fails: before PicoLoadMedia has taken out the last disc, or behind
\* that, with every other file closed again.  No game runs until the next one
\* is loaded, and that one resets the machine.
FailLoadROM ==
  /\ pc = "idle"
  /\ \/ UNCHANGED files
     \/ ChangeDisc({}, 0)
  /\ rom' = NoRom
  /\ UNCHANGED <<mem, mode, layout, frame, disk, file, pc, ret, stored>>

\* A frame touches every area, and may change the word RAM's mode.
RunFrame ==
  /\ pc = "idle"
  /\ rom # NoRom
  /\ frame < MaxFrames
  /\ frame' = frame + 1
  /\ mem' = Fresh(rom, frame')
  /\ mode' \in IF IsCD[rom] THEN {"1M", "2M"} ELSE {mode}
  /\ layout' = IF mode' = mode THEN layout ELSE Convert(layout, mode, mode')
  /\ UNCHANGED <<rom, files, disk, file, pc, ret, stored>>

------------------------------------------------------------------------------
(* Saving.                                                                   *)

\* (bug) the search for a free slot goes one too far.
OpenSavePast ==
  /\ pc = "idle"
  /\ rom # NoRom
  /\ file' = Empty
  /\ in_use <= FILES
  /\ in_use' = in_use + 1
  /\ disk' = [disk EXCEPT ![SlotOf[rom]] = Empty]
  /\ pc' = "write"
  /\ UNCHANGED <<game, tracks, stored, ret>>

\* fopen(name, "wb"): a free slot of s_OpenFiles, then f_open, which truncates
\* the file at once.  Either may fail.
OpenSave ==
  /\ pc = "idle"
  /\ rom # NoRom
  /\ file' = Empty
  /\ \/ /\ in_use < FILES
        /\ in_use' = in_use + 1
        /\ disk' = [disk EXCEPT ![SlotOf[rom]] = Empty]
        /\ pc' = "write"
        /\ UNCHANGED ret
     \/ /\ ret' = -1
        /\ pc' = "idle"
        /\ UNCHANGED <<in_use, disk>>
  /\ UNCHANGED <<game, tracks, stored>>

\* What a chunk holds: the area, and for some what the code reads with it.
ChunkOf(a, lay) ==
  [area |-> a, data |-> mem[a], mode |-> IF a = "GA_REGS" THEN mode ELSE "-",
   layout |-> IF a = "WORD_RAM" THEN lay ELSE "-"]

\* (bug) the word RAM is saved in the layout that it has.
SavedLayoutAsIs == layout

\* The layout in which the word RAM is written: it is converted before the
\* first chunk of the CD.
SavedLayout == IF mode = "1M" THEN Convert(layout, "1M", "2M") ELSE layout

\* (bug) the result of the writes is not looked at.
WriteChunksUnchecked ==
  /\ pc = "write"
  /\ \E n \in 0..Len(ChunksOf(rom)), cut, ended \in BOOLEAN :
       /\ ended => n = Len(ChunksOf(rom)) /\ ~cut
       /\ file' = [there |-> TRUE, header |-> TRUE, cut |-> cut, ended |-> ended,
                   chunks |-> [i \in 1..n |-> ChunkOf(ChunksOf(rom)[i], SavedLayout)]]
       /\ ret' = 0
       /\ layout' = IF Len(CartChunks) <= n /\ n < Len(ChunksOf(rom)) THEN SavedLayout ELSE layout
  /\ pc' = "close"
  /\ UNCHANGED <<rom, mem, mode, frame, files, disk, stored>>

\* state_save: every chunk and the end mark, or the first n chunks and possibly
\* a part of the next one, when the card fails or is full.  The word RAM is
\* converted back behind the last chunk of the CD, not when a write fails.
WriteChunks ==
  /\ pc = "write"
  /\ \E n \in 0..Len(ChunksOf(rom)), cut, ended \in BOOLEAN :
       /\ ended => n = Len(ChunksOf(rom)) /\ ~cut
       /\ file' = [there |-> TRUE, header |-> TRUE, cut |-> cut, ended |-> ended,
                   chunks |-> [i \in 1..n |-> ChunkOf(ChunksOf(rom)[i], SavedLayout)]]
       /\ ret' = IF ended THEN 0 ELSE -1
       /\ layout' = IF Len(CartChunks) <= n /\ n < Len(ChunksOf(rom)) THEN SavedLayout ELSE layout
  /\ pc' = "close"
  /\ UNCHANGED <<rom, mem, mode, frame, files, disk, stored>>

\* fclose: f_close makes the length durable, or fails, and nobody hears of it.
CloseSave ==
  /\ pc = "close"
  /\ in_use' = in_use - 1
  /\ \/ /\ disk' = [disk EXCEPT ![SlotOf[rom]] = file]
        /\ stored' = [stored EXCEPT ![SlotOf[rom]] = IF ret = 0 THEN Snapshot ELSE Nothing]
     \/ /\ UNCHANGED disk
        /\ stored' = [stored EXCEPT ![SlotOf[rom]] = Nothing]
  /\ pc' = "idle"
  /\ UNCHANGED <<game, tracks, file, ret>>

------------------------------------------------------------------------------
(* Loading.                                                                  *)

\* state_load stops at the first chunk that it refuses.
Refused(chunk) == chunk.area \in OnlyCD /\ ~IsCD[rom]

ReadIn(f, n) == {f.chunks[i] : i \in 1..n}
Found(f, n, a) == \E c \in ReadIn(f, n) : c.area = a
DataIn(f, n, a) == (CHOOSE c \in ReadIn(f, n) : c.area = a).data

\* The memory when the first n chunks were read; the processors are only
\* unpacked at the end, from buffers that begin with zeros.
MemAfter(f, n, whole) ==
  [a \in Areas |->
     IF a \in Processors
     THEN IF ~whole \/ (a = "S68K" /\ ~IsCD[rom]) THEN mem[a]
          ELSE IF Found(f, n, a) THEN DataIn(f, n, a) ELSE [rom |-> rom, frame |-> 0]
     ELSE IF Found(f, n, a) THEN DataIn(f, n, a) ELSE mem[a]]

ModeAfter(f, n) ==
  IF Found(f, n, "GA_REGS") THEN (CHOOSE c \in ReadIn(f, n) : c.area = "GA_REGS").mode ELSE mode

LayoutRead(f, n) ==
  IF Found(f, n, "WORD_RAM") THEN (CHOOSE c \in ReadIn(f, n) : c.area = "WORD_RAM").layout
  ELSE layout

\* (bug) the word RAM stays in the layout of the file.
LayoutAfterNoConvert(f, n, whole) == LayoutRead(f, n)

\* pcd_state_loaded brings the word RAM into the layout of its mode.
LayoutAfter(f, n, whole) ==
  IF whole /\ IsCD[rom] /\ ModeAfter(f, n) = "1M"
  THEN Convert(LayoutRead(f, n), "2M", "1M")
  ELSE LayoutRead(f, n)

\* Read n chunks of the file; whole when state_load got to its end.
Load(f, n, whole) ==
  /\ mem' = MemAfter(f, n, whole)
  /\ mode' = ModeAfter(f, n)
  /\ layout' = LayoutAfter(f, n, whole)
  /\ ret' = IF whole THEN 0 ELSE -1

\* LoadState: the file is opened, read and closed again.  A file that stops
\* between two chunks is accepted; one that stops inside a chunk, a refused
\* chunk or a read error is an error, with what was read so far in memory.
LoadState ==
  /\ pc = "idle"
  /\ rom # NoRom
  /\ LET f == disk[SlotOf[rom]] IN
       \/ /\ ret' = -1                               \* no slot free, f_open or header
          /\ UNCHANGED <<mem, mode, layout>>
       \/ /\ in_use < FILES
          /\ f.header
          /\ \E n \in 0..Len(f.chunks) :
               /\ \A i \in 1..n : ~Refused(f.chunks[i])
               /\ \/ Load(f, n, FALSE)
                  \/ n = Len(f.chunks) /\ ~f.cut /\ Load(f, n, TRUE)
  /\ UNCHANGED <<rom, frame, files, disk, file, pc, stored>>

------------------------------------------------------------------------------
\* The slot whose file is open for writing.
Saving(s) == pc # "idle" /\ s = SlotOf[rom]

\* The power goes, at any moment, and comes back to the menu.
PowerCycle ==
  /\ rom' = NoRom
  /\ mem' = Fresh(NoRom, 0)
  /\ mode' = "2M" /\ layout' = "2M"
  /\ held' = {} /\ last' = 0 /\ in_use' = 0 /\ gapped' = FALSE
  /\ file' = Empty
  /\ pc' = "idle" /\ ret' = 0
  /\ stored' = [s \in Slots |-> IF Saving(s) THEN Nothing ELSE stored[s]]
  /\ UNCHANGED <<frame, disk>>

Next == \/ \E r \in Roms : LoadROM(r)
        \/ FailLoadROM
        \/ RunFrame
        \/ OpenSave \/ WriteChunks \/ CloseSave
        \/ LoadState
        \/ PowerCycle

Spec == Init /\ [][Next]_vars

------------------------------------------------------------------------------
(* Properties                                                                *)

Stamps == [rom : Roms \cup {NoRom}, frame : 0..MaxFrames]
ChunkType == [area : Areas, data : Stamps, mode : {"-", "1M", "2M"},
              layout : {"-", "1M", "2M", "garbled"}]
FileOK(f) == /\ {f.there, f.header, f.cut, f.ended} \subseteq BOOLEAN
             /\ \A i \in 1..Len(f.chunks) : f.chunks[i] \in ChunkType
             /\ f.header => f.there

TypeOK ==
  /\ rom \in Roms \cup {NoRom}
  /\ mem \in [Areas -> Stamps]
  /\ mode \in {"1M", "2M"} /\ layout \in {"1M", "2M", "garbled"}
  /\ frame \in 0..MaxFrames
  /\ held \subseteq 0..last /\ last \in Nat
  /\ in_use \in 0..FILES /\ gapped \in BOOLEAN
  /\ \A s \in Slots : FileOK(disk[s])
  /\ FileOK(file)
  /\ pc \in {"idle", "write", "close"} /\ ret \in {0, -1}
  /\ \A s \in Slots : stored[s].ok \in BOOLEAN /\ stored[s].rom \in Roms \cup {NoRom}

\* The pool of open files.  Every operation gives its file back, also when it
\* fails half-way: between two operations the files of the disc are open, and
\* no more than these, unless a disc was taken out that had a gap between its
\* files (see Closed).  The files that such a disc leaves open do add up.
FilesAreGivenBack ==
  pc = "idle" => /\ in_use >= Cardinality(held)
                 /\ in_use > Cardinality(held) => gapped

\* A save that ended well, file closed, stays on the card until the next save
\* to that slot is begun, whatever is loaded, run or cut off meanwhile.
StoredStaysWhole ==
  \A s \in Slots : stored[s].ok /\ ~Saving(s) =>
    /\ disk[s].ended /\ ~disk[s].cut
    /\ Len(disk[s].chunks) = Len(ChunksOf(stored[s].rom))
    /\ \A i \in 1..Len(disk[s].chunks) :
         disk[s].chunks[i].data = stored[s].mem[disk[s].chunks[i].area]

\* What the areas of the machine hold, the mode and the fit of the word RAM's
\* layout with the areas that they belong to.
Contents(m, md, lay) ==
  [a \in Areas |-> [data |-> m[a], mode |-> IF a = "GA_REGS" THEN md ELSE "-",
                    fits |-> a = "WORD_RAM" => lay = md]]

\* What the last save of a slot that ended well has put there.
Kept(s) ==
  LET was == stored[s] IN
    IF was.ok /\ ~Saving(s)
    THEN [a \in AreasOf(was.rom) |-> Contents(was.mem, was.mode, was.layout)[a]]
    ELSE <<>>

Store == INSTANCE StateSlots WITH
           Value     <- [data : Stamps, mode : {"-", "1M", "2M"}, fits : BOOLEAN],
           OwnAreas  <- [r \in Roms |-> AreasOf(r)],
           Converted <- {"WORD_RAM"},
           memory    <- Contents(mem, mode, layout),
           slot      <- [s \in Slots |-> Kept(s)],
           saving    <- pc # "idle",
           result    <- IF pc = "write" THEN 0 ELSE ret

\* The slots on the card are those of StateSlots: a load that succeeds puts the
\* game back, area by area, to the moment of the last good save in its slot,
\* also from 1M mode into 2M mode and back, for games that share a slot, after
\* failed saves and loads and across power cuts.  (A word RAM that was not in
\* the layout of its mode when it was saved is not repaired.)
ImplementsSlots == Store!Spec

\* The comment at the conversion (picodrive/pico/state.c:331) says that the
\* word RAM is converted back.  Taken at its word a
\* save, good or failed, leaves the running game as it was.  A failed write
\* leaves by a goto, around the conversion.
SaveLeavesGameAlone == [][WriteChunks => layout' = layout]_vars
==============================================================================
