# A verification of MEGA-PI in TLA+

MEGA-PI runs a Sega Mega Drive / Mega CD emulator on the bare metal of a
Raspberry Pi, on four cores that share memory without an operating system and
almost without locks.  This directory holds models of the parts whose
correctness depends on what happens *between* the cores, the interrupts, the
card and the player; TLC checks them on small instances, and TLAPS proves
nearly all of their safety properties for every instance.

Paths below are relative to `src/`.  The file that maps each definition to the
lines it stands for is `PROJECT.json` (`map`).

## 1. Inventory

| Part | Code | State it keeps | Operations |
| --- | --- | --- | --- |
| Orchestrator, core 0 | `emulator/kernel.cpp:181-354` | `in_menu`, the menu's edge detection (`prev_pad1`, `start_released`, `just_entered_menu`) | menu pass, boot, a frame, then exit / save / load in that order |
| Input handlers | `emulator/kernel.cpp:675-810` | `pad1`, `pad2`, three latched requests, the last pad of every device | one per report of a gamepad or the keyboard |
| Audio ring | `emulator/audio_ring_buffer.h` | array, `read_idx`, `write_idx` | `Init`, `Write`, `Read` |
| Audio domain, core 2 | `emulator/kernel.cpp:582-632` | a local chunk of 512 frames | poll, read, hand to the sound device |
| Video domain, core 1 | `emulator/kernel.cpp:356-580` | what it has read of the menu or of the frame, the screen | draw the menu, or copy a frame, for ever |
| Input domain, core 3 | `emulator/kernel.cpp:634-673` | the three device pointers | plug and play, registering handlers |
| OSD menu | `emulator/osd.cpp` | ROM list, favourites, tab, filtered list, cursor, and `favorites.txt` | scan, move, switch tab, favourite, unfavourite, publish |
| Emulator front end | `emulator/emu_orchestrator.cpp` | the current ROM's name, PicoDrive's media, the CD's open files | `LoadROM`, `RunFrame`, `SaveState`, `LoadState` |
| C library stubs | `emulator/clib_stubs.cpp` | a pool of 64 open files, the video mode fields | stdio over FatFs, video mode changes, string functions |
| Sound device | `circle/lib/sound/soundbasedevice.cpp`, `dmasoundbuffers.cpp` | a byte queue under a spin lock, two DMA buffers and which is next | `Start`, `Write`, the DMA's interrupt handler on core 0 |
| Mega CD gate array | `picodrive/pico/cd/memory.c`, `mcd.c` | register 3, the bits tracked for the 2M mode, the memory maps, bus request, poll detection of both CPUs | register writes and polled reads of two CPUs, `pcd_sync_s68k`, `pcd_run_cpus` |
| PicoDrive's rest | `picodrive/` | the machine | `PicoFrame`, `PicoState`, cartridge and CD loading |
| Circle's rest, FatFs | `circle/` | drivers, interrupts, spin locks, file system | called by all of the above |

How they interact: all through `g_SharedState` (`emulator/shared_state.h`),
one global that four cores read and write.  Core 0 publishes the menu (fields,
then `menu_needs_redraw`) and frames (`emu_frame_buffer`, then
`video_frame_ready`) to core 1, and sound through the ring to core 2, which
hands it to the sound device; there the DMA and its interrupt, again on core 0,
take it.  Core 3
finds devices; their reports are delivered as interrupts of core 0, which
Circle routes there (`circle/lib/multicore.cpp:67`,
`circle/lib/interruptgic.cpp:165`), and reach the loop of core 0 through the
pads and the request flags.  The card is only touched by core 0.

What is hard here, and what correctness means for each part:

* **Audio ring.**  Two cores copy into and out of one array at the same time,
  and a boot resets both indices from one side.  *Correct*: frames come out in
  order, each once; no slot is copied to and from at once; no copy leaves the
  array, not even in the middle of a reset; what is queued is played.
* **Menu and game loop.**  An interrupt may come between any two accesses of
  the loop; requests are latched and served later, maybe in another mode than
  the one they were made in.  *Correct*: a frame runs only on a game that is
  loaded completely, a stale exit does not end the next game, holding START
  does not boot at once, no hotkey leaks into the game, no button sticks, every
  request made in a game is served.
* **OSD menu.**  Long sequences of legal operations on a list that changes
  under the cursor, and a file that is rewritten as a whole.  *Correct*: the
  cursor is on a line; the screen, the memory and the card agree; the alphabet is
  divided as well as it can be, and every game is in exactly one tab.
* **Video handoff.**  Flags and fields without a lock, a flag that is cleared
  before what it announces is read, two numbers that change one after the
  other.  *Correct*: no redraw and no frame is lost, the cursor is visible, the
  menu comes back after a game, no game shows through from an earlier one.
* **Save states.**  Errors at every write, a data layout that is converted for
  the time of the save, a pool of files, a power cut.  *Correct*: a load gives
  back what was saved; a good save stays; files are given back on every path
  (they are not: a disc with a gap between its files leaves some open, see section 3);
  a save leaves the game as it was.
* **Sound device.**  Three actors, one of them hardware that goes on by
  itself, a queue that moves bytes where its users mean frames, a lock that an
  interrupt and a core share.  *Correct*: every accepted frame is played once,
  whole and in order; the handler keeps off the buffer that is played; no side
  waits for ever.
* **Gate array.**  Two CPUs that are run in slices hand one memory to each
  other by a register whose bits they write separately, and each is stopped
  while it only polls.  *Correct*: the maps are those of the register; nobody
  loses the memory by the other's write; no change is missed by a stopped CPU,
  and the two do not stop for each other.

`PROJECT.json` lists 40 concrete hazards, each with its line and the properties that
would catch it.

## 2. The modules

Each module says in its header what a step is and what is abstracted.  All of
them write the code's own names.

| Module | Models | Checked by | Proved in |
| --- | --- | --- | --- |
| `AudioFifo` | what the ring promises: a bounded FIFO | `ring_session` (refinement) | `AudioRing_proof` |
| `AudioRing` | `Write`, `Read`, `Init`, with the loop of core 2 | `ring_session`, `ring_boot` | `AudioRing_proof` |
| `Session`, `MC_Session` | the loop of core 0, the two handlers | `session`, `session_save` | `Session_proof` |
| `SoundDevice`, `MC_SoundDevice` | the sound device behind core 2, implementing `AudioFifo` again | `sound` | `SoundDevice_proof` |
| `TabSplit` | the parts of the search for the split of the alphabet into three tabs, and what it should find | `menu` (and an assumption over all small cases) | `TabSplit_proof` |
| `OSDMenu`, `MC_OSDMenu` | the menu and `favorites.txt`; extends `TabSplit` | `menu` | `OSDMenu_proof` |
| `VideoHandoff`, `MC_VideoHandoff` | what cores 0 and 1 share | `video_game`, `video_menu` | `VideoHandoff_proof` |
| `StateSlots` | what saving and loading promise: slots that hold a whole moment or nothing | `state` (refinement) | `SaveState_proof` |
| `SaveState`, `MC_SaveState` | saving, loading, the file pool, the card, implementing `StateSlots` | `state`, `state_convert` | `SaveState_proof` |
| `MegaCD`, `MC_MegaCD` | the gate array between the two CPUs of the Mega CD | `megacd`, `megacd_race` | `MegaCD_proof` |

The definitions that are marked `(bug)` stand for mistakes one could make in
the definition that follows them: a guard forgotten, an index off by one, a
result ignored.  No specification uses them.  Put in place of the correct
definition, each makes TLC find a violation of a property, which shows that
the property looks at that part of the code; `mutants` in `PROJECT.json` says
which.

**AudioRing.**  `buffer`, `read_idx`, `write_idx` are the shared object; the
rest is where each core is and what it holds in registers and local arrays.
`memcpy` is one step per frame, and where the k-th frame of a two-part copy
lives is the operator `Slot`.  `WriteBegin` is the clamping to the free space,
`WritePublish` the store of the index; on the other side the loop's own look at
what is available (`Poll`) comes before `Read`'s (`ReadBegin`), and
`read_idx = (read_idx + n) & MASK` is a load (`ReadAdvance`) and a store
(`ReadPublish`), because `Init` may come between them.  `Session` is the ring while a
game runs, `Next` adds `Init`.  `queued`, `offered` and `hand` are the refinement
mapping to `AudioFifo`: a frame is in the abstract queue from the moment
`write_idx` covers it until `read_idx` has passed it.  `AudioFifo` never
drops what it has accepted; `Clear` is an action outside its `Next`, which only
the beginning of a boot may be (`FifoUnlessRaced`).

**Session.**  The handlers are atomic (an interrupt of the core they talk to),
so core 0's loop is split exactly where it reads or writes what a handler
writes.  A pad is a set of buttons.  `GamePadStatusHandler` derives it from a report
(buttons, else hat, else stick, as in the code), masks the hotkeys and stores
it only when it differs from the device's last one; `last_pad` starts as
0xFFFF, here `Unset`.  `MenuPass` is one turn of the menu branch; which ROM
an operation selects is left open, since `OSDMenu` is about that.  `LoadROM`
succeeds, fails before anything is touched, or fails with the emulator's media
already replaced (`Broken`).  Ghosts: `pressed_in` (where a latched request was
made), `seen_up` (A and Start were up since the menu came), `hot`.

**TabSplit.**  The two loops over all splits are their first pair and the pair
that follows a pair (`FirstSplit`, `NextSplit`); `InPart` has the three range
tests with which `BuildFilteredList` then takes the letters of a tab, each for
itself, so that ranges could overlap or leave a gap.  What the search
should find is stated apart: `IsBestSplit` (nearest to three equal tabs, and the
first of those that are as near).  `MC_OSDMenu` assumes, so that TLC evaluates it,
that there is always such a split, that it has equal thirds when the letters
allow them and that it starves no tab (`SplitIsFair`).

**OSDMenu.**  A file is its place in the sorted order, and so the list of a set
of files is determined by the set: `Ascending` puts at each place the file that
has that many before it.  `Initialize` is `ScanRoms` (failing anywhere, or
stopping at `MAX_ROMS`; it sorts and reads the favourites back, up to the line at
which a read fails), a `TrySplit` for each round of the inner loop of
`CalculateTabLabels`, with `min_diff` and both ends in the state, and `ShowMenu`.
Every operation ends with `Update`, as in the code.
Rewriting `favorites.txt` is two steps, since opening truncates the file:
between them the power may go.

**VideoHandoff.**  Each access to a shared field is a step, in program order.
Frames are known by the game and the number that drew them, so that a picture
can be asked which frames it is made of.  The count, the cursor and the active tab are
fields of their own, published and read one by one; the copy of the menu's lines is one
step (a list is one value), the back buffer of core 1 is private.  The names of
the tabs are published again with every tab, but were given at the scan and do
not change.

**SaveState.**  The machine's memory is one area per *kind* of chunk: areas
read in place, processors unpacked at the end, the CD's word RAM with its
layout, the register with its mode.  `WriteChunks` stops after any number of
chunks, `LoadState` reads a file up to any point, refuses what a cartridge
refuses and accepts a file that ends between two chunks, as `state_load` does.

A disc is the tracks that have a file of their own, and `toc.last`.  `LoadDisc`
opens any of them (all but the first may fail to open).  `Closed` is what
`cdd_unload` closes: track 0, and behind it, up to `toc.last`, the first tracks in
a row that have a file, for its test for single file images compares the next
track's file with one that was just set to `NULL`.  A track that follows a
track without a file stays open, and so does one that `toc.last` does not count, which
`load_cd_image` leaves behind when a disc is too long; the table is wiped and nobody
can close them later.  `in_use` keeps counting them, and the ghost `gapped` notes that it
happened.  `FailLoadROM` is a load that fails before or behind `cdd_unload`.

`StateSlots` knows no files and no chunks: a slot is a function from areas to
what they hold, empty when nothing good is there.  The mapping takes mode and
layout as parts of the areas that they belong to (`Contents`) and a slot from the
last save that ended well (`Kept`, from the ghost `stored`), not from the file,
so that a load which gives back anything else is a violation.  The number of the
frame stays visible: it tells a load from a game that merely runs on.

**SoundDevice.**  A byte is the frame it belongs to and its place in it, so
that a frame that was split or mixed shows (`Torn`).  `Write` is a call, the
lock, a step per byte and the unlock; `Enqueue` finishes a frame it has begun
and begins one only when the whole of it fits, and `RunAudioDomain` drops the
rest.  The handler takes a byte per step under the same lock, then pads with
null frames outside it and turns `m_nNextBuffer`.  The DMA changes buffers by
itself when one is played; `late` notes that it did so before the interrupt
of the last change was served.  The queue, what the handler holds and the
buffer not yet played are mapped to `AudioFifo`'s queue and hand.

**MegaCD.**  The programs of the two CPUs are any sequence of accesses; a slice
of either may end after any of them.  What the code does in the middle of a
main CPU's write, running the sub CPU up to the same time, is where `MainWrite3` and
`MainStore3` are split: `pend` is the local variable `d` in between, with the maps
already changed.  `MainWriteComm` is a write of a communication register, or of
register 2, the write protection, which is polled as one with register 3.  `main` and `sub` tell where the two loops are:
`"last"` is the one access that may follow `SekEndRun(8)`.  The clock of the
poll detection is the free choice `counts`.  `newsM`, `newsS` note a change of
what a CPU polls since it last read it, `raced` the race described below.

## 3. What the runs show

Runs that pass:

| Run | Question | Bounds |
| --- | --- | --- |
| `ring_session` | While a game runs, is the ring a bounded FIFO at every interleaving?  `NoOverwrite`, `ImplementsFifo`, `QueuedIsPlayed`. | 4 slots, chunks of 2, bursts up to 4, two different frames |
| `ring_boot` | What survives `Init` at any moment?  `TypeOK`, `InBounds`, `FifoUnlessRaced`. | the same |
| `session` | The loop against its interrupts: all the properties of the loop in section 1, safety and liveness. | 2 ROMs, 6 reports of pad 1, 2 of pad 2, 3 of the keyboard |
| `menu` | Every sequence of menu operations, with the search of the split (`AlphabetIsDivided`), failing scans, reads and saves and power cuts. | three cards: mixed (5 files, of which 4 are listed), CD only, empty; 5 letters; `SplitIsFair`: 0 to 3 games under each |
| `video_game` | The frame buffer through boots, mode changes and exits: `NoFrameForgotten`, `NoPreviousGame`. | 4 lines, 2 boots, 3 frames |
| `video_menu` | The menu's fields and its redraw flag: `MenuIsShown`, `CursorIsVisible`, `MenuIsRedrawn`. | lists of 1 and 4 lines in two tabs, a window of 3, one boot, one frame |
| `state` | Saves and loads with every error and power cut: `FilesAreGivenBack`, `StoredStaysWhole`, `ImplementsSlots` (a refinement of `StateSlots`). | a CD and a cartridge in one slot, two discs with different gaps, 4 files, 3 frames |
| `sound` | Are queue and DMA buffers together a bounded FIFO of whole frames (`DeviceFifo`, `WholeFrames`), does the handler keep off what is played (`NotWhilePlaying`), does sound flow and `Write` return (`QueuedIsPlayed`, `WriteReturns`)? | frames of 2 bytes, a queue of 3 frames, chunks of 2, batches of 2 |
| `megacd` | Do maps follow the register (`MapFollowsRegister`), is no change missed (`NoLostWakeup`), does the word RAM change hands only by its owner (`OwnerHandsOver`), do the two CPUs not stop for each other (`NeitherWaitsForever`)? | 2 banks, a poll limit of 2 |

Runs that show a disagreement between the code and what its documents say; each has one
property, which takes the document at its word:

| Run | The document | What the code does |
| --- | --- | --- |
| `session_save` | `README.md:45`, `:63`: saving is an in-game shortcut | A save asked for in the menu stays latched and overwrites the slot of the next game after its first frame. |
| `state_convert` | `picodrive/pico/state.c:331`: "convert back" | A failed write leaves by `goto out`, around the conversion: the running game keeps its word RAM in the wrong layout. |
| `megacd_race` | `picodrive/pico/cd/memory.c:221`: "2M mode state is tracked regardless of current mode" | The main CPU's write of register 3 computes its value, remaps, lets the sub CPU catch up (line 262) and then stores: a hand-over by the sub CPU in between is overwritten with the old value, and the map no longer fits the register. |

Further disagreements and oddities came up while modelling.  No property states
them, but the models contain the behaviour:

* `emulator/kernel.cpp:549` waits for the vertical sync "to prevent screen
  tearing".  There is one frame buffer: core 0 draws the next frame while core
  1 copies (`emulator/kernel.cpp:557`), and the copy mixes two frames.
* `README.md:23` promises "100% data retention across physical power cycles".
  Opening a state with `"wb"` (`emulator/clib_stubs.cpp:57`) truncates the old one before the
  new one is written; a power cut in between leaves neither.
* When an interrupt of the sound DMA is served a whole buffer late, two changes
  of buffer are one call of the handler, and from then on the handler fills the
  buffer that is being played (`circle/lib/sound/dmasoundbuffers.cpp:273`).  `NotWhilePlaying` and
  `DeviceFifo` therefore speak of runs without such a delay (`late`).
* At power on register 3 says that the main CPU has the word RAM
  (`picodrive/pico/cd/mcd.c:80`), but the tracked bits are 0: the first write that sets
  neither DMNA nor RET gives the RAM to the sub CPU.  `OwnerHandsOver` holds from the
  first hand-over on.
* A sub CPU that is blocked at the word RAM (`picodrive/pico/cd/memory.c:1126`) is stopped after the
  access, which has used the data of before the hand-over, where the hardware
  would hold the access.

* `README.md:76` calls the ring interlocked.  `Init` is not interlocked with
  `Read` (`emulator/kernel.cpp:309`): a reader that is inside `Read` stores an
  index from before the reset.  `FifoUnlessRaced` marks the exact boundary: the
  ring stays a FIFO unless the two overlap, and no copy ever leaves the array
  (`InBounds`).
* The comment at `emulator/osd.cpp:167` divides the games "as equally as
  possible".  The sum of distances to a rounded ideal is minimised
  (`emulator/osd.cpp:184`), which sometimes prefers a split with a larger spread.
* `README.md:25` says that favourites are stored persistently.  A power cut
  between the opening of `favorites.txt` (`emulator/osd.cpp:453`) and its
  closing loses all of them.
* `cdd_unload` leaves files open (`picodrive/pico/cd/cdd.c:506-516`): the track's
  file is set to `NULL` and then compared with the next track's, so a track without
  a file of its own (a file that did not open, `picodrive/pico/cd/cd_image.c:200-206`, or two tracks
  in one file, `:208-216`) ends the loop, and those behind it are never closed.  Nor is a
  track behind `toc.last` (`picodrive/pico/cd/cd_image.c:237-240`).  In the model `in_use` grows
  with every such disc until it reaches `FILES`, where saves, loads of states and discs
  fail for want of a file.  `FilesAreGivenBack` therefore says that *only* such discs leave
  something open.
* The LED's confirmation at `emulator/kernel.cpp:333-334` also blinks when the
  save failed, because `SaveState` drops the result.

### Why the bounds are enough

* *Ring.*  With 4 slots the ring is empty, full, wrapped and almost full; a
  burst of 4 is larger than the free space ever is, so that frames are dropped; a
  chunk of 2 is smaller than what may be available; both copies are split at
  the end of the array.  Two frame values tell a frame from its neighbour.
  The proofs then remove the bounds altogether.
* *Session.*  The reports make every branch of the handlers differ: nothing
  held, each boot button, each hotkey, by button, hat and stick, on two
  devices that share a pad.  Two ROMs let a failed load follow a good one.  There
  is no bound on the number of steps: the state space is finite as it is.
* *Menu.*  Four listed files of five, with two under one letter and one CD,
  make each tab empty or of several lines; the other cards are the boundary
  cases.  No bound on steps.
* *Sound device.*  Two bytes are the fewest that let a frame be split; with a
  queue of 3 frames (7 bytes) the wrap falls at every byte in turn.  A chunk of 2
  leaves a frame behind or must be padded, a batch of 2 fits, fits in part or not.
* *Gate array.*  The limit of 2 has a read that starts, one that counts and one
  that stops; a larger one repeats the second.  Two banks make a change of
  bank visible.  No bound on steps.
* *Tabs.*  The code's 27 letters only repeat what 5 do; the split needs at
  least 3, and 5 leave it six pairs to choose from.
* *Video.*  The lines are one that only the high mode draws (0), two that both
  do, and one (240) that only a mix of the two modes reaches.  Two games make
  a previous one; three frames let one be drawn while another is copied and a
  third is announced.
* *Save states.*  One slot for two games of different kinds is the hardest
  case for what a file may contain; one disc has a track without a file between
  two that have one, the other a track behind `toc.last`; with `FILES = 4` a disc fills the
  pool after one or two that left a file open;
  three frames put one before a save, one before the next and one before a load.
  `MaxFrames`, `MaxBoots` and `MaxGames` are the only caps on counters, and each
  stands in the guards of the actions that count.

### Fairness

* Cores 0, 1 and 2 run endless loops on processors of their own and wait for no
  other core, only for the timer or the display: weak fairness of `Core0`, `Core1` and of `Reader`.  In the
  ring, core 0 must also finish a `Write` that it has begun, but nothing makes it begin
  one.
* Nothing is assumed of the player, the devices, the power or the card: `Input`
  has no fairness, and which way a load or a write fails is never fair.
* `MenuIsRedrawn` needs no strong fairness, because core 1 clears the flag on
  every pass through its menu branch.
* In `SoundDevice` every step of code that is running and the progress of the
  DMA are weakly fair; the two acquisitions of the queue's spin lock are
  strongly fair: the other side holds it for at most a batch or a chunk and
  then is away for milliseconds, so the lock is free again and again for far longer than
  one try takes.  Errors of the DMA are not fair.
* In `MegaCD` slices are bounded by cycle counts: a slice of the sub CPU ends,
  and the loop over the CPUs goes on.  Nothing is assumed of the two programs,
  and an event that keeps waking the sub CPU excuses it (`NeitherWaitsForever`).

Deadlock is checked in every run.

## 4. What is proved

**The ring** (`AudioRing_proof`), for every `SIZE`, `CHUNK`, `MaxBurst` and
set of frames, from `RingAssumption` alone: `SIZE` and `CHUNK` are positive and
`MaxBurst` is a natural number.

* `TypeCorrect` and `CopiesInBounds` are about `Spec`, with `Init` at any
  moment.  They rest on `Bounds`: the lengths both cores have computed are
  lengths of a copy that fits, and this does not depend on the indices, so a
  reset cannot break it.
* `SessionCorrect`: `SessionInv` is an invariant of a session.  `NoOverwrite`
  is not inductive: it says nothing of the length that core 0 has already
  committed to.  `WriterInv` adds that the batch being copied fits the free
  space, and that what has been copied is in its slots; `ReaderInv` that the
  chunk being read is within what is available, and that what has been read is
  what its slots hold.  Each is preserved by the other core, because free space
  only grows by the reader's steps and available frames only by the writer's.
* `NeverOverwrites` then follows from arithmetic: batch and unread frames lie
  in disjoint arcs of the ring (`Space`, `Advance`, `SlotIsWrap`).
* `SessionImplementsFifo`: every session is a behaviour of `AudioFifo` with
  capacity `SIZE - 1`: nothing that was accepted is dropped, doubled or
  overtaken.  Publishing the writer's index appends the batch,
  publishing the reader's takes the chunk off; all other steps but `PlayChunk`
  are stutters or the beginning of an offer.
* `BootsKeepFifo` carries this over boots: until `Init` and a `Read` overlap
  (`raced`), the ring is in a session, or `Init` is zeroing it while core 2 waits
  (`BootInv`), and only the beginning of `Init` is a `Clear`.
* `EveryFrameIsHeardOnce` says what the steps add up to.  The proof module adds
  two history variables, `written` (what was published since the boot) and `heard`
  (what core 2 has handed on since), and proves that `written` is always `heard`
  followed by core 2's hand and the queue.  `StreamStep` is the heart: a publish
  appends the same batch to `written` and to the queue, playing moves the hand to
  `heard`, and every other step leaves hand and queue together as they are.

**The loop and its handlers** (`Session_proof`), for any set of ROMs and any
reports, from `KeysAssumption`: the keyboard's table maps keys to buttons of
the pad or to hotkeys.  Nothing is assumed of gamepad reports.  The inductive
invariant `Inv` adds five parts to type and `GameIsLoaded`:

* `PadOrigin`: what a shared pad holds is the last state of a device that
  writes it.  From it, with both devices empty, the pad is empty
  (`NoButtonSticks`).
* `HotPadIsMasked`: the last state of a gamepad with a hotkey down is masked,
  which gives `HotkeysAreMasked`.
* `BootInv`: between the decision to boot and the first frame there is a
  selected ROM, then a loaded one, which gives `RunsLoadedGame`.
* `EscapeOrigin`: an exit that is latched while a game runs was pressed in it,
  but for the one step between `in_menu = FALSE` and `escape_pressed = FALSE`.
  This gives `StaleEscapeIsIgnored`.
* `ReleaseSeen`: `start_released` outlives a press only within one visit to the
  menu, which gives `BootNeedsRelease`.

The temporal steps combine these with PTL; there are no other assumptions.

**The sound device** (`SoundDevice_proof`), for every size of frame, queue and
chunk and every set of batches, from `SoundAssumption`.  The four parts of the
inductive invariant `Inv` hold each other up: type, `WholeFrames`,
`NotWhilePlaying` and `Phases`.

* `TypeCorrect` needs from `Phases` that the handler takes no more bytes than it
  counted and that counters are only in use during a call.
* `FramesStayWhole` is the arithmetic of the queue.  Its size is one more than
  a multiple of `BYTES`, so that free and available bytes are whole frames
  only together with the bytes of the frame that is under way.  The lemmas
  `InMoves` and `OutMoves` say that one byte in or out changes both by one,
  wherever the two pointers are; the rest is about remainders.
* `HandlerAvoidsPlayedBuffer` needs that without a late interrupt there is
  never one pending while the handler runs (`Phases`).
* `DeviceIsFifo`: without a late interrupt or an error of the channel, every
  step is one of `AudioFifo`, or adds silence (`Quiet`).  The abstract queue is cut out of
  bytes frame by frame, and so the invariant `Content` says what the bytes are:
  those of a sequence of whole frames (`Holds`), beginning at the place that the
  handler's chunk has reached, and ending at the one that `Enqueue` has reached
  (`Begun`); what the handler took is whole frames too (`TakenWhole`), with frames
  before silence (`Quietly`).  A byte that moves leaves the frames what they
  are; a frame counts as accepted with its call, which is why the space is
  computed under the lock and does not shrink until the call is over.
* `EveryFrameIsPlayedOnce` adds the steps up, as for the ring: the history variable
  `enqueued` (what every `Write` took) is always `heard` (what the channel has begun
  to play), followed by the frames in a DMA buffer that is being filled or waits,
  and the queue.  What did not fit is dropped by `Write` and is not in `enqueued`; a
  late interrupt or an error of the channel ends the promise.  `StaysLate` says
  that both are for good, so that the equation is inductive.

**The gate array** (`MegaCD_proof`), for every poll limit and set of banks,
from `MegaCDAssumption`.  With the type invariant, `MapFollowsRegister` and
`NoLostWakeup` are inductive as they stand: each write leaves the maps and
the poll flags right in the same step, or in the value on its way
(`Coming`).  `NoCpuTakesTheRam` needs `OwnerInv`: in 2M mode, once a CPU has handed
the RAM over, register 3 or the value on its way has the tracked bits, and a
write of the main CPU that is on its way never takes the RAM.

**The menu** (`OSDMenu_proof`), for any cards with finitely many files, any
`MAX_ROMS` and any number of letters, from `CardAssumption` and
`SplitAssumption`.

* `AscendingLists` is what all of it rests on: the list of a finite set of files
  is a sequence of its size that names each of them once.  Ranks grow with
  the files (`RankGrows`), so they differ, and as many ranks as files means
  that each is taken (`RankTaken`).
* `EveryRomHasATab`: `SearchInv` says that of all pairs before `next` the search
  holds the best, so that at the end of the loops it is the best of all: the two loops
  meet the splits in order and each once (`NextPlace`).  That the first one is taken at
  all needs the difference of no split to be as large as `min_diff` is at the beginning
  (`FarOffIsFar`, from 3 `MAX_ROMS` < `FarOff`).  Its two ends are then in
  order, which is what the three tests need to take each letter once.
  `TabsAreFair` carries the two theorems on the best split over to what the menu has.
* `CursorOnList`, `ScreenIsCurrent` and `FavoritesOnDisk` are inductive given
  `TypeInv`, which says that both lists are the lists of their sets of files.
  `ListIsOfTab` follows from `ListInv`: outside FAV the list is the tab's, on FAV no
  favourite is missing from it.

**The split** (`TabSplit_proof`), for any number of letters and games.
Both theorems are about any split that `IsBestSplit` accepts.
`EqualThirds`: a split into equal parts has the
difference 0, because the three sizes add up to all games (`GamesAdd`), and
then so has the chosen one.  `NoTabIsStarved` is an argument by exchange: if a
tab missed its third by as much as the fullest letter holds, the neighbour's
letter next to it (`FirstAfter`, `LastBefore`: the next one with games under it)
could move over, and that split would be strictly nearer to the ideal (`Nearer`),
and there is none (`NoneIsNearer`).

**The video handoff** (`VideoHandoff_proof`), for any menus, window, lines and
bounds, from `VideoAssumption`: lists have a length and the window is not empty.

* `FramesAreNotForgotten` from `AnnouncedInv`: a frame that is not yet taken is
  announced, or core 1 has just taken the announcement and goes on to copy.
* `MenuIsCurrent` from three parts.  `FieldsInv`: how far `Update` has got with
  the fields.  `TakenInv`: once the redraw flag has been taken core 1 holds no
  field of before, and is not about to cover the menu with a picture, because
  it came through its menu branch.  `RedrawInv`: core 1 is about to clear only a
  flag that is set.
* `GamesDoNotShowThrough` from `ClearedInv`: the boot clears line after line,
  and then only the new game draws.
* `CursorStaysVisible` adds the arithmetic of the window (`WindowPlace`) to
  `MenuIsCurrent`.

**Save states** (`SaveState_proof`), for any games that share slots in any way,
any number of files, and errors and power cuts anywhere, from
`SaveAssumption`.

* `PoolIsGivenBack` from `PoolInv`: during a save one file more is open than
  between two operations, the slots in use are never fewer than the files that are known
  to be open, and no more unless a disc with a gap was taken out: the tracks of a
  disc without one are all closed (`ClosedTracks`).
* `SavesSurvive` and `LoadsRestore` from `StoredInv`: a save that was closed without
  an error is on the card as `Holds` says, every chunk of its game once, in order,
  with what the areas held, and so is the file in memory between the last write
  and the closing.  It also says that a game without a CD never leaves the 2M mode,
  since it refuses the chunks that could make it (`PlainRead`).
* For `LoadsRestore`, a file that `Holds` is read to its end (`WholeRead`), and the
  two conversions of the word RAM undo each other for a layout that fits its
  mode.
* `SavesImplementSlots` needs the same for a game that did not make the save.  It
  refuses the chunks of a CD or it has all areas that the file holds
  (`NoneRefused`), and whether the layout fits afterwards is whether it did
  before, also when it did not (`ConversionsUndo`); so a load gives back each
  area of the slot (`StepGivesBack`).  The failed write is a step of
  `StateSlots` because the layout is all that it can disturb (`OnlyTheLayout`).

**Only model-checked**: all liveness (`QueuedIsPlayed` of the ring and of the
device, `RequestsServed`, `MenuIsRedrawn`, `WriteReturns`,
`NeitherWaitsForever`), since the prover handles neither fairness with `ENABLED` nor
leads-to from it.  Every invariant and every action property of a passing run is proved.
Induction over data and recursive
operators are out of the prover's reach too; the modules that are proved about
use none, and count with cardinalities instead.

## 5. Limits

* *Memory order.*  The models are sequentially consistent.  The barriers of
  `Write` and `Read` order the copies before the index stores, so this is what
  the code asks for there; `Init` has no barrier, and the effects of
  reordering inside it are not modelled.  Nor is the reordering of the plain
  accesses in the video handoff beyond the program order of both cores.
* *Reading both indices* of the ring is one step.  Each side owns one of
  them and the other only moves forward, so a stale value is an earlier one,
  which is what an earlier step would have seen.
* *Interrupts* are atomic with respect to core 0, because they are taken on
  core 0.

### Not modelled

* Device initialisation (`CKernel::Initialize`, `main`): a straight line.
* Core 3's plug-and-play loop and the removed handlers; see the plan.
* The sound device's cancellation, `Flush`, the conversion of sample formats and
  the IEC958 bits of HDMI.  After an error the DMA channel is assumed to halt,
  and `Start`'s second fill to end within the 23 ms the first buffer plays.
* Of the gate array: the values of register 2 and of the communication registers, the write
  modes of the 1M decoder, the extra resynchronisation at a read of register
  0e, a loaded state in the middle of a game.
* Circle's rest (USB, interrupts, screen, timers, logger, spin locks)
  and FatFs with the card's driver: third-party.  Modelled only by what the
  callers rely on: opening with `FA_CREATE_ALWAYS` truncates, a length is
  durable when the file is closed.
* PicoDrive's processors, VDP, sound chips, 32X, CDC, CDD (but for
  its open files), PCM and graphics: instruction and
  pixel accuracy is data that these properties do not tell apart.
* In PicoState: the chunks of the Master System and the 32X, `state_load_gfx`,
  temporary states and the older formats.
* String functions, seeking, `GetBiosFilename`: pure functions without state.
* CPU throttling, the 60 FPS wait, auto-repeat's timing, upscaling, fonts,
  colours, titles and the wording of lines: timing and layout.

## 6. Plan

In the order of what matters most:

1. **Devices.**  A module for core 3: the device pointers, registration, the
   removed handlers and the reports of a device that is going; composed with
   `Session`, to ask which buttons outlive a device.
2. **The whole session.**  `Session` composed with `OSDMenu`, `SaveState` and
   the ring's `Init` at the boot, in place of their free choices, with an
   abstract specification of what the player sees.
3. **PicoState in full**: the loader's chunk loop with lengths and unknown
   chunks; the CDC's transfer as a state machine.
4. **Proofs**: ring and device composed into one path, with the batch that core 2
   carries from `Read` to `Write`, so that the two equations of the history
   variables become one from the emulator to the loudspeaker, less what `Write` drops.
