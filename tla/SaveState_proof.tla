---------------------------- MODULE SaveState_proof ----------------------------
(****************************************************************************)
(* Proofs about saving and loading states, for any games, slots shared in   *)
(* any way, any number of files, and errors and power cuts anywhere.        *)
(****************************************************************************)
EXTENDS SaveState, SequenceTheorems, FiniteSetTheorems, TLAPS

------------------------------------------------------------------------------
(* The pool of files                                                         *)

LEMMA TracksAreFinite ==
  ASSUME NEW n \in Nat, NEW S \in SUBSET (0..n)
  PROVE  IsFiniteSet(S) /\ Cardinality(S) \in Nat
<1>1. 0 \in Int /\ n \in Int
  OBVIOUS
<1>2. IsFiniteSet(0..n)
  BY <1>1, FS_Interval
<1>3. IsFiniteSet(S)
  BY <1>2, FS_Subset
<1> QED
  BY <1>3, FS_CardinalityType

\* The files that are open between two operations, and one more during a save.
TracksOK == last \in Nat /\ held \subseteq 0..last
Needed == IF pc = "idle" THEN Cardinality(held) ELSE Cardinality(held) + 1

\* Never fewer files are open than are needed; more only after a gap.
PoolInv ==
  /\ TracksOK /\ gapped \in BOOLEAN
  /\ in_use \in 0..FILES
  /\ Needed <= in_use
  /\ in_use > Needed => gapped

\* A disc without a gap is closed completely.
LEMMA ClosedTracks ==
  ASSUME TracksOK
  PROVE  /\ Cardinality(held) \in Nat
         /\ Cardinality(Closed) \in Nat /\ Cardinality(Closed) <= Cardinality(held)
         /\ ~HasGap => Closed = held
<1>1. IsFiniteSet(held) /\ Cardinality(held) \in Nat
  BY TracksAreFinite DEF TracksOK
<1>2. Closed \in SUBSET held
  BY DEF Closed
<1>3. IsFiniteSet(Closed) /\ Cardinality(Closed) <= Cardinality(held)
  BY <1>1, <1>2, FS_Subset
<1>4. Cardinality(Closed) \in Nat
  BY <1>3, FS_CardinalityType
<1>5. ASSUME ~HasGap, NEW j \in held PROVE j \in Closed
  <2>1. j \in Nat /\ j <= last /\ last \in Nat
    BY DEF TracksOK
  <2>2. CASE j = 0
    BY <2>2 DEF Closed
  <2>3. CASE j # 0
    <3>1. j < last
      BY <1>5, <2>1, <2>3 DEF HasGap
    <3>2. ASSUME NEW i \in held \cap 1..j PROVE i..j \subseteq held
      BY <1>5, <2>3, <3>2 DEF HasGap
    <3> QED
      BY <3>1, <3>2 DEF Closed
  <2> QED
    BY <2>2, <2>3
<1> QED
  BY <1>1, <1>2, <1>3, <1>4, <1>5

\* A change of discs leaves open what the next disc needs, and more only after a gap.
LEMMA ChangeKeepsPool ==
  ASSUME PoolInv, pc = "idle", pc' = "idle", NEW n \in Nat, NEW own \in SUBSET (0..n),
         in_use - Cardinality(Closed) + Cardinality(own) <= FILES, ChangeDisc(own, n)
  PROVE  PoolInv'
<1> DEFINE c == Cardinality(Closed)
           h == Cardinality(held)
           o == Cardinality(own)
<1>1. held' = own /\ last' = n /\ in_use' = in_use - c + o /\ gapped' = (gapped \/ HasGap)
  BY DEF ChangeDisc
<1>2. c \in Nat /\ h \in Nat /\ c <= h /\ (~HasGap => c = h)
  BY ClosedTracks DEF PoolInv
<1>3. o \in Nat
  BY TracksAreFinite
<1>4. in_use \in Nat /\ h <= in_use /\ (in_use > h => gapped) /\ FILES \in Nat /\ gapped \in BOOLEAN
  BY SaveAssumption DEF PoolInv, Needed
<1>5. Needed' = o
  BY <1>1 DEF Needed
<1>6. TracksOK' /\ gapped' \in BOOLEAN
  BY <1>1, <1>4 DEF TracksOK, HasGap
<1>7. in_use - c + o <= FILES
  OBVIOUS
<1> HIDE DEF c, h, o
<1>8. in_use' \in 0..FILES /\ o <= in_use'
  BY <1>1, <1>2, <1>3, <1>4, <1>7
<1>9. ASSUME in_use' > o PROVE gapped'
  <2>1. CASE HasGap
    BY <1>1, <2>1
  <2>2. CASE ~HasGap
    <3>1. in_use > h
      BY <1>1, <1>2, <1>3, <1>4, <1>9, <2>2
    <3> QED
      BY <1>1, <1>4, <3>1
  <2> QED
    BY <2>1, <2>2
<1> QED
  BY <1>5, <1>6, <1>8, <1>9 DEF PoolInv

\* A cartridge, or nothing, in the place of a disc.
LEMMA EmptyKeepsPool ==
  ASSUME PoolInv, pc = "idle", pc' = "idle", ChangeDisc({}, 0)
  PROVE  PoolInv'
<1>1. Cardinality({}) = 0
  BY FS_EmptySet
<1>2. Cardinality(Closed) \in Nat
  BY ClosedTracks DEF PoolInv
<1>3. in_use - Cardinality(Closed) + Cardinality({}) <= FILES
  BY <1>1, <1>2, SaveAssumption DEF PoolInv
<1>4. {} \in SUBSET (0..0) /\ 0 \in Nat
  OBVIOUS
<1> QED
  BY <1>3, <1>4, ChangeKeepsPool

LEMMA PoolKept ==
  ASSUME PoolInv, UNCHANGED <<files, pc>>
  PROVE  PoolInv'
<1>1. UNCHANGED <<held, last, gapped, in_use, pc>>
  BY DEF files, tracks
<1>2. Needed' = Needed
  BY <1>1 DEF Needed
<1> QED
  BY <1>1, <1>2 DEF PoolInv, TracksOK

LEMMA StepPool == PoolInv /\ [Next]_vars => PoolInv'
<1> SUFFICES ASSUME PoolInv, [Next]_vars PROVE PoolInv'
  OBVIOUS
<1>h. Cardinality(held) \in Nat /\ in_use \in Nat /\ FILES \in Nat /\ in_use <= FILES
  BY ClosedTracks, SaveAssumption DEF PoolInv
<1>1. ASSUME NEW r \in Roms, LoadROM(r) PROVE PoolInv'
  <2>1. pc = "idle" /\ pc' = "idle" /\ (LoadDisc \/ ChangeDisc({}, 0))
    BY <1>1 DEF LoadROM
  <2>2. CASE LoadDisc
    <3>1. PICK d \in Discs : \E own \in SUBSET d.files :
            /\ in_use - Cardinality(Closed) + Cardinality(own) <= FILES
            /\ ChangeDisc(own, d.last)
      BY <2>2 DEF LoadDisc
    <3>2. d.last \in Nat /\ d.files \subseteq 0..d.last
      BY SaveAssumption
    <3> QED
      BY <2>1, <3>1, <3>2, ChangeKeepsPool
  <2> QED
    BY <2>1, <2>2, EmptyKeepsPool
<1>9. CASE FailLoadROM
  BY <1>9, EmptyKeepsPool, PoolKept DEF FailLoadROM
<1>2. CASE RunFrame
  BY <1>2, PoolKept DEF RunFrame
<1>3. CASE OpenSave
  <2>1. UNCHANGED <<held, last, gapped>> /\ pc = "idle"
    BY <1>3 DEF OpenSave, tracks
  <2>2. CASE pc' = "write" /\ in_use' = in_use + 1 /\ in_use < FILES
    <3>1. Needed' = Needed + 1 /\ Needed \in Nat
      BY <1>h, <2>1, <2>2 DEF Needed
    <3> QED
      BY <1>h, <2>1, <2>2, <3>1 DEF PoolInv, TracksOK
  <2>3. CASE pc' = "idle" /\ in_use' = in_use
    BY <2>1, <2>3, PoolKept DEF files, tracks
  <2> QED
    BY <1>3, <2>2, <2>3 DEF OpenSave
<1>4. CASE WriteChunks
  <2>1. UNCHANGED <<held, last, gapped, in_use>> /\ pc = "write" /\ pc' = "close"
    BY <1>4 DEF WriteChunks, files, tracks
  <2>2. Needed' = Needed
    BY <2>1 DEF Needed
  <2> QED
    BY <2>1, <2>2 DEF PoolInv, TracksOK
<1>5. CASE CloseSave
  <2>1. /\ UNCHANGED <<held, last, gapped>> /\ pc = "close" /\ pc' = "idle"
        /\ in_use' = in_use - 1
    BY <1>5 DEF CloseSave, tracks
  <2>2. Needed = Cardinality(held) + 1 /\ Needed' = Cardinality(held)
    BY <1>h, <2>1 DEF Needed
  <2>3. Needed <= in_use /\ (in_use > Needed => gapped)
    BY DEF PoolInv
  <2>4. in_use' \in 0..FILES /\ Needed' <= in_use'
    <3>1. Cardinality(held) + 1 <= in_use
      BY <2>2, <2>3
    <3>2. in_use - 1 \in 0..FILES /\ Cardinality(held) <= in_use - 1
      BY <1>h, <3>1
    <3> QED
      BY <2>1, <2>2, <3>2
  <2>5. in_use' > Needed' => in_use > Needed
    <3>1. in_use - 1 > Cardinality(held) => in_use > Cardinality(held) + 1
      BY <1>h
    <3> QED
      BY <2>1, <2>2, <3>1
  <2>6. TracksOK' /\ gapped' \in BOOLEAN
    BY <2>1 DEF PoolInv, TracksOK
  <2> QED
    BY <2>1, <2>3, <2>4, <2>5, <2>6 DEF PoolInv
<1>6. CASE LoadState
  BY <1>6, PoolKept DEF LoadState
<1>7. CASE PowerCycle
  <2>1. /\ held' = {} /\ last' = 0 /\ in_use' = 0 /\ gapped' = FALSE /\ pc' = "idle"
    BY <1>7 DEF PowerCycle
  <2>2. Needed' = 0
    BY <2>1, FS_EmptySet DEF Needed
  <2>3. in_use' \in 0..FILES /\ Needed' <= in_use' /\ ~(in_use' > Needed')
    BY <1>h, <2>1, <2>2
  <2>4. TracksOK' /\ gapped' \in BOOLEAN
    BY <2>1 DEF TracksOK
  <2> QED
    BY <2>3, <2>4 DEF PoolInv
<1>8. CASE UNCHANGED vars
  BY <1>8, PoolKept DEF vars
<1> QED
  BY <1>1, <1>2, <1>3, <1>4, <1>5, <1>6, <1>7, <1>8, <1>9 DEF Next

LEMMA PoolHolds == Spec => []PoolInv
<1>1. Init => PoolInv
  <2> SUFFICES ASSUME Init PROVE PoolInv
    OBVIOUS
  <2>1. held = {} /\ last = 0 /\ in_use = 0 /\ gapped = FALSE /\ pc = "idle"
    BY DEF Init
  <2>2. Needed = 0
    BY <2>1, FS_EmptySet DEF Needed
  <2>3. in_use \in 0..FILES /\ Needed <= in_use /\ ~(in_use > Needed)
    BY <2>1, <2>2, SaveAssumption
  <2>4. TracksOK /\ gapped \in BOOLEAN
    BY <2>1 DEF TracksOK
  <2> QED
    BY <2>3, <2>4 DEF PoolInv
<1> QED
  BY <1>1, StepPool, PTL DEF Spec

\* FilesAreGivenBack: between two operations the files of the disc are open, and
\* more only after a disc with a gap between its files was taken out: for any
\* discs, any number of files and whatever failed before.
THEOREM PoolIsGivenBack == Spec => []FilesAreGivenBack
<1>1. PoolInv => FilesAreGivenBack
  BY DEF PoolInv, Needed, FilesAreGivenBack
<1> QED
  BY <1>1, PoolHolds, PTL

------------------------------------------------------------------------------
(* Chunks                                                                    *)

LEMMA AreaNames ==
  /\ Areas = {"M68K", "RAM", "VIDEO", "S68K", "WORD_RAM", "GA_REGS", "CD_MSD"}
  /\ \A r \in Roms : AreasOf(r) = IF IsCD[r] THEN Areas ELSE {"M68K", "RAM", "VIDEO"}
  /\ \A r \in Roms : /\ ChunksOf(r) \in Seq(Areas)
                     /\ Len(ChunksOf(r)) = IF IsCD[r] THEN 7 ELSE 3
                     /\ AreasOf(r) = {ChunksOf(r)[i] : i \in 1..Len(ChunksOf(r))}
<1>1. Areas = {"M68K", "RAM", "VIDEO", "S68K", "WORD_RAM", "GA_REGS", "CD_MSD"}
  BY DEF Areas, ToSet, CDChunks
<1>2. ASSUME NEW r \in Roms
      PROVE  /\ AreasOf(r) = IF IsCD[r] THEN Areas ELSE {"M68K", "RAM", "VIDEO"}
             /\ ChunksOf(r) \in Seq(Areas)
             /\ Len(ChunksOf(r)) = IF IsCD[r] THEN 7 ELSE 3
             /\ AreasOf(r) = {ChunksOf(r)[i] : i \in 1..Len(ChunksOf(r))}
  <2>1. CASE IsCD[r]
    <3>1. ChunksOf(r) = <<"M68K", "RAM", "VIDEO", "S68K", "WORD_RAM", "GA_REGS", "CD_MSD">>
      BY <2>1 DEF ChunksOf, CDChunks
    <3> QED
      BY <1>1, <2>1, <3>1 DEF AreasOf, ToSet
  <2>2. CASE ~IsCD[r]
    <3>1. ChunksOf(r) = <<"M68K", "RAM", "VIDEO">>
      BY <2>2 DEF ChunksOf, CartChunks
    <3> QED
      BY <1>1, <2>2, <3>1 DEF AreasOf, ToSet
  <2> QED
    BY <2>1, <2>2
<1> QED
  BY <1>1, <1>2

------------------------------------------------------------------------------
(* Types                                                                     *)

Modes2   == {"1M", "2M"}
Layouts  == {"1M", "2M", "garbled"}
Memory   == [Areas -> Stamps]
FileType == [there : BOOLEAN, header : BOOLEAN, chunks : Seq(ChunkType), cut : BOOLEAN,
             ended : BOOLEAN]
Saves    == [ok : BOOLEAN, rom : Roms \cup {NoRom}, mem : Memory, mode : Modes2,
             layout : Layouts]

\* A chunk holds what its kind says.
Sound(c) == /\ c.area = "GA_REGS" => c.mode \in Modes2
            /\ c.area = "WORD_RAM" => c.layout \in Layouts

GoodFile(f) == /\ f \in FileType
               /\ f.header => f.there
               /\ \A i \in 1..Len(f.chunks) : Sound(f.chunks[i])

TypeInv ==
  /\ rom \in Roms \cup {NoRom}
  /\ mem \in Memory
  /\ mode \in Modes2 /\ layout \in Layouts
  /\ frame \in 0..MaxFrames
  /\ DOMAIN disk = Slots /\ disk = [s \in Slots |-> disk[s]]
  /\ \A s \in Slots : GoodFile(disk[s])
  /\ GoodFile(file)
  /\ pc \in {"idle", "write", "close"} /\ ret \in {0, -1}
  /\ pc # "idle" => rom \in Roms
  /\ stored \in [Slots -> Saves]

LEMMA SlotsOf == \A r \in Roms : SlotOf[r] \in Slots
BY DEF Slots

LEMMA FreshMemory ==
  ASSUME NEW r \in Roms \cup {NoRom}, NEW n \in 0..MaxFrames
  PROVE  Fresh(r, n) \in Memory
<1>1. [rom |-> r, frame |-> n] \in Stamps
  BY DEF Stamps
<1> QED
  BY <1>1 DEF Fresh, Memory

LEMMA EmptyFiles == GoodFile(Empty) /\ GoodFile(NoFile)
<1>1. <<>> \in Seq(ChunkType) /\ Len(<<>>) = 0
  OBVIOUS
<1>2. NoFile \in FileType /\ NoFile.header = FALSE /\ NoFile.chunks = <<>>
  BY <1>1 DEF NoFile, FileType
<1>3. Empty \in FileType /\ Empty.header = FALSE /\ Empty.chunks = <<>>
  BY <1>1 DEF Empty, FileType
<1> QED
  BY <1>1, <1>2, <1>3 DEF GoodFile

LEMMA ConvertType ==
  ASSUME NEW l \in Layouts, NEW a \in Modes2, NEW b \in Modes2
  PROVE  Convert(l, a, b) \in Layouts
BY DEF Convert, Layouts, Modes2

LEMMA SavedLayoutType == TypeInv => SavedLayout \in Layouts
BY ConvertType DEF TypeInv, SavedLayout, Modes2

LEMMA ChunkOfType ==
  ASSUME TypeInv, NEW a \in Areas, NEW lay \in Layouts
  PROVE  ChunkOf(a, lay) \in ChunkType /\ Sound(ChunkOf(a, lay))
<1>1. mem[a] \in Stamps
  BY DEF TypeInv, Memory
<1>2. (IF a = "GA_REGS" THEN mode ELSE "-") \in {"-", "1M", "2M"}
  BY DEF TypeInv, Modes2
<1>3. (IF a = "WORD_RAM" THEN lay ELSE "-") \in {"-", "1M", "2M", "garbled"}
  BY DEF Layouts
<1>4. ChunkOf(a, lay) \in ChunkType
  BY <1>1, <1>2, <1>3 DEF ChunkOf, ChunkType
<1>5. Sound(ChunkOf(a, lay))
  BY DEF ChunkOf, Sound, TypeInv
<1> QED
  BY <1>4, <1>5

\* What is read of a file: every chunk of it is sound.
LEMMA ReadType ==
  ASSUME NEW f, GoodFile(f), NEW n \in 0..Len(f.chunks)
  PROVE  \A c \in ReadIn(f, n) : c \in ChunkType /\ Sound(c)
<1>1. f.chunks \in Seq(ChunkType)
  BY DEF GoodFile, FileType
<1>2. Len(f.chunks) \in Nat
  BY <1>1
<1>3. \A i \in 1..n : i \in 1..Len(f.chunks)
  BY <1>2
<1>4. \A i \in 1..n : f.chunks[i] \in ChunkType /\ Sound(f.chunks[i])
  BY <1>1, <1>3 DEF GoodFile
<1> QED
  BY <1>4 DEF ReadIn

\* The chunk that is found for an area.
ChunkFor(f, n, a) == CHOOSE c \in ReadIn(f, n) : c.area = a

LEMMA FoundChunk ==
  ASSUME NEW f, NEW n, NEW a, Found(f, n, a)
  PROVE  ChunkFor(f, n, a) \in ReadIn(f, n) /\ ChunkFor(f, n, a).area = a
BY DEF Found, ChunkFor

LEMMA MemoryRead ==
  ASSUME TypeInv, rom \in Roms, NEW f, GoodFile(f), NEW n \in 0..Len(f.chunks),
         NEW whole \in BOOLEAN
  PROVE  MemAfter(f, n, whole) \in Memory
<1>1. ASSUME NEW a \in Areas, Found(f, n, a) PROVE DataIn(f, n, a) \in Stamps
  <2>1. ChunkFor(f, n, a) \in ChunkType
    BY <1>1, FoundChunk, ReadType
  <2>2. ChunkFor(f, n, a).data \in Stamps
    BY <2>1 DEF ChunkType
  <2> QED
    BY <2>2 DEF DataIn, ChunkFor
<1>2. \A a \in Areas : mem[a] \in Stamps
  BY DEF TypeInv, Memory
<1>3. [rom |-> rom, frame |-> 0] \in Stamps
  <2>1. 0 \in 0..MaxFrames
    BY SaveAssumption
  <2> QED
    BY <2>1 DEF Stamps
<1> QED
  BY <1>1, <1>2, <1>3 DEF MemAfter, Memory

LEMMA ModeRead ==
  ASSUME TypeInv, NEW f, GoodFile(f), NEW n \in 0..Len(f.chunks)
  PROVE  ModeAfter(f, n) \in Modes2
<1>1. CASE Found(f, n, "GA_REGS")
  <2>1. ChunkFor(f, n, "GA_REGS").mode \in Modes2
    BY <1>1, FoundChunk, ReadType DEF Sound
  <2> QED
    BY <1>1, <2>1 DEF ModeAfter, ChunkFor
<1>2. CASE ~Found(f, n, "GA_REGS")
  BY <1>2 DEF ModeAfter, TypeInv
<1> QED
  BY <1>1, <1>2

LEMMA LayoutReadType ==
  ASSUME TypeInv, NEW f, GoodFile(f), NEW n \in 0..Len(f.chunks)
  PROVE  LayoutRead(f, n) \in Layouts
<1>1. CASE Found(f, n, "WORD_RAM")
  <2>1. ChunkFor(f, n, "WORD_RAM").layout \in Layouts
    BY <1>1, FoundChunk, ReadType DEF Sound
  <2> QED
    BY <1>1, <2>1 DEF LayoutRead, ChunkFor
<1>2. CASE ~Found(f, n, "WORD_RAM")
  BY <1>2 DEF LayoutRead, TypeInv
<1> QED
  BY <1>1, <1>2

LEMMA LayoutAfterType ==
  ASSUME TypeInv, NEW f, GoodFile(f), NEW n \in 0..Len(f.chunks), NEW whole \in BOOLEAN
  PROVE  LayoutAfter(f, n, whole) \in Layouts
BY LayoutReadType, ConvertType DEF LayoutAfter, Modes2

\* The file that a save writes, with the first n chunks of the game.
Written(n, cut, ended) ==
  [there |-> TRUE, header |-> TRUE, cut |-> cut, ended |-> ended,
   chunks |-> [i \in 1..n |-> ChunkOf(ChunksOf(rom)[i], SavedLayout)]]

LEMMA WrittenType ==
  ASSUME TypeInv, rom \in Roms, NEW n \in 0..Len(ChunksOf(rom)),
         NEW cut \in BOOLEAN, NEW ended \in BOOLEAN
  PROVE  /\ GoodFile(Written(n, cut, ended))
         /\ Len(Written(n, cut, ended).chunks) = n
<1> DEFINE cs == [i \in 1..n |-> ChunkOf(ChunksOf(rom)[i], SavedLayout)]
<1>1. n \in Nat /\ \A i \in 1..n : ChunksOf(rom)[i] \in Areas
  BY AreaNames
<1>2. \A i \in 1..n : cs[i] \in ChunkType /\ Sound(cs[i])
  BY <1>1, SavedLayoutType, ChunkOfType
<1>3. cs \in Seq(ChunkType) /\ Len(cs) = n
  <2>1. cs \in [1..n -> ChunkType]
    BY <1>2
  <2> QED
    BY <1>1, <2>1, IsASeq, LenProperties
<1> HIDE DEF cs
<1>4. Written(n, cut, ended) = [there |-> TRUE, header |-> TRUE, cut |-> cut, ended |-> ended,
                                chunks |-> cs]
  BY DEF Written, cs
<1>5. Written(n, cut, ended) \in FileType
  BY <1>3, <1>4 DEF FileType
<1> QED
  BY <1>2, <1>3, <1>4, <1>5 DEF GoodFile

\* WriteChunks in terms of the file that it leaves.
LEMMA WriteStep ==
  ASSUME WriteChunks
  PROVE  /\ pc = "write" /\ pc' = "close"
         /\ UNCHANGED <<rom, mem, mode, frame, files, disk, stored>>
         /\ \E n \in 0..Len(ChunksOf(rom)), cut, ended \in BOOLEAN :
              /\ ended => n = Len(ChunksOf(rom)) /\ ~cut
              /\ file' = Written(n, cut, ended)
              /\ ret' = IF ended THEN 0 ELSE -1
              /\ layout' = IF Len(CartChunks) <= n /\ n < Len(ChunksOf(rom))
                           THEN SavedLayout ELSE layout
BY DEF WriteChunks, Written

\* LoadState in terms of what it reads.
LEMMA LoadStep ==
  ASSUME LoadState
  PROVE  /\ pc = "idle" /\ rom # NoRom
         /\ UNCHANGED <<rom, frame, files, disk, file, pc, stored>>
         /\ \/ ret' = -1 /\ UNCHANGED <<mem, mode, layout>>
            \/ \E n \in 0..Len(disk[SlotOf[rom]].chunks), whole \in BOOLEAN :
                 /\ \A i \in 1..n : ~Refused(disk[SlotOf[rom]].chunks[i])
                 /\ whole => n = Len(disk[SlotOf[rom]].chunks)
                 /\ Load(disk[SlotOf[rom]], n, whole)
BY DEF LoadState

LEMMA SnapshotType == TypeInv => Snapshot \in Saves
BY DEF TypeInv, Snapshot, Saves

LEMMA NothingType == Nothing \in Saves
<1>1. Fresh(NoRom, 0) \in Memory
  BY FreshMemory, SaveAssumption
<1> QED
  BY <1>1 DEF Nothing, Saves, Modes2, Layouts

LEMMA InitType == Init => TypeInv
<1> SUFFICES ASSUME Init PROVE TypeInv
  OBVIOUS
<1>1. mem \in Memory /\ frame \in 0..MaxFrames
  BY FreshMemory, SaveAssumption DEF Init
<1>2. DOMAIN disk = Slots /\ disk = [s \in Slots |-> disk[s]] /\ \A s \in Slots : GoodFile(disk[s])
  BY EmptyFiles DEF Init
<1>3. GoodFile(file)
  BY EmptyFiles DEF Init
<1>4. stored \in [Slots -> Saves]
  BY NothingType DEF Init
<1>5. rom = NoRom /\ mode = "2M" /\ layout = "2M" /\ pc = "idle" /\ ret = 0
  BY DEF Init
<1> QED
  BY <1>1, <1>2, <1>3, <1>4, <1>5 DEF TypeInv, Modes2, Layouts

LEMMA StepType == TypeInv /\ [Next]_vars => TypeInv'
<1> SUFFICES ASSUME TypeInv, [Next]_vars PROVE TypeInv'
  OBVIOUS
<1>d. /\ DOMAIN disk = Slots /\ disk = [s \in Slots |-> disk[s]]
      /\ \A s \in Slots : GoodFile(disk[s])
      /\ GoodFile(file)
      /\ stored \in [Slots -> Saves]
  BY DEF TypeInv
<1>g. /\ rom \in Roms \cup {NoRom}
      /\ mem \in Memory
      /\ mode \in Modes2 /\ layout \in Layouts
      /\ frame \in 0..MaxFrames
      /\ pc \in {"idle", "write", "close"} /\ ret \in {0, -1}
      /\ pc # "idle" => rom \in Roms
  BY DEF TypeInv
<1>m. \A m \in {"1M", "2M"} : m \in Modes2
  BY DEF Modes2
<1>1. ASSUME NEW r \in Roms, LoadROM(r) PROVE TypeInv'
  <2>1. frame' \in 0..MaxFrames
    BY <1>1, <1>g, SaveAssumption DEF LoadROM
  <2>2. mem' \in Memory
    BY <1>1, <2>1, FreshMemory DEF LoadROM
  <2>3. mode' \in Modes2 /\ layout' \in Layouts
    BY <1>1 DEF LoadROM, Modes2, Layouts
  <2>4. UNCHANGED <<disk, file, pc, ret, stored>> /\ rom' = r /\ pc = "idle"
    BY <1>1 DEF LoadROM
  <2> QED
    BY <1>d, <1>g, <2>1, <2>2, <2>3, <2>4 DEF TypeInv
<1>9. CASE FailLoadROM
  <2>1. rom' = NoRom /\ pc = "idle" /\ UNCHANGED <<mem, mode, layout, frame, disk, file, pc, ret, stored>>
    BY <1>9 DEF FailLoadROM
  <2> QED
    BY <1>d, <1>g, <2>1 DEF TypeInv
<1>2. CASE RunFrame
  <2>1. frame' \in 0..MaxFrames /\ rom \in Roms
    BY <1>2, <1>g, SaveAssumption DEF RunFrame
  <2>2. mem' \in Memory
    BY <1>2, <2>1, FreshMemory DEF RunFrame
  <2>3. mode' \in Modes2
    <3>1. CASE IsCD[rom]
      BY <1>2, <3>1 DEF RunFrame, Modes2
    <3>2. CASE ~IsCD[rom]
      BY <1>2, <1>g, <3>2 DEF RunFrame
    <3> QED
      BY <3>1, <3>2
  <2>4. layout' \in Layouts
    BY <1>2, <1>g, <2>3, ConvertType DEF RunFrame
  <2>5. UNCHANGED <<rom, disk, file, pc, ret, stored>>
    BY <1>2 DEF RunFrame
  <2> QED
    BY <1>d, <1>g, <2>1, <2>2, <2>3, <2>4, <2>5 DEF TypeInv
<1>3. CASE OpenSave
  <2>1. UNCHANGED <<rom, mem, mode, layout, frame, stored>> /\ rom \in Roms
    BY <1>3, <1>g DEF OpenSave, game
  <2>2. file' = Empty
    BY <1>3 DEF OpenSave
  <2>3. disk' = disk \/ disk' = [disk EXCEPT ![SlotOf[rom]] = Empty]
    BY <1>3 DEF OpenSave
  <2>4. /\ DOMAIN disk' = Slots /\ disk' = [s \in Slots |-> disk'[s]]
        /\ \A s \in Slots : GoodFile(disk'[s])
    BY <1>d, <2>3, EmptyFiles
  <2>5. pc' \in {"idle", "write"} /\ ret' \in {0, -1}
    BY <1>3, <1>g DEF OpenSave
  <2>6. GoodFile(file')
    BY <2>2, EmptyFiles
  <2> QED
    BY <1>d, <1>g, <2>1, <2>4, <2>5, <2>6 DEF TypeInv
<1>4. CASE WriteChunks
  <2>1. /\ UNCHANGED <<rom, mem, mode, frame, disk, stored>>
        /\ rom \in Roms /\ pc' = "close"
    BY <1>4, <1>g, WriteStep
  <2>2. PICK n \in 0..Len(ChunksOf(rom)), cut \in BOOLEAN, ended \in BOOLEAN :
          /\ file' = Written(n, cut, ended)
          /\ ret' = IF ended THEN 0 ELSE -1
          /\ layout' = IF Len(CartChunks) <= n /\ n < Len(ChunksOf(rom))
                       THEN SavedLayout ELSE layout
    BY <1>4, WriteStep
  <2>3. GoodFile(file')
    BY <2>1, <2>2, WrittenType
  <2>4. layout' \in Layouts
    BY <1>g, <2>2, SavedLayoutType
  <2>5. ret' \in {0, -1}
    BY <2>2
  <2> QED
    BY <1>d, <1>g, <2>1, <2>3, <2>4, <2>5 DEF TypeInv
<1>5. CASE CloseSave
  <2>1. UNCHANGED <<rom, mem, mode, layout, frame, file, ret>> /\ pc' = "idle"
    BY <1>5 DEF CloseSave, game
  <2>2. disk' = disk \/ disk' = [disk EXCEPT ![SlotOf[rom]] = file]
    BY <1>5 DEF CloseSave
  <2>3. /\ DOMAIN disk' = Slots /\ disk' = [s \in Slots |-> disk'[s]]
        /\ \A s \in Slots : GoodFile(disk'[s])
    BY <1>d, <2>2
  <2>4. PICK v \in Saves : stored' = [stored EXCEPT ![SlotOf[rom]] = v]
    BY <1>5, SnapshotType, NothingType DEF CloseSave
  <2>5. stored' \in [Slots -> Saves]
    BY <1>d, <2>4
  <2> QED
    BY <1>d, <1>g, <2>1, <2>3, <2>5 DEF TypeInv
<1>6. CASE LoadState
  <2>1. UNCHANGED <<rom, frame, disk, file, pc, stored>> /\ rom \in Roms
    BY <1>6, <1>g, LoadStep
  <2>2. GoodFile(disk[SlotOf[rom]])
    BY <1>d, <2>1, SlotsOf
  <2>3. mem' \in Memory /\ mode' \in Modes2 /\ layout' \in Layouts /\ ret' \in {0, -1}
    <3>1. CASE ret' = -1 /\ UNCHANGED <<mem, mode, layout>>
      BY <1>g, <3>1
    <3>2. ASSUME NEW n \in 0..Len(disk[SlotOf[rom]].chunks), NEW whole \in BOOLEAN,
                 Load(disk[SlotOf[rom]], n, whole)
          PROVE  mem' \in Memory /\ mode' \in Modes2 /\ layout' \in Layouts /\ ret' \in {0, -1}
      <4>1. mem' \in Memory
        BY <2>1, <2>2, <3>2, MemoryRead DEF Load
      <4>2. mode' \in Modes2
        BY <2>2, <3>2, ModeRead DEF Load
      <4>3. layout' \in Layouts
        BY <2>2, <3>2, LayoutAfterType DEF Load
      <4>4. ret' \in {0, -1}
        BY <3>2 DEF Load
      <4> QED
        BY <4>1, <4>2, <4>3, <4>4
    <3> QED
      BY <1>6, <3>1, <3>2, LoadStep
  <2> QED
    BY <1>d, <1>g, <2>1, <2>3 DEF TypeInv
<1>7. CASE PowerCycle
  <2>1. mem' \in Memory
    BY <1>7, FreshMemory, SaveAssumption DEF PowerCycle
  <2>2. stored' \in [Slots -> Saves]
    BY <1>7, <1>d, NothingType DEF PowerCycle
  <2>3. GoodFile(file')
    BY <1>7, EmptyFiles DEF PowerCycle
  <2>4. /\ rom' = NoRom /\ mode' = "2M" /\ layout' = "2M" /\ pc' = "idle" /\ ret' = 0
        /\ UNCHANGED <<frame, disk>>
    BY <1>7 DEF PowerCycle
  <2> QED
    BY <1>d, <1>g, <2>1, <2>2, <2>3, <2>4 DEF TypeInv, Modes2, Layouts
<1>8. CASE UNCHANGED vars
  BY <1>8, <1>d, <1>g DEF vars, game, TypeInv
<1> QED
  BY <1>1, <1>2, <1>3, <1>4, <1>5, <1>6, <1>7, <1>8, <1>9 DEF Next

LEMMA TypeHolds == Spec => []TypeInv
BY InitType, StepType, PTL DEF Spec

\* TypeOK, for any games and any number of files.
THEOREM TypeCorrect == Spec => []TypeOK
<1>1. ASSUME NEW f, GoodFile(f) PROVE FileOK(f)
  <2>1. f \in FileType /\ (f.header => f.there)
    BY <1>1 DEF GoodFile
  <2>2. f.chunks \in Seq(ChunkType) /\ {f.there, f.header, f.cut, f.ended} \subseteq BOOLEAN
    BY <2>1 DEF FileType
  <2> QED
    BY <2>1, <2>2 DEF FileOK
<1>2. TypeInv /\ PoolInv => TypeOK
  <2> SUFFICES ASSUME TypeInv, PoolInv PROVE TypeOK
    OBVIOUS
  <2>1. \A s \in Slots : stored[s] \in Saves
    BY DEF TypeInv
  <2>2. \A s \in Slots : stored[s].ok \in BOOLEAN /\ stored[s].rom \in Roms \cup {NoRom}
    BY <2>1 DEF Saves
  <2>3. FileOK(file) /\ \A s \in Slots : FileOK(disk[s])
    BY <1>1 DEF TypeInv
  <2>4. /\ held \subseteq 0..last /\ last \in Nat
        /\ in_use \in 0..FILES /\ gapped \in BOOLEAN
    BY DEF PoolInv, TracksOK
  <2> QED
    BY <2>2, <2>3, <2>4 DEF TypeInv, TypeOK, Memory, Modes2, Layouts
<1> QED
  BY <1>2, PoolHolds, TypeHolds, PTL

------------------------------------------------------------------------------
(* What is on the card                                                       *)

\* The layout in which a save of the moment st has the word RAM.
SavedOf(st) == IF st.mode = "1M" THEN Convert(st.layout, "1M", "2M") ELSE st.layout

\* The chunk of an area in a save of the moment st.
ChunkAt(a, st) ==
  [area |-> a, data |-> st.mem[a], mode |-> IF a = "GA_REGS" THEN st.mode ELSE "-",
   layout |-> IF a = "WORD_RAM" THEN SavedOf(st) ELSE "-"]

\* The file is a whole save of the moment st: every chunk of its game, once, in
\* order, with what the areas held then.
Holds(f, st) ==
  /\ f.ended /\ ~f.cut
  /\ st.rom \in Roms
  /\ Len(f.chunks) = Len(ChunksOf(st.rom))
  /\ \A i \in 1..Len(f.chunks) : f.chunks[i] = ChunkAt(ChunksOf(st.rom)[i], st)

\* A game without a CD never leaves 2M.
Plain(r, m, l) == r \in Roms /\ ~IsCD[r] => m = "2M" /\ l = "2M"

StoredInv ==
  /\ pc = "close" /\ ret = 0 => Holds(file, Snapshot)
  /\ \A s \in Slots : stored[s].ok /\ ~Saving(s) => Holds(disk[s], stored[s])
  /\ Plain(rom, mode, layout)
  /\ \A s \in Slots : stored[s].ok => Plain(stored[s].rom, stored[s].mode, stored[s].layout)

\* What a game is allowed to load is the way it was left: in particular a game
\* without a CD reads neither a gate array nor a word RAM.
LEMMA PlainRead ==
  ASSUME NEW f, NEW n, \A i \in 1..n : ~Refused(f.chunks[i]), ~IsCD[rom]
  PROVE  ModeAfter(f, n) = mode /\ \A whole : LayoutAfter(f, n, whole) = layout
<1>1. \A c \in ReadIn(f, n) : c.area \notin OnlyCD
  BY DEF ReadIn, Refused
<1>2. ~Found(f, n, "GA_REGS") /\ ~Found(f, n, "WORD_RAM")
  BY <1>1 DEF Found, OnlyCD
<1> QED
  BY <1>2 DEF ModeAfter, LayoutAfter, LayoutRead

LEMMA InitStored == Init => StoredInv
BY SaveAssumption DEF Init, StoredInv, Nothing, Plain

\* A save that gets to its end is a save of this moment.
LEMMA WholeSave ==
  ASSUME TypeInv, rom \in Roms, WriteChunks, ret' = 0
  PROVE  Holds(file', Snapshot')
<1>1. /\ UNCHANGED <<rom, mem, mode>>
      /\ \E n \in 0..Len(ChunksOf(rom)), cut, ended \in BOOLEAN :
              /\ ended => n = Len(ChunksOf(rom)) /\ ~cut
              /\ file' = Written(n, cut, ended)
              /\ ret' = IF ended THEN 0 ELSE -1
              /\ layout' = IF Len(CartChunks) <= n /\ n < Len(ChunksOf(rom))
                           THEN SavedLayout ELSE layout
  BY WriteStep
<1>2. PICK n \in 0..Len(ChunksOf(rom)), cut \in BOOLEAN, ended \in BOOLEAN :
        /\ ended => n = Len(ChunksOf(rom)) /\ ~cut
        /\ file' = Written(n, cut, ended)
        /\ ret' = IF ended THEN 0 ELSE -1
        /\ layout' = IF Len(CartChunks) <= n /\ n < Len(ChunksOf(rom))
                     THEN SavedLayout ELSE layout
  BY <1>1
<1>3. ended
  BY <1>2
<1>4. n = Len(ChunksOf(rom)) /\ ~cut
  BY <1>2, <1>3
<1>5. layout' = layout
  BY <1>2, <1>4, AreaNames
<1>6. Snapshot' = Snapshot
  BY <1>1, <1>5 DEF Snapshot
<1>7. /\ file'.ended = ended /\ file'.cut = cut
      /\ file'.chunks = [i \in 1..n |-> ChunkOf(ChunksOf(rom)[i], SavedLayout)]
      /\ Len(file'.chunks) = n
  BY <1>2, WrittenType DEF Written
<1>8. /\ Snapshot.rom = rom /\ Snapshot.mem = mem /\ Snapshot.mode = mode
      /\ Snapshot.layout = layout
  BY DEF Snapshot
<1>9. SavedOf(Snapshot) = SavedLayout
  BY <1>8 DEF SavedOf, SavedLayout
<1>10. \A a : ChunkOf(a, SavedLayout) = ChunkAt(a, Snapshot)
  BY <1>8, <1>9 DEF ChunkOf, ChunkAt
<1>11. Holds(file', Snapshot)
  BY <1>3, <1>4, <1>7, <1>8, <1>10 DEF Holds
<1> QED
  BY <1>6, <1>11

LEMMA StepStored == TypeInv /\ StoredInv /\ [Next]_vars => StoredInv'
<1> SUFFICES ASSUME TypeInv, StoredInv, [Next]_vars PROVE StoredInv'
  OBVIOUS
<1>s. /\ pc = "close" /\ ret = 0 => Holds(file, Snapshot)
      /\ \A s \in Slots : stored[s].ok /\ ~Saving(s) => Holds(disk[s], stored[s])
      /\ Plain(rom, mode, layout)
      /\ \A s \in Slots : stored[s].ok => Plain(stored[s].rom, stored[s].mode, stored[s].layout)
  BY DEF StoredInv
<1>t. /\ stored \in [Slots -> Saves] /\ DOMAIN disk = Slots
      /\ pc # "idle" => rom \in Roms
      /\ rom \in Roms \cup {NoRom}
  BY DEF TypeInv
<1>1. ASSUME NEW r \in Roms, LoadROM(r) PROVE StoredInv'
  <2>1. pc = "idle" /\ pc' = "idle" /\ UNCHANGED <<disk, stored>> /\ mode' = "2M" /\ layout' = "2M"
    BY <1>1 DEF LoadROM
  <2> QED
    BY <1>s, <2>1 DEF StoredInv, Saving, Plain
<1>9. CASE FailLoadROM
  <2>1. rom' = NoRom /\ pc = "idle" /\ pc' = "idle" /\ UNCHANGED <<disk, stored>>
    BY <1>9 DEF FailLoadROM
  <2>2. Plain(rom', mode', layout')
    BY <2>1, SaveAssumption DEF Plain
  <2> QED
    BY <1>s, <2>1, <2>2 DEF StoredInv, Saving
<1>2. CASE RunFrame
  <2>1. pc = "idle" /\ pc' = "idle" /\ UNCHANGED <<rom, disk, stored>>
    BY <1>2 DEF RunFrame
  <2>2. Plain(rom', mode', layout')
    BY <1>2, <1>s DEF RunFrame, Plain
  <2> QED
    BY <1>s, <2>1, <2>2 DEF StoredInv, Saving
<1>3. CASE OpenSave
  <2>1. /\ pc = "idle" /\ UNCHANGED <<rom, mode, layout, stored>> /\ rom \in Roms
        /\ pc' # "close"
    BY <1>3, <1>t DEF OpenSave, game
  <2>2. ASSUME NEW s \in Slots, stored[s].ok, ~Saving(s)' PROVE Holds(disk'[s], stored[s])
    <3>1. disk'[s] = disk[s]
      <4>1. CASE disk' = disk
        BY <4>1
      <4>2. CASE pc' = "write" /\ disk' = [disk EXCEPT ![SlotOf[rom]] = Empty]
        <5>1. s # SlotOf[rom]
          BY <2>1, <2>2, <4>2 DEF Saving
        <5> QED
          BY <4>2, <5>1, <1>t
      <4> QED
        BY <1>3, <4>1, <4>2 DEF OpenSave
    <3> QED
      BY <1>s, <2>1, <2>2, <3>1 DEF Saving
  <2> QED
    BY <1>s, <2>1, <2>2 DEF StoredInv
<1>4. CASE WriteChunks
  <2>1. /\ UNCHANGED <<rom, mode, disk, stored>>
        /\ pc = "write" /\ rom \in Roms /\ pc' = "close"
    BY <1>4, <1>t, WriteStep
  <2>2. ret' = 0 => Holds(file', Snapshot')
    BY <1>4, <2>1, WholeSave
  <2>3. Plain(rom', mode', layout')
    <3>1. ~IsCD[rom] => layout' = layout
      BY <1>4, <1>s, <2>1 DEF WriteChunks, SavedLayout, Plain
    <3> QED
      BY <1>s, <2>1, <3>1 DEF Plain
  <2>4. \A s \in Slots : Saving(s)' <=> Saving(s)
    BY <2>1 DEF Saving
  <2> QED
    BY <1>s, <2>1, <2>2, <2>3, <2>4 DEF StoredInv
<1>5. CASE CloseSave
  <2>1. /\ UNCHANGED <<rom, mode, layout>> /\ pc = "close" /\ pc' = "idle" /\ rom \in Roms
    BY <1>5, <1>t DEF CloseSave, game
  <2>2. SlotOf[rom] \in Slots
    BY <2>1, SlotsOf
  <2>3. ASSUME NEW s \in Slots, s # SlotOf[rom]
        PROVE  disk'[s] = disk[s] /\ stored'[s] = stored[s]
    BY <1>5, <1>t, <2>3 DEF CloseSave
  <2>4. \/ ret = 0 /\ disk'[SlotOf[rom]] = file /\ stored'[SlotOf[rom]] = Snapshot
        \/ stored'[SlotOf[rom]] = Nothing
    BY <1>5, <1>t, <2>2 DEF CloseSave
  <2>5. ~Nothing.ok
    BY DEF Nothing
  <2>6. ASSUME NEW s \in Slots, stored'[s].ok
        PROVE  /\ Holds(disk'[s], stored'[s])
               /\ Plain(stored'[s].rom, stored'[s].mode, stored'[s].layout)
    <3>1. CASE s # SlotOf[rom]
      BY <1>s, <2>3, <2>6, <3>1 DEF Saving
    <3>2. CASE s = SlotOf[rom]
      <4>1. ret = 0 /\ disk'[s] = file /\ stored'[s] = Snapshot
        BY <2>4, <2>5, <2>6, <3>2
      <4>2. Snapshot.rom = rom /\ Snapshot.mode = mode /\ Snapshot.layout = layout
        BY DEF Snapshot
      <4> QED
        BY <1>s, <2>1, <4>1, <4>2
    <3> QED
      BY <3>1, <3>2
  <2> QED
    BY <1>s, <2>1, <2>6 DEF StoredInv
<1>6. CASE LoadState
  <2>1. pc = "idle" /\ UNCHANGED <<rom, disk, pc, stored>>
    BY <1>6, LoadStep
  <2>2. Plain(rom', mode', layout')
    <3>1. SUFFICES ASSUME rom \in Roms, ~IsCD[rom] PROVE mode' = mode /\ layout' = layout
      BY <1>s, <2>1 DEF Plain
    <3>2. CASE UNCHANGED <<mem, mode, layout>>
      BY <3>2
    <3>3. ASSUME NEW n \in 0..Len(disk[SlotOf[rom]].chunks), NEW whole \in BOOLEAN,
                 \A i \in 1..n : ~Refused(disk[SlotOf[rom]].chunks[i]),
                 Load(disk[SlotOf[rom]], n, whole)
          PROVE  mode' = mode /\ layout' = layout
      BY <3>1, <3>3, PlainRead DEF Load
    <3> QED
      BY <1>6, <3>2, <3>3, LoadStep
  <2> QED
    BY <1>s, <2>1, <2>2 DEF StoredInv, Saving
<1>7. CASE PowerCycle
  <2>1. /\ rom' = NoRom /\ pc' = "idle" /\ UNCHANGED disk
        /\ stored' = [s \in Slots |-> IF Saving(s) THEN Nothing ELSE stored[s]]
    BY <1>7 DEF PowerCycle
  <2>2. ASSUME NEW s \in Slots, stored'[s].ok PROVE ~Saving(s) /\ stored'[s] = stored[s]
    BY <2>1, <2>2 DEF Nothing
  <2> QED
    BY <1>s, <2>1, <2>2, SaveAssumption DEF StoredInv, Plain
<1>8. CASE UNCHANGED vars
  BY <1>8, <1>s DEF vars, game, StoredInv, Saving, Snapshot
<1> QED
  BY <1>1, <1>2, <1>3, <1>4, <1>5, <1>6, <1>7, <1>8, <1>9 DEF Next

LEMMA StoredHolds == Spec => []StoredInv
BY InitStored, TypeHolds, StepStored, PTL DEF Spec

\* StoredStaysWhole: a save that ended well stays on the card, whole, until the
\* next save to its slot is begun, also across power cuts.
THEOREM SavesSurvive == Spec => []StoredStaysWhole
<1>1. TypeInv /\ StoredInv => StoredStaysWhole
  <2> SUFFICES ASSUME StoredInv, NEW s \in Slots, stored[s].ok, ~Saving(s)
               PROVE  /\ disk[s].ended /\ ~disk[s].cut
                      /\ Len(disk[s].chunks) = Len(ChunksOf(stored[s].rom))
                      /\ \A i \in 1..Len(disk[s].chunks) :
                           disk[s].chunks[i].data = stored[s].mem[disk[s].chunks[i].area]
    BY DEF StoredStaysWhole
  <2>1. Holds(disk[s], stored[s])
    BY DEF StoredInv
  <2>2. \A a : ChunkAt(a, stored[s]).area = a /\ ChunkAt(a, stored[s]).data = stored[s].mem[a]
    BY DEF ChunkAt
  <2> QED
    BY <2>1, <2>2 DEF Holds
<1> QED
  BY <1>1, TypeHolds, StoredHolds, PTL

\* A whole save, read to its end, gives back what every area of the game held.
LEMMA WholeRead ==
  ASSUME NEW f, NEW st, Holds(f, st), NEW a \in AreasOf(st.rom)
  PROVE  LET n == Len(f.chunks) IN
           /\ Found(f, n, a)
           /\ ChunkFor(f, n, a) = ChunkAt(a, st)
<1> DEFINE n == Len(f.chunks)
<1>1. /\ st.rom \in Roms /\ n = Len(ChunksOf(st.rom))
      /\ \A i \in 1..n : f.chunks[i] = ChunkAt(ChunksOf(st.rom)[i], st)
  BY DEF Holds
<1>2. PICK i \in 1..n : a = ChunksOf(st.rom)[i]
  BY <1>1, AreaNames
<1>3. f.chunks[i] \in ReadIn(f, n) /\ f.chunks[i].area = a
  <2>1. f.chunks[i] \in ReadIn(f, n)
    BY Zenon DEF ReadIn
  <2>2. f.chunks[i] = ChunkAt(a, st)
    BY <1>1, <1>2
  <2> QED
    BY <2>1, <2>2 DEF ChunkAt
<1>4. Found(f, n, a)
  BY <1>3 DEF Found
<1>5. ChunkFor(f, n, a) \in ReadIn(f, n) /\ ChunkFor(f, n, a).area = a
  BY <1>4, FoundChunk
<1>6. PICK j \in 1..n : ChunkFor(f, n, a) = ChunkAt(ChunksOf(st.rom)[j], st)
  BY <1>1, <1>5 DEF ReadIn
<1>7. ChunksOf(st.rom)[j] = a
  BY <1>5, <1>6 DEF ChunkAt
<1> QED
  BY <1>4, <1>6, <1>7

\* LoadRestores, for any game, as long as its save is whole on the card.
LEMMA StepRestores ==
  ASSUME TypeInv, StoredInv, LoadState, ret' = 0,
         stored[SlotOf[rom]].ok, stored[SlotOf[rom]].rom = rom
  PROVE  LET was == stored[SlotOf[rom]] IN
           /\ \A a \in AreasOf(rom) : mem'[a] = was.mem[a]
           /\ mode' = was.mode
           /\ was.layout = was.mode => layout' = mode'
<1> DEFINE was == stored[SlotOf[rom]]
           f == disk[SlotOf[rom]]
           n == Len(f.chunks)
<1>1. pc = "idle" /\ rom \in Roms
  BY LoadStep DEF TypeInv
<1>2. SlotOf[rom] \in Slots
  BY <1>1, SlotsOf
<1>3. Holds(f, was)
  BY <1>1, <1>2 DEF StoredInv, Saving
<1>4. was \in Saves
  BY <1>2 DEF TypeInv
<1>5. was.mode \in Modes2 /\ was.layout \in Layouts
  BY <1>4 DEF Saves
<1>6. Plain(rom, mode, layout) /\ Plain(rom, was.mode, was.layout)
  BY <1>2 DEF StoredInv
<1> HIDE DEF was, f
<1>7. was.rom = rom
  BY DEF was
<1>8. (\A i \in 1..n : ~Refused(f.chunks[i])) /\ Load(f, n, TRUE)
  <2>1. PICK m \in 0..n, whole \in BOOLEAN :
          /\ \A i \in 1..m : ~Refused(f.chunks[i])
          /\ whole => m = n
          /\ Load(f, m, whole)
    BY LoadStep DEF f
  <2>2. whole
    BY <2>1 DEF Load
  <2>3. whole = TRUE /\ m = n
    BY <2>1, <2>2
  <2> QED
    BY <2>1, <2>3
<1>9. \A a \in AreasOf(rom) : Found(f, n, a) /\ ChunkFor(f, n, a) = ChunkAt(a, was)
  BY <1>3, <1>7, WholeRead
<1>10. \A a \in AreasOf(rom) : Found(f, n, a) /\ DataIn(f, n, a) = was.mem[a]
  <2>1. \A a : ChunkAt(a, was).data = was.mem[a]
    BY DEF ChunkAt
  <2> QED
    BY <1>9, <2>1 DEF DataIn, ChunkFor
<1>11. ASSUME NEW a \in AreasOf(rom) PROVE mem'[a] = was.mem[a]
  <2>1. a \in Areas /\ (a = "S68K" => IsCD[rom])
    BY <1>1, AreaNames
  <2>2. mem' = MemAfter(f, n, TRUE)
    BY <1>8 DEF Load
  <2>3. mem'[a] = DataIn(f, n, a)
    BY <1>10, <2>1, <2>2 DEF MemAfter
  <2> QED
    BY <1>10, <2>3
<1>12. mode' = ModeAfter(f, n) /\ layout' = LayoutAfter(f, n, TRUE)
  BY <1>8 DEF Load
<1>13. mode' = was.mode /\ (was.layout = was.mode => layout' = mode')
  <2>1. CASE ~IsCD[rom]
    <3>1. mode' = mode /\ layout' = layout
      BY <1>8, <1>12, <2>1, PlainRead
    <3> QED
      BY <1>1, <1>6, <2>1, <3>1 DEF Plain
  <2>2. CASE IsCD[rom]
    <3>1. "GA_REGS" \in AreasOf(rom) /\ "WORD_RAM" \in AreasOf(rom)
      BY <1>1, <2>2, AreaNames
    <3>2. /\ Found(f, n, "GA_REGS") /\ ChunkFor(f, n, "GA_REGS").mode = was.mode
          /\ Found(f, n, "WORD_RAM") /\ ChunkFor(f, n, "WORD_RAM").layout = SavedOf(was)
      <4>1. /\ ChunkAt("GA_REGS", was).mode = was.mode
            /\ ChunkAt("WORD_RAM", was).layout = SavedOf(was)
        BY DEF ChunkAt
      <4> QED
        BY <1>9, <3>1, <4>1
    <3>3. ModeAfter(f, n) = was.mode /\ LayoutRead(f, n) = SavedOf(was)
      BY <3>2 DEF ModeAfter, LayoutRead, ChunkFor
    <3>4. LayoutAfter(f, n, TRUE) = IF was.mode = "1M" THEN Convert(SavedOf(was), "2M", "1M")
                                    ELSE SavedOf(was)
      BY <2>2, <3>3 DEF LayoutAfter
    <3>5. was.layout = was.mode => LayoutAfter(f, n, TRUE) = was.mode
      BY <1>5, <3>4 DEF SavedOf, Convert, Modes2
    <3> QED
      BY <1>12, <3>3, <3>5
  <2> QED
    BY <2>1, <2>2
<1> QED
  BY <1>11, <1>13 DEF was

\* A load that succeeds from a save of this game that ended well puts the game
\* back to that moment, however it was left in between: also from 1M mode into
\* 2M mode and back, and after failed loads and saves.  (A word RAM that was
\* not in the layout of its mode when it was saved is not repaired.)
LoadRestores ==
  [][LET was == stored[SlotOf[rom]] IN
       LoadState /\ ret' = 0 /\ was.ok /\ was.rom = rom =>
         /\ \A a \in AreasOf(rom) : mem'[a] = was.mem[a]
         /\ mode' = was.mode
         /\ was.layout = was.mode => layout' = mode']_vars

\* LoadRestores, for any games that share slots in any way, after any errors
\* and power cuts.
THEOREM LoadsRestore == Spec => LoadRestores
<1>1. TypeInv /\ StoredInv /\ [Next]_vars =>
        [LET was == stored[SlotOf[rom]] IN
           LoadState /\ ret' = 0 /\ was.ok /\ was.rom = rom =>
             /\ \A a \in AreasOf(rom) : mem'[a] = was.mem[a]
             /\ mode' = was.mode
             /\ was.layout = was.mode => layout' = mode']_vars
  BY StepRestores
<1> QED
  BY <1>1, TypeHolds, StoredHolds, PTL DEF Spec, LoadRestores

------------------------------------------------------------------------------
(* The slots                                                                 *)

AbstractValue == [data : Stamps, mode : {"-", "1M", "2M"}, fits : BOOLEAN]

\* The three parts of what an area holds.
LEMMA ContentsAt ==
  ASSUME NEW m, NEW md, NEW lay, NEW a \in Areas
  PROVE  Contents(m, md, lay)[a] =
           [data |-> m[a], mode |-> IF a = "GA_REGS" THEN md ELSE "-",
            fits |-> a = "WORD_RAM" => lay = md]
BY DEF Contents

LEMMA ContentsType ==
  ASSUME NEW m \in Memory, NEW md \in Modes2, NEW lay \in Layouts
  PROVE  Contents(m, md, lay) \in [Areas -> AbstractValue]
<1>1. ASSUME NEW a \in Areas
      PROVE  [data |-> m[a], mode |-> IF a = "GA_REGS" THEN md ELSE "-",
              fits |-> a = "WORD_RAM" => lay = md] \in AbstractValue
  <2>1. m[a] \in Stamps
    BY DEF Memory
  <2>2. (IF a = "GA_REGS" THEN md ELSE "-") \in {"-", "1M", "2M"}
    BY DEF Modes2
  <2>3. (a = "WORD_RAM" => lay = md) \in BOOLEAN
    BY Zenon
  <2> QED
    BY <2>1, <2>2, <2>3, Zenon DEF AbstractValue
<1> QED
  BY <1>1, Zenon DEF Contents

\* All that a failed write can disturb is how the word RAM fits its mode.
LEMMA OnlyTheLayout ==
  ASSUME NEW m, NEW md, NEW lay, NEW lay2, NEW a \in Areas \ {"WORD_RAM"}
  PROVE  Contents(m, md, lay2)[a] = Contents(m, md, lay)[a]
<1>1. a \in Areas /\ a # "WORD_RAM"
  OBVIOUS
<1>2. (a = "WORD_RAM" => lay2 = md) = (a = "WORD_RAM" => lay = md)
  BY <1>1, Zenon
<1>3. Contents(m, md, lay2)[a] =
        [data |-> m[a], mode |-> IF a = "GA_REGS" THEN md ELSE "-",
         fits |-> a = "WORD_RAM" => lay2 = md]
  BY <1>1, ContentsAt
<1>4. Contents(m, md, lay)[a] =
        [data |-> m[a], mode |-> IF a = "GA_REGS" THEN md ELSE "-",
         fits |-> a = "WORD_RAM" => lay = md]
  BY <1>1, ContentsAt
<1> QED
  BY <1>2, <1>3, <1>4

\* A slot keeps nothing, or what its last good save met.
KeptOf(was) ==
  [a \in AreasOf(was.rom) |-> Contents(was.mem, was.mode, was.layout)[a]]

LEMMA KeptIs ==
  /\ \A s : stored[s].ok /\ ~Saving(s) => Kept(s) = KeptOf(stored[s])
  /\ \A s : ~(stored[s].ok /\ ~Saving(s)) => Kept(s) = <<>>
BY Zenon DEF Kept, KeptOf

\* A game that takes what a whole save of another one holds has its areas.
LEMMA NoneRefused ==
  ASSUME NEW f, NEW st, Holds(f, st), rom \in Roms,
         \A i \in 1..Len(f.chunks) : ~Refused(f.chunks[i])
  PROVE  AreasOf(st.rom) \subseteq AreasOf(rom)
<1>1. st.rom \in Roms
  BY DEF Holds
<1>2. CASE IsCD[rom] \/ ~IsCD[st.rom]
  BY <1>1, <1>2, AreaNames
<1>3. CASE ~IsCD[rom] /\ IsCD[st.rom]
  <2>1. "S68K" \in AreasOf(st.rom)
    BY <1>1, <1>3, AreaNames
  <2>2. PICK i \in 1..Len(ChunksOf(st.rom)) : ChunksOf(st.rom)[i] = "S68K"
    BY <1>1, <2>1, AreaNames
  <2>3. i \in 1..Len(f.chunks) /\ f.chunks[i] = ChunkAt("S68K", st)
    BY <2>2 DEF Holds
  <2>4. f.chunks[i].area = "S68K"
    BY <2>3 DEF ChunkAt
  <2>5. ~Refused(f.chunks[i])
    BY <2>3
  <2> QED
    BY <1>3, <2>4, <2>5 DEF Refused, OnlyCD
<1> QED
  BY <1>2, <1>3

\* Saving converts the word RAM to 2M and loading converts it to its mode: the
\* layout fits afterwards just when it did before.
LEMMA ConversionsUndo ==
  ASSUME NEW st, st.mode \in Modes2, st.layout \in Layouts
  PROVE  (IF st.mode = "1M" THEN Convert(SavedOf(st), "2M", "1M") ELSE SavedOf(st)) = st.mode
           <=> st.layout = st.mode
BY DEF SavedOf, Convert, Modes2, Layouts

\* A load that succeeds gives back all that the slot keeps.
LEMMA StepGivesBack ==
  ASSUME TypeInv, StoredInv, LoadState, ret' = 0, stored[SlotOf[rom]].ok
  PROVE  LET was == stored[SlotOf[rom]] IN
           /\ AreasOf(was.rom) \subseteq AreasOf(rom)
           /\ \A a \in AreasOf(was.rom) :
                Contents(mem', mode', layout')[a] = Contents(was.mem, was.mode, was.layout)[a]
<1> DEFINE was == stored[SlotOf[rom]]
           f == disk[SlotOf[rom]]
           n == Len(f.chunks)
<1>1. pc = "idle" /\ rom \in Roms
  BY LoadStep DEF TypeInv
<1>2. SlotOf[rom] \in Slots
  BY <1>1, SlotsOf
<1>3. Holds(f, was)
  BY <1>1, <1>2 DEF StoredInv, Saving
<1>4. was \in Saves
  BY <1>2 DEF TypeInv
<1>5. was.mode \in Modes2 /\ was.layout \in Layouts
  BY <1>4 DEF Saves
<1>6. Plain(was.rom, was.mode, was.layout)
  BY <1>2 DEF StoredInv
<1> HIDE DEF was, f
<1>8. (\A i \in 1..n : ~Refused(f.chunks[i])) /\ Load(f, n, TRUE)
  <2>1. PICK m \in 0..n, whole \in BOOLEAN :
          /\ \A i \in 1..m : ~Refused(f.chunks[i])
          /\ whole => m = n
          /\ Load(f, m, whole)
    BY LoadStep DEF f
  <2>2. whole
    BY <2>1 DEF Load
  <2>3. whole = TRUE /\ m = n
    BY <2>1, <2>2
  <2> QED
    BY <2>1, <2>3
<1>9. AreasOf(was.rom) \subseteq AreasOf(rom)
  BY <1>1, <1>3, <1>8, NoneRefused
<1>10. \A a \in AreasOf(was.rom) : Found(f, n, a) /\ ChunkFor(f, n, a) = ChunkAt(a, was)
  BY <1>3, WholeRead
<1>11. was.rom \in Roms
  BY <1>3 DEF Holds
<1>12. ASSUME NEW a \in AreasOf(was.rom) PROVE mem'[a] = was.mem[a]
  <2>1. a \in Areas /\ (a = "S68K" => IsCD[rom])
    BY <1>1, <1>9, <1>11, AreaNames
  <2>2. mem' = MemAfter(f, n, TRUE)
    BY <1>8 DEF Load
  <2>3. ChunkAt(a, was).data = was.mem[a]
    BY DEF ChunkAt
  <2>4. Found(f, n, a) /\ DataIn(f, n, a) = was.mem[a]
    BY <1>10, <2>3 DEF DataIn, ChunkFor
  <2> QED
    BY <2>1, <2>2, <2>4 DEF MemAfter
<1>13. mode' = ModeAfter(f, n) /\ layout' = LayoutAfter(f, n, TRUE)
  BY <1>8 DEF Load
<1>14. ASSUME "GA_REGS" \in AreasOf(was.rom) PROVE mode' = was.mode
  <2>1. Found(f, n, "GA_REGS") /\ ChunkFor(f, n, "GA_REGS") = ChunkAt("GA_REGS", was)
    BY <1>10, <1>14
  <2>2. ChunkAt("GA_REGS", was).mode = was.mode
    BY DEF ChunkAt
  <2> QED
    BY <1>13, <2>1, <2>2 DEF ModeAfter, ChunkFor
<1>15. ASSUME "WORD_RAM" \in AreasOf(was.rom) PROVE layout' = mode' <=> was.layout = was.mode
  <2>1. IsCD[was.rom] /\ IsCD[rom] /\ "GA_REGS" \in AreasOf(was.rom)
    BY <1>1, <1>9, <1>11, <1>15, AreaNames
  <2>2. mode' = was.mode /\ ModeAfter(f, n) = was.mode
    BY <1>13, <1>14, <2>1
  <2>3. Found(f, n, "WORD_RAM") /\ ChunkFor(f, n, "WORD_RAM") = ChunkAt("WORD_RAM", was)
    BY <1>10, <1>15
  <2>4. ChunkAt("WORD_RAM", was).layout = SavedOf(was)
    BY DEF ChunkAt
  <2>5. LayoutRead(f, n) = SavedOf(was)
    BY <2>3, <2>4 DEF LayoutRead, ChunkFor
  <2>6. layout' = IF was.mode = "1M" THEN Convert(SavedOf(was), "2M", "1M") ELSE SavedOf(was)
    BY <1>13, <2>1, <2>2, <2>5 DEF LayoutAfter
  <2> QED
    BY <1>5, <2>2, <2>6, ConversionsUndo
<1>16. ASSUME NEW a \in AreasOf(was.rom)
       PROVE  Contents(mem', mode', layout')[a] = Contents(was.mem, was.mode, was.layout)[a]
  <2>1. a \in Areas
    BY <1>11, AreaNames
  <2>2. mem'[a] = was.mem[a]
    BY <1>12
  <2>3. (IF a = "GA_REGS" THEN mode' ELSE "-") = IF a = "GA_REGS" THEN was.mode ELSE "-"
    BY <1>14
  <2>4. (a = "WORD_RAM" => layout' = mode') = (a = "WORD_RAM" => was.layout = was.mode)
    BY <1>15, Zenon
  <2>5. Contents(mem', mode', layout')[a] =
          [data |-> mem'[a], mode |-> IF a = "GA_REGS" THEN mode' ELSE "-",
           fits |-> a = "WORD_RAM" => layout' = mode']
    BY <2>1, ContentsAt
  <2>6. Contents(was.mem, was.mode, was.layout)[a] =
          [data |-> was.mem[a], mode |-> IF a = "GA_REGS" THEN was.mode ELSE "-",
           fits |-> a = "WORD_RAM" => was.layout = was.mode]
    BY <2>1, ContentsAt
  <2> QED
    BY <2>2, <2>3, <2>4, <2>5, <2>6, Zenon
<1> QED
  BY <1>9, <1>16 DEF was

\* The abstract state, and what a step must say of it.
Held == Contents(mem, mode, layout)
Shelf == [s \in Slots |-> Kept(s)]
Result == IF pc = "write" THEN 0 ELSE ret

LEMMA StoreState ==
  /\ Store!Slots = Slots
  /\ Store!Memory = [Areas -> AbstractValue]
  /\ Store!vars = <<rom, frame, Held, Shelf, pc # "idle", Result>>
BY DEF Store!Slots, Slots, Store!Memory, AbstractValue, Store!vars, Held, Shelf, Result

HeldOK == Held \in [Areas -> AbstractValue]

LEMMA HeldType == TypeInv => HeldOK
BY ContentsType DEF TypeInv, Held, HeldOK

LEMMA HeldTypeNext == TypeInv' => Held' \in [Areas -> AbstractValue]
<1>1. TypeInv' => HeldOK'
  BY HeldType, PTL
<1> QED
  BY <1>1 DEF HeldOK

\* The shelf does not move when nothing is being saved, before or after, and the
\* ghost is as it was.
LEMMA ShelfStays ==
  ASSUME UNCHANGED stored, \A s \in Slots : Saving(s)' <=> Saving(s)
  PROVE  Shelf' = Shelf
<1>1. \A s \in Slots : Kept(s)' = Kept(s)
  BY DEF Kept
<1> QED
  BY <1>1 DEF Shelf

LEMMA StoreInit == Init => Store!Init
<1> SUFFICES ASSUME Init PROVE Store!Init
  OBVIOUS
<1>1. rom = NoRom /\ frame = 0 /\ pc = "idle" /\ ret = 0
  BY DEF Init
<1>2. Held \in [Areas -> AbstractValue]
  BY InitType, HeldType DEF HeldOK
<1>3. \A s \in Slots : ~stored[s].ok
  BY DEF Init, Nothing
<1>4. \A s \in Slots : Kept(s) = <<>>
  BY <1>3, KeptIs
<1>5. Shelf = [s \in Slots |-> <<>>]
  BY <1>4 DEF Shelf
<1>6. Result = 0
  BY <1>1 DEF Result
<1> QED
  BY <1>1, <1>2, <1>5, <1>6, StoreState DEF Store!Init, Held, Shelf, Result

LEMMA PlayRefined ==
  ASSUME TypeInv, TypeInv', (\E r \in Roms : LoadROM(r)) \/ RunFrame
  PROVE  Store!Play
<1>1. /\ pc = "idle" /\ pc' = "idle" /\ UNCHANGED <<ret, stored>> /\ frame' = frame + 1
      /\ rom' \in Roms
  BY DEF LoadROM, RunFrame, TypeInv
<1>2. Held' \in [Areas -> AbstractValue]
  BY HeldTypeNext
<1>3. Shelf' = Shelf
  BY <1>1, ShelfStays DEF Saving
<1>4. Result' = Result
  BY <1>1 DEF Result
<1> QED
  BY <1>1, <1>2, <1>3, <1>4, StoreState DEF Store!Play, Held, Shelf, Result

LEMMA FailRefined ==
  ASSUME TypeInv', FailLoadROM
  PROVE  Store!FailPlay
<1>1. pc = "idle" /\ pc' = "idle" /\ UNCHANGED <<ret, stored, frame>> /\ rom' = NoRom
  BY DEF FailLoadROM
<1>2. Held' \in [Areas -> AbstractValue]
  BY HeldTypeNext
<1>3. Shelf' = Shelf
  BY <1>1, ShelfStays DEF Saving
<1>4. Result' = Result
  BY <1>1 DEF Result
<1> QED
  BY <1>1, <1>2, <1>3, <1>4, StoreState DEF Store!FailPlay, Held, Shelf, Result

LEMMA OpenRefined ==
  ASSUME TypeInv, TypeInv', OpenSave
  PROVE  Store!BeginSave \/ Store!FailSave
<1>1. /\ pc = "idle" /\ rom \in Roms /\ UNCHANGED <<rom, frame, mem, mode, layout, stored>>
  BY DEF OpenSave, TypeInv, game
<1>2. Held' = Held
  BY <1>1 DEF Held
<1>3. SlotOf[rom] \in Slots
  BY <1>1, SlotsOf
<1>4. CASE pc' = "write"
  <2>1. \A s \in Slots : Saving(s)' <=> s = SlotOf[rom]
    BY <1>1, <1>4 DEF Saving
  <2>2. \A s \in Slots : ~Saving(s)
    BY <1>1 DEF Saving
  <2>3. \A s \in Slots : Kept(s)' = IF s = SlotOf[rom] THEN <<>> ELSE Kept(s)
    BY <1>1, <2>1, <2>2 DEF Kept
  <2>4. Shelf' = [Shelf EXCEPT ![SlotOf[rom]] = <<>>]
    BY <1>3, <2>3 DEF Shelf
  <2>5. Result' = 0
    BY <1>4 DEF Result
  <2> QED
    BY <1>1, <1>2, <1>4, <2>4, <2>5 DEF Store!BeginSave, Held, Shelf, Result
<1>5. CASE pc' = "idle"
  <2>1. ret' = -1
    BY <1>5 DEF OpenSave
  <2>2. Result' = -1
    BY <1>5, <2>1 DEF Result
  <2>3. Shelf' = Shelf
    BY <1>1, <1>5, ShelfStays DEF Saving
  <2>4. Held' \in [Areas -> AbstractValue]
    BY HeldTypeNext
  <2> QED
    BY <1>1, <1>2, <1>5, <2>2, <2>3, <2>4, StoreState DEF Store!FailSave, Held, Shelf, Result
<1> QED
  BY <1>4, <1>5 DEF OpenSave

LEMMA WriteRefined ==
  ASSUME TypeInv, TypeInv', WriteChunks
  PROVE  Store!FailSave \/ UNCHANGED Store!vars
<1>1. /\ pc = "write" /\ pc' = "close" /\ rom \in Roms
      /\ UNCHANGED <<rom, frame, mem, mode, stored>>
  BY WriteStep DEF TypeInv
<1>2. Shelf' = Shelf
  BY <1>1, ShelfStays DEF Saving
<1>3. CASE ret' = 0
  <2>1. PICK n \in 0..Len(ChunksOf(rom)), cut \in BOOLEAN, ended \in BOOLEAN :
          /\ ended => n = Len(ChunksOf(rom)) /\ ~cut
          /\ ret' = IF ended THEN 0 ELSE -1
          /\ layout' = IF Len(CartChunks) <= n /\ n < Len(ChunksOf(rom))
                       THEN SavedLayout ELSE layout
    BY WriteStep
  <2>2. layout' = layout
    BY <1>1, <1>3, <2>1, AreaNames
  <2>3. Held' = Held /\ Result' = Result
    BY <1>1, <1>3, <2>2 DEF Held, Result
  <2> QED
    BY <1>1, <1>2, <2>3, StoreState DEF Store!vars, Held, Shelf, Result
<1>4. CASE ret' = -1
  <2>1. Held' \in [Areas -> AbstractValue]
    BY HeldTypeNext
  <2>2. \A a \in Areas \ {"WORD_RAM"} : Held'[a] = Held[a]
    BY <1>1, OnlyTheLayout DEF Held
  <2>3. Result' = -1
    BY <1>1, <1>4 DEF Result
  <2> QED
    BY <1>1, <1>2, <2>1, <2>2, <2>3, StoreState DEF Store!FailSave, Held, Shelf, Result
<1> QED
  BY <1>3, <1>4 DEF TypeInv

LEMMA CloseRefined ==
  ASSUME TypeInv, CloseSave
  PROVE  Store!EndSave
<1>1. /\ pc = "close" /\ pc' = "idle" /\ rom \in Roms
      /\ UNCHANGED <<rom, frame, mem, mode, layout, ret>>
  BY DEF CloseSave, TypeInv, game
<1>2. Held' = Held /\ Result' = Result /\ Result = ret
  BY <1>1 DEF Held, Result
<1>3. SlotOf[rom] \in Slots
  BY <1>1, SlotsOf
<1>4. (\A s \in Slots : Saving(s) <=> s = SlotOf[rom]) /\ \A s \in Slots : ~Saving(s)'
  BY <1>1 DEF Saving
<1>5. \/ ret = 0 /\ stored' = [stored EXCEPT ![SlotOf[rom]] = Snapshot]
      \/ stored' = [stored EXCEPT ![SlotOf[rom]] = Nothing]
  BY DEF CloseSave
<1>6. ASSUME NEW s \in Slots, s # SlotOf[rom] PROVE Kept(s)' = Kept(s)
  <2>1. stored'[s] = stored[s]
    BY <1>5, <1>6 DEF TypeInv
  <2> QED
    BY <1>4, <1>6, <2>1 DEF Kept
<1>7. Kept(SlotOf[rom]) = <<>>
  BY <1>3, <1>4, KeptIs
<1>8. CASE ret = 0 /\ stored' = [stored EXCEPT ![SlotOf[rom]] = Snapshot]
  <2>1. stored'[SlotOf[rom]] = Snapshot
    BY <1>3, <1>8 DEF TypeInv
  <2>2. /\ Snapshot.ok /\ Snapshot.rom = rom /\ Snapshot.mem = mem
        /\ Snapshot.mode = mode /\ Snapshot.layout = layout
    BY DEF Snapshot
  <2>3. Kept(SlotOf[rom])' = [a \in AreasOf(rom) |-> Held[a]]
    BY <1>1, <1>3, <1>4, <2>1, <2>2 DEF Kept, Held
  <2>4. Shelf' = [Shelf EXCEPT ![SlotOf[rom]] = [a \in AreasOf(rom) |-> Held[a]]]
    BY <1>1, <1>3, <1>6, <2>3 DEF Shelf
  <2>5. [r \in Roms |-> AreasOf(r)][rom] = AreasOf(rom)
    BY <1>1
  <2> QED
    BY <1>1, <1>2, <1>8, <2>4, <2>5 DEF Store!EndSave, Held, Shelf, Result
<1>9. CASE stored' = [stored EXCEPT ![SlotOf[rom]] = Nothing]
  <2>1. ~stored'[SlotOf[rom]].ok
    BY <1>3, <1>9 DEF TypeInv, Nothing
  <2>2. Kept(SlotOf[rom])' = <<>>
    BY <1>1, <2>1 DEF Kept
  <2>3. Shelf' = Shelf
    BY <1>1, <1>6, <1>7, <2>2 DEF Shelf
  <2> QED
    BY <1>1, <1>2, <2>3 DEF Store!EndSave, Held, Shelf, Result
<1> QED
  BY <1>5, <1>8, <1>9

LEMMA LoadRefined ==
  ASSUME TypeInv, TypeInv', StoredInv, LoadState
  PROVE  Store!Load \/ Store!FailLoad
<1>1. /\ pc = "idle" /\ pc' = "idle" /\ rom \in Roms /\ UNCHANGED <<rom, frame, stored>>
  BY LoadStep DEF TypeInv
<1>2. Held' \in [Areas -> AbstractValue]
  BY HeldTypeNext
<1>3. Shelf' = Shelf
  BY <1>1, ShelfStays DEF Saving
<1>4. Result' = ret'
  BY <1>1 DEF Result
<1>5. SlotOf[rom] \in Slots
  BY <1>1, SlotsOf
<1>6. CASE ret' = -1
  BY <1>1, <1>2, <1>3, <1>4, <1>6, StoreState DEF Store!FailLoad, Held, Shelf, Result
<1>7. CASE ret' = 0
  <2> DEFINE s == Shelf[SlotOf[rom]]
  <2>1. s = Kept(SlotOf[rom])
    BY <1>5 DEF Shelf
  <2>2. /\ DOMAIN s \subseteq AreasOf(rom)
        /\ \A a \in DOMAIN s : Held'[a] = s[a]
    <3>1. CASE stored[SlotOf[rom]].ok
      <4> DEFINE was == stored[SlotOf[rom]]
      <4>1. s = KeptOf(was)
        BY <1>1, <2>1, <3>1, KeptIs DEF Saving
      <4>2. /\ AreasOf(was.rom) \subseteq AreasOf(rom)
            /\ \A a \in AreasOf(was.rom) :
                 Held'[a] = Contents(was.mem, was.mode, was.layout)[a]
        BY <1>7, <3>1, StepGivesBack DEF Held
      <4> QED
        BY <4>1, <4>2 DEF KeptOf
    <3>2. CASE ~stored[SlotOf[rom]].ok
      <4>1. s = <<>>
        BY <2>1, <3>2, KeptIs
      <4>2. DOMAIN s = {}
        BY <4>1
      <4> QED
        BY <4>2
    <3> QED
      BY <3>1, <3>2
  <2>3. [r \in Roms |-> AreasOf(r)][rom] = AreasOf(rom)
    BY <1>1
  <2> HIDE DEF s
  <2>4. Result' = 0
    BY <1>4, <1>7
  <2> QED
    BY <1>1, <1>2, <1>3, <2>2, <2>3, <2>4, StoreState DEF Store!Load, Held, Shelf, Result, s
<1> QED
  BY <1>6, <1>7 DEF TypeInv

LEMMA PowerRefined ==
  ASSUME TypeInv', PowerCycle
  PROVE  Store!PowerCut
<1>1. /\ rom' = NoRom /\ pc' = "idle" /\ ret' = 0 /\ frame' = frame
      /\ stored' = [s \in Slots |-> IF Saving(s) THEN Nothing ELSE stored[s]]
  BY DEF PowerCycle
<1>2. ASSUME NEW s \in Slots PROVE Kept(s)' = Kept(s)
  <2>1. ~Saving(s)'
    BY <1>1 DEF Saving
  <2>2. CASE Saving(s)
    <3>1. stored'[s] = Nothing
      BY <1>1, <2>2
    <3>2. ~stored'[s].ok
      BY <3>1 DEF Nothing
    <3>3. Kept(s)' = <<>>
      BY <3>2 DEF Kept
    <3> QED
      BY <2>2, <3>3, KeptIs
  <2>3. CASE ~Saving(s)
    <3>1. stored'[s] = stored[s]
      BY <1>1, <2>3
    <3> QED
      BY <2>1, <2>3, <3>1 DEF Kept
  <2> QED
    BY <2>2, <2>3
<1>3. Shelf' = Shelf
  BY <1>2 DEF Shelf
<1>4. Held' \in [Areas -> AbstractValue]
  BY HeldTypeNext
<1>5. Result' = 0
  BY <1>1 DEF Result
<1> QED
  BY <1>1, <1>3, <1>4, <1>5, StoreState DEF Store!PowerCut, Held, Shelf, Result

LEMMA StoreStep ==
  TypeInv /\ TypeInv' /\ StoredInv /\ [Next]_vars => [Store!Next]_(Store!vars)
<1> SUFFICES ASSUME TypeInv, TypeInv', StoredInv, [Next]_vars
             PROVE  Store!Next \/ UNCHANGED Store!vars
  OBVIOUS
<1>1. CASE (\E r \in Roms : LoadROM(r)) \/ RunFrame
  BY <1>1, PlayRefined DEF Store!Next
<1>8. CASE FailLoadROM
  BY <1>8, FailRefined DEF Store!Next
<1>2. CASE OpenSave
  BY <1>2, OpenRefined DEF Store!Next
<1>3. CASE WriteChunks
  BY <1>3, WriteRefined DEF Store!Next
<1>4. CASE CloseSave
  BY <1>4, CloseRefined DEF Store!Next
<1>5. CASE LoadState
  BY <1>5, LoadRefined DEF Store!Next
<1>6. CASE PowerCycle
  BY <1>6, PowerRefined DEF Store!Next
<1>7. CASE UNCHANGED vars
  <2>1. UNCHANGED <<rom, mem, mode, layout, frame, pc, ret, stored>>
    BY <1>7 DEF vars, game
  <2>2. Shelf' = Shelf
    BY <2>1, ShelfStays DEF Saving
  <2>3. Held' = Held /\ Result' = Result
    BY <2>1 DEF Held, Result
  <2> QED
    BY <2>1, <2>2, <2>3, StoreState DEF Store!vars, Held, Shelf, Result
<1> QED
  BY <1>1, <1>2, <1>3, <1>4, <1>5, <1>6, <1>7, <1>8 DEF Next

\* ImplementsSlots: a slot of the card is a whole earlier moment or nothing, and a
\* load that succeeds gives back, area by area, what its slot holds, for any
\* games, names, sizes of the pool, errors and power cuts.
THEOREM SavesImplementSlots == Spec => ImplementsSlots
<1>1. TypeInv /\ TypeInv' /\ StoredInv /\ [Next]_vars => [Store!Next]_(Store!vars)
  BY StoreStep
<1> QED
  BY <1>1, StoreInit, TypeHolds, StoredHolds, PTL DEF Spec, ImplementsSlots, Store!Spec
==============================================================================
