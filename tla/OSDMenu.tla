------------------------------- MODULE OSDMenu -------------------------------
(****************************************************************************)
(* The menu of the ROMs (emulator/osd.cpp): the scan of SD:/roms, the six   *)
(* tabs, the cursor, the favourites and their file, and what is published   *)
(* to the video core.  All of it runs on core 0.                            *)
(*                                                                          *)
(* A file is a number: its place in the case-insensitive order of names.    *)
(* An index into m_RomFiles is named by the file it holds.  Saving the      *)
(* favourites is split where the file on the card changes, so that the      *)
(* power can go in between.                                                 *)
(****************************************************************************)
EXTENDS TabSplit, Sequences

CONSTANTS
  MAX_ROMS,     \* at most this many files are listed; 1000 in the code
  Libraries     \* cards: [files, letter, cd], the files with a ROM's extension,
                \* their first letters, and which of them are CD images

ASSUME CardAssumption ==
  /\ MAX_ROMS \in Nat /\ 3 * MAX_ROMS < FarOff
  /\ \A c \in Libraries : /\ IsFiniteSet(c.files) /\ c.files \subseteq Nat
                          /\ c.letter \in [c.files -> Letters]
                          /\ c.cd \subseteq c.files

VARIABLES
  card,          \* the card in the slot, one of Libraries
  roms,          \* m_RomFiles: the listed files, a sequence
  split,         \* m_TabSplitK1, m_TabSplitK2
  next, least,   \* CalculateTabLabels: the pair k1, k2 to be tried, and min_diff
  favorites,     \* m_RomFavorites: the files that are marked
  tab,           \* m_ActiveTab
  filtered,      \* m_FilteredIndices: the files of the tab, a sequence
  selected,      \* m_SelectedIndex
  shown,         \* what Update has published: [lines, selected, tab]
  pc,            \* where core 0 is: "menu", in CalculateTabLabels ("split"), in
                 \* SaveFavorites ("open", "write"), or "off"
  disk,          \* the files that favorites.txt names
  failed         \* ghost: the last read or save of it met an error

search == <<next, least>>
memory == <<roms, split, favorites, tab, filtered, selected, shown>>
vars   == <<card, memory, search, pc, disk, failed>>

Listed == {roms[i] : i \in 1..Len(roms)}

\* The files of S in the order of names, as ScanRoms sorts them.
Ascending(S) == [i \in 1..Cardinality(S) |-> CHOOSE f \in S : Cardinality({g \in S : g < f}) = i - 1]

IsCD(f)  == f \in card.cd
Letter(f) == card.letter[f]

\* letter_counts: the listed Mega Drive games under each letter.
Counts == [l \in Letters |-> Cardinality({f \in Listed : ~IsCD(f) /\ Letter(f) = l})]
AnyGame == GamesIn(Counts, Letters) > 0

\* BuildFilteredList: ALL, FAV, the three parts of the alphabet, Mega CD.
InTab(f, t) ==
  CASE t = 0 -> TRUE
    [] t = 1 -> f \in favorites
    [] t \in 2..4 -> ~IsCD(f) /\ InPart(split, t - 2, Letter(f))
    [] t = 5 -> IsCD(f)

\* (bug) the count of the last list is not reset.
FilteredListAppend(t) == filtered \o Ascending({f \in Listed : InTab(f, t)})

\* The files of the tab, in the order of m_RomFiles.
FilteredList(t) == Ascending({f \in Listed : InTab(f, t)})

\* Update: one line per file of the tab, marked when it is a favourite.
Screen(list, favs, sel, t) ==
  [lines |-> [i \in 1..Len(list) |-> <<list[i], list[i] \in favs>>], selected |-> sel, tab |-> t]

Update == shown' = Screen(filtered', favorites', selected', tab')

\* ScanRoms lists every file, up to MAX_ROMS of them in the order of the
\* directory, or fewer when the card fails on the way.
Scans == {S \in SUBSET card.files : Cardinality(S) <= MAX_ROMS}

\* The first n lines of a favourites file for S.
Lines(S, n) == {Ascending(S)[i] : i \in 1..n}

\* (bug) the favourites file is taken as it is, deleted ROMs and all.
ReadBackAll(S) == {Lines(disk, n) : n \in 0..Cardinality(disk)}

\* LoadFavorites: the lines that name a listed file, up to the one at which a
\* read fails; none when the file cannot be opened.
ReadBack(S) == {S \cap Lines(disk, n) : n \in 0..Cardinality(disk)}

\* Nothing is in memory while the power is off.
Init == /\ card \in Libraries
        /\ disk \in SUBSET card.files
        /\ roms = <<>> /\ split = DefaultSplit
        /\ next = FirstSplit /\ least = FarOff
        /\ favorites = {} /\ failed = FALSE
        /\ tab = 0 /\ filtered = <<>> /\ selected = 0
        /\ shown = Screen(<<>>, {}, 0, 0)
        /\ pc = "off"

------------------------------------------------------------------------------
(* Initialize: scan, split the alphabet, show the ALL tab.                   *)

\* ScanRoms: list, sort, and read the favourites back.
ScanRoms ==
  /\ pc = "off"
  /\ pc' = "split"
  /\ \E S \in Scans :
       /\ roms' = Ascending(S)
       /\ favorites' \in ReadBack(S)
       /\ failed' = (favorites' # S \cap disk)
  /\ UNCHANGED <<card, split, search, tab, filtered, selected, shown, disk>>

\* (bug) the least difference so far is not kept.
TrySplitForget ==
  /\ pc = "split" /\ AnyGame
  /\ next[1] < LastLetter - 1
  /\ next' = NextSplit(next)
  /\ split' = IF Diff(Counts, next) < least THEN next ELSE split
  /\ UNCHANGED <<card, roms, least, favorites, tab, filtered, selected, shown, pc, disk, failed>>

\* CalculateTabLabels, one round of the inner loop: the pair is taken when it
\* is nearer to three tabs of the ideal size than every one before.
TrySplit ==
  /\ pc = "split" /\ AnyGame
  /\ next[1] < LastLetter - 1
  /\ next' = NextSplit(next)
  /\ LET diff == Diff(Counts, next) IN
       IF diff < least THEN least' = diff /\ split' = next
                       ELSE UNCHANGED <<least, split>>
  /\ UNCHANGED <<card, roms, favorites, tab, filtered, selected, shown, pc, disk, failed>>

\* The loops are over, or were not entered: BuildFilteredList and Update.
ShowMenu ==
  /\ pc = "split" /\ (AnyGame => next[1] = LastLetter - 1)
  /\ pc' = "menu"
  /\ filtered' = roms
  /\ next' = FirstSplit /\ least' = FarOff
  /\ UNCHANGED <<card, roms, split, favorites, tab, selected, disk, failed>>
  /\ Update

------------------------------------------------------------------------------
(* Moving the cursor and changing the tab.                                   *)

Move(to) ==
  /\ pc = "menu"
  /\ filtered # <<>>
  /\ selected' = to
  /\ UNCHANGED <<card, roms, split, search, favorites, tab, filtered, pc, disk, failed>>
  /\ Update

MoveUp   == Move(IF selected > 0 THEN selected - 1 ELSE Len(filtered) - 1)
MoveDown == Move(IF selected < Len(filtered) - 1 THEN selected + 1 ELSE 0)

\* (bug) the cursor keeps its place in the new tab.
SwitchTabKeepCursor(t) ==
  /\ pc = "menu"
  /\ tab' = t
  /\ filtered' = FilteredList(t)
  /\ UNCHANGED <<card, roms, split, search, favorites, selected, pc, disk, failed>>
  /\ Update

SwitchTab(t) ==
  /\ pc = "menu"
  /\ tab' = t
  /\ selected' = 0
  /\ filtered' = FilteredList(t)
  /\ UNCHANGED <<card, roms, split, search, favorites, pc, disk, failed>>
  /\ Update

MoveLeft  == SwitchTab(IF tab > 0 THEN tab - 1 ELSE 5)
MoveRight == SwitchTab(IF tab < 5 THEN tab + 1 ELSE 0)

------------------------------------------------------------------------------
(* Favourites.  The mark is set in memory, the whole file is written anew,   *)
(* and the screen is updated.                                                *)

\* GetSelectedRom, and the guard of the two operations below.
HasSelection == filtered # <<>> /\ selected \in 0..(Len(filtered) - 1)
GetSelectedRom == filtered[selected + 1]

Mark(favs) ==
  /\ pc = "menu"
  /\ HasSelection
  /\ favorites' = favs
  /\ pc' = "open"
  /\ UNCHANGED <<card, roms, split, search, tab, filtered, selected, shown, disk, failed>>

FavoriteCurrent   == Mark(favorites \cup {GetSelectedRom})
UnfavoriteCurrent == Mark(favorites \ {GetSelectedRom})

\* (bug) a failed open returns before the screen is updated.
OpenFavoritesNoUpdate ==
  /\ pc = "open"
  /\ \/ disk' = {} /\ pc' = "write" /\ UNCHANGED failed
     \/ pc' = "menu" /\ failed' = TRUE /\ UNCHANGED disk
  /\ UNCHANGED <<card, roms, split, search, favorites, tab, filtered, selected, shown>>

\* f_open with FA_CREATE_ALWAYS empties the file that is there.  When it
\* fails the save is given up and the screen is updated all the same.
OpenFavorites ==
  /\ pc = "open"
  /\ \/ /\ disk' = {}
        /\ pc' = "write"
        /\ UNCHANGED <<shown, failed>>
     \/ /\ UNCHANGED disk
        /\ pc' = "menu"
        /\ failed' = TRUE
        /\ shown' = Screen(filtered, favorites, selected, tab)
  /\ UNCHANGED <<card, roms, split, search, favorites, tab, filtered, selected>>

\* (bug) the favourites of the tab are written, not all of them.
CloseFavoritesOfTab ==
  /\ pc = "write"
  /\ disk' = favorites \cap {filtered[i] : i \in 1..Len(filtered)}
  /\ failed' = FALSE
  /\ pc' = "menu"
  /\ UNCHANGED <<card, roms, split, search, favorites, tab, filtered, selected>>
  /\ Update

\* The lines reach the card with the file's length when it is closed.  A write
\* may come short, when the card is full; nobody looks at its result.
CloseFavorites ==
  /\ pc = "write"
  /\ \E n \in 0..Cardinality(favorites) : /\ disk' = Lines(favorites, n)
                                           /\ failed' = (n < Cardinality(favorites))
  /\ pc' = "menu"
  /\ UNCHANGED <<card, roms, split, search, favorites, tab, filtered, selected>>
  /\ Update

\* The power goes, at any moment.
PowerCut ==
  /\ pc # "off"
  /\ pc' = "off"
  /\ roms' = <<>> /\ split' = DefaultSplit
  /\ next' = FirstSplit /\ least' = FarOff
  /\ favorites' = {} /\ failed' = FALSE
  /\ tab' = 0 /\ filtered' = <<>> /\ selected' = 0
  /\ UNCHANGED <<card, disk>>
  /\ Update

Next == \/ ScanRoms \/ TrySplit \/ ShowMenu
        \/ MoveUp \/ MoveDown \/ MoveLeft \/ MoveRight
        \/ FavoriteCurrent \/ UnfavoriteCurrent \/ OpenFavorites \/ CloseFavorites
        \/ PowerCut

Spec == Init /\ [][Next]_vars

------------------------------------------------------------------------------
(* Properties                                                                *)

TypeOK ==
  /\ card \in Libraries
  /\ Listed \subseteq card.files /\ Len(roms) <= MAX_ROMS
  /\ favorites \subseteq Listed
  /\ split \in Nat \X Nat
  /\ next \in Nat \X Nat /\ least \in Nat
  /\ tab \in 0..5
  /\ filtered \in Seq(Listed)
  /\ selected \in Nat
  /\ pc \in {"off", "split", "menu", "open", "write"}
  /\ disk \subseteq card.files
  /\ failed \in BOOLEAN

\* The cursor is on a line of the list whenever there is one: after a change
\* of tab, a wrap-around, or a favourite that is taken away while the FAV tab
\* keeps showing it.
CursorOnList == IF filtered = <<>> THEN selected = 0 ELSE selected < Len(filtered)

\* A and Start boot the ROM whose line is highlighted: what is published is
\* what the next operation works on, with the marks as they are in memory.
ScreenIsCurrent == pc = "menu" => shown = Screen(filtered, favorites, selected, tab)

\* The alphabet is divided.  Every listed ROM is in exactly one of the
\* alphabetical and CD tabs, so that it can be reached without the ALL tab:
\* the three ranges neither overlap nor leave a gap.  And of all the splits the
\* two loops have found the best; without games to count they leave the default.
AlphabetIsDivided ==
  pc \in {"menu", "open", "write"} =>
    /\ \A f \in Listed : Cardinality({t \in 2..5 : InTab(f, t)}) = 1
    /\ IF AnyGame THEN IsBestSplit(Counts, split) ELSE split = DefaultSplit

\* The list never names a file twice, and outside FAV it is the tab's list.  In
\* FAV no favourite is missing: there it may show more, after an Unfavorite.
ListIsOfTab ==
  pc # "split" =>
    LET files == {filtered[i] : i \in 1..Len(filtered)} IN
    /\ Cardinality(files) = Len(filtered)
    /\ IF tab = 1 THEN favorites \subseteq files
       ELSE files = {f \in Listed : InTab(f, tab)}

\* Without a file system error the favourites file says what the menu says,
\* for the files that are listed, after every operation.
FavoritesOnDisk == pc = "menu" /\ ~failed => Listed \cap disk = favorites

==============================================================================
