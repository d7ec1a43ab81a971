--------------------------- MODULE VideoHandoff_proof ---------------------------
(****************************************************************************)
(* Proofs about what cores 0 and 1 share, for any menus and lines, and any  *)
(* number of boots and frames.                                              *)
(****************************************************************************)
EXTENDS VideoHandoff, FiniteSetTheorems, TLAPS

------------------------------------------------------------------------------
(* Types                                                                     *)

\* What core 1 has read.
Local == [selected : Nat, num : Nat, list : Nat \cup DOMAIN Lists, tab : Tabs, h : Nat]

Booting == {"clear", "unready", "load", "enter"}

\* TypeOK speaks of what is shared and shown; with it, the counters of core 0
\* stay within what a boot or a frame that has begun may still count.
TypeInv ==
  /\ TypeOK
  /\ OnList(osd)
  /\ game \in 0..MaxBoots /\ frame \in 0..MaxFrames
  /\ pc0 \in Booting => game < MaxBoots
  /\ local \in Local

LEMMA MenuTypes ==
  ASSUME NEW m \in Menus
  PROVE  /\ m.list \in DOMAIN Lists /\ m.selected \in Nat /\ Lists[m.list] \in Nat
         /\ TabOf[m.list] \in Tabs
<1>1. m.list \in DOMAIN Lists /\ m.selected \in Nat
  BY DEF Menus
<1> QED
  BY <1>1, VideoAssumption

LEMMA InViewLines ==
  ASSUME NEW s, NEW h
  PROVE  InView(s, h) \subseteq Lines
BY DEF InView

LEMMA ViewOfLines ==
  ASSUME NEW h, NEW s
  PROVE  ViewOf(h, s) \subseteq Lines
BY InViewLines DEF ViewOf

LEMMA ModeTypes == \A m \in Modes : m.start \in {0, 8} /\ m.h \in {224, 240}
BY DEF Modes

LEMMA LineCopied ==
  ASSUME NEW l, NEW a \in [Lines -> Pixels], NEW b \in [Lines -> Pixels]
  PROVE  [a EXCEPT ![l] = b[l]] \in [Lines -> Pixels]
<1>1. CASE l \in Lines
  <2>1. b[l] \in Pixels
    BY <1>1
  <2> QED
    BY <2>1
<1>2. CASE l \notin Lines
  BY <1>2
<1> QED
  BY <1>1, <1>2

LEMMA InitType == Init => TypeInv
<1> SUFFICES ASSUME Init PROVE TypeInv
  OBVIOUS
<1> USE VideoAssumption
<1>1. osd \in Menus /\ OnList(osd)
  BY DEF Init
<1>2. /\ osd.list \in DOMAIN Lists /\ osd.selected \in Nat /\ Lists[osd.list] \in Nat
      /\ TabOf[osd.list] \in Tabs
  BY <1>1, MenuTypes
<1>3. Black \in Pixels
  BY DEF Black, Pixels
<1>4. emu_frame_buffer \in [Lines -> Pixels] /\ picture \in [Lines -> Pixels]
  BY <1>3 DEF Init
<1>5. mode \in Modes
  BY DEF Init, Modes
<1>6. 0 \in 0..MaxBoots /\ 0 \in 0..MaxFrames
  OBVIOUS
<1>7. local \in Local
  BY DEF Init, Local, Tabs
<1> QED
  BY <1>1, <1>2, <1>4, <1>5, <1>6, <1>7 DEF Init, TypeInv, TypeOK, Places0, Places1, Booting

LEMMA StepType0 == TypeInv /\ Core0 => TypeInv'
<1> SUFFICES ASSUME TypeInv, Core0 PROVE TypeInv'
  OBVIOUS
<1> USE VideoAssumption DEF TypeInv, TypeOK, Places0, Places1, Booting
<1>o. /\ osd.list \in DOMAIN Lists /\ osd.selected \in Nat /\ Lists[osd.list] \in Nat
      /\ TabOf[osd.list] \in Tabs
  BY MenuTypes
<1>1. CASE MenuOperation
  <2>1. osd' \in Menus /\ OnList(osd')
    BY <1>1 DEF MenuOperation
  <2> QED
    BY <1>1, <2>1 DEF MenuOperation, OnList, menuFields, frameFields, core1, screen
<1>2. CASE UpdateNum
  BY <1>2, <1>o DEF UpdateNum, OnList, menuFields, frameFields, core1, screen
<1>3. CASE UpdateSelected
  BY <1>3, <1>o DEF UpdateSelected, OnList, menuFields, frameFields, core1, screen
<1>4. CASE UpdateTab \/ UpdateLines
  BY <1>4, <1>o DEF UpdateTab, UpdateLines, OnList, menuFields, frameFields, core1, screen
<1>5. CASE UpdateRedraw
  BY <1>5 DEF UpdateRedraw, OnList, menuFields, frameFields, core1, screen
<1>6. CASE BootBegin
  BY <1>6 DEF BootBegin, OnList, menuFields, frameFields, core1, screen
<1>7. CASE ClearLine
  <2>1. Black \in Pixels
    BY DEF Black, Pixels
  <2>2. emu_frame_buffer' \in [Lines -> Pixels]
    BY <1>7, <2>1 DEF ClearLine
  <2> QED
    BY <1>7, <2>2 DEF ClearLine, OnList, menuFields, frameFields, core1, screen
<1>8. CASE BootUnready
  BY <1>8 DEF BootUnready, OnList, menuFields, frameFields, core1, screen
<1>9. CASE LoadROM
  BY <1>9 DEF LoadROM, OnList, menuFields, frameFields, core1, screen
<1>10. CASE EnterGame
  <2>1. game \in Nat /\ game < MaxBoots /\ game' = game + 1
    BY <1>10 DEF EnterGame
  <2>2. game' \in 0..MaxBoots
    BY <2>1
  <2> QED
    BY <1>10, <2>2 DEF EnterGame, OnList, menuFields, frameFields, core1, screen
<1>11. CASE FrameStart
  <2>2. frame' \in 0..MaxFrames
    BY <1>11 DEF FrameStart
  <2>1. mode' \in Modes /\ start_line' \in {0, 8}
    BY <1>11, ModeTypes DEF FrameStart
  <2> QED
    BY <1>11, <2>1, <2>2 DEF FrameStart, OnList, menuFields, frameFields, core1, screen
<1>12. CASE FrameHeight
  <2>1. game_h' \in {224, 240}
    BY <1>12, ModeTypes DEF FrameHeight
  <2>2. todo0' \subseteq Lines
    BY <1>12, InViewLines DEF FrameHeight
  <2> QED
    BY <1>12, <2>1, <2>2 DEF FrameHeight, OnList, menuFields, frameFields, core1, screen
<1>13. CASE DrawLine
  <2>1. [game |-> game, frame |-> frame] \in Pixels
    BY DEF Pixels
  <2>2. emu_frame_buffer' \in [Lines -> Pixels]
    BY <1>13, <2>1 DEF DrawLine
  <2> QED
    BY <1>13, <2>2 DEF DrawLine, OnList, menuFields, frameFields, core1, screen
<1>14. CASE FrameReady
  BY <1>14 DEF FrameReady, OnList, menuFields, frameFields, core1, screen
<1>15. CASE ExitGame
  BY <1>15 DEF ExitGame, OnList, menuFields, frameFields, core1, screen
<1> QED
  BY <1>1, <1>2, <1>3, <1>4, <1>5, <1>6, <1>7, <1>8, <1>9, <1>10, <1>11, <1>12, <1>13,
     <1>14, <1>15 DEF Core0, Update

LEMMA StepType1 == TypeInv /\ Core1 => TypeInv'
<1> SUFFICES ASSUME TypeInv, Core1 PROVE TypeInv'
  OBVIOUS
<1> USE DEF TypeInv, TypeOK, Places0, Places1, Booting, OnList, menuFields, frameFields,
            core0, screen
<1>1. CASE Top
  BY <1>1 DEF Top
<1>2. CASE CheckRedraw
  BY <1>2 DEF CheckRedraw
<1>3. CASE ClearRedraw
  BY <1>3 DEF ClearRedraw
<1>4. CASE ReadSelected
  <2>1. local' \in Local
    BY <1>4 DEF ReadSelected, Local
  <2> QED
    BY <1>4, <2>1 DEF ReadSelected
<1>5. CASE ReadNum
  <2>1. local' \in Local
    BY <1>5 DEF ReadNum, Local
  <2> QED
    BY <1>5, <2>1 DEF ReadNum
<1>6. CASE ReadTab \/ ReadLines
  <2>1. local' \in Local
    BY <1>6 DEF ReadTab, ReadLines, Local
  <2> QED
    BY <1>6, <2>1 DEF ReadTab, ReadLines
<1>7. CASE Blit
  BY <1>7 DEF Blit
<1>8. CASE CheckReady
  BY <1>8 DEF CheckReady
<1>9. CASE ClearReady
  BY <1>9 DEF ClearReady
<1>10. CASE ReadHeight
  <2>1. local' \in Local
    BY <1>10 DEF ReadHeight, Local
  <2> QED
    BY <1>10, <2>1 DEF ReadHeight
<1>11. CASE ReadStart
  <2>1. todo1' \subseteq Lines
    BY <1>11, ViewOfLines DEF ReadStart
  <2>2. Black \in Pixels
    BY VideoAssumption DEF Black, Pixels
  <2>3. picture' \in [Lines -> Pixels]
    BY <1>11, <2>2 DEF ReadStart
  <2> QED
    BY <1>11, <2>1, <2>3 DEF ReadStart
<1>12. CASE CopyLine
  <2>1. emu_frame_buffer \in [Lines -> Pixels] /\ picture \in [Lines -> Pixels]
    OBVIOUS
  <2>3. picture' \in [Lines -> Pixels]
    BY <1>12, <2>1, LineCopied DEF CopyLine
  <2> QED
    BY <1>12, <2>3 DEF CopyLine
<1>13. CASE CopyEnd
  BY <1>13 DEF CopyEnd
<1> QED
  BY <1>1, <1>2, <1>3, <1>4, <1>5, <1>6, <1>7, <1>8, <1>9, <1>10, <1>11, <1>12, <1>13
  DEF Core1

LEMMA StepType == TypeInv /\ [Next]_vars => TypeInv'
<1> SUFFICES ASSUME TypeInv, [Next]_vars PROVE TypeInv'
  OBVIOUS
<1>1. CASE UNCHANGED vars
  BY <1>1 DEF TypeInv, TypeOK, OnList, Booting, vars, menuFields, frameFields, core0, core1, screen
<1> QED
  BY <1>1, StepType0, StepType1 DEF Next

LEMMA TypeHolds == Spec => []TypeInv
BY InitType, StepType, PTL DEF Spec

\* The flags are flags, the fields of the menu name a menu and a line count,
\* every line of the frame buffer and of the screen is a line of some game and
\* frame, and both cores are at a place of their loops.
THEOREM TypeCorrect == Spec => []TypeOK
<1>1. TypeInv => TypeOK
  BY DEF TypeInv
<1> QED
  BY <1>1, TypeHolds, PTL

------------------------------------------------------------------------------
(* The ready flag                                                            *)

\* A frame that core 1 has not begun to copy is announced, or core 1 has just
\* taken the announcement and is about to begin.
AnnouncedInv == unshown => video_frame_ready \/ pc1 \in {"height", "start"}

LEMMA StepAnnounced == TypeInv /\ AnnouncedInv /\ [Next]_vars => AnnouncedInv'
<1> SUFFICES ASSUME TypeInv, AnnouncedInv, [Next]_vars PROVE AnnouncedInv'
  OBVIOUS
<1> USE DEF AnnouncedInv, menuFields, frameFields, core0, core1, screen
<1>1. CASE Core0
  BY <1>1 DEF Core0, Update, MenuOperation, UpdateNum, UpdateSelected, UpdateTab, UpdateLines,
     UpdateRedraw, BootBegin, ClearLine, BootUnready, LoadROM, EnterGame, FrameStart,
     FrameHeight, DrawLine, FrameReady, ExitGame
<1>2. CASE Core1
  BY <1>2 DEF Core1, Top, CheckRedraw, ClearRedraw, ReadSelected, ReadNum, ReadTab, ReadLines, Blit,
     CheckReady, ClearReady, ReadHeight, ReadStart, CopyLine, CopyEnd
<1>3. CASE UNCHANGED vars
  BY <1>3 DEF vars
<1> QED
  BY <1>1, <1>2, <1>3 DEF Next

\* NoFrameForgotten: the flag is cleared before the copy begins, and still no
\* frame that becomes ready meanwhile is forgotten, whatever the two cores do
\* in between.
THEOREM FramesAreNotForgotten == Spec => []NoFrameForgotten
<1>1. Init => AnnouncedInv
  BY DEF Init, AnnouncedInv
<1>2. AnnouncedInv => NoFrameForgotten
  BY DEF AnnouncedInv, NoFrameForgotten
<1> QED
  BY <1>1, <1>2, StepAnnounced, TypeHolds, PTL DEF Spec

------------------------------------------------------------------------------
(* The menu on the screen                                                    *)

InGame == {"game", "height", "draw", "exit"}
Unpublished == {"num", "selected", "tab", "lines", "redraw"}

\* How far Update has got.
FieldsInv ==
  /\ in_menu <=> pc0 \notin InGame
  /\ pc0 # "num" => menu_num_lines = Lists[osd.list]
  /\ pc0 \notin {"num", "selected"} => menu_selected_idx = osd.selected
  /\ pc0 \notin {"num", "selected", "tab"} => menu_active_tab = TabOf[osd.list]
  /\ pc0 \notin {"num", "selected", "tab", "lines"} => menu_lines = osd.list

ReadSoFar(selected, num, tab, list) ==
  /\ selected => local.selected = osd.selected
  /\ num => local.num = Lists[osd.list]
  /\ tab => local.tab = TabOf[osd.list]
  /\ list => local.list = osd.list

OnScreen ==
  shows = "menu" /\ menu_shown = [selected |-> osd.selected, num |-> Lists[osd.list],
                                 list |-> osd.list, tab |-> TabOf[osd.list]]

\* Once the flag has been taken, core 1 has read no field of before, and it is
\* not about to cover the menu with a picture: it came through its menu branch.
TakenInv ==
  pc0 \notin InGame \cup Unpublished /\ ~menu_needs_redraw =>
    \/ pc1 = "selected"
    \/ pc1 = "num" /\ ReadSoFar(TRUE, FALSE, FALSE, FALSE)
    \/ pc1 = "tab" /\ ReadSoFar(TRUE, TRUE, FALSE, FALSE)
    \/ pc1 = "lines" /\ ReadSoFar(TRUE, TRUE, TRUE, FALSE)
    \/ pc1 = "blit" /\ ReadSoFar(TRUE, TRUE, TRUE, TRUE)
    \/ pc1 \in {"top", "menu"} /\ OnScreen

RedrawInv == pc1 = "unredraw" => menu_needs_redraw

MenuInv == FieldsInv /\ TakenInv /\ RedrawInv

LEMMA InitMenu == Init => MenuInv
BY DEF Init, MenuInv, FieldsInv, TakenInv, RedrawInv, InGame, Unpublished

LEMMA StepMenu0 == TypeInv /\ MenuInv /\ Core0 => MenuInv'
<1> SUFFICES ASSUME TypeInv, MenuInv, Core0 PROVE MenuInv'
  OBVIOUS
<1> USE DEF MenuInv, FieldsInv, TakenInv, RedrawInv, InGame, Unpublished, ReadSoFar, OnScreen,
            menuFields, frameFields, core1, screen
<1>1. CASE MenuOperation
  BY <1>1 DEF MenuOperation
<1>2. CASE Update
  BY <1>2 DEF Update, UpdateNum, UpdateSelected, UpdateTab, UpdateLines, UpdateRedraw
<1>3. CASE BootBegin \/ ClearLine \/ BootUnready \/ LoadROM
  BY <1>3 DEF BootBegin, ClearLine, BootUnready, LoadROM
<1>4. CASE EnterGame \/ ExitGame
  BY <1>4 DEF EnterGame, ExitGame
<1>5. CASE FrameStart \/ FrameHeight \/ DrawLine \/ FrameReady
  BY <1>5 DEF FrameStart, FrameHeight, DrawLine, FrameReady
<1> QED
  BY <1>1, <1>2, <1>3, <1>4, <1>5 DEF Core0

LEMMA StepMenu1 == TypeInv /\ MenuInv /\ Core1 => MenuInv'
<1> SUFFICES ASSUME TypeInv, MenuInv, Core1 PROVE MenuInv'
  OBVIOUS
<1> USE DEF MenuInv, FieldsInv, TakenInv, RedrawInv, InGame, Unpublished, ReadSoFar, OnScreen,
            menuFields, frameFields, core0, screen, Local
<1>0. local \in Local
  BY DEF TypeInv
<1>1. CASE Top
  BY <1>1 DEF Top
<1>2. CASE CheckRedraw \/ ClearRedraw
  BY <1>2 DEF CheckRedraw, ClearRedraw
<1>3. CASE ReadSelected
  BY <1>0, <1>3 DEF ReadSelected
<1>4. CASE ReadNum
  BY <1>0, <1>4 DEF ReadNum
<1>5. CASE ReadTab \/ ReadLines
  BY <1>0, <1>5 DEF ReadTab, ReadLines
<1>6. CASE Blit
  BY <1>6 DEF Blit
<1>7. CASE CheckReady \/ ClearReady \/ ReadHeight
  BY <1>7 DEF CheckReady, ClearReady, ReadHeight
<1>8. CASE ReadStart \/ CopyLine \/ CopyEnd
  BY <1>8 DEF ReadStart, CopyLine, CopyEnd
<1> QED
  BY <1>1, <1>2, <1>3, <1>4, <1>5, <1>6, <1>7, <1>8 DEF Core1

LEMMA StepMenu == TypeInv /\ MenuInv /\ [Next]_vars => MenuInv'
<1> SUFFICES ASSUME TypeInv, MenuInv, [Next]_vars PROVE MenuInv'
  OBVIOUS
<1>1. CASE UNCHANGED vars
  BY <1>1 DEF MenuInv, FieldsInv, TakenInv, RedrawInv, ReadSoFar, OnScreen,
     vars, menuFields, frameFields, core0, core1, screen
<1> QED
  BY <1>1, StepMenu0, StepMenu1 DEF Next

\* MenuIsShown: when both cores have come to rest in the menu, the menu on the
\* screen is the one core 0 works on.  No redraw is lost between the flag and
\* the fields, and no late picture of a game covers the menu.
THEOREM MenuIsCurrent == Spec => []MenuIsShown
<1>1. MenuInv => MenuIsShown
  BY DEF MenuInv, TakenInv, FieldsInv, OnScreen, MenuIsShown, Settled, InGame, Unpublished
<1> QED
  BY <1>1, InitMenu, StepMenu, TypeHolds, PTL DEF Spec

------------------------------------------------------------------------------
(* The frame buffer                                                          *)

\* The boot clears line after line, and then only the new game draws.
ClearedInv ==
  /\ pc0 = "clear" => \A l \in Lines \ todo0 : emu_frame_buffer[l] = Black
  /\ pc0 \in {"unready", "load", "enter"} => \A l \in Lines : emu_frame_buffer[l] = Black
  /\ pc0 \in InGame => \A l \in Lines : emu_frame_buffer[l].game \in {0, game}

LEMMA LineSet ==
  ASSUME NEW b \in [Lines -> Pixels], NEW l, NEW p
  PROVE  \A k \in Lines : [b EXCEPT ![l] = p][k] = IF k = l THEN p ELSE b[k]
OBVIOUS

LEMMA StepCleared == TypeInv /\ ClearedInv /\ [Next]_vars => ClearedInv'
<1> SUFFICES ASSUME TypeInv, ClearedInv, [Next]_vars PROVE ClearedInv'
  OBVIOUS
<1> USE DEF ClearedInv, InGame, menuFields, frameFields, core1, screen
<1>0. emu_frame_buffer \in [Lines -> Pixels]
  BY DEF TypeInv, TypeOK
<1>1. CASE MenuOperation \/ Update \/ ExitGame
  BY <1>1 DEF MenuOperation, Update, UpdateNum, UpdateSelected, UpdateTab, UpdateLines, UpdateRedraw,
     ExitGame
<1>2. CASE BootBegin
  BY <1>2 DEF BootBegin
<1>3. CASE ClearLine
  <2>1. PICK m : /\ emu_frame_buffer' = [emu_frame_buffer EXCEPT ![m] = Black]
                 /\ todo0' = todo0 \ {m}
    BY <1>3 DEF ClearLine
  <2>2. \A l \in Lines : emu_frame_buffer'[l] = IF l = m THEN Black ELSE emu_frame_buffer[l]
    BY <1>0, <2>1, LineSet
  <2>3. \A l \in Lines \ todo0' : emu_frame_buffer'[l] = Black
    BY <1>3, <2>1, <2>2 DEF ClearLine
  <2>4. pc0' = IF todo0' = {} THEN "unready" ELSE "clear"
    BY <1>3 DEF ClearLine
  <2> QED
    BY <2>3, <2>4
<1>4. CASE BootUnready \/ LoadROM
  BY <1>4 DEF BootUnready, LoadROM
<1>5. CASE EnterGame
  <2>1. \A l \in Lines : emu_frame_buffer'[l].game = 0
    BY <1>5 DEF EnterGame, Black
  <2> QED
    BY <1>5, <2>1 DEF EnterGame
<1>6. CASE FrameStart \/ FrameHeight \/ FrameReady
  BY <1>6 DEF FrameStart, FrameHeight, FrameReady
<1>7. CASE DrawLine
  <2> DEFINE p == [game |-> game, frame |-> frame]
  <2>1. PICK m : emu_frame_buffer' = [emu_frame_buffer EXCEPT ![m] = p]
    BY <1>7 DEF DrawLine
  <2>2. \A l \in Lines : emu_frame_buffer'[l] = IF l = m THEN p ELSE emu_frame_buffer[l]
    BY <1>0, <2>1, LineSet
  <2>3. \A l \in Lines : emu_frame_buffer'[l].game \in {0, game}
    BY <1>7, <2>2 DEF DrawLine
  <2> QED
    BY <1>7, <2>3 DEF DrawLine
<1>8. CASE Core1
  BY <1>8 DEF core0, Core1, Top, CheckRedraw, ClearRedraw, ReadSelected, ReadNum, ReadTab, ReadLines,
     Blit, CheckReady, ClearReady, ReadHeight, ReadStart, CopyLine, CopyEnd
<1>9. CASE UNCHANGED vars
  BY <1>9 DEF vars, core0
<1> QED
  BY <1>1, <1>2, <1>3, <1>4, <1>5, <1>6, <1>7, <1>8, <1>9 DEF Next, Core0

\* NoPreviousGame: while a game runs, no line core 1 may still copy is of an
\* earlier game, for any modes it may mix: the whole buffer is cleared before
\* the game starts, not only the lines in view.
THEOREM GamesDoNotShowThrough == Spec => []NoPreviousGame
<1>1. Init => ClearedInv
  BY DEF Init, ClearedInv, InGame
<1>2. TypeInv /\ MenuInv /\ ClearedInv => NoPreviousGame
  BY DEF TypeInv, TypeOK, MenuInv, FieldsInv, ClearedInv, NoPreviousGame
<1> QED
  BY <1>1, <1>2, InitMenu, StepMenu, StepCleared, TypeHolds, PTL DEF Spec

------------------------------------------------------------------------------
(* The window on the menu                                                    *)

LEMMA MinOfTwo ==
  ASSUME NEW a \in Int, NEW b \in Int
  PROVE  Min({a, b}) = IF a <= b THEN a ELSE b
<1> DEFINE m == IF a <= b THEN a ELSE b
<1>1. m \in {a, b} /\ \A y \in {a, b} : m <= y
  OBVIOUS
<1>2. \A x \in {a, b} : (\A y \in {a, b} : x <= y) => x = m
  OBVIOUS
<1> QED
  BY <1>1, <1>2 DEF Min

LEMMA MaxOfTwo ==
  ASSUME NEW a \in Int, NEW b \in Int
  PROVE  Max({a, b}) = IF a <= b THEN b ELSE a
<1> DEFINE m == IF a <= b THEN b ELSE a
<1>1. m \in {a, b} /\ \A y \in {a, b} : m >= y
  OBVIOUS
<1>2. \A x \in {a, b} : (\A y \in {a, b} : x >= y) => x = m
  OBVIOUS
<1> QED
  BY <1>1, <1>2 DEF Max

\* The window starts on the list, holds the cursor, and ends on the list.
LEMMA WindowPlace ==
  ASSUME NEW num \in Nat, NEW selected \in Nat, selected < num
  PROVE  LET first == Viewport(selected, num)
         IN /\ first \in Nat
            /\ first <= selected /\ selected < first + VIEW_SIZE
            /\ num <= VIEW_SIZE => first = 0
            /\ num > VIEW_SIZE => first + VIEW_SIZE <= num
<1> DEFINE half == VIEW_SIZE \div 2
<1>1. VIEW_SIZE \in Nat /\ half \in Nat /\ half < VIEW_SIZE
  BY VideoAssumption
<1> HIDE DEF half
<1> DEFINE back == selected - half
           low == Max({0, back})
           top == num - VIEW_SIZE
           first == Min({top, low})
<1>2. back \in Int /\ top \in Int
  BY <1>1
<1>3. low = IF 0 <= back THEN back ELSE 0
  BY <1>2, MaxOfTwo
<1>4. low \in Nat
  BY <1>2, <1>3
<1>5. first = IF top <= low THEN top ELSE low
  BY <1>2, <1>4, MinOfTwo
<1>6. CASE num <= VIEW_SIZE
  BY <1>1, <1>6 DEF Viewport
<1>7. CASE num > VIEW_SIZE
  <2>1. Viewport(selected, num) = first
    BY <1>1, <1>7 DEF Viewport, half
  <2> HIDE DEF first, low
  <2>2. /\ first \in Nat /\ first <= selected /\ selected < first + VIEW_SIZE
        /\ first + VIEW_SIZE <= num
    BY <1>1, <1>3, <1>5, <1>7
  <2> QED
    BY <1>1, <1>7, <2>1, <2>2
<1> QED
  BY <1>1, <1>6, <1>7

\* CursorIsVisible: the selected ROM is among the rows on the screen, and the
\* window is full, for lists and windows of any length.
THEOREM CursorStaysVisible == Spec => []CursorIsVisible
<1>1. TypeInv /\ MenuIsShown => CursorIsVisible
  <2> SUFFICES ASSUME TypeInv, MenuIsShown, Settled, Lists[osd.list] > 0
               PROVE  LET rows == VisibleRows(menu_shown.selected, menu_shown.num)
                      IN /\ osd.selected \in rows
                         /\ Cardinality(rows) = Min({VIEW_SIZE, Lists[osd.list]})
    BY DEF CursorIsVisible
  <2> DEFINE num == Lists[osd.list]
             selected == osd.selected
             first == Viewport(selected, num)
             last == IF num <= VIEW_SIZE THEN num - 1 ELSE first + VIEW_SIZE - 1
  <2>1. num \in Nat /\ selected \in Nat
    BY MenuTypes DEF TypeInv, TypeOK
  <2>2. selected < num
    BY <2>1 DEF TypeInv, OnList
  <2>3. menu_shown.selected = selected /\ menu_shown.num = num
    BY DEF MenuIsShown
  <2> HIDE DEF num, selected
  <2>4. /\ first \in Nat
        /\ first <= selected /\ selected < first + VIEW_SIZE
        /\ num <= VIEW_SIZE => first = 0
        /\ num > VIEW_SIZE => first + VIEW_SIZE <= num
    BY <2>1, <2>2, WindowPlace
  <2>v. VIEW_SIZE \in Nat /\ VIEW_SIZE > 0
    BY VideoAssumption
  <2>5. VisibleRows(selected, num) = {i \in 0..(num - 1) : first <= i /\ i < first + VIEW_SIZE}
    BY DEF VisibleRows
  <2> HIDE DEF first
  <2>6. last \in Int /\ first \in Int
    BY <2>1, <2>4, <2>v
  <2>7. {i \in 0..(num - 1) : first <= i /\ i < first + VIEW_SIZE} = first..last
    BY <2>1, <2>4, <2>v
  <2>8. Cardinality(first..last) = last - first + 1
    <3>1. first <= last
      BY <2>1, <2>2, <2>4, <2>v
    <3> QED
      BY <2>6, <3>1, FS_Interval
  <2>9. last - first + 1 = IF VIEW_SIZE <= num THEN VIEW_SIZE ELSE num
    BY <2>1, <2>4, <2>v
  <2>10. Min({VIEW_SIZE, num}) = IF VIEW_SIZE <= num THEN VIEW_SIZE ELSE num
    BY <2>1, <2>v, MinOfTwo
  <2>11. selected \in {i \in 0..(num - 1) : first <= i /\ i < first + VIEW_SIZE}
    BY <2>1, <2>2, <2>4
  <2> QED
    BY <2>3, <2>5, <2>7, <2>8, <2>9, <2>10, <2>11 DEF num, selected
<1> QED
  BY <1>1, TypeHolds, MenuIsCurrent, PTL
==============================================================================
