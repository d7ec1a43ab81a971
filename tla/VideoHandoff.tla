----------------------------- MODULE VideoHandoff -----------------------------
(****************************************************************************)
(* What core 0 (RunOrchestrator, RunFrame) and core 1 (RunVideoDomain) share *)
(* without a lock: the menu's fields with the redraw flag, and the frame     *)
(* buffer with the ready flag and the two numbers of the video mode.         *)
(*                                                                           *)
(* Every access to shared memory is a step, in program order; the copy of a  *)
(* menu line list, and the blit of the back buffer, which only core 1 sees,  *)
(* are one step each.  Of the 320 lines of the frame buffer only some are    *)
(* followed.  A pixel line is known by the game and the frame that drew it.  *)
(****************************************************************************)
EXTENDS Integers, FiniteSets, FiniteSetsExt

CONSTANTS
  Lines,        \* the lines of the frame buffer that are followed
  Lists,        \* the ROM lists of the menu: [list -> number of lines]
  TabOf,        \* the tab each of them is shown in
  VIEW_SIZE,    \* lines of the menu on the screen; 17 in the code
  MaxBoots,     \* bound: games booted
  MaxFrames     \* bound: frames drawn

HEIGHT == 320   \* lines of emu_frame_buffer

Tabs == 0..5    \* the tabs of the menu

ASSUME VideoAssumption == /\ Lists \in [DOMAIN Lists -> Nat]
                          /\ TabOf \in [DOMAIN Lists -> Tabs]
                          /\ VIEW_SIZE \in Nat \ {0}
                          /\ MaxBoots \in Nat
                          /\ MaxFrames \in Nat

\* PicoFrameStart's video modes: 28 rows from line 8, or 30 rows from line 0.
Modes == {[start |-> 8, h |-> 224], [start |-> 0, h |-> 240]}

Black == [game |-> 0, frame |-> 0]
Menus == [list : DOMAIN Lists, selected : 0..Max({Lists[k] : k \in DOMAIN Lists})]
OnList(m) == IF Lists[m.list] = 0 THEN m.selected = 0 ELSE m.selected < Lists[m.list]

VARIABLES
  in_menu, menu_needs_redraw,                  \* shared flags
  menu_num_lines, menu_selected_idx, menu_active_tab,        \* shared
  menu_lines,                                  \* shared: a list
  emu_frame_buffer, video_frame_ready, start_line, game_h,   \* shared
  pc0, osd, mode, todo0, game, frame,          \* core 0: its place, the menu's state,
                                               \* the mode, the lines still to write
  pc1, local, todo1,                           \* core 1: its place, what it has read,
                                               \* the lines still to copy
  shows, menu_shown, picture,                  \* the screen
  unshown                                      \* ghost: a frame whose copy did not begin

menuFields == <<menu_needs_redraw, menu_num_lines, menu_selected_idx, menu_active_tab,
                menu_lines>>
frameFields == <<emu_frame_buffer, video_frame_ready, start_line, game_h, unshown>>
core0  == <<pc0, osd, mode, todo0, game, frame>>
core1  == <<pc1, local, todo1>>
screen == <<shows, menu_shown, picture>>
vars   == <<in_menu, menuFields, frameFields, core0, core1, screen>>

NoMenu == [selected |-> 0, num |-> 0, list |-> 0, tab |-> 0]

Init == /\ in_menu = TRUE
        /\ osd \in {m \in Menus : OnList(m)}
        /\ menu_num_lines = Lists[osd.list]
        /\ menu_selected_idx = osd.selected
        /\ menu_active_tab = TabOf[osd.list]
        /\ menu_lines = osd.list
        /\ menu_needs_redraw = TRUE
        /\ emu_frame_buffer = [l \in Lines |-> Black]
        /\ video_frame_ready = FALSE
        /\ start_line = 8 /\ game_h = 224
        /\ pc0 = "menu" /\ pc1 \in {"top", "game"}     \* in_menu was FALSE until now
        /\ mode = [start |-> 8, h |-> 224]
        /\ todo0 = {} /\ todo1 = {}
        /\ game = 0 /\ frame = 0
        /\ local = [selected |-> 0, num |-> 0, list |-> 0, tab |-> 0, h |-> 0]
        /\ shows = "nothing"
        /\ menu_shown = NoMenu
        /\ picture = [l \in Lines |-> Black]
        /\ unshown = FALSE

------------------------------------------------------------------------------
(* Core 0 in the menu: an operation, then Update.                            *)

\* A move or another tab; what Update will publish.
MenuOperation ==
  /\ pc0 = "menu"
  /\ osd' \in {m \in Menus : OnList(m)}
  /\ pc0' = "num"
  /\ UNCHANGED <<in_menu, menuFields, frameFields, mode, todo0, game, frame, core1, screen>>

UpdateNum ==
  /\ pc0 = "num"
  /\ menu_num_lines' = Lists[osd.list]
  /\ pc0' = "selected"
  /\ UNCHANGED <<in_menu, menu_needs_redraw, menu_selected_idx, menu_active_tab, menu_lines,
                 frameFields, osd, mode, todo0, game, frame, core1, screen>>

\* (bug) the index is counted from one in the menu.
UpdateSelectedFromOne ==
  /\ pc0 = "selected"
  /\ menu_selected_idx' = osd.selected - 1
  /\ pc0' = "tab"
  /\ UNCHANGED <<in_menu, menu_needs_redraw, menu_num_lines, menu_active_tab, menu_lines,
                 frameFields, osd, mode, todo0, game, frame, core1, screen>>

UpdateSelected ==
  /\ pc0 = "selected"
  /\ menu_selected_idx' = osd.selected
  /\ pc0' = "tab"
  /\ UNCHANGED <<in_menu, menu_needs_redraw, menu_num_lines, menu_active_tab, menu_lines,
                 frameFields, osd, mode, todo0, game, frame, core1, screen>>

\* The active tab; the names of the tabs, which are published with it, were
\* given when the ROMs were scanned and do not change.
UpdateTab ==
  /\ pc0 = "tab"
  /\ menu_active_tab' = TabOf[osd.list]
  /\ pc0' = "lines"
  /\ UNCHANGED <<in_menu, menu_needs_redraw, menu_num_lines, menu_selected_idx, menu_lines,
                 frameFields, osd, mode, todo0, game, frame, core1, screen>>

UpdateLines ==
  /\ pc0 = "lines"
  /\ menu_lines' = osd.list
  /\ pc0' = "redraw"
  /\ UNCHANGED <<in_menu, menu_needs_redraw, menu_num_lines, menu_selected_idx, menu_active_tab,
                 frameFields, osd, mode, todo0, game, frame, core1, screen>>

UpdateRedraw ==
  /\ pc0 = "redraw"
  /\ menu_needs_redraw' = TRUE
  /\ pc0' = "menu"
  /\ UNCHANGED <<in_menu, menu_num_lines, menu_selected_idx, menu_active_tab, menu_lines,
                 frameFields, osd, mode, todo0, game, frame, core1, screen>>

Update == UpdateNum \/ UpdateSelected \/ UpdateTab \/ UpdateLines \/ UpdateRedraw

------------------------------------------------------------------------------
(* Core 0 boots a game.                                                      *)

BootBegin ==
  /\ pc0 = "menu"
  /\ game < MaxBoots
  /\ todo0' = Lines
  /\ pc0' = "clear"
  /\ UNCHANGED <<in_menu, menuFields, frameFields, osd, mode, game, frame, core1, screen>>

\* (bug) the frame buffer is left as it is.
ClearLineNot ==
  /\ pc0 = "clear"
  /\ todo0' = {}
  /\ pc0' = "unready"
  /\ UNCHANGED <<in_menu, menuFields, frameFields, osd, mode, game, frame, core1, screen>>

\* memset of emu_frame_buffer, line after line.
ClearLine ==
  /\ pc0 = "clear"
  /\ emu_frame_buffer' = [emu_frame_buffer EXCEPT ![Min(todo0)] = Black]
  /\ todo0' = todo0 \ {Min(todo0)}
  /\ pc0' = IF todo0' = {} THEN "unready" ELSE "clear"
  /\ UNCHANGED <<in_menu, menuFields, video_frame_ready, start_line, game_h, unshown,
                 osd, mode, game, frame, core1, screen>>

\* The frame that was not shown yet is dropped on purpose.
BootUnready ==
  /\ pc0 = "unready"
  /\ video_frame_ready' = FALSE
  /\ unshown' = FALSE
  /\ pc0' = "load"
  /\ UNCHANGED <<in_menu, menuFields, emu_frame_buffer, start_line, game_h,
                 osd, mode, todo0, game, frame, core1, screen>>

LoadROM ==
  /\ pc0 = "load"
  /\ pc0' \in {"enter", "menu"}
  /\ UNCHANGED <<in_menu, menuFields, frameFields, osd, mode, todo0, game, frame, core1, screen>>

EnterGame ==
  /\ pc0 = "enter"
  /\ in_menu' = FALSE
  /\ game' = game + 1
  /\ pc0' = "game"
  /\ UNCHANGED <<menuFields, frameFields, osd, mode, todo0, frame, core1, screen>>

------------------------------------------------------------------------------
(* Core 0 in a game: RunFrame, and the way back to the menu.                 *)

\* The lines of a picture.
InView(start, h) == {l \in Lines : start <= l /\ l < start + h}

\* PicoFrameStart picks the mode and emu_video_mode_change publishes it, the
\* start first.  Publishing an unchanged mode changes nothing.
FrameStart ==
  /\ pc0 = "game"
  /\ frame < MaxFrames
  /\ frame' = frame + 1
  /\ mode' \in Modes
  /\ start_line' = mode'.start
  /\ pc0' = "height"
  /\ UNCHANGED <<in_menu, menuFields, emu_frame_buffer, video_frame_ready, game_h, unshown,
                 osd, todo0, game, core1, screen>>

FrameHeight ==
  /\ pc0 = "height"
  /\ game_h' = mode.h
  /\ todo0' = InView(mode.start, mode.h)
  /\ pc0' = "draw"
  /\ UNCHANGED <<in_menu, menuFields, emu_frame_buffer, video_frame_ready, start_line, unshown,
                 osd, mode, game, frame, core1, screen>>

DrawLine ==
  /\ pc0 = "draw"
  /\ todo0 # {}
  /\ emu_frame_buffer' = [emu_frame_buffer EXCEPT ![Min(todo0)] = [game |-> game, frame |-> frame]]
  /\ todo0' = todo0 \ {Min(todo0)}
  /\ UNCHANGED <<in_menu, menuFields, video_frame_ready, start_line, game_h, unshown,
                 pc0, osd, mode, game, frame, core1, screen>>

\* The frame is done; whether escape_pressed is seen behind it is left open.
FrameReady ==
  /\ pc0 = "draw"
  /\ todo0 = {}
  /\ video_frame_ready' = TRUE
  /\ unshown' = TRUE
  /\ pc0' \in {"game", "exit"}
  /\ UNCHANGED <<in_menu, menuFields, emu_frame_buffer, start_line, game_h,
                 osd, mode, todo0, game, frame, core1, screen>>

\* escape_pressed was seen: the menu comes up, then Update.
ExitGame ==
  /\ pc0 = "exit"
  /\ in_menu' = TRUE
  /\ pc0' = "num"
  /\ UNCHANGED <<menuFields, frameFields, osd, mode, todo0, game, frame, core1, screen>>

Core0 == \/ MenuOperation \/ Update
         \/ BootBegin \/ ClearLine \/ BootUnready \/ LoadROM \/ EnterGame
         \/ FrameStart \/ FrameHeight \/ DrawLine \/ FrameReady \/ ExitGame

------------------------------------------------------------------------------
(* Core 1.                                                                   *)

Top ==
  /\ pc1 = "top"
  /\ pc1' = IF in_menu THEN "menu" ELSE "game"
  /\ UNCHANGED <<in_menu, menuFields, frameFields, core0, local, todo1, screen>>

CheckRedraw ==
  /\ pc1 = "menu"
  /\ pc1' = IF menu_needs_redraw THEN "unredraw" ELSE "top"
  /\ UNCHANGED <<in_menu, menuFields, frameFields, core0, local, todo1, screen>>

ClearRedraw ==
  /\ pc1 = "unredraw"
  /\ menu_needs_redraw' = FALSE
  /\ pc1' = "selected"
  /\ UNCHANGED <<in_menu, menu_num_lines, menu_selected_idx, menu_active_tab, menu_lines,
                 frameFields, core0, local, todo1, screen>>

ReadSelected ==
  /\ pc1 = "selected"
  /\ local' = [local EXCEPT !.selected = menu_selected_idx]
  /\ pc1' = "num"
  /\ UNCHANGED <<in_menu, menuFields, frameFields, core0, todo1, screen>>

ReadNum ==
  /\ pc1 = "num"
  /\ local' = [local EXCEPT !.num = menu_num_lines]
  /\ pc1' = "tab"
  /\ UNCHANGED <<in_menu, menuFields, frameFields, core0, todo1, screen>>

ReadTab ==
  /\ pc1 = "tab"
  /\ local' = [local EXCEPT !.tab = menu_active_tab]
  /\ pc1' = "lines"
  /\ UNCHANGED <<in_menu, menuFields, frameFields, core0, todo1, screen>>

ReadLines ==
  /\ pc1 = "lines"
  /\ local' = [local EXCEPT !.list = menu_lines]
  /\ pc1' = "blit"
  /\ UNCHANGED <<in_menu, menuFields, frameFields, core0, todo1, screen>>

\* (bug) the flag is cleared when the menu is on the screen.
BlitAndClear ==
  /\ pc1 = "blit"
  /\ shows' = "menu"
  /\ menu_shown' = [selected |-> local.selected, num |-> local.num, list |-> local.list,
                    tab |-> local.tab]
  /\ menu_needs_redraw' = FALSE
  /\ pc1' = "top"
  /\ UNCHANGED <<in_menu, menu_num_lines, menu_selected_idx, menu_active_tab, menu_lines,
                 frameFields, core0, local, todo1, picture>>

Blit ==
  /\ pc1 = "blit"
  /\ shows' = "menu"
  /\ menu_shown' = [selected |-> local.selected, num |-> local.num, list |-> local.list,
                    tab |-> local.tab]
  /\ pc1' = "top"
  /\ UNCHANGED <<in_menu, menuFields, frameFields, core0, local, todo1, picture>>

\* (bug) core 1 waits for a frame, and does not look at in_menu meanwhile.
CheckReadyBlocking ==
  /\ pc1 = "game"
  /\ video_frame_ready
  /\ pc1' = "unready"
  /\ UNCHANGED <<in_menu, menuFields, frameFields, core0, local, todo1, screen>>

CheckReady ==
  /\ pc1 = "game"
  /\ pc1' = IF video_frame_ready THEN "unready" ELSE "top"
  /\ UNCHANGED <<in_menu, menuFields, frameFields, core0, local, todo1, screen>>

ClearReady ==
  /\ pc1 = "unready"
  /\ video_frame_ready' = FALSE
  /\ pc1' = "height"
  /\ UNCHANGED <<in_menu, menuFields, emu_frame_buffer, start_line, game_h, unshown, core0,
                 local, todo1, screen>>

ReadHeight ==
  /\ pc1 = "height"
  /\ local' = [local EXCEPT !.h = game_h]
  /\ pc1' = "start"
  /\ UNCHANGED <<in_menu, menuFields, frameFields, core0, todo1, screen>>

\* The two numbers are clamped to the frame buffer, or replaced.
ViewOf(h, s) ==
  LET h1 == IF h < 1 THEN 224 ELSE Min({h, HEIGHT})
      h2 == IF s + h1 > HEIGHT THEN HEIGHT - s ELSE h1
  IN IF h2 < 1 THEN InView(0, 224) ELSE InView(s, h2)

\* The start is read, the borders are drawn after the vertical sync, and the
\* copy begins.
ReadStart ==
  /\ pc1 = "start"
  /\ todo1' = ViewOf(local.h, start_line)
  /\ unshown' = FALSE
  /\ shows' = "game"
  /\ picture' = [l \in Lines |-> IF l \in todo1' THEN picture[l] ELSE Black]
  /\ pc1' = "copy"
  /\ UNCHANGED <<in_menu, menuFields, emu_frame_buffer, video_frame_ready, start_line, game_h,
                 core0, local, menu_shown>>

CopyLine ==
  /\ pc1 = "copy"
  /\ todo1 # {}
  /\ picture' = [picture EXCEPT ![Min(todo1)] = emu_frame_buffer[Min(todo1)]]
  /\ todo1' = todo1 \ {Min(todo1)}
  /\ UNCHANGED <<in_menu, menuFields, frameFields, core0, pc1, local, shows, menu_shown>>

\* (bug) the ready flag is cleared once more when the copy ends.
CopyEndClear ==
  /\ pc1 = "copy"
  /\ todo1 = {}
  /\ video_frame_ready' = FALSE
  /\ pc1' = "top"
  /\ UNCHANGED <<in_menu, menuFields, emu_frame_buffer, start_line, game_h, unshown, core0,
                 local, todo1, screen>>

CopyEnd ==
  /\ pc1 = "copy"
  /\ todo1 = {}
  /\ pc1' = "top"
  /\ UNCHANGED <<in_menu, menuFields, frameFields, core0, local, todo1, screen>>

Core1 == \/ Top
         \/ CheckRedraw \/ ClearRedraw \/ ReadSelected \/ ReadNum \/ ReadTab \/ ReadLines \/ Blit
         \/ CheckReady \/ ClearReady \/ ReadHeight \/ ReadStart \/ CopyLine \/ CopyEnd

Next == Core0 \/ Core1
Spec == Init /\ [][Next]_vars

\* Each core runs its endless loop.
LiveSpec == Spec /\ WF_vars(Core1) /\ WF_vars(Core0)

------------------------------------------------------------------------------
(* The rows of the menu that are on the screen, from what core 1 has read.   *)

\* (bug) the window is not pulled back at the end of the list.
ViewportUnclamped(selected, num) ==
  IF num <= VIEW_SIZE THEN 0 ELSE Max({0, selected - VIEW_SIZE \div 2})

Viewport(selected, num) ==
  IF num <= VIEW_SIZE THEN 0
  ELSE Min({num - VIEW_SIZE, Max({0, selected - VIEW_SIZE \div 2})})

VisibleRows(selected, num) ==
  LET first == Viewport(selected, num)
  IN {i \in 0..(num - 1) : first <= i /\ i < first + VIEW_SIZE}

------------------------------------------------------------------------------
(* Properties                                                                *)

Places0 == {"menu", "num", "selected", "tab", "lines", "redraw", "clear", "unready", "load",
            "enter", "game", "height", "draw", "exit"}
Places1 == {"top", "menu", "unredraw", "selected", "num", "tab", "lines", "blit", "game",
            "unready", "height", "start", "copy"}
Pixels  == [game : 0..MaxBoots, frame : 0..MaxFrames]

TypeOK ==
  /\ {in_menu, menu_needs_redraw, video_frame_ready, unshown} \subseteq BOOLEAN
  /\ menu_lines \in DOMAIN Lists /\ menu_active_tab \in Tabs
  /\ menu_num_lines \in Nat /\ menu_selected_idx \in Nat
  /\ emu_frame_buffer \in [Lines -> Pixels] /\ picture \in [Lines -> Pixels]
  /\ start_line \in {0, 8} /\ game_h \in {224, 240} /\ mode \in Modes
  /\ pc0 \in Places0 /\ pc1 \in Places1
  /\ osd \in Menus
  /\ todo0 \subseteq Lines /\ todo1 \subseteq Lines
  /\ shows \in {"nothing", "menu", "game"}

\* Core 1 has nothing to do and core 0 is between two operations of the menu.
Settled == in_menu /\ pc0 = "menu" /\ pc1 = "top" /\ ~menu_needs_redraw

\* The menu on the screen is then the menu that core 0 works on: no redraw is
\* lost between the flag and the fields, and no late game picture covers it.
MenuIsShown ==
  Settled => /\ shows = "menu"
             /\ menu_shown = [selected |-> osd.selected, num |-> Lists[osd.list],
                              list |-> osd.list, tab |-> TabOf[osd.list]]

\* The selected ROM is among the rows on the screen, and the window is full
\* whenever the list is long enough for it.
CursorIsVisible ==
  Settled /\ Lists[osd.list] > 0 =>
    LET rows == VisibleRows(menu_shown.selected, menu_shown.num) IN
      /\ osd.selected \in rows
      /\ Cardinality(rows) = Min({VIEW_SIZE, Lists[osd.list]})

\* When core 1 looks for a frame and finds none, it has begun to copy after
\* the last one was finished: a frame is superseded but never forgotten.
NoFrameForgotten == pc1 \in {"top", "game"} /\ ~video_frame_ready => ~unshown

\* While a game runs nothing of an earlier game gets on the screen, even when
\* core 1 mixes the start of one mode with the height of another.
NoPreviousGame ==
  pc1 = "copy" /\ ~in_menu => \A l \in todo1 : emu_frame_buffer[l].game \in {0, game}

\* A redraw that is asked for is done, unless a game is booted first: core 1
\* never stays in the game's branch when the game is left.
MenuIsRedrawn == menu_needs_redraw /\ in_menu ~> ~menu_needs_redraw \/ ~in_menu
==============================================================================
