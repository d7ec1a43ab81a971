------------------------------- MODULE Session -------------------------------
(****************************************************************************)
(* The menu/game loop of core 0 (CKernel::RunOrchestrator) and the input    *)
(* handlers that talk to it through g_SharedState.                          *)
(*                                                                          *)
(* The handlers run in the USB interrupt, which the framework delivers to   *)
(* core 0: each is atomic, but may come between any two steps of the loop.  *)
(* The loop is split where it reads or writes what a handler writes.        *)
(*                                                                          *)
(* A pad is the set of buttons it holds.  What the menu shows is not        *)
(* modelled here: an operation of the menu may select anything or nothing.  *)
(****************************************************************************)
EXTENDS Integers, FiniteSets

CONSTANTS Roms,         \* the ROM files
          NoRom,        \* no ROM: nothing selected, nothing loaded
          Broken,       \* what a failed load leaves in the emulator
          PadReports,   \* reports of the gamepads: [1..2 -> set of reports]
          KeyReports    \* reports of the keyboard: sets of keys

Gamepads == 1..2
Devices  == Gamepads \cup {3}     \* 3 is the keyboard
Keyboard == 3
Unset    == {"unset"}             \* 0xFFFF, which no device reports

VARIABLES
  pad1, pad2,                    \* shared: the held buttons
  escape_pressed,                \* shared: leave the game
  save_state_requested,          \* shared
  load_state_requested,          \* shared
  last_pad,                      \* last_pad1, last_pad2, last_kbd_pad
  pc,                            \* core 0: where the loop is
  in_menu,                       \* shared, written by core 0 only
  just_entered_menu, prev_pad1, start_released,   \* core 0, the menu branch
  selected,                      \* the ROM the menu's cursor is on
  rom,                           \* m_CurrentRomName
  media,                         \* what PicoDrive has loaded
  fed,                           \* PicoIn.pad of the last frame
  pressed_in,                    \* ghost: where each latched request was made
  seen_up,                       \* ghost: A and Start were up since the menu came
  hot                            \* ghost: the last report held a hotkey

pads     == <<pad1, pad2, last_pad, hot>>
requests == <<escape_pressed, save_state_requested, load_state_requested, pressed_in>>
menu     == <<just_entered_menu, prev_pad1, start_released, selected>>
emulator == <<rom, media, fed>>
vars     == <<pads, requests, menu, emulator, pc, in_menu, seen_up>>

BootButtons == {"a", "start"}
Dpad        == {"up", "down", "left", "right"}

Init == /\ pad1 = {} /\ pad2 = {}
        /\ escape_pressed = FALSE
        /\ save_state_requested = FALSE
        /\ load_state_requested = FALSE
        /\ last_pad = [d \in Devices |-> Unset]
        /\ pc = "loop"
        /\ in_menu = TRUE
        /\ just_entered_menu = TRUE
        /\ prev_pad1 = {}
        /\ start_released = TRUE
        /\ selected \in Roms \cup {NoRom}
        /\ rom = NoRom
        /\ media = NoRom
        /\ fed = [d \in Gamepads |-> {}]
        /\ pressed_in = [r \in {"escape", "save", "load"} |-> "none"]
        /\ seen_up = TRUE
        /\ hot = [d \in Gamepads |-> FALSE]

------------------------------------------------------------------------------
(* The gamepad handler.  A report is [buttons, hat, x, y]: the held buttons   *)
(* by their Circle names, hat 0..7 (8 when centred, -1 when there is none),   *)
(* and the stick (NoAxes when there is none).                                 *)

NoAxes == -1

HatDpad(h) ==
  {b \in Dpad : \/ b = "up"    /\ h \in {0, 1, 7}
                \/ b = "down"  /\ h \in {3, 4, 5}
                \/ b = "left"  /\ h \in {5, 6, 7}
                \/ b = "right" /\ h \in {1, 2, 3}}

StickDpad(r) ==
  IF r.x = NoAxes THEN {}
  ELSE {b \in Dpad : \/ b = "left"  /\ r.x < 64
                     \/ b = "right" /\ r.x > 192
                     \/ b = "up"    /\ r.y < 64
                     \/ b = "down"  /\ r.y > 192}

\* Buttons first, then the hat, then the stick.
DpadOf(r) ==
  LET digital == r.buttons \cap Dpad IN
  CASE digital # {}          -> digital
    [] HatDpad(r.hat) # {}   -> HatDpad(r.hat)
    [] OTHER                 -> StickDpad(r)

ActionOf == [A |-> "a", B |-> "b", RT |-> "c", LT |-> "z", RB |-> "z", X |-> "x",
             LB |-> "x", Y |-> "y", Start |-> "start", Select |-> "mode"]

PadButtons == Dpad \cup {ActionOf[b] : b \in DOMAIN ActionOf}

\* (bug) the framework's names of the action buttons are stored.
PadOfRaw(r) == DpadOf(r) \cup r.buttons

PadOf(r) == DpadOf(r) \cup {ActionOf[b] : b \in r.buttons \cap DOMAIN ActionOf}

EscapeCombo(r) == {"Start", "Select"} \subseteq r.buttons
SaveCombo(r)   == "Select" \in r.buttons /\ "left" \in PadOf(r)
\* The pad is emptied by the save combo, so that both directions mean save.
LoadCombo(r)   == "Select" \in r.buttons /\ "right" \in PadOf(r) /\ ~SaveCombo(r)

\* (bug) the load combo does not mask the pad.
MaskedPadSaveOnly(r) == IF SaveCombo(r) THEN {} ELSE PadOf(r)

MaskedPad(r) == IF SaveCombo(r) \/ LoadCombo(r) THEN {} ELSE PadOf(r)

\* In which part of the program a request is made.  The loop looks at them in
\* the order escape, save, load, and finishes the round in which a game ends.
Playing(req) == \/ ~in_menu
                \/ req = "save" /\ pc = "save"
                \/ req = "load" /\ pc \in {"save", "load"}

\* Set the requests asked for: asked is [escape, save, load].
Latch(asked) ==
  /\ escape_pressed' = (escape_pressed \/ asked.escape)
  /\ save_state_requested' = (save_state_requested \/ asked.save)
  /\ load_state_requested' = (load_state_requested \/ asked.load)
  /\ pressed_in' = [q \in DOMAIN pressed_in |->
                      IF ~asked[q] THEN pressed_in[q]
                      ELSE IF Playing(q) THEN "game" ELSE "menu"]

\* (bug) while a hotkey is held the handler returns before it stores the pad.
StorePadUnlessEmpty(d, pad) ==
  /\ last_pad' = [last_pad EXCEPT ![d] = pad]
  /\ pad1' = IF d # 2 /\ pad # last_pad[d] /\ pad # {} THEN pad ELSE pad1
  /\ pad2' = IF d = 2 /\ pad # last_pad[d] /\ pad # {} THEN pad ELSE pad2
  /\ seen_up' = (seen_up \/ (in_menu /\ pad1' \cap BootButtons = {}))
\* A pad that is the same as this device's last one is not stored again.
StorePad(d, pad) ==
  /\ last_pad' = [last_pad EXCEPT ![d] = pad]
  /\ pad1' = IF d # 2 /\ pad # last_pad[d] THEN pad ELSE pad1
  /\ pad2' = IF d = 2 /\ pad # last_pad[d] THEN pad ELSE pad2
  /\ seen_up' = (seen_up \/ (in_menu /\ pad1' \cap BootButtons = {}))

GamePadStatusHandler(d, r) ==
  /\ StorePad(d, MaskedPad(r))
  /\ Latch([escape |-> EscapeCombo(r), save |-> SaveCombo(r), load |-> LoadCombo(r)])
  /\ hot' = [hot EXCEPT ![d] = EscapeCombo(r) \/ SaveCombo(r) \/ LoadCombo(r)]
  /\ UNCHANGED <<menu, emulator, pc, in_menu>>

------------------------------------------------------------------------------
(* The keyboard handler.  A report is the set of the keys that are held, by   *)
(* the name of the button, or "F5", "F8" and "Escape".                        *)

HotKeys == {"F5", "F8", "Escape"}

\* The handler's table maps a key to a button of the pad or to a hotkey.
ASSUME KeysAssumption == KeyReports \subseteq SUBSET (PadButtons \cup HotKeys)

KeyboardStatusHandlerRaw(keys) ==
  /\ StorePad(Keyboard, keys \ HotKeys)
  /\ Latch([escape |-> "Escape" \in keys, save |-> "F5" \in keys, load |-> "F8" \in keys])
  /\ UNCHANGED <<hot, menu, emulator, pc, in_menu>>

Input == \/ \E d \in Gamepads : \E r \in PadReports[d] : GamePadStatusHandler(d, r)
         \/ \E keys \in KeyReports : KeyboardStatusHandlerRaw(keys)

------------------------------------------------------------------------------
(* The loop of core 0, in the menu.                                           *)

\* One pass over the menu: sample the pad once, find the buttons that went
\* down, run the menu's operations, and decide whether to boot.  Up and Down
\* also repeat while they are held.
MenuPass ==
  LET prev    == IF just_entered_menu THEN pad1 ELSE prev_pad1
      up      == pad1 \cap BootButtons = {}
      ready   == up \/ (start_released /\ ~just_entered_menu)
      pressed == pad1 \ prev
      moves   == pressed \cap (Dpad \cup {"b", "c"}) # {} \/ pad1 \cap {"up", "down"} # {}
  IN
  /\ pc = "loop" /\ in_menu
  /\ just_entered_menu' = FALSE
  /\ prev_pad1' = pad1
  /\ start_released' = ready
  /\ IF moves THEN selected' \in Roms \cup {NoRom} ELSE UNCHANGED selected
  /\ pc' = IF pressed \cap BootButtons # {} /\ ready /\ selected' # NoRom
           THEN "boot" ELSE "loop"
  /\ UNCHANGED <<pads, requests, emulator, in_menu, seen_up>>

\* (bug) the result of LoadROM is ignored.
LoadROMUnchecked ==
  /\ pc = "boot"
  /\ \/ rom' = selected /\ media' = selected /\ fed' = [d \in Gamepads |-> {}]
     \/ media' \in {media, Broken} /\ UNCHANGED <<rom, fed>>
  /\ pc' = "enter"
  /\ UNCHANGED <<pads, requests, menu, in_menu, seen_up>>

\* LoadROM: either everything succeeds, or it fails before anything is touched
\* (too big, not found), or after the ROM buffer or the emulator was changed.
LoadROM ==
  /\ pc = "boot"
  /\ \/ /\ rom' = selected
        /\ media' = selected
        /\ fed' = [d \in Gamepads |-> {}]
        /\ pc' = "enter"
     \/ /\ media' \in {media, Broken}
        /\ pc' = "loop"
        /\ UNCHANGED <<rom, fed>>
  /\ UNCHANGED <<pads, requests, menu, in_menu, seen_up>>

EnterGame ==
  /\ pc = "enter"
  /\ in_menu' = FALSE
  /\ pc' = "entered"
  /\ UNCHANGED <<pads, requests, menu, emulator, seen_up>>

\* (bug) an escape from before the boot stays latched.
KeepEscape ==
  /\ pc = "entered"
  /\ just_entered_menu' = TRUE
  /\ pc' = "loop"
  /\ UNCHANGED <<pads, requests, prev_pad1, start_released, selected, emulator,
                 in_menu, seen_up>>

\* escape_pressed = FALSE; just_entered_menu = TRUE
ClearEscape ==
  /\ pc = "entered"
  /\ escape_pressed' = FALSE
  /\ pressed_in' = [pressed_in EXCEPT !["escape"] = "none"]
  /\ just_entered_menu' = TRUE
  /\ pc' = "loop"
  /\ UNCHANGED <<pads, save_state_requested, load_state_requested, prev_pad1,
                 start_released, selected, emulator, in_menu, seen_up>>

------------------------------------------------------------------------------
(* The loop of core 0, in a game: a frame, then the requests in order.        *)

\* START + SELECT is an exit, not input for the game.
Masked(pad) == IF {"start", "mode"} \subseteq pad THEN {} ELSE pad

\* RunFrame returns at once when no ROM was ever loaded.
RunFrame ==
  /\ pc = "loop" /\ ~in_menu
  /\ fed' = IF rom = NoRom THEN fed ELSE [d \in Gamepads |-> Masked(IF d = 1 THEN pad1 ELSE pad2)]
  /\ pc' = "escape"
  /\ UNCHANGED <<pads, requests, menu, rom, media, in_menu, seen_up>>

\* (bug) the menu does not notice that it has just been entered.
CheckEscapeNotEntered ==
  /\ pc = "escape"
  /\ pc' = "save"
  /\ IF escape_pressed
     THEN /\ in_menu' = TRUE
          /\ escape_pressed' = FALSE
          /\ just_entered_menu' = FALSE
          /\ pressed_in' = [pressed_in EXCEPT !["escape"] = "none"]
          /\ seen_up' = (pad1 \cap BootButtons = {})
     ELSE UNCHANGED <<in_menu, escape_pressed, just_entered_menu, pressed_in, seen_up>>
  /\ UNCHANGED <<pads, save_state_requested, load_state_requested, prev_pad1,
                 start_released, selected, emulator>>

\* (bug) the requests are an else-if chain that starts with saving.
CheckEscapeUnlessSave ==
  /\ pc = "escape"
  /\ pc' = "save"
  /\ IF escape_pressed /\ ~save_state_requested
     THEN /\ in_menu' = TRUE
          /\ escape_pressed' = FALSE
          /\ just_entered_menu' = TRUE
          /\ pressed_in' = [pressed_in EXCEPT !["escape"] = "none"]
          /\ seen_up' = (pad1 \cap BootButtons = {})
     ELSE UNCHANGED <<in_menu, escape_pressed, just_entered_menu, pressed_in, seen_up>>
  /\ UNCHANGED <<pads, save_state_requested, load_state_requested, prev_pad1,
                 start_released, selected, emulator>>

CheckEscape ==
  /\ pc = "escape"
  /\ pc' = "save"
  /\ IF escape_pressed
     THEN /\ in_menu' = TRUE
          /\ escape_pressed' = FALSE
          /\ just_entered_menu' = TRUE
          /\ pressed_in' = [pressed_in EXCEPT !["escape"] = "none"]
          /\ seen_up' = (pad1 \cap BootButtons = {})
     ELSE UNCHANGED <<in_menu, escape_pressed, just_entered_menu, pressed_in, seen_up>>
  /\ UNCHANGED <<pads, save_state_requested, load_state_requested, prev_pad1,
                 start_released, selected, emulator>>

CheckSave ==
  /\ pc = "save"
  /\ pc' = "load"
  /\ save_state_requested' = FALSE
  /\ pressed_in' = [pressed_in EXCEPT !["save"] = "none"]
  /\ UNCHANGED <<pads, escape_pressed, load_state_requested, menu, emulator, in_menu, seen_up>>

\* At the end of the round what is still latched was not served by this game
\* when the menu is up (the ghost remembers that).
CheckLoad ==
  /\ pc = "load"
  /\ pc' = "loop"
  /\ load_state_requested' = FALSE
  /\ pressed_in' = [q \in DOMAIN pressed_in |->
                      CASE q = "load" -> "none"
                        [] in_menu /\ pressed_in[q] = "game" -> "menu"
                        [] OTHER -> pressed_in[q]]
  /\ UNCHANGED <<pads, escape_pressed, save_state_requested, menu, emulator, in_menu, seen_up>>

Core0 == \/ MenuPass \/ LoadROM \/ EnterGame \/ ClearEscape
         \/ RunFrame \/ CheckEscape \/ CheckSave \/ CheckLoad

Next == Input \/ Core0
Spec == Init /\ [][Next]_vars

\* Core 0 never stops: every branch of its loop comes back to the top.
LiveSpec == Spec /\ WF_vars(Core0)

------------------------------------------------------------------------------
(* Properties                                                                 *)

TypeOK ==
  /\ pad1 \in SUBSET PadButtons /\ pad2 \in SUBSET PadButtons
  /\ escape_pressed \in BOOLEAN
  /\ save_state_requested \in BOOLEAN
  /\ load_state_requested \in BOOLEAN
  /\ last_pad \in [Devices -> {Unset} \cup SUBSET PadButtons]
  /\ pc \in {"loop", "boot", "enter", "entered", "escape", "save", "load"}
  /\ in_menu \in BOOLEAN
  /\ just_entered_menu \in BOOLEAN
  /\ prev_pad1 \in SUBSET PadButtons
  /\ start_released \in BOOLEAN
  /\ selected \in Roms \cup {NoRom}
  /\ rom \in Roms \cup {NoRom}
  /\ media \in Roms \cup {NoRom, Broken}
  /\ fed \in [Gamepads -> SUBSET PadButtons]
  /\ pressed_in \in [{"escape", "save", "load"} -> {"none", "menu", "game"}]
  /\ seen_up \in BOOLEAN
  /\ hot \in [Gamepads -> BOOLEAN]

\* Frames are only run, and states only saved and loaded, for a game that was
\* loaded completely and whose name the save slot is derived from.
GameIsLoaded ==
  (~in_menu \/ pc \in {"escape", "save", "load"}) => rom \in Roms /\ media = rom

\* A game is only left for an exit that was pressed while it was played: one
\* pressed in the menu or during the load does not throw the player out.
NoStaleEscape ==
  [][~in_menu /\ in_menu' => pressed_in["escape"] = "game"]_vars

\* Holding START, for START + SELECT, does not boot the next game at once: no
\* boot begins before A and Start have been up since the menu appeared.
NoInstantBoot == [][pc = "loop" /\ pc' = "boot" => seen_up]_vars

\* While a gamepad holds a hotkey the game sees nothing of that pad, as long
\* as no keyboard shares the pad with it.
HotkeyIsMasked ==
  last_pad[Keyboard] = Unset =>
    /\ hot[1] => Masked(pad1) = {}
    /\ hot[2] => Masked(pad2) = {}

\* Two devices write pad1, each only when its own state changes.  When both
\* have let go of everything, so has the pad: no button sticks.
NothingSticks ==
  (\A d \in {1, Keyboard} : last_pad[d] \in {Unset, {}}) => pad1 = {}

\* The README lists saving as an in-game shortcut.  Taken at its word, a state is saved
\* only when that was asked for in the game that runs.  The code latches the
\* request in the menu too and serves it after the first frame of the game
\* that is booted next.
SaveOnlyInGame ==
  [][pc = "save" /\ pc' = "load" /\ save_state_requested => pressed_in["save"] = "game"]_vars

\* Every request made in a game is served: an exit brings the menu up, a save
\* or a load is carried out, also when several are made in the same frame.
RequestsServed ==
  /\ (escape_pressed /\ ~in_menu /\ pc # "entered") ~> in_menu
  /\ (save_state_requested /\ Playing("save")) ~> ~save_state_requested
  /\ (load_state_requested /\ Playing("load")) ~> ~load_state_requested
==============================================================================
