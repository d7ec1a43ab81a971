---------------------------- MODULE Session_proof ----------------------------
(****************************************************************************)
(* Proofs about the menu and game loop, for any ROMs and any reports of the *)
(* gamepads and of the keyboard.                                            *)
(****************************************************************************)
EXTENDS Session, TLAPS

------------------------------------------------------------------------------
(* The inductive invariant.                                                   *)

\* What a shared pad holds is the last state of a device that writes it.
PadOrigin ==
  /\ \/ pad1 \in {last_pad[1], last_pad[Keyboard]}
     \/ pad1 = {} /\ last_pad[1] = Unset /\ last_pad[Keyboard] = Unset
  /\ \/ pad2 = last_pad[2]
     \/ pad2 = {} /\ last_pad[2] = Unset

HotPadIsMasked == \A d \in Gamepads : hot[d] => Masked(last_pad[d]) = {}

\* A boot is only begun with a ROM selected, and only goes on when it is loaded.
BootInv ==
  /\ pc \in {"boot", "enter"} => in_menu
  /\ pc = "boot" => selected # NoRom
  /\ pc \in {"enter", "entered"} => rom \in Roms /\ media = rom

\* What is latched when the game looks at it was pressed in the game.
EscapeOrigin ==
  escape_pressed /\ ~in_menu /\ pc # "entered" => pressed_in["escape"] = "game"

\* start_released only outlives a press of A or Start within one visit.
ReleaseSeen ==
  in_menu /\ (pad1 \cap BootButtons = {} \/ (start_released /\ ~just_entered_menu))
    => seen_up

Inv == /\ TypeOK /\ PadOrigin /\ HotPadIsMasked
       /\ BootInv /\ GameIsLoaded /\ EscapeOrigin /\ ReleaseSeen

------------------------------------------------------------------------------
(* The handlers.                                                              *)

LEMMA UnsetIsNoPad == Unset \notin SUBSET PadButtons /\ Unset # {}
  <1>1. "unset" \notin PadButtons
    BY SMT DEF PadButtons, Dpad, ActionOf
  <1> QED BY <1>1 DEF Unset

\* Whatever a gamepad reports, what is stored is a set of buttons of the pad.
LEMMA MaskedPadType == ASSUME NEW r PROVE MaskedPad(r) \in SUBSET PadButtons
  <1>1. DpadOf(r) \subseteq Dpad
    <2>1. HatDpad(r.hat) \subseteq Dpad
      BY DEF HatDpad
    <2>2. StickDpad(r) \subseteq Dpad
      BY DEF StickDpad
    <2> QED BY <2>1, <2>2 DEF DpadOf
  <1>2. {ActionOf[b] : b \in r.buttons \cap DOMAIN ActionOf}
          \subseteq {ActionOf[b] : b \in DOMAIN ActionOf}
    OBVIOUS
  <1> QED BY <1>1, <1>2 DEF MaskedPad, PadOf, PadButtons

\* A report with a hotkey leaves nothing of the pad that the game would see.
LEMMA HotReportIsMasked ==
  ASSUME NEW r, EscapeCombo(r) \/ SaveCombo(r) \/ LoadCombo(r)
  PROVE  Masked(MaskedPad(r)) = {}
  <1>1. CASE SaveCombo(r) \/ LoadCombo(r)
    BY <1>1 DEF MaskedPad, Masked
  <1>2. CASE EscapeCombo(r)
    <2>1. /\ ActionOf["Start"] = "start" /\ ActionOf["Select"] = "mode"
          /\ {"Start", "Select"} \subseteq DOMAIN ActionOf
      BY DEF ActionOf
    <2>2. {"start", "mode"} \subseteq PadOf(r)
      BY <1>2, <2>1 DEF EscapeCombo, PadOf
    <2> QED BY <2>2 DEF MaskedPad, Masked
  <1> QED BY <1>1, <1>2

\* Storing the pad of a device keeps the pads typed, of known origin and, in
\* the menu, notices that A and Start are up.
LEMMA StorePadStep ==
  ASSUME Inv, NEW d \in Devices, NEW p \in SUBSET PadButtons, StorePad(d, p)
  PROVE  /\ pad1' \in SUBSET PadButtons /\ pad2' \in SUBSET PadButtons
         /\ last_pad' \in [Devices -> {Unset} \cup SUBSET PadButtons]
         /\ \A e \in Devices : last_pad'[e] = IF e = d THEN p ELSE last_pad[e]
         /\ PadOrigin'
         /\ seen_up' \in BOOLEAN
         /\ seen_up' = (seen_up \/ (in_menu /\ pad1' \cap BootButtons = {}))
  <1>1. /\ pad1' \in SUBSET PadButtons /\ pad2' \in SUBSET PadButtons
        /\ last_pad' \in [Devices -> {Unset} \cup SUBSET PadButtons]
        /\ \A e \in Devices : last_pad'[e] = IF e = d THEN p ELSE last_pad[e]
        /\ seen_up' \in BOOLEAN
        /\ seen_up' = (seen_up \/ (in_menu /\ pad1' \cap BootButtons = {}))
    BY DEF StorePad, Inv, TypeOK
  <1>2. p # Unset
    BY UnsetIsNoPad
  <1>3. 1 \in Devices /\ 2 \in Devices /\ Keyboard \in Devices /\ Keyboard = 3
    BY DEF Devices, Gamepads, Keyboard
  <1>4. d \in {1, 2, 3}
    BY DEF Devices, Gamepads
  <1>5. PadOrigin'
    <2>1. CASE d = 1
      BY <2>1, <1>1, <1>2, <1>3 DEF StorePad, PadOrigin, Inv
    <2>2. CASE d = 2
      BY <2>2, <1>1, <1>2, <1>3 DEF StorePad, PadOrigin, Inv
    <2>3. CASE d = 3
      BY <2>3, <1>1, <1>2, <1>3 DEF StorePad, PadOrigin, Inv
    <2> QED BY <1>4, <2>1, <2>2, <2>3
  <1> QED BY <1>1, <1>5

\* Latching a request in a game marks it as made there.
LEMMA LatchStep ==
  ASSUME Inv, NEW asked \in [{"escape", "save", "load"} -> BOOLEAN],
         Latch(asked), UNCHANGED <<in_menu, pc>>
  PROVE  /\ escape_pressed' \in BOOLEAN
         /\ save_state_requested' \in BOOLEAN
         /\ load_state_requested' \in BOOLEAN
         /\ pressed_in' \in [{"escape", "save", "load"} -> {"none", "menu", "game"}]
         /\ EscapeOrigin'
  <1>1. /\ escape_pressed' = (escape_pressed \/ asked["escape"])
        /\ escape_pressed' \in BOOLEAN
        /\ save_state_requested' \in BOOLEAN
        /\ load_state_requested' \in BOOLEAN
    BY DEF Latch, Inv, TypeOK
  <1>2. pressed_in' = [q \in {"escape", "save", "load"} |->
                         IF ~asked[q] THEN pressed_in[q]
                         ELSE IF Playing(q) THEN "game" ELSE "menu"]
    BY DEF Latch, Inv, TypeOK
  <1>3. pressed_in' \in [{"escape", "save", "load"} -> {"none", "menu", "game"}]
    BY <1>2 DEF Inv, TypeOK
  <1>4. Playing("escape") <=> ~in_menu
    BY DEF Playing
  <1>5. EscapeOrigin'
    BY <1>1, <1>2, <1>4 DEF EscapeOrigin, Inv
  <1> QED BY <1>1, <1>3, <1>5

LEMMA AskedType ==
  ASSUME NEW a \in BOOLEAN, NEW b \in BOOLEAN, NEW c \in BOOLEAN
  PROVE  [escape |-> a, save |-> b, load |-> c] \in [{"escape", "save", "load"} -> BOOLEAN]
  OBVIOUS

LEMMA GamePadStep ==
  ASSUME Inv, NEW d \in Gamepads, NEW r, GamePadStatusHandler(d, r)
  PROVE  Inv'
  <1> DEFINE asked == [escape |-> EscapeCombo(r), save |-> SaveCombo(r),
                       load |-> LoadCombo(r)]
  <1>1. asked \in [{"escape", "save", "load"} -> BOOLEAN]
    <2>1. EscapeCombo(r) \in BOOLEAN /\ SaveCombo(r) \in BOOLEAN /\ LoadCombo(r) \in BOOLEAN
      BY Zenon DEF EscapeCombo, SaveCombo, LoadCombo
    <2> QED BY <2>1, AskedType
  <1>2. /\ StorePad(d, MaskedPad(r)) /\ Latch(asked)
        /\ hot' = [hot EXCEPT ![d] = EscapeCombo(r) \/ SaveCombo(r) \/ LoadCombo(r)]
        /\ UNCHANGED <<menu, emulator, pc, in_menu>>
    BY DEF GamePadStatusHandler
  <1>3. d \in Devices /\ Gamepads \subseteq Devices
    BY DEF Devices
  <1>4. MaskedPad(r) \in SUBSET PadButtons
    BY MaskedPadType
  <1>5. /\ pad1' \in SUBSET PadButtons /\ pad2' \in SUBSET PadButtons
        /\ last_pad' \in [Devices -> {Unset} \cup SUBSET PadButtons]
        /\ \A e \in Devices : last_pad'[e] = IF e = d THEN MaskedPad(r) ELSE last_pad[e]
        /\ PadOrigin'
        /\ seen_up' \in BOOLEAN
        /\ seen_up' = (seen_up \/ (in_menu /\ pad1' \cap BootButtons = {}))
    BY <1>2, <1>3, <1>4, StorePadStep
  <1>6. /\ escape_pressed' \in BOOLEAN
        /\ save_state_requested' \in BOOLEAN
        /\ load_state_requested' \in BOOLEAN
        /\ pressed_in' \in [{"escape", "save", "load"} -> {"none", "menu", "game"}]
        /\ EscapeOrigin'
    BY <1>1, <1>2, LatchStep
  <1>7. hot' \in [Gamepads -> BOOLEAN]
    <2>1. (EscapeCombo(r) \/ SaveCombo(r) \/ LoadCombo(r)) \in BOOLEAN
      OBVIOUS
    <2> QED BY <1>2, <2>1, Zenon DEF Inv, TypeOK
  <1>8. TypeOK'
    BY <1>2, <1>5, <1>6, <1>7 DEF Inv, TypeOK, menu, emulator
  <1>9. HotPadIsMasked'
    BY <1>2, <1>3, <1>5, HotReportIsMasked DEF Inv, HotPadIsMasked, TypeOK, Masked
  <1>10. BootInv' /\ GameIsLoaded'
    BY <1>2 DEF Inv, BootInv, GameIsLoaded, menu, emulator
  <1>11. ReleaseSeen'
    BY <1>2, <1>5 DEF Inv, ReleaseSeen, menu
  <1> QED BY <1>5, <1>6, <1>8, <1>9, <1>10, <1>11 DEF Inv

LEMMA KeyboardStep ==
  ASSUME Inv, NEW keys \in KeyReports, KeyboardStatusHandlerRaw(keys)
  PROVE  Inv'
  <1> DEFINE asked == [escape |-> "Escape" \in keys, save |-> "F5" \in keys,
                       load |-> "F8" \in keys]
  <1>1. asked \in [{"escape", "save", "load"} -> BOOLEAN]
    <2>1. /\ ("Escape" \in keys) \in BOOLEAN /\ ("F5" \in keys) \in BOOLEAN
          /\ ("F8" \in keys) \in BOOLEAN
      OBVIOUS
    <2> QED BY <2>1, AskedType
  <1>2. /\ StorePad(Keyboard, keys \ HotKeys) /\ Latch(asked)
        /\ UNCHANGED <<hot, menu, emulator, pc, in_menu>>
    BY DEF KeyboardStatusHandlerRaw
  <1>3. Keyboard \in Devices /\ Gamepads \subseteq Devices /\ Keyboard \notin Gamepads
    BY DEF Devices, Gamepads, Keyboard
  <1>4. keys \ HotKeys \in SUBSET PadButtons
    BY KeysAssumption
  <1>5. /\ pad1' \in SUBSET PadButtons /\ pad2' \in SUBSET PadButtons
        /\ last_pad' \in [Devices -> {Unset} \cup SUBSET PadButtons]
        /\ \A e \in Devices : last_pad'[e] = IF e = Keyboard THEN keys \ HotKeys
                                             ELSE last_pad[e]
        /\ PadOrigin'
        /\ seen_up' \in BOOLEAN
        /\ seen_up' = (seen_up \/ (in_menu /\ pad1' \cap BootButtons = {}))
    BY <1>2, <1>3, <1>4, StorePadStep
  <1>6. /\ escape_pressed' \in BOOLEAN
        /\ save_state_requested' \in BOOLEAN
        /\ load_state_requested' \in BOOLEAN
        /\ pressed_in' \in [{"escape", "save", "load"} -> {"none", "menu", "game"}]
        /\ EscapeOrigin'
    BY <1>1, <1>2, LatchStep
  <1>7. TypeOK'
    BY <1>2, <1>5, <1>6 DEF Inv, TypeOK, menu, emulator
  <1>8. HotPadIsMasked'
    BY <1>2, <1>3, <1>5 DEF Inv, HotPadIsMasked, Masked
  <1>9. BootInv' /\ GameIsLoaded'
    BY <1>2 DEF Inv, BootInv, GameIsLoaded, menu, emulator
  <1>10. ReleaseSeen'
    BY <1>2, <1>5 DEF Inv, ReleaseSeen, menu
  <1> QED BY <1>5, <1>6, <1>7, <1>8, <1>9, <1>10 DEF Inv

------------------------------------------------------------------------------
(* The loop of core 0.                                                        *)

\* No step of the loop touches the pads, nor, hence, what is said of them.
LEMMA PadsStay == ASSUME Inv, UNCHANGED pads PROVE PadOrigin' /\ HotPadIsMasked'
  <1>1. UNCHANGED <<pad1, pad2, last_pad, hot>>
    BY DEF pads
  <1>2. PadOrigin'
    BY <1>1 DEF Inv, PadOrigin
  <1>3. HotPadIsMasked'
    BY <1>1 DEF Inv, HotPadIsMasked, Masked
  <1> QED BY <1>2, <1>3

LEMMA MenuPassStep == ASSUME Inv, MenuPass PROVE Inv'
  <1> DEFINE up    == pad1 \cap BootButtons = {}
             ready == up \/ (start_released /\ ~just_entered_menu)
             prev  == IF just_entered_menu THEN pad1 ELSE prev_pad1
  <1>1. /\ pc = "loop" /\ in_menu
        /\ just_entered_menu' = FALSE
        /\ prev_pad1' = pad1
        /\ start_released' = ready
        /\ selected' \in Roms \cup {NoRom} \/ selected' = selected
        /\ UNCHANGED <<pads, requests, emulator, in_menu, seen_up>>
    BY DEF MenuPass
  <1>2. /\ pc' \in {"boot", "loop"}
        /\ pc' = "boot" => selected' # NoRom
    BY DEF MenuPass
  <1>3. ready \in BOOLEAN
    OBVIOUS
  <1>4. TypeOK'
    BY <1>1, <1>2, <1>3 DEF Inv, TypeOK, pads, requests, emulator
  <1>5. PadOrigin' /\ HotPadIsMasked'
    BY <1>1, PadsStay
  <1>6. BootInv' /\ GameIsLoaded' /\ EscapeOrigin'
    BY <1>1, <1>2 DEF Inv, BootInv, GameIsLoaded, EscapeOrigin, requests, emulator
  <1>7. ReleaseSeen'
    <2>1. ready => seen_up
      BY <1>1 DEF Inv, ReleaseSeen
    <2>2. seen_up' = seen_up /\ pad1' = pad1
      BY <1>1 DEF pads
    <2>3. pad1 \cap BootButtons = {} => ready
      OBVIOUS
    <2>4. SUFFICES ASSUME pad1' \cap BootButtons = {} \/ start_released'
                   PROVE  seen_up'
      BY DEF ReleaseSeen
    <2>5. ready
      BY <1>1, <2>2, <2>3, <2>4
    <2> QED BY <2>1, <2>2, <2>5
  <1> QED BY <1>4, <1>5, <1>6, <1>7 DEF Inv

LEMMA LoadROMStep == ASSUME Inv, LoadROM PROVE Inv'
  <1>1. /\ pc = "boot" /\ in_menu /\ selected \in Roms
        /\ UNCHANGED <<pads, requests, menu, in_menu, seen_up>>
    BY DEF LoadROM, Inv, BootInv, TypeOK
  <1>2. \/ /\ rom' = selected /\ media' = selected /\ pc' = "enter"
           /\ fed' = [d \in Gamepads |-> {}]
        \/ /\ media' \in {media, Broken} /\ pc' = "loop"
           /\ UNCHANGED <<rom, fed>>
    BY DEF LoadROM
  <1>3. TypeOK'
    BY <1>1, <1>2 DEF Inv, TypeOK, pads, requests, menu
  <1>4. PadOrigin' /\ HotPadIsMasked' /\ EscapeOrigin' /\ ReleaseSeen'
    BY <1>1, PadsStay DEF Inv, EscapeOrigin, ReleaseSeen, pads, requests, menu
  <1>5. BootInv' /\ GameIsLoaded'
    BY <1>1, <1>2 DEF Inv, BootInv, GameIsLoaded
  <1> QED BY <1>3, <1>4, <1>5 DEF Inv

LEMMA EnterGameStep == ASSUME Inv, EnterGame PROVE Inv'
  <1>1. /\ in_menu' = FALSE /\ pc' = "entered"
        /\ UNCHANGED <<pads, requests, menu, emulator, seen_up>>
    BY DEF EnterGame
  <1>2. TypeOK'
    BY <1>1 DEF Inv, TypeOK, pads, requests, menu, emulator
  <1>3. PadOrigin' /\ HotPadIsMasked'
    BY <1>1, PadsStay
  <1>4. BootInv' /\ GameIsLoaded' /\ EscapeOrigin' /\ ReleaseSeen'
    BY DEF EnterGame, Inv, BootInv, GameIsLoaded, EscapeOrigin, ReleaseSeen,
           menu, emulator
  <1> QED BY <1>2, <1>3, <1>4 DEF Inv

LEMMA ClearEscapeStep == ASSUME Inv, ClearEscape PROVE Inv'
  <1>1. /\ escape_pressed' = FALSE /\ just_entered_menu' = TRUE /\ pc' = "loop"
        /\ UNCHANGED <<pads, save_state_requested, load_state_requested, prev_pad1,
                       start_released, selected, emulator, in_menu, seen_up>>
    BY DEF ClearEscape
  <1>2. pressed_in' \in [{"escape", "save", "load"} -> {"none", "menu", "game"}]
    BY DEF ClearEscape, Inv, TypeOK
  <1>3. TypeOK'
    BY <1>1, <1>2 DEF Inv, TypeOK, pads, emulator
  <1>4. PadOrigin' /\ HotPadIsMasked'
    BY <1>1, PadsStay
  <1>5. BootInv' /\ GameIsLoaded' /\ EscapeOrigin' /\ ReleaseSeen'
    BY DEF ClearEscape, Inv, BootInv, GameIsLoaded, EscapeOrigin, ReleaseSeen,
           pads, emulator
  <1> QED BY <1>3, <1>4, <1>5 DEF Inv

LEMMA RunFrameStep == ASSUME Inv, RunFrame PROVE Inv'
  <1>1. /\ pc = "loop" /\ ~in_menu /\ pc' = "escape"
        /\ UNCHANGED <<pads, requests, menu, rom, media, in_menu, seen_up>>
    BY DEF RunFrame
  <1>2. fed' \in [Gamepads -> SUBSET PadButtons]
    BY DEF RunFrame, Inv, TypeOK, Masked
  <1>3. TypeOK'
    BY <1>1, <1>2 DEF Inv, TypeOK, pads, requests, menu
  <1>4. PadOrigin' /\ HotPadIsMasked'
    BY <1>1, PadsStay
  <1>5. BootInv' /\ GameIsLoaded' /\ EscapeOrigin' /\ ReleaseSeen'
    BY <1>1 DEF Inv, BootInv, GameIsLoaded, EscapeOrigin, ReleaseSeen, requests
  <1> QED BY <1>3, <1>4, <1>5 DEF Inv

LEMMA CheckEscapeStep == ASSUME Inv, CheckEscape PROVE Inv'
  <1>1. TypeOK'
    <2>1. (pad1 \cap BootButtons = {}) \in BOOLEAN
      OBVIOUS
    <2>2. /\ in_menu' \in BOOLEAN /\ escape_pressed' \in BOOLEAN
          /\ just_entered_menu' \in BOOLEAN
          /\ pressed_in' \in [{"escape", "save", "load"} -> {"none", "menu", "game"}]
      BY DEF CheckEscape, Inv, TypeOK
    <2>3. seen_up' \in BOOLEAN
      BY <2>1, Zenon DEF CheckEscape, Inv, TypeOK
    <2> QED BY <2>2, <2>3 DEF CheckEscape, Inv, TypeOK, pads, emulator
  <1>2. PadOrigin' /\ HotPadIsMasked'
    BY PadsStay DEF CheckEscape
  <1>3. BootInv' /\ GameIsLoaded' /\ EscapeOrigin'
    BY DEF CheckEscape, Inv, BootInv, GameIsLoaded, EscapeOrigin, emulator
  <1>4. ReleaseSeen'
    BY DEF CheckEscape, Inv, ReleaseSeen, pads
  <1> QED BY <1>1, <1>2, <1>3, <1>4 DEF Inv

LEMMA CheckSaveStep == ASSUME Inv, CheckSave PROVE Inv'
  <1>1. /\ pc = "save" /\ pc' = "load" /\ save_state_requested' = FALSE
        /\ UNCHANGED <<pads, escape_pressed, load_state_requested, menu, emulator,
                       in_menu, seen_up>>
    BY DEF CheckSave
  <1>2. /\ pressed_in' \in [{"escape", "save", "load"} -> {"none", "menu", "game"}]
        /\ pressed_in'["escape"] = pressed_in["escape"]
    BY DEF CheckSave, Inv, TypeOK
  <1>3. TypeOK'
    BY <1>1, <1>2 DEF Inv, TypeOK, pads, menu, emulator
  <1>4. PadOrigin' /\ HotPadIsMasked'
    BY <1>1, PadsStay
  <1>5. BootInv' /\ GameIsLoaded' /\ EscapeOrigin' /\ ReleaseSeen'
    BY <1>1, <1>2 DEF Inv, BootInv, GameIsLoaded, EscapeOrigin, ReleaseSeen,
                      pads, menu, emulator
  <1> QED BY <1>3, <1>4, <1>5 DEF Inv

LEMMA CheckLoadStep == ASSUME Inv, CheckLoad PROVE Inv'
  <1>1. pressed_in' = [q \in {"escape", "save", "load"} |->
                         CASE q = "load" -> "none"
                           [] in_menu /\ pressed_in[q] = "game" -> "menu"
                           [] OTHER -> pressed_in[q]]
    BY DEF CheckLoad, Inv, TypeOK
  <1>2. pressed_in' \in [{"escape", "save", "load"} -> {"none", "menu", "game"}]
    BY <1>1 DEF Inv, TypeOK
  <1>3. TypeOK' /\ PadOrigin' /\ HotPadIsMasked'
    <2>1. /\ pc' = "loop" /\ load_state_requested' = FALSE
          /\ UNCHANGED <<pads, escape_pressed, save_state_requested, menu, emulator,
                         in_menu, seen_up>>
      BY DEF CheckLoad
    <2>2. TypeOK'
      BY <1>2, <2>1 DEF Inv, TypeOK, pads, menu, emulator
    <2> QED BY <2>1, <2>2, PadsStay
  <1>4. EscapeOrigin'
    BY <1>1 DEF CheckLoad, Inv, EscapeOrigin
  <1>5. BootInv' /\ GameIsLoaded' /\ ReleaseSeen'
    BY DEF CheckLoad, Inv, BootInv, GameIsLoaded, ReleaseSeen, pads, menu, emulator
  <1> QED BY <1>3, <1>4, <1>5 DEF Inv

------------------------------------------------------------------------------
(* The invariant holds.                                                       *)

LEMMA InvInit == Init => Inv
  <1> SUFFICES ASSUME Init PROVE Inv
    OBVIOUS
  <1>1. TypeOK
    BY DEF Init, TypeOK
  <1>2. PadOrigin /\ HotPadIsMasked
    BY DEF Init, PadOrigin, HotPadIsMasked, Devices, Gamepads, Keyboard
  <1>3. BootInv /\ GameIsLoaded /\ EscapeOrigin /\ ReleaseSeen
    BY DEF Init, BootInv, GameIsLoaded, EscapeOrigin, ReleaseSeen
  <1> QED BY <1>1, <1>2, <1>3 DEF Inv

LEMMA InvNext == Inv /\ [Next]_vars => Inv'
  <1> SUFFICES ASSUME Inv, [Next]_vars PROVE Inv'
    OBVIOUS
  <1>1. CASE Input
    BY <1>1, GamePadStep, KeyboardStep DEF Input
  <1>2. CASE Core0
    BY <1>2, MenuPassStep, LoadROMStep, EnterGameStep, ClearEscapeStep, RunFrameStep,
       CheckEscapeStep, CheckSaveStep, CheckLoadStep DEF Core0
  <1>3. CASE UNCHANGED vars
    <2>1. UNCHANGED <<pads, requests, menu, emulator, pc, in_menu, seen_up>>
      BY <1>3 DEF vars
    <2>2. TypeOK'
      BY <2>1 DEF Inv, TypeOK, pads, requests, menu, emulator
    <2>4. PadOrigin' /\ HotPadIsMasked'
      BY <2>1, PadsStay
    <2>3. BootInv' /\ GameIsLoaded' /\ EscapeOrigin' /\ ReleaseSeen'
      BY <2>1 DEF Inv, BootInv, GameIsLoaded, EscapeOrigin, ReleaseSeen,
                  pads, requests, menu, emulator
    <2> QED BY <2>2, <2>3, <2>4 DEF Inv
  <1> QED BY <1>1, <1>2, <1>3 DEF Next

\* The inductive invariant holds of every behaviour of the loop and the
\* handlers, whatever is pressed at whatever moment.
THEOREM InvCorrect == Spec => []Inv
  BY InvInit, InvNext, PTL DEF Spec

------------------------------------------------------------------------------
(* What follows from it.                                                      *)

\* The loop and the handlers keep every variable in its type: only buttons of
\* the pad are ever stored, whatever the devices report.
THEOREM TypeCorrect == Spec => []TypeOK
  <1>1. Inv => TypeOK
    BY DEF Inv
  <1> QED BY <1>1, InvCorrect, PTL

\* RunFrame and the requests only run on a game that LoadROM loaded completely,
\* also after loads that failed half-way.
THEOREM RunsLoadedGame == Spec => []GameIsLoaded
  <1>1. Inv => GameIsLoaded
    BY DEF Inv
  <1> QED BY <1>1, InvCorrect, PTL

\* The handlers of two devices that share pad1 leave no button down there.
THEOREM NoButtonSticks == Spec => []NothingSticks
  <1>1. Inv => NothingSticks
    BY UnsetIsNoPad DEF Inv, PadOrigin, NothingSticks, TypeOK, Keyboard
  <1> QED BY <1>1, InvCorrect, PTL

\* While a gamepad holds a hotkey the game sees nothing of its pad.
THEOREM HotkeysAreMasked == Spec => []HotkeyIsMasked
  <1>1. Masked({}) = {}
    BY DEF Masked
  <1>2. Inv => HotkeyIsMasked
    <2> SUFFICES ASSUME Inv, last_pad[Keyboard] = Unset
                 PROVE  (hot[1] => Masked(pad1) = {}) /\ (hot[2] => Masked(pad2) = {})
      BY DEF HotkeyIsMasked
    <2>1. /\ pad1 = last_pad[1] \/ pad1 = {}
          /\ pad2 = last_pad[2] \/ pad2 = {}
      BY UnsetIsNoPad DEF Inv, PadOrigin, TypeOK
    <2>2. \A d \in {1, 2} : hot[d] => Masked(last_pad[d]) = {}
      BY DEF Inv, HotPadIsMasked, Gamepads
    <2>3. hot[1] => Masked(pad1) = {}
      BY <1>1, <2>1, <2>2
    <2>4. hot[2] => Masked(pad2) = {}
      BY <1>1, <2>1, <2>2
    <2> QED BY <2>3, <2>4
  <1> QED BY <1>2, InvCorrect, PTL

\* An exit that was pressed before a game ran never ends that game.
THEOREM StaleEscapeIsIgnored == Spec => NoStaleEscape
  <1>1. Inv /\ [Next]_vars => [~in_menu /\ in_menu' => pressed_in["escape"] = "game"]_vars
    <2> SUFFICES ASSUME Inv, [Next]_vars, ~in_menu, in_menu'
                 PROVE  pressed_in["escape"] = "game"
      OBVIOUS
    <2>1. CheckEscape
      <3>1. in_menu' # in_menu
        OBVIOUS
      <3>2. ~UNCHANGED vars
        BY <3>1 DEF vars
      <3> QED BY <3>1, <3>2 DEF Next, Input, GamePadStatusHandler, KeyboardStatusHandlerRaw,
           Core0, MenuPass, LoadROM, EnterGame, ClearEscape, RunFrame, CheckSave, CheckLoad
    <2> QED BY <2>1 DEF CheckEscape, Inv, EscapeOrigin
  <1> QED BY <1>1, InvCorrect, PTL DEF Spec, NoStaleEscape

\* No boot begins before A and Start were both up in this visit to the menu.
THEOREM BootNeedsRelease == Spec => NoInstantBoot
  <1>1. Inv /\ [Next]_vars => [pc = "loop" /\ pc' = "boot" => seen_up]_vars
    <2> SUFFICES ASSUME Inv, [Next]_vars, pc = "loop", pc' = "boot"
                 PROVE  seen_up
      OBVIOUS
    <2>1. MenuPass
      <3>1. ~UNCHANGED vars
        BY DEF vars
      <3> QED BY <3>1 DEF Next, Input, GamePadStatusHandler, KeyboardStatusHandlerRaw,
           Core0, LoadROM, EnterGame, ClearEscape, RunFrame, CheckEscape, CheckSave, CheckLoad
    <2>2. in_menu /\ (pad1 \cap BootButtons = {} \/ (start_released /\ ~just_entered_menu))
      BY <2>1 DEF MenuPass
    <2> QED BY <2>2 DEF Inv, ReleaseSeen
  <1> QED BY <1>1, InvCorrect, PTL DEF Spec, NoInstantBoot
==============================================================================
