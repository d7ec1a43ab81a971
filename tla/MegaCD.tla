------------------------------- MODULE MegaCD --------------------------------
(****************************************************************************)
(* The gate array of the Mega CD as PicoDrive emulates it                   *)
(* (picodrive/pico/cd/memory.c, mcd.c): the memory mode register through    *)
(* which the main and the sub CPU hand the word RAM to each other, the maps *)
(* that follow it, the bus request, and the detection that stops a CPU      *)
(* which only polls a register until the other one changes it.              *)
(*                                                                          *)
(* The emulator runs the main CPU, and the sub CPU inside pcd_sync_s68k:    *)
(* when the main CPU touches the gate array, and while it is itself stopped *)
(* by the poll detection.  What the two programs do is left open: any       *)
(* access at any time.  A slice of either CPU may end after any access.     *)
(*                                                                          *)
(* Left out: the values of register 2 and of the communication registers (a *)
(* write changes them or does nothing), the write modes of the 1M decoder, the CDC, the   *)
(* graphics chip and the PCM.  The cycle counts of the poll detection are   *)
(* the choice `counts': whether a read follows the last one closely enough. *)
(****************************************************************************)
EXTENDS Integers

CONSTANTS LIMIT,    \* POLL_LIMIT, 16 in the code
          Bank,     \* banks of the PRG RAM, 4 in the code
          Bank0,    \* the one selected at power on
          NoWrite   \* no write of register 3 is in progress

Pair == {"r2", "comm"}                     \* polled register pairs: 2/3, and 0e..2f
Bits == [ret : {0, 1}, dmna : {0, 1}]
Reg3 == [ret : {0, 1}, dmna : {0, 1}, mode : {"1M", "2M"}, bank : Bank]
WordMap == [ret : {0, 1}, mode : {"1M", "2M"}]

ASSUME MegaCDAssumption == /\ LIMIT \in Nat
                           /\ Bank0 \in Bank
                           /\ NoWrite \notin Reg3

VARIABLES
  r3,      \* s68k_regs[3]
  tracked, \* dmna_ret_2m, the 2M bits kept in either mode
  pend,    \* d of the main CPU's write of register 3, while the sub CPU catches up
  wmap,    \* what remap_word_ram mapped last; ret 1 in 2M: the main CPU has the RAM
  layout,  \* how the data of the word RAM is laid out
  prg,     \* the PRG RAM bank mapped to the main CPU, if any
  busreq,  \* busreq: 1 when the sub CPU runs
  rst,     \* PCD_ST_S68K_RST
  pollM,   \* PCD_ST_M68K_POLL, m68k_poll_a and m68k_poll_cnt
  pollS,   \* the same of the sub CPU
  sleep,   \* PCD_ST_S68K_SLEEP
  main,    \* "run", "last" access of a slice, "over", or "poll": only the sub runs
  sub,     \* in pcd_sync_s68k: "run", "last" access of a slice; "wait" outside
  newsM,   \* history: the sub CPU changed the pair since the main CPU read it
  newsS,   \* history: the main CPU changed the pair since the sub CPU read it
  raced    \* history: the sub CPU wrote register 3 while pend was on its way

registers == <<r3, tracked, pend>>
maps == <<wmap, layout, prg, busreq, rst>>
polls == <<pollM, pollS, sleep>>
history == <<newsM, newsS, raced>>
vars == <<registers, maps, polls, main, sub, history>>

------------------------------------------------------------------------------
(* Helpers                                                                   *)

MapOf(r) == [ret |-> r.ret, mode |-> r.mode]
OfMain(m) == m = [ret |-> 1, mode |-> "2M"]
PrgMap(b, bank) == IF b = 1 THEN {} ELSE {bank}      \* remap_prg_window

\* (bug) only a change of owner is looked for, not one of the mode.
RemapOwner(new) ==
  IF new.ret # r3.ret
  THEN /\ wmap' = MapOf(new)
       /\ sleep' = (sleep /\ OfMain(MapOf(new)))
  ELSE UNCHANGED <<wmap, sleep>>

\* remap_word_ram, called when one of the low bits of register 3 changes.
Remap(new) ==
  IF [new EXCEPT !.bank = r3.bank] # r3
  THEN /\ wmap' = MapOf(new)
       /\ sleep' = (sleep /\ OfMain(MapOf(new)))
  ELSE UNCHANGED <<wmap, sleep>>

Awake(p) == [p EXCEPT !.flag = FALSE, !.cnt = 0]
\* A register pair has changed: whoever polls it goes on.
Wake(p, a) == IF p.a = a THEN Awake(p) ELSE p
\* (bug) stops one read too late.
CountedLate(p, limit) == [p EXCEPT !.flag = (p.cnt = limit), !.cnt = @ + 1]

\* A counted read, with the limit at which the CPU is stopped; the count is
\* cut off there, where the code compares it.
Counted(p, limit) ==
  IF p.cnt + 1 < limit THEN [p EXCEPT !.flag = FALSE, !.cnt = p.cnt + 1]
                       ELSE [p EXCEPT !.flag = TRUE, !.cnt = limit]

\* A read that is not counted, of this pair from now on.
FirstRead(p, a) == [flag |-> p.flag, a |-> a, cnt |-> 0]

SubStopped == pollS.flag \/ sleep

\* The main CPU is at an access; in the last one of a slice no other follows.
MainTurn == main \in {"run", "last"} /\ sub = "wait" /\ pend = NoWrite
MainRan == main' = IF main = "last" THEN "over" ELSE "run"
SubTurn == sub # "wait"
SubRan == sub' = IF sub = "last" THEN "wait" ELSE "run"
\* SekEndRunS68k(8): only an access under way already may follow.
SubYields == sub' = IF sub = "last" THEN "wait" ELSE "last"

------------------------------------------------------------------------------
(* The main CPU                                                              *)

\* m68k_reg_write8, register 3, up to pcd_sync_s68k: the bits the write makes,
\* the maps, and d on its way to the register unless it changes nothing.
TrackedByMain(dmna) == IF dmna = 1 THEN [ret |-> 0, dmna |-> 1] ELSE tracked

WrittenByMain(dmna, bank) ==
  IF r3.mode = "1M"
  THEN [r3 EXCEPT !.dmna = IF dmna = 0 THEN 1 ELSE @, !.bank = bank]
  ELSE [r3 EXCEPT !.dmna = TrackedByMain(dmna).dmna, !.ret = TrackedByMain(dmna).ret,
                  !.bank = bank]

MainWrite3(dmna, bank) ==
  LET new == WrittenByMain(dmna, bank)
  IN /\ MainTurn
     /\ pollM' = Awake(pollM)
     /\ tracked' = TrackedByMain(dmna)
     /\ prg' = IF bank # r3.bank THEN PrgMap(busreq, bank) ELSE prg
     /\ Remap(new)
     /\ IF new = r3 THEN pend' = pend /\ MainRan
                    ELSE pend' = new /\ UNCHANGED main
     /\ UNCHANGED <<r3, layout, busreq, rst, pollS, sub, history>>

\* (bug) the sub CPU is woken before it has caught up, not after.
MainStore3NoWake ==
  /\ pend # NoWrite /\ sub = "wait"
  /\ r3' = pend
  /\ pend' = NoWrite
  /\ newsS' = (newsS \/ pollS.a = "r2")
  /\ MainRan
  /\ UNCHANGED <<tracked, maps, polls, sub, newsM, raced>>

\* The end of the write, when the sub CPU has caught up.
MainStore3 ==
  /\ pend # NoWrite /\ sub = "wait"
  /\ r3' = pend
  /\ pend' = NoWrite
  /\ pollS' = Wake(pollS, "r2")
  /\ newsS' = (newsS \/ pollS.a = "r2")
  /\ MainRan
  /\ UNCHANGED <<tracked, maps, pollM, sleep, sub, newsM, raced>>

\* m68k_comm_check, in the read of a polled register.
MainRead(a, counts) ==
  /\ MainTurn
  /\ pollM' = IF counts /\ a = pollM.a THEN Counted(pollM, LIMIT)
              ELSE FirstRead(pollM, a)
  /\ newsM' = FALSE
  /\ main' = IF main = "last" THEN "over" ELSE IF pollM'.flag THEN "last" ELSE "run"
  /\ UNCHANGED <<registers, maps, pollS, sleep, sub, newsS, raced>>

\* m68k_reg_write8, a communication register, or register 2 (the write
\* protection of the PRG RAM), which is polled together with register 3.
MainWriteComm(a) ==
  /\ MainTurn
  /\ pollM' = Awake(pollM)
  /\ pollS' = Wake(pollS, a)
  /\ newsS' = (newsS \/ pollS.a = a)
  /\ MainRan
  /\ UNCHANGED <<registers, maps, sleep, sub, newsM, raced>>

\* m68k_reg_write8, register 1: bus request and reset of the sub CPU.
MainBusreq(d) ==
  /\ MainTurn
  /\ pollM' = Awake(pollM)
  /\ busreq' = d
  /\ IF d = busreq
     THEN UNCHANGED <<rst, pollS, sleep, prg>>
     ELSE /\ rst' = IF d \in {0, 2} THEN TRUE ELSE IF d = 1 THEN FALSE ELSE rst
          /\ IF d = 1 /\ rst
             THEN pollS' = [pollS EXCEPT !.flag = FALSE] /\ sleep' = FALSE
             ELSE UNCHANGED <<pollS, sleep>>
          /\ prg' = IF (busreq = 1) # (d = 1) THEN PrgMap(d, r3.bank) ELSE prg
  /\ MainRan
  /\ UNCHANGED <<registers, wmap, layout, sub, history>>

\* m68k_reg_write8, register 0 and the others: an interrupt for the sub CPU, or
\* nothing that is modelled.
MainWriteOther(irq) ==
  /\ MainTurn
  /\ pollM' = Awake(pollM)
  /\ pollS' = IF irq THEN Awake(pollS) ELSE pollS
  /\ MainRan
  /\ UNCHANGED <<registers, maps, sleep, sub, history>>

\* The cycles of SekSyncM68k are used up.
MainSliceOver ==
  /\ MainTurn
  /\ main' = "over"
  /\ UNCHANGED <<registers, maps, polls, sub, history>>

------------------------------------------------------------------------------
(* The sub CPU                                                               *)

\* pcd_sync_s68k: a slice of the sub CPU, and an event that interrupts it.
SubRun ==
  /\ sub = "wait" /\ busreq = 1 /\ ~SubStopped
  /\ sub' = "run"
  /\ UNCHANGED <<registers, maps, polls, main, history>>

SubSliceOver ==
  /\ SubTurn
  /\ sub' = "wait"
  /\ UNCHANGED <<registers, maps, polls, main, history>>

Event ==
  /\ sub = "wait"
  /\ pollS' = Awake(pollS)
  /\ UNCHANGED <<registers, maps, pollM, sleep, main, sub, history>>

\* (bug) a RET of 0 is tracked as well.
TrackedBySubAlways(ret) == [ret |-> ret, dmna |-> IF ret = 1 THEN 0 ELSE tracked.dmna]

\* s68k_reg_write8, register 3; s68k_reg_write16 stops polling first.
TrackedBySub(ret) == IF ret = 1 THEN [ret |-> 1, dmna |-> 0] ELSE tracked

WrittenBySub(ret, mode) ==
  IF mode = "1M"
  THEN [r3 EXCEPT !.dmna = IF ret # r3.ret \/ r3.mode = "2M" THEN 0 ELSE @,
                  !.ret = ret, !.mode = mode]
  ELSE [r3 EXCEPT !.dmna = TrackedBySub(ret).dmna, !.ret = TrackedBySub(ret).ret,
                  !.mode = mode]

SubWrite3(ret, mode, word) ==
  LET new == WrittenBySub(ret, mode)
      wakes == new # r3 /\ pollM.a = "r2"
  IN /\ SubTurn
     /\ pollS' = IF word THEN Awake(pollS) ELSE pollS
     /\ tracked' = TrackedBySub(ret)
     /\ layout' = IF mode # r3.mode THEN mode ELSE layout
     /\ Remap(new)
     /\ r3' = new
     /\ pollM' = IF wakes THEN Awake(pollM) ELSE pollM
     /\ newsM' = (newsM \/ wakes)
     /\ IF wakes THEN SubYields ELSE SubRan
     /\ raced' = (raced \/ (pend # NoWrite /\ <<new, tracked'>> # <<r3, tracked>>))
     /\ UNCHANGED <<pend, prg, busreq, rst, main, newsS>>

\* s68k_poll_detect, in the read of a polled register.
SubRead(a, counts) ==
  /\ SubTurn
  /\ pollS' = IF SubStopped THEN pollS
              ELSE IF counts /\ a = pollS.a THEN Counted(pollS, LIMIT + 1)
              ELSE FirstRead(pollS, a)
  /\ newsS' = (newsS /\ pollS'.a # a)
  /\ IF pollS'.flag THEN SubYields ELSE SubRan
  /\ UNCHANGED <<registers, maps, pollM, sleep, main, newsM, raced>>

\* s68k_reg_write8 and s68k_reg_write16, a communication register.
SubWriteComm(word) ==
  /\ SubTurn
  /\ pollS' = IF word THEN Awake(pollS) ELSE pollS
  /\ pollM' = Wake(pollM, "comm")
  /\ newsM' = (newsM \/ pollM.a = "comm")
  /\ IF pollM.a = "comm" THEN SubYields ELSE SubRan
  /\ UNCHANGED <<registers, maps, sleep, main, newsS, raced>>

\* s68k_wordram_main_*: an access to the word RAM the main CPU has.
SubBlocks ==
  /\ SubTurn
  /\ OfMain(wmap)
  /\ sleep' = TRUE
  /\ sub' = "wait"
  /\ UNCHANGED <<registers, maps, pollM, pollS, main, history>>

------------------------------------------------------------------------------
(* The loop of pcd_run_cpus                                                  *)

AtHead == main = "over" /\ sub = "wait" /\ pend = NoWrite

MainInterrupt ==
  /\ AtHead
  /\ pollM' = Awake(pollM)
  /\ UNCHANGED <<registers, maps, pollS, sleep, main, sub, history>>

LoopHead ==
  /\ AtHead
  /\ IF pollM.flag
     THEN /\ main' = "poll"
          /\ pollS' = IF SubStopped THEN Awake(pollS) ELSE pollS
          /\ sleep' = FALSE
     ELSE main' = "run" /\ UNCHANGED <<pollS, sleep>>
  /\ UNCHANGED <<registers, maps, pollM, sub, history>>

\* (bug) a sub CPU that polls is not taken for one that has stopped.
PollOverIfAsleep ==
  /\ main = "poll" /\ sub = "wait"
  /\ main' = "over"
  /\ pollM' = IF sleep THEN Awake(pollM) ELSE pollM
  /\ UNCHANGED <<registers, maps, pollS, sleep, sub, history>>

\* The slice of the sub CPU alone is over; if it has stopped, the main CPU is
\* woken to avoid a lockup.
PollOver ==
  /\ main = "poll" /\ sub = "wait"
  /\ main' = "over"
  /\ pollM' = IF SubStopped THEN Awake(pollM) ELSE pollM
  /\ UNCHANGED <<registers, maps, pollS, sleep, sub, history>>

------------------------------------------------------------------------------

\* PicoPowerMCD: cleared memory, and the word RAM given to the main CPU.
NotPolling == [flag |-> FALSE, a |-> "none", cnt |-> 0]

Init ==
  /\ r3 = [ret |-> 1, dmna |-> 0, mode |-> "2M", bank |-> Bank0]
  /\ tracked = [ret |-> 0, dmna |-> 0]
  /\ pend = NoWrite
  /\ wmap = MapOf(r3)
  /\ layout = "2M"
  /\ prg = {Bank0}
  /\ busreq = 2
  /\ rst = TRUE
  /\ pollM = NotPolling
  /\ pollS = NotPolling
  /\ sleep = FALSE
  /\ main = "over"
  /\ sub = "wait"
  /\ newsM = FALSE
  /\ newsS = FALSE
  /\ raced = FALSE

MainNext ==
  \/ \E dmna \in {0, 1}, bank \in Bank : MainWrite3(dmna, bank)
  \/ MainStore3
  \/ \E a \in Pair, counts \in BOOLEAN : MainRead(a, counts)
  \/ \E a \in Pair : MainWriteComm(a)
  \/ \E d \in 0..3 : MainBusreq(d)
  \/ \E irq \in BOOLEAN : MainWriteOther(irq)
  \/ MainSliceOver

SubNext ==
  \/ SubRun
  \/ SubSliceOver
  \/ \E ret \in {0, 1}, mode \in {"1M", "2M"}, word \in BOOLEAN : SubWrite3(ret, mode, word)
  \/ \E a \in Pair, counts \in BOOLEAN : SubRead(a, counts)
  \/ \E word \in BOOLEAN : SubWriteComm(word)
  \/ SubBlocks

Next == MainNext \/ SubNext \/ Event \/ MainInterrupt \/ LoopHead \/ PollOver

Spec == Init /\ [][Next]_vars

\* Slices are bounded by cycle counts, and the loop goes on.
Fairness == WF_vars(LoopHead) /\ WF_vars(PollOver) /\ WF_vars(SubSliceOver)
LiveSpec == Spec /\ Fairness

------------------------------------------------------------------------------
(* Properties                                                                *)

Poll(limit) == [flag : BOOLEAN, a : Pair \cup {"none"}, cnt : 0..limit]

TypeOK ==
  /\ r3 \in Reg3
  /\ tracked \in Bits
  /\ pend \in Reg3 \cup {NoWrite}
  /\ wmap \in WordMap
  /\ layout \in {"1M", "2M"}
  /\ prg \in SUBSET Bank
  /\ busreq \in 0..3
  /\ rst \in BOOLEAN
  /\ pollM \in Poll(LIMIT)
  /\ pollS \in Poll(LIMIT + 1)
  /\ sleep \in BOOLEAN
  /\ main \in {"run", "last", "over", "poll"}
  /\ sub \in {"wait", "run", "last"}
  /\ newsM \in BOOLEAN
  /\ newsS \in BOOLEAN
  /\ raced \in BOOLEAN

\* What the CPUs see is what register 3 says: the word RAM map, the layout of
\* its data and the PRG RAM window, also while a write of the main CPU is on
\* its way and whatever mode and bus changes came between; unless the sub CPU
\* has written register 3 during such a write.
MapFollowsRegister ==
  LET r == IF pend = NoWrite THEN r3 ELSE pend
  IN /\ prg = PrgMap(busreq, r.bank)
     /\ ~raced => wmap = MapOf(r) /\ layout = r.mode

\* A CPU that the poll detection has stopped has seen the last value of what
\* it polls, and a sub CPU that is blocked still has to wait for the word RAM:
\* no change comes between the read and the stop unnoticed.
NoLostWakeup ==
  /\ pollM.flag => ~newsM
  /\ pollS.flag => ~newsS
  /\ sleep => OfMain(wmap)

\* In 2M mode a CPU loses the word RAM only by its own write: while the main
\* CPU has it no step of the sub CPU takes it, and the other way round, also
\* after a visit to the 1M mode.  (The bits tracked at power on, before either
\* CPU has handed over anything, are not the ones of the register.)
Owner(r) == IF OfMain(MapOf(r)) THEN "main" ELSE "sub"
OwnerHandsOver ==
  [][ /\ ~raced' /\ r3.mode = "2M" /\ r3'.mode = "2M"
      /\ tracked # [ret |-> 0, dmna |-> 0]
      => /\ Owner(r3) = "main" /\ Owner(r3') = "sub" => sub = "wait"
         /\ Owner(r3) = "sub" /\ Owner(r3') = "main" => sub # "wait" ]_vars

\* The two CPUs do not stop waiting for each other: if the sub CPU stops again
\* and again while the main CPU is stopped, the main CPU goes on again and
\* again, or else events keep waking the sub CPU.
NeitherWaitsForever ==
  []<>(main = "poll" /\ sub = "wait" /\ SubStopped)
    => ([]<>(~pollM.flag) \/ []<><<Event>>_vars)

\* "2M mode state is tracked regardless of current mode" (memory.c:221): what
\* a write of the main CPU leaves in register 3 in 2M mode is the state
\* tracked by then.
ReturnIsKept ==
  [][pend # NoWrite /\ pend' = NoWrite /\ r3'.mode = "2M"
       => [ret |-> r3'.ret, dmna |-> r3'.dmna] = tracked]_vars
==============================================================================
