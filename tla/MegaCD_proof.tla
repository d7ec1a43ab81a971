---------------------------- MODULE MegaCD_proof -----------------------------
(****************************************************************************)
(* Proofs about the gate array of the Mega CD, for any limit of the poll    *)
(* detection and any PRG RAM banks.                                         *)
(****************************************************************************)
EXTENDS MegaCD, TLAPS

------------------------------------------------------------------------------
(* Helpers                                                                   *)

LEMMA PollCleared ==
  ASSUME NEW limit \in Nat, NEW p \in Poll(limit), NEW c \in 0..limit
  PROVE  /\ [p EXCEPT !.flag = FALSE, !.cnt = c] \in Poll(limit)
         /\ [p EXCEPT !.flag = FALSE, !.cnt = c].flag = FALSE
         /\ [p EXCEPT !.flag = FALSE, !.cnt = c].a = p.a
<1>1. [p EXCEPT !.flag = FALSE, !.cnt = c] \in Poll(limit)
  BY Zenon DEF Poll
<1>2. [p EXCEPT !.flag = FALSE, !.cnt = c].flag = FALSE
  BY Zenon DEF Poll
<1>3. [p EXCEPT !.flag = FALSE, !.cnt = c].a = p.a
  BY Zenon DEF Poll
<1> QED
  BY <1>1, <1>2, <1>3

LEMMA PollSet ==
  ASSUME NEW limit \in Nat, NEW p \in Poll(limit), NEW c \in 0..limit
  PROVE  /\ [p EXCEPT !.flag = TRUE, !.cnt = c] \in Poll(limit)
         /\ [p EXCEPT !.flag = TRUE, !.cnt = c].flag = TRUE
         /\ [p EXCEPT !.flag = TRUE, !.cnt = c].a = p.a
<1>1. [p EXCEPT !.flag = TRUE, !.cnt = c] \in Poll(limit)
  BY Zenon DEF Poll
<1>2. [p EXCEPT !.flag = TRUE, !.cnt = c].flag = TRUE
  BY Zenon DEF Poll
<1>3. [p EXCEPT !.flag = TRUE, !.cnt = c].a = p.a
  BY Zenon DEF Poll
<1> QED
  BY <1>1, <1>2, <1>3

LEMMA AwakeType ==
  ASSUME NEW limit \in Nat, NEW p \in Poll(limit)
  PROVE  /\ Awake(p) \in Poll(limit)
         /\ Awake(p).flag = FALSE
         /\ Awake(p).a = p.a
<1>1. 0 \in 0..limit
  OBVIOUS
<1> QED
  BY <1>1, PollCleared, Zenon DEF Awake

LEMMA WakeType ==
  ASSUME NEW limit \in Nat, NEW p \in Poll(limit), NEW a \in Pair
  PROVE  /\ Wake(p, a) \in Poll(limit)
         /\ Wake(p, a).flag => p.flag /\ p.a # a
         /\ Wake(p, a).a = p.a
<1>1. CASE p.a = a
  BY <1>1, AwakeType, Zenon DEF Wake
<1>2. CASE p.a # a
  BY <1>2, Zenon DEF Wake
<1> QED
  BY <1>1, <1>2

LEMMA CountedType ==
  ASSUME NEW limit \in Nat, NEW p \in Poll(limit)
  PROVE  /\ Counted(p, limit) \in Poll(limit)
         /\ Counted(p, limit).a = p.a
<1>1. p.cnt + 1 < limit => p.cnt + 1 \in 0..limit
  BY DEF Poll
<1>2. limit \in 0..limit
  OBVIOUS
<1>3. CASE p.cnt + 1 < limit
  <2>1. Counted(p, limit) = [p EXCEPT !.flag = FALSE, !.cnt = p.cnt + 1]
    BY <1>3, Zenon DEF Counted
  <2> DEFINE cnt == p.cnt + 1
  <2>2. cnt \in 0..limit
    BY <1>1, <1>3
  <2> HIDE DEF cnt
  <2>3. /\ [p EXCEPT !.flag = FALSE, !.cnt = cnt] \in Poll(limit)
        /\ [p EXCEPT !.flag = FALSE, !.cnt = cnt].a = p.a
    BY <2>2, PollCleared, Zenon
  <2> QED
    BY <2>1, <2>3, Zenon DEF cnt
<1>4. CASE ~(p.cnt + 1 < limit)
  <2>1. Counted(p, limit) = [p EXCEPT !.flag = TRUE, !.cnt = limit]
    BY <1>4, Zenon DEF Counted
  <2>2. /\ [p EXCEPT !.flag = TRUE, !.cnt = limit] \in Poll(limit)
        /\ [p EXCEPT !.flag = TRUE, !.cnt = limit].a = p.a
    BY <1>2, PollSet, Zenon
  <2> QED
    BY <2>1, <2>2, Zenon
<1> QED
  BY <1>3, <1>4

LEMMA FirstReadType ==
  ASSUME NEW limit \in Nat, NEW p \in Poll(limit), NEW a \in Pair
  PROVE  /\ FirstRead(p, a) \in Poll(limit)
         /\ FirstRead(p, a).flag = p.flag
         /\ FirstRead(p, a).a = a
<1>1. ASSUME NEW f \in BOOLEAN
      PROVE  /\ [flag |-> f, a |-> a, cnt |-> 0] \in Poll(limit)
             /\ [flag |-> f, a |-> a, cnt |-> 0].flag = f
             /\ [flag |-> f, a |-> a, cnt |-> 0].a = a
  BY DEF Poll
<1>2. p.flag \in BOOLEAN
  BY DEF Poll
<1> QED
  BY <1>1, <1>2, Zenon DEF FirstRead

LEMMA Limits == LIMIT \in Nat /\ LIMIT + 1 \in Nat
BY MegaCDAssumption

LEMMA WrittenTypes ==
  ASSUME r3 \in Reg3, tracked \in Bits
  PROVE  /\ \A dmna \in {0, 1} : TrackedByMain(dmna) \in Bits
         /\ \A ret \in {0, 1} : TrackedBySub(ret) \in Bits
         /\ \A dmna \in {0, 1}, bank \in Bank : WrittenByMain(dmna, bank) \in Reg3
         /\ \A ret \in {0, 1}, mode \in {"1M", "2M"} : WrittenBySub(ret, mode) \in Reg3
<1>1. \A dmna \in {0, 1} : TrackedByMain(dmna) \in Bits
  BY DEF TrackedByMain, Bits
<1>2. \A ret \in {0, 1} : TrackedBySub(ret) \in Bits
  BY DEF TrackedBySub, Bits
<1>3. ASSUME NEW dmna \in {0, 1}, NEW bank \in Bank
      PROVE  WrittenByMain(dmna, bank) \in Reg3
  BY <1>1 DEF WrittenByMain, Bits, Reg3
<1>4. ASSUME NEW ret \in {0, 1}, NEW mode \in {"1M", "2M"}
      PROVE  WrittenBySub(ret, mode) \in Reg3
  BY <1>2 DEF WrittenBySub, Bits, Reg3
<1> QED
  BY <1>1, <1>2, <1>3, <1>4

\* What remap_word_ram leaves: the map of the new value, and a blocked sub CPU
\* only where the main CPU has the RAM.
LEMMA RemapEffect ==
  ASSUME r3 \in Reg3, NEW new \in Reg3, wmap \in WordMap, sleep \in BOOLEAN, Remap(new)
  PROVE  /\ wmap' \in WordMap
         /\ sleep' \in BOOLEAN
         /\ wmap = MapOf(r3) => wmap' = MapOf(new)
         /\ (sleep => OfMain(wmap)) => (sleep' => OfMain(wmap'))
         /\ new = r3 => wmap' = wmap
<1>1. MapOf(new) \in WordMap
  BY DEF MapOf, Reg3, WordMap
<1>2. CASE [new EXCEPT !.bank = r3.bank] # r3
  <2>1. wmap' = MapOf(new) /\ sleep' = (sleep /\ OfMain(MapOf(new)))
    BY <1>2 DEF Remap
  <2>2. new # r3
    BY <1>2 DEF Reg3
  <2>3. (sleep /\ OfMain(MapOf(new))) \in BOOLEAN
    BY DEF OfMain
  <2> QED
    BY <1>1, <2>1, <2>2, <2>3
<1>3. CASE [new EXCEPT !.bank = r3.bank] = r3
  <2>1. wmap' = wmap /\ sleep' = sleep
    BY <1>3 DEF Remap
  <2>2. new.ret = r3.ret /\ new.mode = r3.mode
    BY <1>3 DEF Reg3
  <2> QED
    BY <2>1, <2>2 DEF MapOf
<1> QED
  BY <1>2, <1>3

------------------------------------------------------------------------------
(* Types                                                                     *)

LEMMA InitTypeOK == Init => TypeOK
<1> SUFFICES ASSUME Init PROVE TypeOK
  OBVIOUS
<1>1. r3 \in Reg3 /\ MapOf(r3) \in WordMap
  BY MegaCDAssumption DEF Init, Reg3, MapOf, WordMap
<1>2. NotPolling \in Poll(LIMIT) /\ NotPolling \in Poll(LIMIT + 1)
  BY Limits DEF NotPolling, Poll
<1>3. tracked \in Bits /\ prg \in SUBSET Bank
  BY MegaCDAssumption DEF Init, Bits
<1>4. pend \in Reg3 \cup {NoWrite} /\ wmap \in WordMap
  BY <1>1 DEF Init
<1>5. pollM \in Poll(LIMIT) /\ pollS \in Poll(LIMIT + 1)
  BY <1>2 DEF Init
<1>6. /\ layout \in {"1M", "2M"} /\ busreq \in 0..3
      /\ main \in {"run", "last", "over", "poll"} /\ sub \in {"wait", "run", "last"}
  BY DEF Init
<1>7. /\ rst \in BOOLEAN /\ sleep \in BOOLEAN
      /\ newsM \in BOOLEAN /\ newsS \in BOOLEAN /\ raced \in BOOLEAN
  BY Zenon DEF Init
<1> QED
  BY <1>1, <1>3, <1>4, <1>5, <1>6, <1>7 DEF TypeOK

LEMMA StepTypeOK == TypeOK /\ [Next]_vars => TypeOK'
<1> SUFFICES ASSUME TypeOK, [Next]_vars PROVE TypeOK'
  OBVIOUS
<1> USE Limits
<1>p. /\ Awake(pollM) \in Poll(LIMIT)
      /\ Awake(pollS) \in Poll(LIMIT + 1)
      /\ \A a \in Pair : Wake(pollM, a) \in Poll(LIMIT) /\ Wake(pollS, a) \in Poll(LIMIT + 1)
  <2>1. pollM \in Poll(LIMIT) /\ pollS \in Poll(LIMIT + 1)
    BY DEF TypeOK
  <2> QED
    BY <2>1, AwakeType, WakeType
<1>1. ASSUME NEW dmna \in {0, 1}, NEW bank \in Bank, MainWrite3(dmna, bank) PROVE TypeOK'
  <2> DEFINE new == WrittenByMain(dmna, bank)
  <2>1. new \in Reg3 /\ TrackedByMain(dmna) \in Bits
    BY WrittenTypes DEF TypeOK
  <2>2. Remap(new)
    BY <1>1 DEF MainWrite3
  <2>3. wmap' \in WordMap /\ sleep' \in BOOLEAN
    BY <2>1, <2>2, RemapEffect DEF TypeOK
  <2>4. tracked' \in Bits /\ pollM' \in Poll(LIMIT)
    BY <1>1, <2>1, <1>p DEF MainWrite3
  <2>5. prg' \in SUBSET Bank
    BY <1>1 DEF MainWrite3, PrgMap, TypeOK
  <2>6. pend' \in Reg3 \cup {NoWrite} /\ main' \in {"run", "last", "over", "poll"}
    BY <1>1, <2>1 DEF MainWrite3, MainRan, TypeOK
  <2>7. UNCHANGED <<r3, layout, busreq, rst, pollS, sub, history>>
    BY <1>1 DEF MainWrite3
  <2> QED
    BY <2>3, <2>4, <2>5, <2>6, <2>7 DEF TypeOK, history
<1>2. CASE MainStore3
  <2>1. r3' \in Reg3 /\ pend' = NoWrite
    BY <1>2 DEF MainStore3, TypeOK
  <2>2. pollS' \in Poll(LIMIT + 1)
    BY <1>2, <1>p DEF MainStore3, Pair
  <2>3. newsS' \in BOOLEAN /\ main' \in {"run", "last", "over", "poll"}
    BY <1>2 DEF MainStore3, MainRan, TypeOK
  <2>4. UNCHANGED <<tracked, maps, pollM, sleep, sub, newsM, raced>>
    BY <1>2 DEF MainStore3
  <2> QED
    BY <2>1, <2>2, <2>3, <2>4 DEF TypeOK, maps
<1>3. ASSUME NEW a \in Pair, NEW counts \in BOOLEAN, MainRead(a, counts) PROVE TypeOK'
  <2>1. pollM' \in Poll(LIMIT)
    BY <1>3, CountedType, FirstReadType DEF MainRead, TypeOK
  <2>2. newsM' = FALSE /\ main' \in {"run", "last", "over", "poll"}
    BY <1>3 DEF MainRead
  <2>3. UNCHANGED <<registers, maps, pollS, sleep, sub, newsS, raced>>
    BY <1>3 DEF MainRead
  <2> QED
    BY <2>1, <2>2, <2>3 DEF TypeOK, registers, maps
<1>4. ASSUME NEW a \in Pair, MainWriteComm(a) PROVE TypeOK'
  <2>1. pollM' \in Poll(LIMIT) /\ pollS' \in Poll(LIMIT + 1)
    BY <1>4, <1>p DEF MainWriteComm, Pair
  <2>2. newsS' \in BOOLEAN /\ main' \in {"run", "last", "over", "poll"}
    BY <1>4 DEF MainWriteComm, MainRan, TypeOK
  <2>3. UNCHANGED <<registers, maps, sleep, sub, newsM, raced>>
    BY <1>4 DEF MainWriteComm
  <2> QED
    BY <2>1, <2>2, <2>3 DEF TypeOK, registers, maps
<1>5. ASSUME NEW d \in 0..3, MainBusreq(d) PROVE TypeOK'
  <2>1. pollM' \in Poll(LIMIT) /\ busreq' \in 0..3
    BY <1>5, <1>p DEF MainBusreq
  <2>2. rst' \in BOOLEAN /\ sleep' \in BOOLEAN
    BY <1>5 DEF MainBusreq, TypeOK
  <2>3. pollS' \in Poll(LIMIT + 1)
    <3>1. [pollS EXCEPT !.flag = FALSE] \in Poll(LIMIT + 1)
      BY DEF TypeOK, Poll
    <3> QED
      BY <1>5, <3>1 DEF MainBusreq, TypeOK
  <2>4. prg' \in SUBSET Bank
    <3>1. r3.bank \in Bank /\ prg \in SUBSET Bank
      BY DEF TypeOK, Reg3
    <3>2. PrgMap(d, r3.bank) \in SUBSET Bank
      BY <3>1 DEF PrgMap
    <3> QED
      BY <1>5, <3>1, <3>2 DEF MainBusreq
  <2>5. main' \in {"run", "last", "over", "poll"}
    BY <1>5 DEF MainBusreq, MainRan
  <2>6. UNCHANGED <<registers, wmap, layout, sub, history>>
    BY <1>5 DEF MainBusreq
  <2> QED
    BY <2>1, <2>2, <2>3, <2>4, <2>5, <2>6 DEF TypeOK, registers, history
<1>6. ASSUME NEW irq \in BOOLEAN, MainWriteOther(irq) PROVE TypeOK'
  <2>1. pollM' \in Poll(LIMIT) /\ pollS' \in Poll(LIMIT + 1)
    BY <1>6, <1>p DEF MainWriteOther, TypeOK
  <2>2. main' \in {"run", "last", "over", "poll"}
    BY <1>6 DEF MainWriteOther, MainRan
  <2>3. UNCHANGED <<registers, maps, sleep, sub, history>>
    BY <1>6 DEF MainWriteOther
  <2> QED
    BY <2>1, <2>2, <2>3 DEF TypeOK, registers, maps, history
<1>7. ASSUME NEW ret \in {0, 1}, NEW mode \in {"1M", "2M"}, NEW word \in BOOLEAN,
             SubWrite3(ret, mode, word)
      PROVE  TypeOK'
  <2> DEFINE new == WrittenBySub(ret, mode)
  <2>1. new \in Reg3 /\ TrackedBySub(ret) \in Bits
    BY WrittenTypes DEF TypeOK
  <2>2. Remap(new)
    BY <1>7 DEF SubWrite3
  <2>3. wmap' \in WordMap /\ sleep' \in BOOLEAN
    BY <2>1, <2>2, RemapEffect DEF TypeOK
  <2>4. pollS' \in Poll(LIMIT + 1) /\ pollM' \in Poll(LIMIT)
    BY <1>7, <1>p DEF SubWrite3, TypeOK
  <2>5. tracked' \in Bits /\ r3' \in Reg3 /\ layout' \in {"1M", "2M"}
    BY <1>7, <2>1 DEF SubWrite3, TypeOK
  <2>6. newsM' \in BOOLEAN /\ raced' \in BOOLEAN
    <3>1. (newsM \/ (new # r3 /\ pollM.a = "r2")) \in BOOLEAN
      OBVIOUS
    <3>2. (raced \/ (pend # NoWrite /\ <<new, tracked'>> # <<r3, tracked>>)) \in BOOLEAN
      OBVIOUS
    <3> QED
      BY <1>7, <3>1, <3>2 DEF SubWrite3
  <2>7. sub' \in {"wait", "run", "last"}
    BY <1>7 DEF SubWrite3, SubYields, SubRan
  <2>8. UNCHANGED <<pend, prg, busreq, rst, main, newsS>>
    BY <1>7 DEF SubWrite3
  <2> QED
    BY <2>3, <2>4, <2>5, <2>6, <2>7, <2>8 DEF TypeOK
<1>8. ASSUME NEW a \in Pair, NEW counts \in BOOLEAN, SubRead(a, counts) PROVE TypeOK'
  <2>1. pollS' \in Poll(LIMIT + 1)
    BY <1>8, CountedType, FirstReadType DEF SubRead, TypeOK
  <2>2. newsS' \in BOOLEAN
    <3>1. (newsS /\ pollS'.a # a) \in BOOLEAN
      OBVIOUS
    <3> QED
      BY <1>8, <3>1 DEF SubRead
  <2>3. sub' \in {"wait", "run", "last"}
    BY <1>8 DEF SubRead, SubYields, SubRan
  <2>4. UNCHANGED <<registers, maps, pollM, sleep, main, newsM, raced>>
    BY <1>8 DEF SubRead
  <2> QED
    BY <2>1, <2>2, <2>3, <2>4 DEF TypeOK, registers, maps
<1>9. ASSUME NEW word \in BOOLEAN, SubWriteComm(word) PROVE TypeOK'
  <2>1. pollM' \in Poll(LIMIT) /\ pollS' \in Poll(LIMIT + 1)
    BY <1>9, <1>p DEF SubWriteComm, Pair, TypeOK
  <2>2. newsM' \in BOOLEAN /\ sub' \in {"wait", "run", "last"}
    BY <1>9 DEF SubWriteComm, SubYields, SubRan, TypeOK
  <2>3. UNCHANGED <<registers, maps, sleep, main, newsS, raced>>
    BY <1>9 DEF SubWriteComm
  <2> QED
    BY <2>1, <2>2, <2>3 DEF TypeOK, registers, maps
<1>10. CASE SubBlocks
  BY <1>10 DEF SubBlocks, TypeOK, registers, maps, history
<1>11. CASE MainSliceOver \/ SubRun \/ SubSliceOver
  BY <1>11 DEF MainSliceOver, SubRun, SubSliceOver, TypeOK, registers, maps, polls, history
<1>12. CASE Event \/ MainInterrupt \/ LoopHead \/ PollOver
  <2>1. /\ pollM' \in Poll(LIMIT) /\ pollS' \in Poll(LIMIT + 1)
        /\ main' \in {"run", "last", "over", "poll"}
    BY <1>12, <1>p DEF Event, MainInterrupt, LoopHead, PollOver, TypeOK
  <2>2. sleep' \in BOOLEAN
    BY <1>12 DEF Event, MainInterrupt, LoopHead, PollOver, TypeOK
  <2>3. UNCHANGED <<registers, maps, sub, history>>
    BY <1>12 DEF Event, MainInterrupt, LoopHead, PollOver
  <2> QED
    BY <2>1, <2>2, <2>3 DEF TypeOK, registers, maps, history
<1>13. CASE UNCHANGED vars
  BY <1>13 DEF TypeOK, vars, registers, maps, polls, history
<1> QED
  BY <1>1, <1>2, <1>3, <1>4, <1>5, <1>6, <1>7, <1>8, <1>9, <1>10, <1>11, <1>12, <1>13
  DEF Next, MainNext, SubNext

\* Every field keeps its type, for any limit and any banks.
THEOREM TypeCorrect == Spec => []TypeOK
<1> QED
  BY InitTypeOK, StepTypeOK, PTL DEF Spec

------------------------------------------------------------------------------
(* The maps                                                                  *)

\* The value register 3 has, or is about to have.
Coming == IF pend = NoWrite THEN r3 ELSE pend

LEMMA ComingIsReg3 == TypeOK => Coming \in Reg3
BY DEF TypeOK, Coming

\* Nothing that decides about the maps has changed.
LEMMA MapsKept ==
  ASSUME MapFollowsRegister, UNCHANGED <<r3, pend, wmap, layout, prg, busreq>>, raced => raced'
  PROVE  MapFollowsRegister'
BY DEF MapFollowsRegister

LEMMA WrittenKeeps ==
  ASSUME r3 \in Reg3, tracked \in Bits
  PROVE  /\ \A dmna \in {0, 1}, bank \in Bank :
               /\ WrittenByMain(dmna, bank).bank = bank
               /\ WrittenByMain(dmna, bank).mode = r3.mode
         /\ \A ret \in {0, 1}, mode \in {"1M", "2M"} :
               /\ WrittenBySub(ret, mode).bank = r3.bank
               /\ WrittenBySub(ret, mode).mode = mode
<1>1. ASSUME NEW dmna \in {0, 1}, NEW bank \in Bank
      PROVE  /\ WrittenByMain(dmna, bank).bank = bank
             /\ WrittenByMain(dmna, bank).mode = r3.mode
  BY DEF WrittenByMain, Reg3
<1>2. ASSUME NEW ret \in {0, 1}, NEW mode \in {"1M", "2M"}
      PROVE  /\ WrittenBySub(ret, mode).bank = r3.bank
             /\ WrittenBySub(ret, mode).mode = mode
  BY DEF WrittenBySub, Reg3
<1> QED
  BY <1>1, <1>2

LEMMA InitMap == Init => MapFollowsRegister
<1> SUFFICES ASSUME Init PROVE MapFollowsRegister
  OBVIOUS
<1>1. pend = NoWrite /\ wmap = MapOf(r3) /\ layout = "2M" /\ prg = {Bank0} /\ busreq = 2
  BY DEF Init
<1>2. r3.mode = "2M" /\ r3.bank = Bank0
  BY DEF Init
<1>3. prg = PrgMap(busreq, r3.bank)
  BY <1>1, <1>2 DEF PrgMap
<1> QED
  BY <1>1, <1>2, <1>3 DEF MapFollowsRegister

LEMMA StepMap == TypeOK /\ MapFollowsRegister /\ [Next]_vars => MapFollowsRegister'
<1> SUFFICES ASSUME TypeOK, MapFollowsRegister, [Next]_vars PROVE MapFollowsRegister'
  OBVIOUS
<1>t. r3 \in Reg3 /\ tracked \in Bits /\ wmap \in WordMap /\ sleep \in BOOLEAN
  BY DEF TypeOK
<1>1. ASSUME NEW dmna \in {0, 1}, NEW bank \in Bank, MainWrite3(dmna, bank)
      PROVE  MapFollowsRegister'
  <2> DEFINE new == WrittenByMain(dmna, bank)
  <2>1. pend = NoWrite /\ UNCHANGED <<r3, layout, busreq, raced>>
    BY <1>1 DEF MainWrite3, MainTurn, history
  <2>2. new \in Reg3 /\ new.bank = bank /\ new.mode = r3.mode
    BY <1>t, WrittenTypes, WrittenKeeps
  <2>3. new # NoWrite
    BY <2>2, MegaCDAssumption
  <2>4. IF new = r3 THEN pend' = NoWrite ELSE pend' = new
    BY <1>1, <2>1 DEF MainWrite3
  <2>5. Coming' = new
    BY <2>1, <2>3, <2>4 DEF Coming
  <2>6. /\ prg = PrgMap(busreq, r3.bank)
        /\ ~raced => wmap = MapOf(r3) /\ layout = r3.mode
    BY <2>1 DEF MapFollowsRegister
  <2>7. wmap = MapOf(r3) => wmap' = MapOf(new)
    <3>1. Remap(new)
      BY <1>1 DEF MainWrite3
    <3> QED
      BY <1>t, <2>2, <3>1, RemapEffect
  <2>8. prg' = PrgMap(busreq', new.bank)
    BY <1>1, <2>1, <2>2, <2>6 DEF MainWrite3
  <2>9. ~raced' => wmap' = MapOf(new) /\ layout' = new.mode
    BY <2>1, <2>2, <2>6, <2>7
  <2> HIDE DEF new
  <2> QED
    BY <2>5, <2>8, <2>9 DEF MapFollowsRegister, Coming
<1>2. CASE MainStore3
  <2>1. pend # NoWrite /\ r3' = pend /\ pend' = NoWrite
    BY <1>2 DEF MainStore3
  <2>2. UNCHANGED <<wmap, layout, prg, busreq, raced>>
    BY <1>2 DEF MainStore3, maps
  <2> QED
    BY <2>1, <2>2 DEF MapFollowsRegister
<1>3. ASSUME NEW d \in 0..3, MainBusreq(d) PROVE MapFollowsRegister'
  <2>1. pend = NoWrite /\ busreq' = d /\ UNCHANGED <<r3, pend, wmap, layout, raced>>
    BY <1>3 DEF MainBusreq, MainTurn, registers, history
  <2>2. prg = PrgMap(busreq, r3.bank)
    BY <2>1 DEF MapFollowsRegister
  <2>3. prg' = PrgMap(d, r3.bank)
    BY <1>3, <2>2 DEF MainBusreq, PrgMap
  <2> QED
    BY <2>1, <2>3 DEF MapFollowsRegister
<1>4. ASSUME NEW ret \in {0, 1}, NEW mode \in {"1M", "2M"}, NEW word \in BOOLEAN,
             SubWrite3(ret, mode, word)
      PROVE  MapFollowsRegister'
  <2> DEFINE new == WrittenBySub(ret, mode)
  <2>1. r3' = new /\ UNCHANGED <<pend, prg, busreq>> /\ Remap(new)
    BY <1>4 DEF SubWrite3
  <2>2. new \in Reg3 /\ new.bank = r3.bank /\ new.mode = mode
    BY <1>t, WrittenTypes, WrittenKeeps
  <2>3. layout' = IF mode # r3.mode THEN mode ELSE layout
    BY <1>4 DEF SubWrite3
  <2>4. /\ wmap = MapOf(r3) => wmap' = MapOf(new)
        /\ new = r3 => wmap' = wmap
    BY <1>t, <2>1, <2>2, RemapEffect
  <2>5. ~raced' => ~raced /\ (pend = NoWrite \/ new = r3)
    BY <1>4 DEF SubWrite3
  <2> HIDE DEF new
  <2>6. CASE pend = NoWrite
    BY <2>1, <2>2, <2>3, <2>4, <2>5, <2>6 DEF MapFollowsRegister
  <2>7. CASE pend # NoWrite
    <3>1. new = r3 => layout' = layout
      BY <2>2, <2>3
    <3> QED
      BY <2>1, <2>4, <2>5, <2>7, <3>1 DEF MapFollowsRegister
  <2> QED
    BY <2>6, <2>7
<1>5. CASE UNCHANGED <<r3, pend, wmap, layout, prg, busreq, raced>>
  BY <1>5, MapsKept
<1>6. ASSUME NEW a \in Pair, NEW counts \in BOOLEAN,
             MainRead(a, counts) \/ SubRead(a, counts) \/ MainWriteComm(a)
      PROVE  UNCHANGED <<r3, pend, wmap, layout, prg, busreq, raced>>
  BY <1>6 DEF MainRead, SubRead, MainWriteComm, registers, maps
<1>7. ASSUME NEW irq \in BOOLEAN, MainWriteOther(irq) \/ SubWriteComm(irq)
      PROVE  UNCHANGED <<r3, pend, wmap, layout, prg, busreq, raced>>
  BY <1>7 DEF MainWriteOther, SubWriteComm, registers, maps, history
<1>8. ASSUME MainSliceOver \/ SubRun \/ SubSliceOver \/ SubBlocks
      PROVE  UNCHANGED <<r3, pend, wmap, layout, prg, busreq, raced>>
  BY <1>8 DEF MainSliceOver, SubRun, SubSliceOver, SubBlocks, registers, maps, history
<1>9. ASSUME Event \/ MainInterrupt \/ LoopHead \/ PollOver \/ UNCHANGED vars
      PROVE  UNCHANGED <<r3, pend, wmap, layout, prg, busreq, raced>>
  BY <1>9 DEF Event, MainInterrupt, LoopHead, PollOver, vars, registers, maps, history
<1> QED
  BY <1>1, <1>2, <1>3, <1>4, <1>5, <1>6, <1>7, <1>8, <1>9 DEF Next, MainNext, SubNext

\* The maps the CPUs see are the ones of register 3, or of the value on its way
\* there, for any banks and any number of mode changes, bus requests and
\* hand-overs in between.
THEOREM MapIsCurrent == Spec => []MapFollowsRegister
<1>1. Init => TypeOK /\ MapFollowsRegister
  BY InitTypeOK, InitMap
<1>2. TypeOK /\ MapFollowsRegister /\ [Next]_vars => (TypeOK /\ MapFollowsRegister)'
  BY StepTypeOK, StepMap
<1> QED
  BY <1>1, <1>2, PTL DEF Spec

------------------------------------------------------------------------------
(* The stopped CPUs                                                          *)

LEMMA InitWakeup == Init => NoLostWakeup
<1> SUFFICES ASSUME Init PROVE NoLostWakeup
  OBVIOUS
<1>1. newsM = FALSE /\ newsS = FALSE /\ sleep = FALSE
  BY DEF Init
<1> QED
  BY <1>1 DEF NoLostWakeup

LEMMA StepWakeup == TypeOK /\ NoLostWakeup /\ [Next]_vars => NoLostWakeup'
<1> SUFFICES ASSUME TypeOK, NoLostWakeup, [Next]_vars PROVE NoLostWakeup'
  OBVIOUS
<1> USE Limits
<1>t. /\ r3 \in Reg3 /\ tracked \in Bits /\ wmap \in WordMap /\ sleep \in BOOLEAN
      /\ pollM \in Poll(LIMIT) /\ pollS \in Poll(LIMIT + 1)
  BY DEF TypeOK
<1>i. /\ pollM.flag => ~newsM
      /\ pollS.flag => ~newsS
      /\ sleep => OfMain(wmap)
  BY DEF NoLostWakeup
<1>a. Awake(pollM).flag = FALSE /\ Awake(pollS).flag = FALSE
  BY <1>t, AwakeType
<1>w. ASSUME NEW a \in Pair
      PROVE  /\ Wake(pollM, a).flag => ~newsM /\ pollM.a # a
             /\ Wake(pollS, a).flag => ~newsS /\ pollS.a # a
  BY <1>t, <1>i, WakeType
<1>1. ASSUME NEW dmna \in {0, 1}, NEW bank \in Bank, MainWrite3(dmna, bank)
      PROVE  NoLostWakeup'
  <2>1. WrittenByMain(dmna, bank) \in Reg3 /\ Remap(WrittenByMain(dmna, bank))
    BY <1>1, <1>t, WrittenTypes DEF MainWrite3
  <2>2. sleep' => OfMain(wmap')
    BY <1>t, <1>i, <2>1, RemapEffect
  <2>3. pollM' = Awake(pollM) /\ UNCHANGED <<pollS, newsS>>
    BY <1>1 DEF MainWrite3, history
  <2> QED
    BY <1>i, <1>a, <2>2, <2>3 DEF NoLostWakeup
<1>2. CASE MainStore3
  <2>1. /\ pollS' = Wake(pollS, "r2") /\ newsS' = (newsS \/ pollS.a = "r2")
        /\ UNCHANGED <<pollM, newsM, sleep, wmap>>
    BY <1>2 DEF MainStore3, maps
  <2>2. pollS'.flag => ~newsS /\ pollS.a # "r2"
    BY <1>w, <2>1 DEF Pair
  <2> QED
    BY <1>i, <2>1, <2>2 DEF NoLostWakeup
<1>3. ASSUME NEW a \in Pair, NEW counts \in BOOLEAN, MainRead(a, counts) PROVE NoLostWakeup'
  <2>1. newsM' = FALSE /\ UNCHANGED <<pollS, newsS, sleep, wmap>>
    BY <1>3 DEF MainRead, maps
  <2> QED
    BY <1>i, <2>1 DEF NoLostWakeup
<1>4. ASSUME NEW a \in Pair, MainWriteComm(a) PROVE NoLostWakeup'
  <2>1. /\ pollM' = Awake(pollM)
        /\ pollS' = Wake(pollS, a) /\ newsS' = (newsS \/ pollS.a = a)
        /\ UNCHANGED <<sleep, wmap>>
    BY <1>4 DEF MainWriteComm, maps
  <2>2. pollS'.flag => ~newsS /\ pollS.a # a
    BY <1>w, <2>1 DEF Pair
  <2> QED
    BY <1>i, <1>a, <2>1, <2>2 DEF NoLostWakeup
<1>5. ASSUME NEW d \in 0..3, MainBusreq(d) PROVE NoLostWakeup'
  <2>1. pollM' = Awake(pollM) /\ UNCHANGED <<newsM, newsS, wmap>>
    BY <1>5 DEF MainBusreq, history
  <2>2. \/ UNCHANGED <<pollS, sleep>>
        \/ pollS' = [pollS EXCEPT !.flag = FALSE] /\ sleep' = FALSE
    BY <1>5 DEF MainBusreq
  <2>3. [pollS EXCEPT !.flag = FALSE].flag = FALSE
    BY <1>t, Zenon DEF Poll
  <2>4. pollM'.flag => ~newsM'
    BY <1>a, <2>1
  <2>5. CASE pollS' = pollS /\ sleep' = sleep
    BY <1>i, <2>1, <2>4, <2>5 DEF NoLostWakeup
  <2>6. CASE pollS' = [pollS EXCEPT !.flag = FALSE] /\ sleep' = FALSE
    <3>1. pollS'.flag = FALSE
      BY <2>3, <2>6
    <3> QED
      BY <2>4, <2>6, <3>1 DEF NoLostWakeup
  <2> QED
    BY <2>2, <2>5, <2>6
<1>6. ASSUME NEW irq \in BOOLEAN, MainWriteOther(irq) PROVE NoLostWakeup'
  <2>1. /\ pollM' = Awake(pollM) /\ (pollS' = pollS \/ pollS' = Awake(pollS))
        /\ UNCHANGED <<newsS, sleep, wmap>>
    BY <1>6 DEF MainWriteOther, maps, history
  <2> QED
    BY <1>i, <1>a, <2>1 DEF NoLostWakeup
<1>7. ASSUME NEW ret \in {0, 1}, NEW mode \in {"1M", "2M"}, NEW word \in BOOLEAN,
             SubWrite3(ret, mode, word)
      PROVE  NoLostWakeup'
  <2> DEFINE wakes == WrittenBySub(ret, mode) # r3 /\ pollM.a = "r2"
  <2>1. WrittenBySub(ret, mode) \in Reg3 /\ Remap(WrittenBySub(ret, mode))
    BY <1>7, <1>t, WrittenTypes DEF SubWrite3
  <2>2. sleep' => OfMain(wmap')
    BY <1>t, <1>i, <2>1, RemapEffect
  <2>3. /\ pollS' = pollS \/ pollS' = Awake(pollS)
        /\ newsS' = newsS
    BY <1>7 DEF SubWrite3
  <2>4. /\ pollM' = IF wakes THEN Awake(pollM) ELSE pollM
        /\ newsM' = (newsM \/ wakes)
    BY <1>7 DEF SubWrite3
  <2> HIDE DEF wakes
  <2>5. pollM'.flag => ~newsM'
    BY <1>i, <1>a, <2>4
  <2> QED
    BY <1>i, <1>a, <2>2, <2>3, <2>5 DEF NoLostWakeup
<1>8. ASSUME NEW a \in Pair, NEW counts \in BOOLEAN, SubRead(a, counts) PROVE NoLostWakeup'
  <2>1. newsS' = (newsS /\ pollS'.a # a) /\ UNCHANGED <<pollM, newsM, sleep, wmap>>
    BY <1>8 DEF SubRead, maps
  <2>2. CASE pollS' = pollS
    BY <1>i, <2>1, <2>2 DEF NoLostWakeup
  <2>3. CASE a = pollS.a /\ pollS' = Counted(pollS, LIMIT + 1)
    <3>1. pollS'.a = a
      BY <1>t, <2>3, CountedType
    <3> QED
      BY <1>i, <2>1, <3>1 DEF NoLostWakeup
  <2>4. CASE pollS' = FirstRead(pollS, a)
    <3>1. pollS'.a = a
      BY <1>t, <2>4, FirstReadType
    <3> QED
      BY <1>i, <2>1, <3>1 DEF NoLostWakeup
  <2> QED
    BY <1>8, <2>2, <2>3, <2>4 DEF SubRead
<1>9. ASSUME NEW word \in BOOLEAN, SubWriteComm(word) PROVE NoLostWakeup'
  <2>1. /\ pollM' = Wake(pollM, "comm") /\ newsM' = (newsM \/ pollM.a = "comm")
        /\ pollS' = pollS \/ pollS' = Awake(pollS)
        /\ UNCHANGED <<newsS, sleep, wmap>>
    BY <1>9 DEF SubWriteComm, maps
  <2>2. pollM'.flag => ~newsM /\ pollM.a # "comm"
    BY <1>w, <2>1 DEF Pair
  <2> QED
    BY <1>i, <1>a, <2>1, <2>2 DEF NoLostWakeup
<1>10. CASE SubBlocks
  <2>1. OfMain(wmap) /\ UNCHANGED <<pollM, pollS, newsM, newsS, wmap>>
    BY <1>10 DEF SubBlocks, maps, history
  <2> QED
    BY <1>i, <2>1 DEF NoLostWakeup
<1>11. CASE MainSliceOver \/ SubRun \/ SubSliceOver \/ UNCHANGED vars
  <2>1. UNCHANGED <<pollM, pollS, newsM, newsS, sleep, wmap>>
    BY <1>11 DEF MainSliceOver, SubRun, SubSliceOver, vars, maps, polls, history
  <2> QED
    BY <1>i, <2>1 DEF NoLostWakeup
<1>12. CASE Event \/ MainInterrupt \/ LoopHead \/ PollOver
  <2>1. /\ pollM' = pollM \/ pollM' = Awake(pollM)
        /\ pollS' = pollS \/ pollS' = Awake(pollS)
        /\ sleep' = sleep \/ sleep' = FALSE
        /\ UNCHANGED <<newsM, newsS, wmap>>
    BY <1>12 DEF Event, MainInterrupt, LoopHead, PollOver, maps, history
  <2> QED
    BY <1>i, <1>a, <2>1 DEF NoLostWakeup
<1> QED
  BY <1>1, <1>2, <1>3, <1>4, <1>5, <1>6, <1>7, <1>8, <1>9, <1>10, <1>11, <1>12
  DEF Next, MainNext, SubNext

\* A CPU that has been stopped has seen the last value of what it polls, and a
\* blocked sub CPU still has to wait, for any limit of the detection.
THEOREM NothingIsMissed == Spec => []NoLostWakeup
<1>1. Init => TypeOK /\ NoLostWakeup
  BY InitTypeOK, InitWakeup
<1>2. TypeOK /\ NoLostWakeup /\ [Next]_vars => (TypeOK /\ NoLostWakeup)'
  BY StepTypeOK, StepWakeup
<1> QED
  BY <1>1, <1>2, PTL DEF Spec

------------------------------------------------------------------------------
(* The hand-over of the word RAM                                             *)

\* In 2M mode register 3, or the value on its way there, has the tracked bits,
\* and no write of the main CPU is on its way that takes the RAM.
BitsOf(r) == [ret |-> r.ret, dmna |-> r.dmna]
HandedOver == tracked # [ret |-> 0, dmna |-> 0]

OwnerInv ==
  ~raced => /\ Coming.mode = "2M" /\ HandedOver => BitsOf(Coming) = tracked
            /\ pend # NoWrite /\ r3.mode = "2M" /\ r3.ret = 0 => pend.ret = 0

LEMMA InitOwner == Init => OwnerInv
<1> SUFFICES ASSUME Init PROVE OwnerInv
  OBVIOUS
<1>1. tracked = [ret |-> 0, dmna |-> 0] /\ pend = NoWrite
  BY DEF Init
<1> QED
  BY <1>1 DEF OwnerInv, HandedOver

LEMMA OwnerKept ==
  ASSUME OwnerInv, UNCHANGED <<r3, tracked, pend>>, raced => raced'
  PROVE  OwnerInv'
BY DEF OwnerInv, Coming, HandedOver, BitsOf

\* The bits of a write in 2M mode.
LEMMA WrittenBits ==
  ASSUME r3 \in Reg3, tracked \in Bits
  PROVE  /\ \A dmna \in {0, 1}, bank \in Bank :
              r3.mode = "2M" => BitsOf(WrittenByMain(dmna, bank)) = TrackedByMain(dmna)
         /\ \A ret \in {0, 1} : BitsOf(WrittenBySub(ret, "2M")) = TrackedBySub(ret)
<1>1. ASSUME NEW dmna \in {0, 1}, NEW bank \in Bank, r3.mode = "2M"
      PROVE  BitsOf(WrittenByMain(dmna, bank)) = TrackedByMain(dmna)
  <2> DEFINE t == TrackedByMain(dmna)
  <2>1. t \in Bits
    BY WrittenTypes
  <2>2. WrittenByMain(dmna, bank).ret = t.ret /\ WrittenByMain(dmna, bank).dmna = t.dmna
    BY <1>1 DEF WrittenByMain, Reg3
  <2>3. t = [ret |-> t.ret, dmna |-> t.dmna]
    BY <2>1 DEF Bits
  <2> QED
    BY <2>2, <2>3 DEF BitsOf
<1>2. ASSUME NEW ret \in {0, 1}
      PROVE  BitsOf(WrittenBySub(ret, "2M")) = TrackedBySub(ret)
  <2> DEFINE t == TrackedBySub(ret)
  <2>1. t \in Bits
    BY WrittenTypes
  <2>2. WrittenBySub(ret, "2M").ret = t.ret /\ WrittenBySub(ret, "2M").dmna = t.dmna
    BY DEF WrittenBySub, Reg3
  <2>3. t = [ret |-> t.ret, dmna |-> t.dmna]
    BY <2>1 DEF Bits
  <2> QED
    BY <2>2, <2>3 DEF BitsOf
<1> QED
  BY <1>1, <1>2

\* What a write of the sub CPU leaves unless it comes in between.
LEMMA SubWriteAlone ==
  ASSUME NEW ret \in {0, 1}, NEW mode \in {"1M", "2M"}, NEW word \in BOOLEAN,
         SubWrite3(ret, mode, word), ~raced'
  PROVE  /\ ~raced /\ pend' = pend /\ r3' = WrittenBySub(ret, mode)
         /\ tracked' = TrackedBySub(ret)
         /\ pend = NoWrite \/ (r3' = r3 /\ tracked' = tracked)
BY DEF SubWrite3

LEMMA StepOwner == TypeOK /\ OwnerInv /\ [Next]_vars => OwnerInv'
<1> SUFFICES ASSUME TypeOK, OwnerInv, [Next]_vars, ~raced' PROVE OwnerInv'
  BY DEF OwnerInv
<1>t. r3 \in Reg3 /\ tracked \in Bits
  BY DEF TypeOK
<1>1. ASSUME NEW dmna \in {0, 1}, NEW bank \in Bank, MainWrite3(dmna, bank) PROVE OwnerInv'
  <2> DEFINE new == WrittenByMain(dmna, bank)
             t == TrackedByMain(dmna)
  <2>1. /\ pend = NoWrite /\ ~raced /\ r3' = r3 /\ tracked' = t
        /\ IF new = r3 THEN pend' = NoWrite ELSE pend' = new
    BY <1>1 DEF MainWrite3, MainTurn, history
  <2>2. new \in Reg3 /\ new.mode = r3.mode /\ t \in Bits
    BY <1>t, WrittenTypes, WrittenKeeps
  <2>3. new # NoWrite
    BY <2>2, MegaCDAssumption
  <2>4. Coming' = new
    BY <2>1, <2>3 DEF Coming
  <2>5. r3.mode = "2M" => BitsOf(new) = t
    BY <1>t, WrittenBits
  <2>6. r3.mode = "2M" /\ r3.ret = 0 => tracked.ret = 0
    <3>1. HandedOver /\ r3.mode = "2M" => BitsOf(r3) = tracked
      BY <2>1 DEF OwnerInv, Coming
    <3>2. CASE HandedOver
      BY <3>1, <3>2 DEF BitsOf
    <3>3. CASE ~HandedOver
      BY <3>3 DEF HandedOver
    <3> QED
      BY <3>2, <3>3
  <2>7. r3.mode = "2M" /\ r3.ret = 0 => new.ret = 0
    <3>1. tracked.ret = 0 => t.ret = 0
      BY DEF TrackedByMain
    <3>2. BitsOf(new).ret = new.ret
      BY DEF BitsOf
    <3> HIDE DEF new, t
    <3> QED
      BY <2>5, <2>6, <3>1, <3>2
  <2> HIDE DEF new, t
  <2>8. Coming'.mode = "2M" => BitsOf(Coming') = tracked'
    BY <2>1, <2>2, <2>4, <2>5
  <2>9. pend' # NoWrite /\ r3'.mode = "2M" /\ r3'.ret = 0 => pend'.ret = 0
    BY <2>1, <2>7
  <2>10. /\ Coming'.mode = "2M" => (BitsOf(Coming) = tracked)'
         /\ (pend # NoWrite /\ r3.mode = "2M" /\ r3.ret = 0 => pend.ret = 0)'
    BY <2>8, <2>9 DEF BitsOf
  <2> QED
    BY <2>10 DEF OwnerInv
<1>2. CASE MainStore3
  <2>1. pend # NoWrite /\ r3' = pend /\ pend' = NoWrite /\ UNCHANGED <<tracked, raced>>
    BY <1>2 DEF MainStore3
  <2>2. Coming' = Coming
    BY <2>1 DEF Coming
  <2> QED
    BY <2>1, <2>2 DEF OwnerInv, HandedOver, BitsOf
<1>3. ASSUME NEW ret \in {0, 1}, NEW mode \in {"1M", "2M"}, NEW word \in BOOLEAN,
             SubWrite3(ret, mode, word)
      PROVE  OwnerInv'
  <2>1. /\ ~raced /\ pend' = pend /\ r3' = WrittenBySub(ret, mode)
        /\ tracked' = TrackedBySub(ret)
        /\ pend = NoWrite \/ (r3' = r3 /\ tracked' = tracked)
    BY <1>3, SubWriteAlone
  <2>2. CASE pend = NoWrite
    <3>1. Coming' = r3' /\ pend' = NoWrite
      BY <2>1, <2>2 DEF Coming
    <3>2. r3'.mode = mode
      BY <1>t, <2>1, WrittenKeeps
    <3>3. mode = "2M" => BitsOf(r3') = tracked'
      BY <1>t, <2>1, WrittenBits
    <3>4. Coming'.mode = "2M" => (BitsOf(Coming) = tracked)'
      BY <3>1, <3>2, <3>3 DEF BitsOf
    <3>5. (pend # NoWrite /\ r3.mode = "2M" /\ r3.ret = 0 => pend.ret = 0)'
      BY <3>1
    <3> QED
      BY <3>4, <3>5 DEF OwnerInv
  <2>3. CASE r3' = r3 /\ tracked' = tracked
    <3>1. UNCHANGED <<r3, tracked, pend>> /\ ~raced
      BY <2>1, <2>3
    <3> QED
      BY <3>1, OwnerKept
  <2> QED
    BY <2>1, <2>2, <2>3
<1>4. CASE UNCHANGED <<r3, tracked, pend, raced>>
  BY <1>4, OwnerKept
<1>5. ASSUME NEW a \in Pair, NEW counts \in BOOLEAN,
             MainRead(a, counts) \/ SubRead(a, counts) \/ MainWriteComm(a)
      PROVE  UNCHANGED <<r3, tracked, pend, raced>>
  BY <1>5 DEF MainRead, SubRead, MainWriteComm, registers
<1>6. ASSUME NEW irq \in BOOLEAN, MainWriteOther(irq) \/ SubWriteComm(irq)
      PROVE  UNCHANGED <<r3, tracked, pend, raced>>
  BY <1>6 DEF MainWriteOther, SubWriteComm, registers, history
<1>7. ASSUME NEW d \in 0..3, MainBusreq(d) PROVE UNCHANGED <<r3, tracked, pend, raced>>
  BY <1>7 DEF MainBusreq, registers, history
<1>8. ASSUME MainSliceOver \/ SubRun \/ SubSliceOver \/ SubBlocks
      PROVE  UNCHANGED <<r3, tracked, pend, raced>>
  BY <1>8 DEF MainSliceOver, SubRun, SubSliceOver, SubBlocks, registers, history
<1>9. ASSUME Event \/ MainInterrupt \/ LoopHead \/ PollOver \/ UNCHANGED vars
      PROVE  UNCHANGED <<r3, tracked, pend, raced>>
  BY <1>9 DEF Event, MainInterrupt, LoopHead, PollOver, vars, registers, history
<1> QED
  BY <1>1, <1>2, <1>3, <1>4, <1>5, <1>6, <1>7, <1>8, <1>9 DEF Next, MainNext, SubNext

\* A step that obeys the rule of the hand-over.
HandsOver ==
  /\ ~raced' /\ r3.mode = "2M" /\ r3'.mode = "2M"
  /\ tracked # [ret |-> 0, dmna |-> 0]
  => /\ Owner(r3) = "main" /\ Owner(r3') = "sub" => sub = "wait"
     /\ Owner(r3) = "sub" /\ Owner(r3') = "main" => sub # "wait"

LEMMA OwnerOf ==
  ASSUME NEW r \in Reg3, r.mode = "2M"
  PROVE  Owner(r) = IF r.ret = 1 THEN "main" ELSE "sub"
BY DEF Owner, OfMain, MapOf, Reg3

LEMMA StepHandsOver == TypeOK /\ TypeOK' /\ OwnerInv /\ [Next]_vars => HandsOver
<1> SUFFICES ASSUME TypeOK, TypeOK', OwnerInv, [Next]_vars,
                    ~raced', r3.mode = "2M", r3'.mode = "2M", HandedOver
             PROVE  /\ Owner(r3) = "main" /\ Owner(r3') = "sub" => sub = "wait"
                    /\ Owner(r3) = "sub" /\ Owner(r3') = "main" => sub # "wait"
  BY DEF HandsOver, HandedOver
<1>t. r3 \in Reg3 /\ r3' \in Reg3 /\ tracked \in Bits
  BY DEF TypeOK
<1>o. /\ Owner(r3) = IF r3.ret = 1 THEN "main" ELSE "sub"
      /\ Owner(r3') = IF r3'.ret = 1 THEN "main" ELSE "sub"
  BY <1>t, OwnerOf
<1>1. CASE MainStore3
  <2>1. pend # NoWrite /\ r3' = pend /\ sub = "wait" /\ ~raced
    BY <1>1 DEF MainStore3
  <2>2. r3.ret # 1 => r3'.ret # 1
    BY <1>t, <2>1 DEF OwnerInv, Reg3
  <2> QED
    BY <1>o, <2>1, <2>2
<1>2. ASSUME NEW ret \in {0, 1}, NEW mode \in {"1M", "2M"}, NEW word \in BOOLEAN,
             SubWrite3(ret, mode, word)
      PROVE  sub # "wait" /\ (r3.ret = 1 => r3'.ret = 1)
  <2>1. /\ ~raced /\ r3' = WrittenBySub(ret, mode)
        /\ pend = NoWrite \/ r3' = r3
    BY <1>2, SubWriteAlone
  <2>2. sub # "wait"
    BY <1>2 DEF SubWrite3, SubTurn
  <2>3. ASSUME pend = NoWrite, r3.ret = 1 PROVE r3'.ret = 1
    <3>1. BitsOf(r3) = tracked
      BY <2>1, <2>3 DEF OwnerInv, Coming
    <3>2. tracked.ret = 1
      BY <2>3, <3>1 DEF BitsOf
    <3>3. TrackedBySub(ret).ret = 1
      BY <3>2 DEF TrackedBySub
    <3>4. mode = "2M"
      BY <1>t, <2>1, WrittenKeeps
    <3>5. BitsOf(r3') = TrackedBySub(ret)
      BY <1>t, <2>1, <3>4, WrittenBits
    <3>6. BitsOf(r3').ret = r3'.ret
      BY DEF BitsOf
    <3> QED
      BY <3>3, <3>5, <3>6
  <2> QED
    BY <2>1, <2>2, <2>3
<1>3. CASE r3' = r3
  BY <1>3
<1>4. ASSUME NEW dmna \in {0, 1}, NEW bank \in Bank, MainWrite3(dmna, bank) PROVE r3' = r3
  BY <1>4 DEF MainWrite3
<1>5. ASSUME NEW a \in Pair, NEW counts \in BOOLEAN,
             MainRead(a, counts) \/ SubRead(a, counts) \/ MainWriteComm(a)
      PROVE  r3' = r3
  BY <1>5 DEF MainRead, SubRead, MainWriteComm, registers
<1>6. ASSUME NEW irq \in BOOLEAN, MainWriteOther(irq) \/ SubWriteComm(irq) PROVE r3' = r3
  BY <1>6 DEF MainWriteOther, SubWriteComm, registers
<1>7. ASSUME NEW d \in 0..3, MainBusreq(d) PROVE r3' = r3
  BY <1>7 DEF MainBusreq, registers
<1>8. ASSUME MainSliceOver \/ SubRun \/ SubSliceOver \/ SubBlocks
      PROVE  r3' = r3
  BY <1>8 DEF MainSliceOver, SubRun, SubSliceOver, SubBlocks, registers
<1>9. ASSUME Event \/ MainInterrupt \/ LoopHead \/ PollOver \/ UNCHANGED vars PROVE r3' = r3
  BY <1>9 DEF Event, MainInterrupt, LoopHead, PollOver, vars, registers
<1>10. ASSUME NEW ret \in {0, 1}, NEW mode \in {"1M", "2M"}, NEW word \in BOOLEAN,
              SubWrite3(ret, mode, word)
       PROVE  /\ Owner(r3) = "main" /\ Owner(r3') = "sub" => sub = "wait"
              /\ Owner(r3) = "sub" /\ Owner(r3') = "main" => sub # "wait"
  BY <1>o, <1>2, <1>10
<1> QED
  BY <1>1, <1>3, <1>4, <1>5, <1>6, <1>7, <1>8, <1>9, <1>10 DEF Next, MainNext, SubNext

\* In 2M mode neither CPU takes the word RAM from the other, whatever was
\* written before, in either mode.
THEOREM NoCpuTakesTheRam == Spec => OwnerHandsOver
<1>1. Init => TypeOK /\ OwnerInv
  BY InitTypeOK, InitOwner
<1>2. TypeOK /\ OwnerInv /\ [Next]_vars => (TypeOK /\ OwnerInv)'
  BY StepTypeOK, StepOwner
<1>3. TypeOK /\ OwnerInv /\ [Next]_vars => [HandsOver]_vars
  BY StepTypeOK, StepHandsOver
<1>4. OwnerHandsOver <=> [][HandsOver]_vars
  BY DEF OwnerHandsOver, HandsOver
<1> QED
  BY <1>1, <1>2, <1>3, <1>4, PTL DEF Spec
==============================================================================
