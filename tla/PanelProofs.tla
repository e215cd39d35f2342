----------------------------- MODULE PanelProofs -----------------------------
(***************************************************************************)
(* Proofs about the front panel: for every set of keys, every interval of  *)
(* events, every number of LEDs and every number of updates.  A behaviour  *)
(* of MCPanel is about the keys (module FrontPanel) or the lamps (module   *)
(* Display), so that each has an invariant of its own.                     *)
(***************************************************************************)
EXTENDS MCPanel, TLAPS

-----------------------------------------------------------------------------
(* The keys.                                                               *)

\* pft_go is left behind only between the end of a turn and the next one, and
\* the turn it belongs to runs.
GoHasRun ==
    /\ go => pos \in {"cycle", "event", "scp"}
    /\ go /\ pos = "cycle" => cpuRun

\* A closed key has acted, or has not acted since it was pressed.
FreshOrActed == panel \cap PressKeys \subseteq flags \cup fresh

\* A SING_STEP that is held since the turn began has been seen when the tests
\* are past it, and so has a SING_INST.
HeldIsSeen ==
    ~go =>
        /\ pos \in {"special", "script", "poweroff", "reboot", "sstepopen", "sinst",
                    "sinstopen", "cycle"} /\ "SSTEP" \in held => "SSTEP" \in flags
        /\ pos \in {"sinstopen", "cycle"} /\ "SINST" \in held => "SINST" \in flags

\* The types of the states that are true or false.
Booleans == cpuRun \in BOOLEAN /\ resume \in BOOLEAN /\ go \in BOOLEAN /\ stop_cpu \in BOOLEAN

KeysInv == TypeOK /\ GoHasRun /\ FreshOrActed /\ HeldIsSeen /\ ContResumes

-----------------------------------------------------------------------------
\* No key has acted, and no turn has begun.
LEMMA KeysBegin == ASSUME Init PROVE KeysInv
<1>1. sim_interval \in 0 .. MaxInterval
  BY IntervalAssumption DEF Init
<1>2. Booleans
  BY DEF Init, Booleans
<1> QED
  BY <1>1, <1>2 DEF Booleans, Init, KeysInv, TypeOK, GoHasRun, FreshOrActed, HeldIsSeen, ContResumes,
                    PressKeys

\* The user presses and releases a key.
LEMMA KeyMoves ==
    ASSUME KeysInv, NEW k \in keys, Move(k), UNCHANGED keys
    PROVE  KeysInv'
BY DEF Move, KeysInv, TypeOK, GoHasRun, FreshOrActed, HeldIsSeen, ContResumes, thread

\* Ctrl-E, and a command at the prompt.
LEMMA CommandGiven ==
    ASSUME KeysInv, CtrlE \/ Continue, UNCHANGED keys
    PROVE  KeysInv'
<1>1. sim_interval' \in 0 .. MaxInterval
  BY IntervalAssumption DEF CtrlE, Continue, KeysInv, TypeOK
<1>2. Booleans'
  BY DEF CtrlE, Continue, KeysInv, TypeOK, Booleans, thread
<1> QED
  BY <1>1, <1>2 DEF Booleans, CtrlE, Continue, KeysInv, TypeOK, GoHasRun, FreshOrActed, HeldIsSeen,
                    ContResumes, thread

\* The events, and the prompt they lead to.
LEMMA EventsServed ==
    ASSUME KeysInv, NoEvent \/ ProcessEvents \/ EventExit, UNCHANGED keys
    PROVE  KeysInv'
<1> USE DEF NoEvent, ProcessEvents, EventExit, BeginTurn, LeaveResumable
<1>1. sim_interval' \in 0 .. MaxInterval
  BY IntervalAssumption DEF KeysInv, TypeOK
<1>2. Booleans'
  BY DEF KeysInv, TypeOK, Booleans
<1> QED
  BY <1>1, <1>2 DEF Booleans, KeysInv, TypeOK, GoHasRun, FreshOrActed, HeldIsSeen, ContResumes

\* The tests of the keys.
LEMMA SwitchesChecked ==
    ASSUME KeysInv, CheckSwitches, UNCHANGED keys
    PROVE  KeysInv'
<1>a. CheckStart \/ CheckCont => Booleans'
  BY DEF CheckSwitches, CheckStart, CheckCont, NotPressed, Run, KeysInv, TypeOK, Booleans
<1> USE DEF KeysInv, TypeOK, GoHasRun, FreshOrActed, HeldIsSeen, ContResumes, PressKeys, Closed, At, OpenAt
<1>1. CASE CheckStart
  <2>1. CASE Run("START")
    BY <1>1, <1>a, <2>1 DEF Booleans, CheckSwitches, CheckStart, NotPressed, Run, Acts
  <2>2. CASE NotPressed("START")
    BY <1>1, <1>a, <2>2 DEF Booleans, CheckSwitches, CheckStart, NotPressed
  <2> QED BY <1>1, <2>1, <2>2 DEF CheckStart
<1>2. CASE CheckCont
  <2>1. CASE Run("CONT")
    BY <1>2, <1>a, <2>1 DEF Booleans, CheckSwitches, CheckCont, NotPressed, Run, Acts
  <2>2. CASE NotPressed("CONT")
    BY <1>2, <1>a, <2>2 DEF Booleans, CheckSwitches, CheckCont, NotPressed
  <2> QED BY <1>2, <2>1, <2>2 DEF CheckCont
<1>3. CASE CheckStop
  BY <1>3 DEF CheckSwitches, CheckStop, StopCpu
<1>4. ASSUME NEW k \in {"LADD", "DEP", "EXAM"}, CheckRegisterKey(k)
      PROVE  KeysInv'
  <2>1. OpenAt[k] \in {"laddopen", "depopen", "examopen"} /\ pos' = OpenAt[k]
    BY <1>4 DEF CheckRegisterKey, NotPressed
  <2>2. go' = go /\ pos \notin {"cycle", "event", "scp"}
    BY <1>4 DEF CheckRegisterKey, NotPressed
  <2>3. CASE Pressed(k) /\ Acts(k) /\ major' = "Fetch" /\ UNCHANGED <<cpuRun, resume, go>>
    BY <1>4, <2>1, <2>2, <2>3 DEF CheckSwitches, Acts
  <2>4. CASE NotPressed(k)
    BY <1>4, <2>1, <2>2, <2>4 DEF CheckSwitches, NotPressed
  <2> QED BY <1>4, <2>3, <2>4 DEF CheckRegisterKey
<1>5. ASSUME NEW k \in PressKeys \cup {"SINST"}, CheckRelease(k)
      PROVE  KeysInv'
  BY <1>5 DEF CheckSwitches, CheckRelease, Release, After
<1>6. CASE CheckSpecial \/ CheckScript \/ CheckPowerOff \/ CheckReboot
  BY <1>6 DEF CheckSwitches, CheckSpecial, CheckScript, CheckPowerOff, CheckReboot, Shutdown,
              Exit, StopCpu
<1>7. CASE CheckSingInst
  BY <1>7 DEF CheckSwitches, CheckSingInst, StopCpu
<1> QED BY <1>1, <1>2, <1>3, <1>4, <1>5, <1>6, <1>7 DEF CheckSwitches

\* SING_STEP.
LEMMA SingStepsChecked ==
    ASSUME KeysInv, CheckSingSteps, UNCHANGED keys
    PROVE  KeysInv'
<1> USE DEF KeysInv, TypeOK, GoHasRun, FreshOrActed, HeldIsSeen, ContResumes, PressKeys, Closed
<1>1. CASE CheckSingStep
  BY <1>1 DEF CheckSingSteps, CheckSingStep
<1>2. CASE CheckSingStepOpen
  BY <1>2 DEF CheckSingSteps, CheckSingStepOpen, EndShot
<1> QED BY <1>1, <1>2 DEF CheckSingSteps

\* The cycle of a running machine, and of a stopped one.
LEMMA CycleDone ==
    ASSUME KeysInv, StayStopped \/ MajorState \/ Breakpoint, UNCHANGED keys
    PROVE  KeysInv'
<1> USE DEF StayStopped, MajorState, FetchState, LaterState, Breakpoint
<1>1. Elapse \/ UNCHANGED sim_interval
  BY DEF Tick
<1>2. sim_interval' \in 0 .. MaxInterval
  BY <1>1, IntervalAssumption DEF Elapse, KeysInv, TypeOK
<1>3. Booleans'
  BY DEF KeysInv, TypeOK, Booleans
<1>4. Breakpoint => cpuRun
  BY DEF Stopped, KeysInv, GoHasRun, TypeOK
<1>5. CASE StayStopped
  BY <1>2, <1>3, <1>5 DEF Booleans, KeysInv, TypeOK, GoHasRun, FreshOrActed, HeldIsSeen, ContResumes, Stopped
<1>6. CASE FetchState
  BY <1>2, <1>3, <1>6 DEF Booleans, KeysInv, TypeOK, GoHasRun, FreshOrActed, HeldIsSeen, ContResumes
<1>7. CASE LaterState
  BY <1>2, <1>3, <1>7 DEF Booleans, KeysInv, TypeOK, GoHasRun, FreshOrActed, HeldIsSeen, ContResumes
<1>8. CASE Breakpoint
  BY <1>2, <1>3, <1>4, <1>8 DEF Booleans, KeysInv, TypeOK, GoHasRun, FreshOrActed, HeldIsSeen, ContResumes
<1> QED
  BY <1>5, <1>6, <1>7, <1>8

LEMMA KeysStep == KeysInv /\ [Next]_vars => KeysInv'
<1> SUFFICES ASSUME KeysInv, [Next]_vars PROVE KeysInv'
  OBVIOUS
<1>1. CASE UNCHANGED vars
  BY <1>1 DEF vars, moving, thread, KeysInv, TypeOK, GoHasRun, FreshOrActed, HeldIsSeen, ContResumes
<1>2. CASE Next
  BY <1>2, KeyMoves, CommandGiven, EventsServed, SwitchesChecked, SingStepsChecked, CycleDone
  DEF Next, CpuThread, User
<1> QED BY <1>1, <1>2

\* A press key that acts was pressed and had not acted since, and a
\* resumption is the only way round that.
LEMMA ActsWhenFresh ==
    ASSUME KeysInv, [Next]_vars, NEW k \in PressKeys, k \in flags' \ flags,
           ~(k = "CONT" /\ resume)
    PROVE  k \in fresh
<1>1. CASE CheckSwitches
  BY <1>1
  DEF KeysInv, TypeOK, FreshOrActed, PressKeys, Closed, CheckSwitches, CheckStart, CheckCont, CheckStop,
      CheckRegisterKey, CheckRelease, CheckSpecial, CheckScript, CheckPowerOff, CheckReboot,
      CheckSingInst, Shutdown, Pressed, NotPressed, Run, Acts, Release
<1>2. CASE CheckSingSteps
  BY <1>2 DEF PressKeys, CheckSingSteps, CheckSingStep, CheckSingStepOpen
<1>3. CASE UNCHANGED flags
  BY <1>3
<1>4. Next => CheckSwitches \/ CheckSingSteps \/ UNCHANGED flags
  BY DEF Next, CpuThread, User, NoEvent, ProcessEvents, BeginTurn, EventExit, StayStopped, MajorState,
         FetchState, LaterState, Breakpoint, CtrlE, Continue, Move, thread
<1>5. UNCHANGED vars => UNCHANGED flags
  BY DEF vars, moving, thread
<1> QED BY <1>1, <1>2, <1>3, <1>4, <1>5

LEMMA StepsOnlyOnGo ==
    ASSUME KeysInv, MajorState, "SSTEP" \in held \/ ("SINST" \in held /\ major = "Fetch")
    PROVE  go
BY DEF KeysInv, HeldIsSeen, TypeOK, MajorState, FetchState, LaterState, Stopped, SinglePause

-----------------------------------------------------------------------------
(* The lamps.                                                              *)

\* Part p of a buffer is clear.
IsClear(b, p) ==
    IF p.array = "curr" THEN p.led \notin b.curr
    ELSE IF p.led = 0 THEN b.cycle_count = 0 ELSE b.on[p.led] = 0

Painted == display_bufs[pdis_paint]


\* The steps of an update, and what gpio_core still has to reach.
PlacesKnown ==
    /\ cpu = "curr" => led \in Lamps!LED
    /\ gpio \in {"revive", "target"} => left \subseteq Lamps!States
    /\ gpio = "swap" => left = {}

\* An update does not write the buffer that is cleared.
ClearedAlone == gpio \in {"clear", "swap"} => ~Lamps!Stale

\* What the clearing has passed is clear.
ClearedSoFar ==
    gpio \in {"clear", "swap"} => \A p \in Lamps!Parts \ left : IsClear(Painted, p)

\* An update has counted its cycle and not the LEDs it has not come to; the
\* counter it has loaded is not changed by anyone else.
UpdateExact ==
    cpu # "idle" =>
        /\ led = 0 /\ cpu = "store" => tmp = display_bufs[pd].cycle_count
        /\ led > 0 => /\ cpu = "store" => tmp = display_bufs[pd].on[led]
                      /\ \A l \in Lamps!LED :
                            l >= led => display_bufs[pd].on[l] + 1 <= display_bufs[pd].cycle_count

Counted ==
    /\ \A l \in Lamps!LED : display_bufs[pdis_update].on[l] <= display_bufs[pdis_update].cycle_count
    /\ gpio # "clear" => \A l \in Lamps!LED : Painted.on[l] <= Painted.cycle_count

\* The cycle count that was read outside an update covers what is painted.
ReadWhole ==
    gpio = "target" /\ ~torn =>
        ~Lamps!Stale /\ \A l \in Lamps!LED : Painted.on[l] <= cycle_count

LampsTyped == Lamps!TypeOK /\ PlacesKnown
LampsExact == ClearedAlone /\ ClearedSoFar /\ UpdateExact /\ Counted /\ ReadWhole
LampsInv == LampsTyped /\ (~Delays => LampsExact)

-----------------------------------------------------------------------------
(* Types of the lamps.                                                     *)

\* A buffer that is blank, and one of whose parts is set.
LEMMA BlankBuffer == Lamps!Blank \in Lamps!Buffer
BY DEF Lamps!Blank, Lamps!Buffer

LEMMA BufferSet ==
    ASSUME NEW b \in Lamps!Buffer, NEW n \in Nat, NEW l, NEW S \in SUBSET Lamps!LED
    PROVE  /\ [b EXCEPT !.cycle_count = n] \in Lamps!Buffer
           /\ [b EXCEPT !.on[l] = n] \in Lamps!Buffer
           /\ [b EXCEPT !.curr = S] \in Lamps!Buffer
BY DEF Lamps!Buffer

LEMMA BuffersTyped ==
    ASSUME LampsTyped, [Lamps!Next]_lampvars
    PROVE  display_bufs' \in [{0, 1} -> Lamps!Buffer]
<1>1. CASE Lamps!Reenter
  BY <1>1, BlankBuffer DEF Lamps!Reenter
<1>2. CASE Lamps!Store
  <2>1. tmp + 1 \in Nat /\ pd \in {0, 1} /\ display_bufs \in [{0, 1} -> Lamps!Buffer]
    BY DEF LampsTyped, Lamps!TypeOK
  <2>2. [display_bufs[pd] EXCEPT !.cycle_count = tmp + 1] \in Lamps!Buffer
    BY <2>1, BufferSet
  <2>3. [display_bufs[pd] EXCEPT !.on[led] = tmp + 1] \in Lamps!Buffer
    BY <2>1, BufferSet
  <2> QED BY <1>2, <2>1, <2>2, <2>3 DEF Lamps!Store
<1>3. CASE Lamps!SetCurr
  <2>1. led \in Lamps!LED /\ pd \in {0, 1} /\ display_bufs \in [{0, 1} -> Lamps!Buffer]
    BY <1>3 DEF LampsTyped, PlacesKnown, Lamps!TypeOK, Lamps!SetCurr
  <2> DEFINE S == IF led \in lit THEN display_bufs[pd].curr \cup {led} ELSE display_bufs[pd].curr \ {led}
  <2>2. S \in SUBSET Lamps!LED
    BY <2>1 DEF Lamps!Buffer
  <2>3. display_bufs' = [display_bufs EXCEPT ![pd] = [display_bufs[pd] EXCEPT !.curr = S]]
    BY <1>3 DEF Lamps!SetCurr
  <2> HIDE DEF S
  <2>4. [display_bufs[pd] EXCEPT !.curr = S] \in Lamps!Buffer
    BY <2>1, <2>2, BufferSet
  <2> QED BY <2>1, <2>3, <2>4
<1>4. CASE Lamps!Clear
  <2>1. PICK p \in left : display_bufs' = [display_bufs EXCEPT ![pdis_paint] = Lamps!Cleared(@, p)]
    BY <1>4 DEF Lamps!Clear
  <2>2. pdis_paint \in {0, 1} /\ display_bufs \in [{0, 1} -> Lamps!Buffer]
    BY DEF LampsTyped, Lamps!TypeOK
  <2>3. Lamps!Cleared(display_bufs[pdis_paint], p) \in Lamps!Buffer
    <3>1. display_bufs[pdis_paint].curr \ {p.led} \in SUBSET Lamps!LED
      BY <2>2 DEF Lamps!Buffer
    <3> QED BY <2>2, <3>1, BufferSet DEF Lamps!Cleared
  <2> QED BY <2>1, <2>2, <2>3
<1>5. CASE Lamps!Revive
  <2>1. PICK p \in left :
           display_bufs' = [display_bufs EXCEPT ![pdis_paint].curr =
                               IF p.led \in copy THEN @ \cup {p.led} ELSE @ \ {p.led}]
    BY <1>5 DEF Lamps!Revive
  <2>2. pdis_paint \in {0, 1} /\ display_bufs \in [{0, 1} -> Lamps!Buffer] /\ copy \subseteq Lamps!LED
    BY DEF LampsTyped, Lamps!TypeOK
  <2> DEFINE S == IF p.led \in copy THEN Painted.curr \cup {p.led} ELSE Painted.curr \ {p.led}
  <2>3. S \in SUBSET Lamps!LED
    BY <2>2 DEF Lamps!Buffer, Painted
  <2>4. display_bufs' = [display_bufs EXCEPT ![pdis_paint] = [Painted EXCEPT !.curr = S]]
    BY <2>1 DEF Painted
  <2> HIDE DEF S
  <2>5. [Painted EXCEPT !.curr = S] \in Lamps!Buffer
    BY <2>2, <2>3, BufferSet DEF Painted
  <2> QED BY <2>2, <2>4, <2>5
<1>6. CASE UNCHANGED display_bufs
  BY <1>6 DEF LampsTyped, Lamps!TypeOK
<1>7. UNCHANGED lampvars => UNCHANGED display_bufs
  BY DEF lampvars
<1>8. Lamps!Next => \/ Lamps!Reenter \/ Lamps!Store \/ Lamps!SetCurr \/ Lamps!Clear \/ Lamps!Revive
                    \/ UNCHANGED display_bufs
  BY DEF Lamps!Next, Lamps!CpuThread, Lamps!Call, Lamps!GpioThread, Lamps!Begin, Lamps!Load, Lamps!Copy,
         Lamps!Swap, Lamps!Check, Lamps!ReadCycleCount, Lamps!ComputeTarget
<1> QED BY <1>1, <1>2, <1>3, <1>4, <1>5, <1>6, <1>7, <1>8

LEMMA LampsCallTyped ==
    ASSUME LampsTyped, Lamps!CpuThread
    PROVE  LampsTyped'
<1>1. display_bufs' \in [{0, 1} -> Lamps!Buffer]
  BY BuffersTyped DEF Lamps!Next
<1>2. {called, mixed, torn}' \subseteq BOOLEAN
  <2>1. CASE Lamps!Begin
    <3>1. mixed' = (gpio \in {"clear", "swap", "check", "revive"})
      BY <2>1 DEF Lamps!Begin
    <3>2. mixed' \in BOOLEAN
      BY <3>1
    <3> QED BY <2>1, <3>2 DEF LampsTyped, Lamps!TypeOK, Lamps!Begin, Lamps!gpioVars
  <2>2. CASE Lamps!Call \/ Lamps!Reenter
    BY <2>2 DEF LampsTyped, Lamps!TypeOK, Lamps!Call, Lamps!Load, Lamps!Store, Lamps!SetCurr, Lamps!Reenter,
                Lamps!Advance, Lamps!gpioVars
  <2> QED BY <2>1, <2>2 DEF Lamps!CpuThread
<1>3. tmp' \in Nat
  <2>1. CASE Lamps!Load
    <3>1. display_bufs[pd] \in Lamps!Buffer
      BY DEF LampsTyped, Lamps!TypeOK
    <3>2. led # 0 => led \in Lamps!LED
      BY LampSizes DEF LampsTyped, Lamps!TypeOK, Lamps!LED, Lamps!SizesAssumption
    <3> QED BY <2>1, <3>1, <3>2 DEF Lamps!Load, Lamps!Buffer
  <2>2. CASE UNCHANGED tmp
    BY <2>2 DEF LampsTyped, Lamps!TypeOK
  <2> QED BY <2>1, <2>2 DEF Lamps!CpuThread, Lamps!Call, Lamps!Begin, Lamps!Store, Lamps!SetCurr, Lamps!Reenter
<1>4. led' \in 0 .. NLEDs /\ (cpu' = "curr" => led' \in Lamps!LED)
  BY LampSizes DEF Lamps!SizesAssumption, LampsTyped, PlacesKnown, Lamps!TypeOK, Lamps!LED, Lamps!CpuThread,
         Lamps!Call, Lamps!Begin, Lamps!Load, Lamps!Store, Lamps!SetCurr, Lamps!Reenter, Lamps!Advance
<1> QED
  BY <1>1, <1>2, <1>3, <1>4
  DEF LampsTyped, PlacesKnown, Lamps!TypeOK, Lamps!CpuThread, Lamps!Call, Lamps!Begin, Lamps!Load,
      Lamps!Store, Lamps!SetCurr, Lamps!Reenter, Lamps!Advance, Lamps!gpioVars

LEMMA LampsGpioTyped ==
    ASSUME LampsTyped, Lamps!GpioThread
    PROVE  LampsTyped'
<1> USE DEF LampsTyped, PlacesKnown, Lamps!TypeOK, Lamps!GpioThread, Lamps!Copy, Lamps!Clear, Lamps!Swap,
        Lamps!Check, Lamps!Revive, Lamps!ReadCycleCount, Lamps!ComputeTarget, Lamps!callVars, Lamps!cpuVars
<1>1. display_bufs' \in [{0, 1} -> Lamps!Buffer]
  BY BuffersTyped DEF Lamps!Next
<1>2. {called, mixed, torn}' \subseteq BOOLEAN
  BY DEF Lamps!Stale
<1>3. cycle_count' \in Nat
  BY DEF Lamps!Buffer
<1>4. pdis_update' \in {0, 1} /\ pdis_paint' = 1 - pdis_update'
  OBVIOUS
<1>5. br_target' \in [Lamps!LED -> {"off", "part", "full", "over"}]
  BY DEF Lamps!Target
<1>6. copy' \subseteq Lamps!LED
  BY DEF Lamps!Buffer
<1> QED BY <1>1, <1>2, <1>3, <1>4, <1>5, <1>6 DEF Lamps!Parts

-----------------------------------------------------------------------------
(* No update is held up: the buffers are exact.                            *)

LEMMA LampsBegin == Lamps!Init => LampsInv
<1> SUFFICES ASSUME Lamps!Init PROVE LampsInv
  OBVIOUS
<1>1. {called, mixed, torn} \subseteq BOOLEAN
  BY DEF Lamps!Init
<1>2. LampsTyped
  BY <1>1, BlankBuffer, LampSizes
  DEF Lamps!Init, LampsTyped, PlacesKnown, Lamps!TypeOK, Lamps!SizesAssumption
<1>3. LampsExact
  BY DEF Lamps!Init, Lamps!Blank, LampsExact, ClearedAlone, ClearedSoFar, UpdateExact, Counted, ReadWhole,
         Lamps!Stale, Painted
<1> QED BY <1>2, <1>3 DEF LampsInv

\* What is written to one buffer leaves the other alone.
LEMMA UpdateWrites ==
    ASSUME LampsTyped
    PROVE  /\ display_bufs \in [{0, 1} -> Lamps!Buffer] /\ pd \in {0, 1}
           /\ Lamps!Store =>
                 /\ \A b \in {0, 1} \ {pd} : display_bufs'[b] = display_bufs[b]
                 /\ led = 0 => /\ display_bufs'[pd].cycle_count = tmp + 1
                               /\ display_bufs'[pd].on = display_bufs[pd].on
                 /\ led # 0 => /\ display_bufs'[pd].cycle_count = display_bufs[pd].cycle_count
                               /\ display_bufs'[pd].on = [display_bufs[pd].on EXCEPT ![led] = tmp + 1]
           /\ Lamps!SetCurr =>
                 /\ \A b \in {0, 1} \ {pd} : display_bufs'[b] = display_bufs[b]
                 /\ display_bufs'[pd].cycle_count = display_bufs[pd].cycle_count
                 /\ display_bufs'[pd].on = display_bufs[pd].on
BY DEF LampsTyped, Lamps!TypeOK, Lamps!Store, Lamps!SetCurr, Lamps!Buffer

LEMMA PainterWrites ==
    ASSUME LampsTyped, Lamps!Clear \/ Lamps!Revive
    PROVE  /\ display_bufs \in [{0, 1} -> Lamps!Buffer] /\ pdis_paint \in {0, 1} /\ pdis_update \in {0, 1}
           /\ pdis_update # pdis_paint
           /\ \A b \in {0, 1} \ {pdis_paint} : display_bufs'[b] = display_bufs[b]
           /\ Lamps!Revive => /\ display_bufs'[pdis_paint].cycle_count = Painted.cycle_count
                              /\ display_bufs'[pdis_paint].on = Painted.on
<1>1. /\ display_bufs \in [{0, 1} -> Lamps!Buffer] /\ pdis_paint \in {0, 1} /\ pdis_update \in {0, 1}
      /\ pdis_update # pdis_paint
  BY DEF LampsTyped, Lamps!TypeOK
<1>2. CASE Lamps!Clear
  BY <1>1, <1>2 DEF Lamps!Clear, Lamps!Revive
<1>3. CASE Lamps!Revive
  <2>1. PICK p \in left :
           display_bufs' = [display_bufs EXCEPT ![pdis_paint].curr =
                               IF p.led \in copy THEN @ \cup {p.led} ELSE @ \ {p.led}]
    BY <1>3 DEF Lamps!Revive
  <2> QED BY <1>1, <2>1 DEF Painted, Lamps!Buffer
<1> QED BY <1>2, <1>3

\* The buffer of an update is not the one that is cleared, and bounds its LEDs.
LEMMA UpdatedCounted ==
    ASSUME LampsTyped, LampsExact, cpu # "idle"
    PROVE  /\ \A l \in Lamps!LED : display_bufs[pd].on[l] <= display_bufs[pd].cycle_count
           /\ gpio = "clear" => pd # pdis_paint
           /\ pd \in {pdis_update, pdis_paint}
BY DEF LampsTyped, Lamps!TypeOK, LampsExact, ClearedAlone, Counted, Painted, Lamps!Stale

LEMMA BufferOf ==
    ASSUME NEW b \in Lamps!Buffer
    PROVE  b.cycle_count \in Nat /\ b.on \in [Lamps!LED -> Nat] /\ b.curr \in SUBSET Lamps!LED
BY DEF Lamps!Buffer

LEMMA BeginExact == ASSUME LampsTyped, LampsExact, Lamps!Begin PROVE LampsExact'
BY DEF LampsTyped, Lamps!TypeOK, Lamps!Begin, LampsExact, ClearedAlone, ClearedSoFar, UpdateExact, Counted,
       ReadWhole, Lamps!Stale, Painted, Lamps!gpioVars

LEMMA LoadExact == ASSUME LampsTyped, LampsExact, Lamps!Load PROVE LampsExact'
BY DEF LampsTyped, Lamps!TypeOK, Lamps!Load, LampsExact, ClearedAlone, ClearedSoFar, UpdateExact, Counted,
       ReadWhole, Lamps!Stale, Painted, Lamps!gpioVars

LEMMA StoreExact == ASSUME LampsTyped, LampsExact, Lamps!Store PROVE LampsExact'
<1>1. /\ display_bufs[pd].cycle_count \in Nat /\ display_bufs[pd].on \in [Lamps!LED -> Nat]
      /\ led \in 0 .. NLEDs /\ tmp \in Nat /\ NLEDs \in Nat \ {0}
      /\ pdis_update \in {0, 1} /\ pdis_paint \in {0, 1} /\ pdis_update # pdis_paint
  BY BufferOf, UpdateWrites, LampSizes DEF LampsTyped, Lamps!TypeOK, Lamps!SizesAssumption
<1>2. /\ pd' = pd /\ cpu = "store" /\ UNCHANGED <<pdis_update, pdis_paint, gpio, left, cycle_count, torn>>
      /\ led = NLEDs => cpu' = "idle"
      /\ led # NLEDs => cpu' = "curr" /\ led' = led + 1
  BY DEF Lamps!Store, Lamps!Advance, Lamps!gpioVars
<1>3. ClearedAlone'
  BY <1>2 DEF ClearedAlone, Lamps!Stale, LampsExact
<1>4. ClearedSoFar'
  BY <1>1, <1>2, UpdateWrites DEF ClearedAlone, Lamps!Stale, ClearedSoFar, LampsExact, Painted
<1>5. CASE led = 0
  <2>1. \A l \in Lamps!LED : display_bufs'[pd].on[l] + 1 <= display_bufs'[pd].cycle_count
    BY <1>1, <1>2, <1>5, UpdateWrites, UpdatedCounted DEF UpdateExact, LampsExact
  <2>2. UpdateExact'
    BY <1>1, <1>2, <1>5, <2>1 DEF UpdateExact
  <2>3. \A l \in Lamps!LED : display_bufs'[pd].on[l] <= display_bufs'[pd].cycle_count
    BY <1>1, <1>5, <2>1, UpdateWrites
  <2> QED BY <1>1, <1>2, <1>3, <1>4, <2>2, <2>3, UpdateWrites
          DEF LampsExact, Counted, ReadWhole, Painted, Lamps!Stale
<1>6. CASE led # 0
  <2>1. \A l \in Lamps!LED :
           display_bufs'[pd].on[l] = IF l = led THEN display_bufs[pd].on[l] + 1 ELSE display_bufs[pd].on[l]
    BY <1>1, <1>2, <1>6, UpdateWrites DEF UpdateExact, LampsExact
  <2>2. display_bufs'[pd].cycle_count = display_bufs[pd].cycle_count
    BY <1>6, UpdateWrites
  <2>3. \A l \in Lamps!LED : l >= led => display_bufs[pd].on[l] + 1 <= display_bufs[pd].cycle_count
    BY <1>1, <1>2, <1>6 DEF UpdateExact, LampsExact
  <2>4. UpdateExact'
    BY <1>1, <1>2, <1>6, <2>1, <2>2, <2>3 DEF UpdateExact, Lamps!LED
  <2>5. \A l \in Lamps!LED : display_bufs'[pd].on[l] <= display_bufs'[pd].cycle_count
    <3>1. \A l \in Lamps!LED : display_bufs[pd].on[l] <= display_bufs[pd].cycle_count
      BY <1>2, UpdatedCounted
    <3>2. \A l \in Lamps!LED : l = led => display_bufs[pd].on[l] + 1 <= display_bufs[pd].cycle_count
      BY <1>1, <2>3
    <3> QED BY <2>1, <2>2, <3>1, <3>2
  <2> QED BY <1>1, <1>2, <1>3, <1>4, <2>4, <2>5, UpdateWrites
          DEF LampsExact, Counted, ReadWhole, Painted, Lamps!Stale
<1> QED BY <1>5, <1>6

LEMMA SetCurrExact == ASSUME LampsTyped, LampsExact, Lamps!SetCurr PROVE LampsExact'
<1> USE UpdateWrites, LampSizes
    DEF LampsTyped, Lamps!TypeOK, Lamps!SizesAssumption, Lamps!SetCurr, Lamps!Advance, LampsExact, Lamps!gpioVars,
        Lamps!LED, Painted
<1>1. ClearedAlone'
  BY DEF ClearedAlone, Lamps!Stale
<1>2. ClearedSoFar'
  BY DEF ClearedAlone, Lamps!Stale, ClearedSoFar
<1>3. UpdateExact'
  <2>a. (cpu' = "load" /\ led' = led) \/ cpu' = "idle" \/ (cpu' = "curr" /\ led' = led + 1)
    BY ONLY Lamps!SetCurr DEF Lamps!SetCurr, Lamps!Advance
  <2>b. led \in 1 .. NLEDs /\ NLEDs \in Nat /\ pd' = pd /\ cpu = "curr"
    BY ONLY LampsTyped, LampSizes, Lamps!SetCurr
       DEF Lamps!SetCurr, LampsTyped, PlacesKnown, Lamps!LED, Lamps!SizesAssumption
  <2>1. /\ (cpu' = "load" /\ led' = led) \/ cpu' = "idle" \/ (cpu' = "curr" /\ led' = led + 1)
        /\ led \in 1 .. NLEDs /\ NLEDs \in Nat /\ pd' = pd /\ cpu = "curr"
    BY ONLY <2>a, <2>b
  <2>2. \A l \in Lamps!LED : l >= led => display_bufs[pd].on[l] + 1 <= display_bufs[pd].cycle_count
    BY <2>1 DEF UpdateExact
  <2>3. /\ display_bufs'[pd].cycle_count = display_bufs[pd].cycle_count
        /\ display_bufs'[pd].on = display_bufs[pd].on
    BY UpdateWrites
  <2> QED BY ONLY <2>1, <2>2, <2>3 DEF UpdateExact, Lamps!LED
<1>4. Counted'
  BY DEF UpdateExact, Counted
<1>5. ReadWhole'
  BY DEF ReadWhole, Lamps!Stale
<1> QED BY <1>1, <1>2, <1>3, <1>4, <1>5

LEMMA ReenterExact == ASSUME LampsTyped, LampsExact, Lamps!Reenter PROVE LampsExact'
<1>1. \A b \in {0, 1} : /\ display_bufs'[b].cycle_count = 0 /\ display_bufs'[b].curr = {}
                        /\ \A l \in Lamps!LED : display_bufs'[b].on[l] = 0
  BY DEF Lamps!Reenter, Lamps!Blank
<1>2. \A b \in {0, 1} : \A p \in Lamps!Parts : IsClear(display_bufs'[b], p)
  BY <1>1 DEF IsClear, Lamps!Parts, Lamps!Counters, Lamps!States, Lamps!LED
<1> QED
BY <1>1, <1>2 DEF LampsTyped, Lamps!TypeOK, Lamps!Reenter, LampsExact, ClearedAlone, ClearedSoFar, UpdateExact, Counted,
       ReadWhole, Lamps!Stale, Painted, Lamps!gpioVars

LEMMA CopyExact == ASSUME ~Delays, LampsTyped, LampsExact, Lamps!Copy PROVE LampsExact'
BY DEF LampsTyped, Lamps!TypeOK, Lamps!Copy, LampsExact, ClearedAlone, ClearedSoFar, UpdateExact, Counted,
       ReadWhole, Lamps!Stale, Painted, Lamps!callVars

\* The buffer that is cleared is the painter's alone.
LEMMA ClearExact == ASSUME LampsTyped, LampsExact, Lamps!Clear PROVE LampsExact'
<1>1. PICK p \in left : /\ display_bufs' = [display_bufs EXCEPT ![pdis_paint] = Lamps!Cleared(@, p)]
                        /\ left' = left \ {p}
  BY DEF Lamps!Clear
<1>2. /\ gpio = "clear" /\ gpio' = (IF left' = {} THEN "swap" ELSE "clear")
      /\ UNCHANGED <<pdis_update, pdis_paint, cpu, pd, led, tmp>>
  BY DEF Lamps!Clear, Lamps!cpuVars, Lamps!callVars
<1>3. Painted \in Lamps!Buffer /\ Painted' = Lamps!Cleared(Painted, p) /\ p \in Lamps!Parts
  BY <1>1, <1>2, PainterWrites DEF Painted, LampsTyped, Lamps!TypeOK
<1>4. \A q \in Lamps!Parts : q # p => (IsClear(Painted, q) => IsClear(Painted', q))
  <2> SUFFICES ASSUME NEW q \in Lamps!Parts, q # p, IsClear(Painted, q) PROVE IsClear(Painted', q)
    OBVIOUS
  <2>1. q.array # p.array \/ q.led # p.led
    BY <1>3 DEF Lamps!Parts, Lamps!Counters, Lamps!States
  <2>2. p.array \in {"on", "curr"} /\ q.array \in {"on", "curr"}
    BY <1>3 DEF Lamps!Parts, Lamps!Counters, Lamps!States
  <2> QED BY <1>3, <2>1, <2>2 DEF IsClear, Lamps!Cleared, Lamps!Buffer
<1>5. IsClear(Painted', p)
  <2>1. p.array # "curr" /\ p.led # 0 => p.led \in Lamps!LED
    BY <1>3, LampSizes DEF Lamps!Parts, Lamps!Counters, Lamps!States, Lamps!LED, Lamps!SizesAssumption
  <2> QED BY <1>3, <2>1 DEF IsClear, Lamps!Cleared, Lamps!Buffer
<1>6. \A q \in Lamps!Parts \ left' : IsClear(Painted', q)
  BY <1>1, <1>2, <1>4, <1>5 DEF ClearedSoFar, LampsExact
<1>7. gpio' = "swap" => \A l \in Lamps!LED : Painted'.on[l] <= Painted'.cycle_count
  <2> SUFFICES ASSUME gpio' = "swap", NEW l \in Lamps!LED PROVE Painted'.on[l] <= Painted'.cycle_count
    OBVIOUS
  <2> DEFINE q == [array |-> "on", led |-> l]
             c == [array |-> "on", led |-> 0]
  <2>1. q \in Lamps!Parts /\ c \in Lamps!Parts
    BY LampSizes DEF Lamps!Parts, Lamps!Counters, Lamps!LED, Lamps!SizesAssumption
  <2>2. IsClear(Painted', q) /\ IsClear(Painted', c)
    BY <1>2, <1>6, <2>1
  <2>3. Painted'.on[l] = 0 /\ Painted'.cycle_count = 0
    BY <2>2 DEF IsClear, Lamps!LED
  <2> QED BY <2>3
<1>8. \A b \in {0, 1} \ {pdis_paint} : display_bufs'[b] = display_bufs[b]
  BY PainterWrites
<1>9. ClearedAlone' /\ UpdateExact'
  BY <1>2, <1>8, PainterWrites DEF ClearedAlone, Lamps!Stale, UpdateExact, LampsExact, LampsTyped, Lamps!TypeOK
<1>10. Counted'
  BY <1>2, <1>7, <1>8, PainterWrites DEF Counted, LampsExact, Painted
<1> QED BY <1>2, <1>6, <1>9, <1>10 DEF ClearedSoFar, ReadWhole, LampsExact

LEMMA SwapExact == ASSUME LampsTyped, LampsExact, Lamps!Swap PROVE LampsExact'
BY DEF LampsTyped, Lamps!TypeOK, Lamps!Swap, LampsExact, ClearedAlone, ClearedSoFar, UpdateExact, Counted,
       ReadWhole, Lamps!Stale, Painted, Lamps!callVars, Lamps!cpuVars

LEMMA ReviveExact == ASSUME LampsTyped, LampsExact, Lamps!Revive PROVE LampsExact'
BY PainterWrites
DEF LampsTyped, Lamps!TypeOK, Lamps!Revive, LampsExact, ClearedAlone, ClearedSoFar, UpdateExact, Counted,
    ReadWhole, Lamps!Stale, Painted, Lamps!callVars, Lamps!cpuVars

LEMMA TargetsExact ==
    ASSUME LampsTyped, LampsExact, Lamps!Check \/ Lamps!ReadCycleCount \/ Lamps!ComputeTarget
    PROVE  LampsExact'
BY DEF LampsTyped, Lamps!TypeOK, Lamps!Check, Lamps!ReadCycleCount, Lamps!ComputeTarget, LampsExact, ClearedAlone,
       ClearedSoFar, UpdateExact, Counted, ReadWhole, Lamps!Stale, Painted, Lamps!callVars, Lamps!cpuVars

LEMMA LampsStep == LampsInv /\ [Lamps!Next]_lampvars => LampsInv'
<1> SUFFICES ASSUME LampsInv, [Lamps!Next]_lampvars PROVE LampsInv'
  OBVIOUS
<1>1. CASE UNCHANGED lampvars
  BY <1>1
  DEF lampvars, LampsInv, LampsTyped, PlacesKnown, Lamps!TypeOK, LampsExact, ClearedAlone, ClearedSoFar, UpdateExact,
      Counted, ReadWhole, Lamps!Stale, Painted
<1>2. CASE Lamps!Next
  <2>1. LampsTyped'
    BY <1>2, LampsCallTyped, LampsGpioTyped DEF LampsInv, Lamps!Next
  <2>2. ~Delays => LampsExact'
    BY <1>2, BeginExact, LoadExact, StoreExact, SetCurrExact, ReenterExact, CopyExact, ClearExact, SwapExact,
       ReviveExact, TargetsExact
    DEF LampsInv, Lamps!Next, Lamps!CpuThread, Lamps!Call, Lamps!GpioThread
  <2> QED BY <2>1, <2>2 DEF LampsInv
<1> QED BY <1>1, <1>2

\* A buffer all of whose parts are clear is blank.
LEMMA AllClear ==
    ASSUME NEW b \in Lamps!Buffer, \A p \in Lamps!Parts : IsClear(b, p)
    PROVE  b = Lamps!Blank
<1>1. \A l \in Lamps!LED : [array |-> "on", led |-> l] \in Lamps!Parts /\ l # 0
  BY LampSizes DEF Lamps!Parts, Lamps!Counters, Lamps!LED, Lamps!SizesAssumption
<1>2. \A l \in Lamps!LED : [array |-> "curr", led |-> l] \in Lamps!Parts
  BY DEF Lamps!Parts, Lamps!States
<1>3. [array |-> "on", led |-> 0] \in Lamps!Parts
  BY LampSizes DEF Lamps!Parts, Lamps!Counters, Lamps!SizesAssumption
<1>4. b.cycle_count = 0
  BY <1>3 DEF IsClear
<1>5. b.on = [l \in Lamps!LED |-> 0]
  <2>1. \A l \in Lamps!LED : b.on[l] = 0
    BY <1>1 DEF IsClear
  <2> QED BY <2>1 DEF Lamps!Buffer
<1>6. b.curr = {}
  <2>1. \A l \in Lamps!LED : l \notin b.curr
    BY <1>2 DEF IsClear
  <2> QED BY <2>1 DEF Lamps!Buffer
<1> QED BY <1>4, <1>5, <1>6 DEF Lamps!Buffer, Lamps!Blank

LEMMA SwapsBlank ==
    ASSUME ~Delays, LampsInv, Lamps!Swap
    PROVE  display_bufs[pdis_update'] = Lamps!Blank
<1>1. pdis_update' = pdis_paint
  BY DEF LampsInv, LampsTyped, Lamps!TypeOK, Lamps!Swap
<1>2. \A p \in Lamps!Parts : IsClear(Painted, p)
  BY DEF LampsInv, LampsTyped, PlacesKnown, LampsExact, ClearedSoFar, Lamps!Swap
<1>3. Painted \in Lamps!Buffer
  BY DEF LampsInv, LampsTyped, Lamps!TypeOK, Painted
<1> QED BY <1>1, <1>2, <1>3, AllClear DEF Painted

LEMMA TargetsBounded ==
    ASSUME ~Delays, LampsInv, Lamps!ComputeTarget, ~torn, NEW l \in Lamps!LED, br_target'[l] = "over"
    PROVE  br_target[l] = "over"
<1>1. PICK p \in left :
         br_target' = [br_target EXCEPT ![p.led] =
                          IF cycle_count > 0
                          THEN Lamps!Target(Painted.on[p.led], cycle_count)
                          ELSE IF p.led \in Painted.curr THEN "full" ELSE "off"]
  BY DEF Lamps!ComputeTarget, Painted
<1>2. p.led \in Lamps!LED /\ br_target \in [Lamps!LED -> {"off", "part", "full", "over"}]
  BY DEF LampsInv, LampsTyped, PlacesKnown, Lamps!TypeOK, Lamps!ComputeTarget, Lamps!States
<1>3. Painted.on[p.led] \in Nat /\ cycle_count \in Nat /\ Painted.on[p.led] <= cycle_count
  BY <1>2 DEF LampsInv, LampsTyped, Lamps!TypeOK, LampsExact, ReadWhole, Lamps!ComputeTarget, Painted, Lamps!Buffer
<1>4. Lamps!Target(Painted.on[p.led], cycle_count) # "over"
  BY <1>3 DEF Lamps!Target
<1> QED BY <1>1, <1>2, <1>4

-----------------------------------------------------------------------------
(* The panel.                                                              *)

PanelInv == KeysInv /\ LampsInv

LEMMA PanelBegins == PanelInit => PanelInv
BY KeysBegin, LampsBegin DEF PanelInit, KeysRest, PanelInv

\* A step of the panel is one of its keys and one of its lamps, or leaves them.
LEMMA PanelParts == [PanelNext]_panelvars => [Next]_vars /\ [Lamps!Next]_lampvars
BY DEF PanelNext, KeyStep, LampStep, panelvars

LEMMA PanelStep == PanelInv /\ [PanelNext]_panelvars => PanelInv'
BY PanelParts, KeysStep, LampsStep DEF PanelInv

LEMMA PanelInvariant == FairPanel => []PanelInv
BY PanelBegins, PanelStep, PTL DEF FairPanel

\* The states of the keys and of the lamps have their types, SING_STEP's two
\* flags agree, and the GPIO thread paints the buffer it has not handed over.
THEOREM PanelTyped == FairPanel => []PanelTypes
<1>1. PanelInv => PanelTypes
  BY DEF PanelInv, KeysInv, LampsInv, LampsTyped, PanelTypes
<1> QED BY <1>1, PanelInvariant, PTL

\* The simulator's prompt is reached with a machine that runs, or that cont
\* will run: the pause of an event is always remembered.
THEOREM PromptResumes == FairPanel => []ContResumes
<1>1. PanelInv => ContResumes
  BY DEF PanelInv, KeysInv
<1> QED BY <1>1, PanelInvariant, PTL

\* A key acts at most once for a press, for all orders of its bounces and of
\* the tests of the CPU thread.
THEOREM ActsOnce == FairPanel => OnePerPress
<1>1. PanelInv /\ [PanelNext]_panelvars =>
         [\A k \in PressKeys : k \in flags' \ flags /\ ~(k = "CONT" /\ resume) => k \in fresh]_vars
  BY PanelParts, ActsWhenFresh DEF PanelInv
<1> QED BY <1>1, PanelInvariant, PTL DEF FairPanel, OnePerPress

\* A machine with SING_STEP or SING_INST held makes no step of its own.
THEOREM StepsSingly == FairPanel => SingleSteps
<1>1. PanelInv /\ [PanelNext]_panelvars =>
         [MajorState /\ ("SSTEP" \in held \/ ("SINST" \in held /\ major = "Fetch")) => go]_vars
  BY StepsOnlyOnGo DEF PanelInv
<1> QED BY <1>1, PanelInvariant, PTL DEF FairPanel, SingleSteps

\* Unless the host holds up an update for more than a frame, the CPU thread is
\* handed a buffer in which nothing is counted.
THEOREM HandsOverBlank == ASSUME ~Delays PROVE FairPanel => BlankSlate
<1>1. PanelInv => [Lamps!Swap => display_bufs[pdis_update'] = Lamps!Blank]_(Lamps!vars)
  BY SwapsBlank DEF PanelInv
<1> QED BY <1>1, PanelInvariant, PTL DEF FairPanel, BlankSlate, Lamps!BlankSlate

\* Nor does it find an LED that was on for more cycles than there were, unless
\* it read the cycle count within an update.
THEOREM BrightnessBounded == ASSUME ~Delays PROVE FairPanel => CountsBounded
<1>1. PanelInv => [Lamps!ComputeTarget /\ ~torn
                     => \A l \in Lamps!LED : br_target'[l] = "over" => br_target[l] = "over"]_(Lamps!vars)
  BY TargetsBounded DEF PanelInv
<1> QED BY <1>1, PanelInvariant, PTL DEF FairPanel, CountsBounded, Lamps!CountsBounded
=============================================================================
