----------------------------- MODULE FrontPanel -----------------------------
(***************************************************************************)
(* The keys of the front panel and the CPU thread they control: the head   *)
(* of the loop of sim_instr (pdp8_cpu.c) with pidp8i_gpio true, and        *)
(* handle_flow_control_switches and handle_sing_step_special_cases         *)
(* (main.c.in).  The GPIO thread reports a switch at any time, so every    *)
(* read of switchstatus is a step of its own: a key is read for its press  *)
(* and again for its release, and may move between the two.                *)
(*                                                                         *)
(* Of the CPU a turn of the loop is kept as its major state, with HLT and  *)
(* breakpoints; module Cpu has the rest.  swStop is written and never      *)
(* read, and is left out.                                                  *)
(***************************************************************************)
EXTENDS Integers

CONSTANTS
    Panels,         \* sets of switches: the user operates those of one of them
    MaxInterval     \* the longest time to the next event, in instructions

PressKeys == {"START", "LADD", "DEP", "EXAM", "CONT"}   \* act once for a press
AllKeys == PressKeys \cup {"STOP", "SSTEP", "SINST", "IF"}

ASSUME KeyAssumption == Panels \subseteq SUBSET AllKeys
ASSUME IntervalAssumption == MaxInterval \in Nat \ {0}

VARIABLES
    keys,           \* the switches the user operates
    panel,          \* the switches that are closed, as switchstatus has them
    pos,            \* the step of the loop the CPU thread is at
    flags,          \* the set ones of swStart, swLAdd, swDep, swExam, swCont,
                    \*   swSingStep and swSingInst, by the name of their switch
    shot,           \* sing_step_single_shot
    cpuRun,
    resume,         \* resumeFromInstructionLoopExit
    go,             \* the flow is pft_go
    major,          \* next_Major_State
    sim_interval,
    stop_cpu,       \* a Ctrl-E that is not served yet
    fresh,          \* history: keys that did not act since they were pressed
    held            \* history: switches closed since the turn began

thread == <<pos, flags, shot, cpuRun, resume, go, major>>
moving == <<panel, thread, sim_interval, stop_cpu, fresh, held>>
vars == <<keys, moving>>

\* Where a key is tested for its press, where for its release, and what follows.
At == [START |-> "start", LADD |-> "ladd", DEP |-> "dep", EXAM |-> "exam",
       CONT |-> "cont", SINST |-> "sinst"]
OpenAt == [START |-> "startopen", LADD |-> "laddopen", DEP |-> "depopen",
           EXAM |-> "examopen", CONT |-> "contopen", SINST |-> "sinstopen"]
After == [START |-> "ladd", LADD |-> "dep", DEP |-> "exam", EXAM |-> "cont",
          CONT |-> "stop", SINST |-> "cycle"]

-----------------------------------------------------------------------------
(* The user.                                                               *)

\* The debouncer reports that a switch has closed or opened.
Move(k) ==
    /\ panel' = IF k \in panel THEN panel \ {k} ELSE panel \cup {k}
    /\ fresh' = IF k \in panel THEN fresh \ {k} ELSE fresh \cup ({k} \cap PressKeys)
    /\ held' = held \ {k}
    /\ UNCHANGED <<thread, sim_interval, stop_cpu>>

\* The handler of the signal may be overtaken by a decrement of sim_interval.
CtrlE ==
    /\ pos \notin {"scp", "ended"}
    /\ stop_cpu' = TRUE
    /\ sim_interval' \in {0, sim_interval}
    /\ UNCHANGED <<panel, thread, fresh, held>>

\* cont, go or boot at the sim> prompt.
Continue ==
    /\ pos = "scp"
    /\ pos' = "event" /\ stop_cpu' = FALSE
    /\ major' \in {major, "Fetch"}
    /\ UNCHANGED <<panel, flags, shot, cpuRun, resume, go, sim_interval, fresh, held>>

-----------------------------------------------------------------------------
(* The head of the loop.                                                   *)

BeginTurn ==
    /\ pos' = "start" /\ go' = FALSE
    /\ held' = panel \cap {"SSTEP", "SINST"}
    /\ UNCHANGED <<panel, flags, shot, cpuRun, resume, major, fresh>>

NoEvent == /\ pos = "event" /\ sim_interval > 0
           /\ BeginTurn
           /\ UNCHANGED <<sim_interval, stop_cpu>>

ProcessEvents ==
    /\ pos = "event" /\ sim_interval = 0 /\ ~stop_cpu
    /\ BeginTurn
    /\ sim_interval' \in 1 .. MaxInterval
    /\ UNCHANGED stop_cpu

LeavePaused == resume' = resume                 \* mutant of LeaveResumable
LeaveResumable == resume' = TRUE

\* Ctrl-E, the end of a STEP command, or an event that stops the simulation.
EventExit ==
    /\ pos = "event" /\ sim_interval = 0
    /\ LeaveResumable
    /\ cpuRun' = FALSE /\ stop_cpu' = FALSE
    /\ pos' = "scp"
    /\ UNCHANGED <<panel, flags, shot, go, major, sim_interval, fresh, held>>

-----------------------------------------------------------------------------
(* handle_flow_control_switches.                                           *)

Closed(k) == k \in panel

Acts(k) ==
    /\ flags' = flags \cup {k}
    /\ fresh' = fresh \ {k}

\* Mutant of Release: the release of another switch is tested.
ReleaseOther(k) == IF ~Closed("CONT") THEN flags \ {k} ELSE flags
Release(k) == IF ~Closed(k) THEN flags \ {k} ELSE flags

CheckRelease(k) ==
    /\ pos = OpenAt[k] /\ pos' = After[k]
    /\ flags' = Release(k)
    /\ UNCHANGED <<cpuRun, resume, go, major, fresh>>

\* A key that acts once for a press, and only on a stopped machine.
Pressed(k) == Closed(k) /\ k \notin flags /\ ~cpuRun

NotPressed(k) ==
    /\ ~Pressed(k)
    /\ pos' = OpenAt[k]
    /\ UNCHANGED <<flags, cpuRun, resume, go, major, fresh>>

\* START and CONT return pft_go: their release waits for the next turn.
Run(k) ==
    /\ Acts(k)
    /\ cpuRun' = TRUE /\ go' = TRUE /\ pos' = "cycle"

\* The registers that START, LOAD ADD, DEP and EXAM change are left out.
CheckStart ==
    /\ pos = At["START"]
    /\ \/ Pressed("START") /\ Run("START") /\ major' = "Fetch" /\ UNCHANGED resume
       \/ NotPressed("START")

CheckRegisterKey(k) ==
    /\ pos = At[k]
    /\ \/ /\ Pressed(k) /\ Acts(k)
          /\ major' = "Fetch" /\ pos' = OpenAt[k]
          /\ UNCHANGED <<cpuRun, resume, go>>
       \/ NotPressed(k)

\* The first turn after an EventExit runs on without a press.
CheckCont ==
    /\ pos = At["CONT"]
    /\ \/ /\ Pressed("CONT") \/ resume
          /\ Run("CONT") /\ resume' = FALSE /\ UNCHANGED major
       \/ ~resume /\ NotPressed("CONT")

StopIgnored == cpuRun' = cpuRun                 \* mutant of StopCpu
StopCpu == cpuRun' = FALSE

CheckStop ==
    /\ pos = "stop"
    /\ IF Closed("STOP") THEN StopCpu ELSE UNCHANGED cpuRun
    /\ pos' = "sstep"
    /\ UNCHANGED <<flags, resume, go, major, fresh>>

Exit == /\ pos' = "ended"
        /\ UNCHANGED <<cpuRun, resume, go, major, fresh>>

\* The switches that go with it are read after SING_STEP was.
CheckSingStep ==
    /\ pos = "sstep"
    /\ IF Closed("SSTEP") /\ "SSTEP" \notin flags
       THEN /\ flags' = flags \cup {"SSTEP"}
            /\ shot' = TRUE
            /\ pos' = IF shot THEN "poweroff" ELSE "special"
       ELSE /\ pos' = "sstepopen"
            /\ UNCHANGED <<flags, shot>>
    /\ UNCHANGED <<cpuRun, resume, go, major, fresh>>

\* With SING_INST and CONT the DF switches mount a medium, which takes its time
\* and changes nothing here, and the IF switches restart the simulator.
CheckSpecial ==
    /\ pos = "special"
    /\ pos' = IF {"SINST", "CONT"} \subseteq panel THEN "script" ELSE "poweroff"
    /\ UNCHANGED <<flags, cpuRun, resume, go, major, fresh>>

CheckScript ==
    /\ pos = "script"
    /\ IF Closed("IF") THEN Exit
       ELSE pos' = "poweroff" /\ UNCHANGED <<cpuRun, resume, go, major, fresh>>
    /\ UNCHANGED flags

\* SING_INST with STOP switches the host off, with START reboots it.
Shutdown(k, next) ==
    /\ IF {"SINST", k} \subseteq panel THEN Exit
       ELSE /\ pos' = next
            /\ IF next = "sstepopen" THEN StopCpu ELSE UNCHANGED cpuRun
            /\ UNCHANGED <<resume, go, major, fresh>>
    /\ UNCHANGED flags

CheckPowerOff == pos = "poweroff" /\ Shutdown("STOP", "reboot")
CheckReboot == pos = "reboot" /\ Shutdown("START", "sstepopen")

ShotKept == shot' = shot                        \* mutant of EndShot
EndShot == shot' = FALSE

CheckSingStepOpen ==
    /\ pos = "sstepopen"
    /\ IF "SSTEP" \in flags /\ ~Closed("SSTEP")
       THEN flags' = flags \ {"SSTEP"} /\ EndShot
       ELSE UNCHANGED <<flags, shot>>
    /\ pos' = "sinst"
    /\ UNCHANGED <<cpuRun, resume, go, major, fresh>>

CheckSingInst ==
    /\ pos = At["SINST"] /\ pos' = OpenAt["SINST"]
    /\ IF Closed("SINST") /\ "SINST" \notin flags
       THEN flags' = flags \cup {"SINST"} /\ StopCpu
       ELSE UNCHANGED <<flags, cpuRun>>
    /\ UNCHANGED <<resume, go, major, fresh>>

CheckSwitches ==
    /\ \/ CheckStart \/ CheckCont \/ CheckStop
       \/ \E k \in {"LADD", "DEP", "EXAM"} : CheckRegisterKey(k)
       \/ \E k \in PressKeys \cup {"SINST"} : CheckRelease(k)
       \/ CheckSpecial \/ CheckScript \/ CheckPowerOff \/ CheckReboot
       \/ CheckSingInst
    /\ UNCHANGED <<panel, shot, sim_interval, stop_cpu, held>>

CheckSingSteps ==
    /\ CheckSingStep \/ CheckSingStepOpen
    /\ UNCHANGED <<panel, sim_interval, stop_cpu, held>>

-----------------------------------------------------------------------------
(* The rest of the loop.                                                   *)

SinglePauseInst == "SINST" \in flags /\ major = "Fetch"     \* mutant of SinglePause
SinglePause == "SSTEP" \in flags \/ ("SINST" \in flags /\ major = "Fetch")

Stopped == ~go /\ (~cpuRun \/ SinglePause)

Elapse == sim_interval' = IF sim_interval > 0 THEN sim_interval - 1 ELSE 0

ClockStopped == UNCHANGED sim_interval          \* mutant of Tick
Tick == Elapse                                  \* of a stopped machine

StayStopped ==
    /\ pos = "cycle" /\ Stopped
    /\ Tick
    /\ cpuRun' = FALSE /\ pos' = "event"
    /\ UNCHANGED <<panel, flags, shot, resume, go, major, stop_cpu, fresh, held>>

\* The majors that may follow, and a HLT that ends in the Fetch state.
FetchState ==
    /\ pos = "cycle" /\ ~Stopped /\ major = "Fetch"
    /\ major' \in {"Fetch", "Defer", "Execute"}
    /\ cpuRun' \in (IF major' = "Fetch" THEN {cpuRun, FALSE} ELSE {cpuRun})
    /\ Elapse
    /\ pos' = "event"
    /\ UNCHANGED <<panel, flags, shot, resume, go, stop_cpu, fresh, held>>

\* A breakpoint ends the loop with no sign of a pause.
Breakpoint ==
    /\ pos = "cycle" /\ ~Stopped /\ major = "Fetch"
    /\ pos' = "scp"
    /\ UNCHANGED <<panel, flags, shot, cpuRun, resume, go, major, sim_interval,
                   stop_cpu, fresh, held>>

LaterState ==
    /\ pos = "cycle" /\ ~Stopped /\ major # "Fetch"
    /\ major' \in (IF major = "Defer" THEN {"Execute", "Fetch"} ELSE {"Fetch"})
    /\ pos' = "event"
    /\ UNCHANGED <<panel, flags, shot, cpuRun, resume, go, sim_interval, stop_cpu, fresh, held>>

MajorState == FetchState \/ LaterState

\* The first loop is the one that calibrates the clock, before any command.
Init ==
    /\ keys \in Panels
    /\ panel \in SUBSET keys /\ fresh = panel \cap PressKeys
    /\ held = {}
    /\ pos = "event" /\ flags = {} /\ shot = FALSE
    /\ cpuRun = FALSE /\ resume = FALSE /\ go = FALSE
    /\ major = "Fetch" /\ sim_interval = MaxInterval /\ stop_cpu = FALSE

CpuThread ==
    \/ NoEvent \/ ProcessEvents \/ EventExit
    \/ CheckSwitches \/ CheckSingSteps
    \/ StayStopped \/ MajorState \/ Breakpoint

User == CtrlE \/ Continue \/ \E k \in keys : Move(k)

Next == (CpuThread \/ User) /\ UNCHANGED keys

Spec == Init /\ [][Next]_vars

\* sim_instr loops on; the user need not do anything.
FairSpec == Spec /\ WF_moving(CpuThread)

-----------------------------------------------------------------------------
\* Types, and that the two flags of SING_STEP agree.
TypeOK ==
    /\ keys \in Panels /\ panel \subseteq keys
    /\ fresh \subseteq panel \cap PressKeys
    /\ held \subseteq panel
    /\ pos \in {"event", "start", "startopen", "ladd", "laddopen", "dep", "depopen",
                "exam", "examopen", "cont", "contopen", "stop", "sstep", "special", "script",
                "poweroff", "reboot", "sstepopen", "sinst", "sinstopen", "cycle", "scp", "ended"}
    /\ flags \subseteq PressKeys \cup {"SSTEP", "SINST"}
    /\ shot \in BOOLEAN /\ (shot <=> "SSTEP" \in flags)
    /\ {cpuRun, resume, go, stop_cpu} \subseteq BOOLEAN
    /\ major \in {"Fetch", "Defer", "Execute"}
    /\ sim_interval \in 0 .. MaxInterval

\* A key acts at most once between two presses, however the tests of the
\* CPU thread fall between its bounces and the machine stops and starts.
OnePerPress ==
    [][\A k \in PressKeys :
          k \in flags' \ flags /\ ~(k = "CONT" /\ resume) => k \in fresh]_vars

\* With SING_STEP closed since the turn began, a major state runs only for a
\* START, a CONT or a resumption; with SING_INST closed, so does an instruction.
SingleSteps ==
    [][MajorState /\ ("SSTEP" \in held \/ ("SINST" \in held /\ major = "Fetch")) => go]_vars

\* The sim> prompt is never left with a machine that cont does not run.
ContResumes == pos = "scp" => cpuRun \/ resume

\* Ctrl-E reaches the prompt, from a stopped machine too.
PromptReached == stop_cpu ~> pos \in {"scp", "ended"}

\* STOP, while it is held, stops the machine.
StopStops ==
    "STOP" \in panel ~> ~cpuRun \/ "STOP" \notin panel \/ pos \in {"scp", "ended"}
=============================================================================
