------------------------------- MODULE Display -------------------------------
(***************************************************************************)
(* The double-buffered display of the front panel: set_pidp8i_leds of      *)
(* main.c.in, called by the CPU thread, and swap_displays of               *)
(* gpio-common.c.in with the brightness targets of gpio-ils.c, run by the  *)
(* GPIO thread.  No lock is shared: the threads only exchange pdis_update. *)
(*                                                                         *)
(* Every load and store of a counter is a step of its own, so that the     *)
(* unlocked increments can be interleaved with the clearing and the swap   *)
(* of the buffers.  An LED stands for a row: which LEDs are lit is the     *)
(* register snapshot passed to set_pidp8i_leds, any subset here.           *)
(***************************************************************************)
EXTENDS Naturals

CONSTANTS
    NLEDs,      \* number of LEDs, in the order set_pidp8i_leds treats them
    MaxCount,   \* bound on the updates of one buffer
    Delays      \* whether the host may hold up an update for more than a frame:
                \* FALSE lets it overlap one swap_displays, TRUE any number

SizesAssumption == NLEDs \in Nat \ {0} /\ MaxCount \in Nat /\ Delays \in BOOLEAN

LED == 1 .. NLEDs

VARIABLES
    display_bufs,   \* the two buffers that are swapped
    pdis_update,    \* index of the buffer handed to the CPU thread
    pdis_paint,     \* index of the buffer the GPIO thread paints from
    copy,           \* curr of pdis_copy, the only part of it that is read
    cpu,            \* set_pidp8i_leds: "idle", "load", "store" or "curr"
    pd, led, lit,   \* its buffer, the LED it is at (0: cycle_count), its argument
    tmp,            \* the counter value it loaded
    mixed,          \* history: this call, or the last one, overlapped a swap
    last, fresh,    \* the argument of the last completed call, if there was
                    \* one since sim_instr was entered
    gpio,           \* gpio_core: "copy", "clear", "swap", "check", "revive",
                    \* "read" or "target"
    left,           \* what this step of it has not reached yet
    cycle_count,    \* the local copy made by gpio_core
    br_target,      \* the brightness targets
    torn            \* history: cycle_count was read in the middle of an update

callVars == <<cpu, pd, led, lit, tmp, last, fresh>>
cpuVars == <<callVars, mixed>>
gpioVars == <<copy, gpio, left, cycle_count, br_target, torn>>
vars == <<display_bufs, pdis_update, pdis_paint, cpuVars, gpioVars>>

Blank == [cycle_count |-> 0, on |-> [l \in LED |-> 0], curr |-> {}]
\* The parts of a buffer that are reached one after the other; the counter
\* of LED 0 is the cycle count.
Counters == [array : {"on"}, led : 0 .. NLEDs]
States == [array : {"curr"}, led : LED]
Parts == Counters \cup States

OnKept(b, p) ==                                 \* mutant of Cleared
    IF p.array = "curr" THEN [b EXCEPT !.curr = @ \ {p.led}]
    ELSE [b EXCEPT !.cycle_count = 0]
CurrKept(b, p) ==                               \* mutant of Cleared
    IF p.array = "curr" THEN b
    ELSE IF p.led = 0 THEN [b EXCEPT !.cycle_count = 0]
    ELSE [b EXCEPT !.on[p.led] = 0]
Cleared(b, p) ==
    IF p.array = "curr" THEN [b EXCEPT !.curr = @ \ {p.led}]
    ELSE IF p.led = 0 THEN [b EXCEPT !.cycle_count = 0]
    ELSE [b EXCEPT !.on[p.led] = 0]

Buffer == [cycle_count : Nat, on : [LED -> Nat], curr : SUBSET LED]

-----------------------------------------------------------------------------
(* The CPU thread.                                                         *)

Begin ==
    /\ cpu = "idle"
    /\ display_bufs[pdis_update].cycle_count < MaxCount
    /\ pd' = pdis_update
    /\ lit' \in SUBSET LED
    /\ led' = 0 /\ cpu' = "load"
    /\ mixed' = (gpio \in {"clear", "swap", "check", "revive"})
    /\ UNCHANGED <<display_bufs, pdis_update, pdis_paint, tmp, last, fresh, gpioVars>>

\* ++pd->cycle_count for LED 0, ++pd->on[led] for the others.
Load ==
    /\ cpu = "load"
    /\ tmp' = IF led = 0 THEN display_bufs[pd].cycle_count ELSE display_bufs[pd].on[led]
    /\ cpu' = "store"
    /\ UNCHANGED <<display_bufs, pdis_update, pdis_paint, pd, led, lit, last, fresh, mixed, gpioVars>>

\* The LED after this one, or the end of the call.
Advance ==
    IF led = NLEDs
    THEN cpu' = "idle" /\ led' = 0 /\ last' = lit /\ fresh' = TRUE
    ELSE cpu' = "curr" /\ led' = led + 1 /\ UNCHANGED <<last, fresh>>

Store ==
    /\ cpu = "store"
    /\ display_bufs' = IF led = 0 THEN [display_bufs EXCEPT ![pd].cycle_count = tmp + 1]
                                  ELSE [display_bufs EXCEPT ![pd].on[led] = tmp + 1]
    /\ Advance
    /\ UNCHANGED <<pdis_update, pdis_paint, pd, lit, tmp, mixed, gpioVars>>

SetCurr ==
    /\ cpu = "curr"
    /\ display_bufs' = [display_bufs EXCEPT ![pd].curr =
                           IF led \in lit THEN @ \cup {led} ELSE @ \ {led}]
    /\ IF led \in lit THEN cpu' = "load" /\ UNCHANGED <<led, last, fresh>> ELSE Advance
    /\ UNCHANGED <<pdis_update, pdis_paint, pd, lit, tmp, mixed, gpioVars>>

\* sim_instr, on every entry, clears the two swapped buffers.
Reenter ==
    /\ cpu = "idle"
    /\ display_bufs' = [b \in {0, 1} |-> Blank]
    /\ fresh' = FALSE /\ mixed' = FALSE
    /\ UNCHANGED <<pdis_update, pdis_paint, cpu, pd, led, lit, tmp, last, gpioVars>>

-----------------------------------------------------------------------------
(* The GPIO thread: swap_displays, then the targets.                       *)

\* An update that started before the last swap still writes what is painted.
Stale == cpu # "idle" /\ pd = pdis_paint

Copy ==
    /\ gpio = "copy"
    /\ Stale => Delays
    /\ mixed' = (mixed \/ cpu # "idle") /\ torn' = FALSE
    /\ copy' = display_bufs[pdis_paint].curr
    /\ gpio' = "clear" /\ left' = Parts
    /\ UNCHANGED <<display_bufs, pdis_update, pdis_paint, callVars, cycle_count, br_target>>

\* memset, in whatever order the library takes.
Clear ==
    /\ gpio = "clear"
    /\ \E p \in left :
          /\ display_bufs' = [display_bufs EXCEPT ![pdis_paint] = Cleared(@, p)]
          /\ left' = left \ {p}
    /\ gpio' = IF left' = {} THEN "swap" ELSE "clear"
    /\ UNCHANGED <<pdis_update, pdis_paint, cpuVars, copy, cycle_count, br_target, torn>>

SwapPaintKept ==                                \* mutant of Swap
    /\ gpio = "swap"
    /\ pdis_update' = IF pdis_update = 0 THEN 1 ELSE 0
    /\ gpio' = "check"
    /\ UNCHANGED <<display_bufs, pdis_paint, cpuVars, copy, left, cycle_count, br_target, torn>>

Swap ==
    /\ gpio = "swap"
    /\ pdis_update' = IF pdis_update = 0 THEN 1 ELSE 0
    /\ pdis_paint' = pdis_update
    /\ gpio' = "check"
    /\ UNCHANGED <<display_bufs, cpuVars, copy, left, cycle_count, br_target, torn>>

CheckNothing ==                                 \* mutant of Check
    /\ gpio = "check"
    /\ gpio' = "read"
    /\ UNCHANGED <<display_bufs, pdis_update, pdis_paint, cpuVars, copy, left, cycle_count, br_target, torn>>

\* Without an update since the last swap the buffer has nothing to show.
Check ==
    /\ gpio = "check"
    /\ IF display_bufs[pdis_paint].cycle_count = 0
       THEN gpio' = "revive" /\ left' = States
       ELSE gpio' = "read" /\ UNCHANGED left
    /\ UNCHANGED <<display_bufs, pdis_update, pdis_paint, cpuVars, copy, cycle_count, br_target, torn>>

Revive ==
    /\ gpio = "revive"
    /\ \E p \in left :
          /\ display_bufs' = [display_bufs EXCEPT ![pdis_paint].curr =
                                 IF p.led \in copy THEN @ \cup {p.led} ELSE @ \ {p.led}]
          /\ left' = left \ {p}
    /\ gpio' = IF left' = {} THEN "read" ELSE "revive"
    /\ UNCHANGED <<pdis_update, pdis_paint, cpuVars, copy, cycle_count, br_target, torn>>

ReadCycleCount ==
    /\ gpio = "read"
    /\ cycle_count' = display_bufs[pdis_paint].cycle_count
    /\ gpio' = "target" /\ left' = States
    /\ torn' = Stale
    /\ UNCHANGED <<display_bufs, pdis_update, pdis_paint, cpuVars, copy, br_target>>

\* ceilf ((on << 5) / cycle_count), of which only the place with respect to
\* 0 and MAX_BRIGHTNESS is kept.
Target(on, cycles) ==
    IF on = 0 THEN "off" ELSE IF on < cycles THEN "part"
    ELSE IF on = cycles THEN "full" ELSE "over"

ComputeTarget ==
    /\ gpio = "target"
    /\ \E p \in left :
          /\ br_target' =
                [br_target EXCEPT ![p.led] =
                    IF cycle_count > 0
                    THEN Target(display_bufs[pdis_paint].on[p.led], cycle_count)
                    ELSE IF p.led \in display_bufs[pdis_paint].curr THEN "full" ELSE "off"]
          /\ left' = left \ {p}
    /\ gpio' = IF left' = {} THEN "copy" ELSE "target"
    /\ UNCHANGED <<display_bufs, pdis_update, pdis_paint, cpuVars, copy, cycle_count, torn>>

-----------------------------------------------------------------------------
Init ==
    /\ display_bufs = [b \in {0, 1} |-> Blank]
    /\ pdis_update = 0 /\ pdis_paint = 1 /\ copy = {}
    /\ cpu = "idle" /\ pd = 0 /\ led = 0 /\ lit = {} /\ tmp = 0
    /\ last = {} /\ fresh = FALSE /\ mixed = FALSE /\ torn = FALSE
    /\ gpio = "copy" /\ left = {} /\ cycle_count = 0
    /\ br_target = [l \in LED |-> "off"]

Call == Load \/ Store \/ SetCurr
CpuThread == Begin \/ Call \/ Reenter
GpioThread == Copy \/ Clear \/ Swap \/ Check \/ Revive \/ ReadCycleCount \/ ComputeTarget

Next == CpuThread \/ GpioThread

Spec == Init /\ [][Next]_vars

\* The GPIO thread runs until the program ends, and a call ends.
FairSpec == Spec /\ WF_vars(GpioThread) /\ WF_vars(Call)

-----------------------------------------------------------------------------
TypeOK ==
    /\ display_bufs \in [{0, 1} -> Buffer]
    /\ pdis_update \in {0, 1} /\ pdis_paint = 1 - pdis_update
    /\ copy \subseteq LED
    /\ cpu \in {"idle", "load", "store", "curr"}
    /\ pd \in {0, 1} /\ led \in 0 .. NLEDs /\ lit \subseteq LED /\ tmp \in Nat
    /\ last \subseteq LED /\ {fresh, mixed, torn} \subseteq BOOLEAN
    /\ gpio \in {"copy", "clear", "swap", "check", "revive", "read", "target"}
    /\ left \subseteq Parts
    /\ cycle_count \in Nat
    /\ br_target \in [LED -> {"off", "part", "full", "over"}]

\* The buffer handed to the CPU thread is a blank slate, unless the host held up
\* an update for a frame.
BlankSlate == [][Swap => display_bufs[pdis_update'] = Blank]_vars

\* No LED is found on for more cycles than there were, unless cycle_count was
\* read in the middle of an update: the brightness stays within
\* 0 .. MAX_BRIGHTNESS.
CountsBounded ==
    [][ComputeTarget /\ ~torn
          => \A l \in LED : br_target'[l] = "over" => br_target[l] = "over"]_vars

\* Once the machine has stopped, the panel comes to show the state it
\* stopped in, and keeps showing it, if the last update met no swap; whatever
\* the updates before it did to the buffers is gone.
ShowsLast == br_target = [l \in LED |-> IF l \in last THEN "full" ELSE "off"]

MachineStops == <>[][~Begin /\ ~Reenter]_vars

StopShows == MachineStops => <>[](fresh /\ ~mixed => ShowsLast)
=============================================================================
