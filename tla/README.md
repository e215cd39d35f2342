# PiDP-8/I: a verification development

The PiDP-8/I software is a PDP-8 simulator: the SIMH `pdp8` simulator with
additions that let it drive the lamps, and obey the switches, of a replica of
the PDP-8/I front panel.  This directory holds TLA+ models of the parts of it
where the order of events decides whether it works, and of the arithmetic, the
TLC configurations that check them on small instances, and proofs, checked by
TLAPS, about the CPU, the front panel, the host's threads and event queue, the
character devices and the disks for every instance.

Line numbers are those of the files under `src/`; `PROJECT.json` gives them for
each definition.

## 1. The system

### Threads

Two threads share memory without a lock.

* The **CPU thread** (the main thread) runs the SCP command loop and, inside a
  run command, `sim_instr`, whose loop handles events, the front panel switches
  and one major state per turn.
* The **GPIO thread** (`gpio_thread`, `gpio_core`) multiplexes the panel: it
  swaps display buffers, computes brightness, drives rows and columns, reads
  and debounces the switches.

They share `display_bufs` with the pointers that say which buffer is whose,
`switchstatus`, `terminate_gpio_thread` and `gpio_start_mutex`.  The host adds
two more actors: the user, who moves switches and types Ctrl-E, and signals.

### Components

| Component | State | Operations | Model |
|---|---|---|---|
| CPU: `pdp8_cpu.c`, `pdp8_tsc.c` | registers, memory, `int_req` | Fetch, Defer, Execute, the interrupt check, the IOTs of the CPU and TSC8-75, `cpu_reset` | `Cpu`, `InterruptReturn` |
| Display: `main.c.in`, `gpio-common.c.in`, `gpio-ils.c` | three display buffers, brightness targets | `set_pidp8i_leds`, `swap_displays`, the targets of `gpio_core` | `Display` |
| Switch scan: `gpio-common.c.in` | `switchstatus`, `switch_state` | `read_switches`, `debounce_switch`, `report_ss` | `Debounce` |
| Panel keys: `main.c.in`, the head of the loop of `sim_instr` | `swStart` .. `swSingInst`, `cpuRun`, `resumeFromInstructionLoopExit` | `handle_flow_control_switches`, the single step cases | `FrontPanel` |
| USB mounting: `main.c.in` | `mountedFiles`, unit attachments | `mount_usb_stick_file`, `attach_cmd` | `UsbMount` |
| Life cycle: `gpio-common.c.in`, `scp.c` | the GPIO thread, signal dispositions, `insert_scp_cmd` | start, stop and join, run command, prompt, SIGTERM, relaunch | `Lifecycle` |
| SCP loop: `scp.c` | command state | run, go, cont, reset, boot, exit | the commands, in the modules that need them |
| Event queue: `scp.c`, `sim_timer.c` | `sim_clock_queue`, `sim_interval` | `sim_activate`, `sim_cancel`, `sim_process_event` | `EventQueue`, `Agenda` |
| Arithmetic of the CPU: `pdp8_cpu.c` | AC, L, MQ, SC, GT | OPR, the EAE | `Operate`, `Powers` |
| Console, clock, paper tape, printer: `pdp8_tt.c`, `pdp8_clk.c`, `pdp8_pt.c`, `pdp8_lp.c` | buffers, bits of `dev_done`, `int_enable`, `int_req` | IOTs, services, CAF, attach | `CharDevices` |
| Extra terminals: `pdp8_ttx.c` | flags and enables of each line | IOTs, poll, print | `Ttx` |
| Disks: `pdp8_rk.c`, `pdp8_rl.c`, `pdp8_rf.c`, `pdp8_df.c`, `pdp8_rx.c` | controller and drive registers, pending events | IOTs, services, CAF, attach, detach | `Rk8e`, `Rl8a`, `Rf08`, `Df32`, `Rx8e` |
| Tapes: `pdp8_dt.c`, `pdp8_td.c`, `pdp8_mt.c`, `pdp8_ct.c` | controller, motion and position of each drive | IOTs, services, CAF, attach, detach | `Tc08`, `Td8e`, `Tm8e`, `Ta8e` |
| FPP8A: `pdp8_fpp.c` | status, command, FPC, accumulator | IOTs, the instruction loop | `Fpp8a`, `FppArithmetic`, `Powers` |
| Loader, disassembly; SIMH libraries; NLS display core; GPIO access; test programs; `ptp2txt`; Python tools; scripts; compilers | | | not modelled, see section 7 |

### Interaction

The CPU thread calls `set_pidp8i_leds` (thousands of times a second, and once
before it pauses), which writes to the buffer `pdis_update` points to.  The GPIO
thread exchanges that buffer for the one it has painted, and blanks it first.
In the other direction the GPIO thread changes bits of `switchstatus`, and the
CPU thread tests them one after the other at the head of every turn of the loop
of `sim_instr`.  Devices reach the CPU through `int_req`, from their IOT handler
or from their event.  Commands at the prompt set registers and enter
`sim_instr`; Ctrl-E, HLT, a breakpoint or a switch combination leaves it, and
some of the latter leave an `insert_scp_cmd` for the command loop.  The devices
share nothing but three words of flags, enables and requests, of which each
changes its own bits, and the queue: an IOT schedules an event of a unit, and
the unit's service does what was asked for when the time has come.

### What is hard

* Interrupts meet three kinds of delay (ION, CIF, an instruction of several
  major states), and the fields are buffered until a jump.  User mode depends
  on a request that nothing may hold off.
* A run can be left between any two major states and resumed.
* The display buffers are exchanged while an update may be under way.
* Every test of `switchstatus` may see a different set of switches.
* The panel has to work while the machine is stopped: nothing executes, yet
  events must expire and switches must be served.
* The GPIO thread has to be stopped on each of the ways the process can end.
* An event is nothing but a unit and a time: what it is for, the controller has
  to know when it comes, and the program, RESET, CAF and the operator may have
  changed the controller in between.
* Every IOT and every service keeps its request in `int_req` up to date by hand.
* The queue keeps differences of times, and a signal may clear the count that is
  its head at any point.

`PROJECT.json` lists these as hazards, each at its line, with the properties
that would notice it going wrong.

### What correct means, by component

* **CPU**: words stay words; a handler resumes what it interrupted; the fields
  that wait for a jump are not lost; a user program cannot leave user mode or
  escape its traps; requests are served.
* **Display**: brightness never exceeds its range; each update starts from a
  blank buffer; a stopped machine's last state is what the panel ends up
  showing.
* **Switch scan**: only a stable change is reported, in the order the switches
  were moved, and every lasting change is.
* **Panel keys**: one press, one action; single step runs one state or
  instruction; STOP stops; Ctrl-E always works; `cont` always runs.
* **USB mounting**: no image on two drives; the record of what is mounted is true.
* **Life cycle**: no command before the panel is up; the process ends with dark
  lamps, and ends when asked.
* **Event queue**: each unit runs at the time it asked for, in order, whatever
  happens to the others; a request to stop is served; every unit gets its turn.
* **Devices**: the request agrees with flags and enable; the event that a
  controller waits for is there, and is the only one; a command is carried out
  on the drive and with the registers it was given with; nothing is lost or done
  twice for a program that waits as its manual says.
* **Arithmetic**: double words, shifts, quotients and sums are those of numbers.

## 2. The modules

### `Cpu`: `sim_instr` and the TSC8-75

One action is one turn of the major state switch of `sim_instr`; the interrupt
check that follows it (lines 1453-1465) is an action too, `TakeInterrupt` or
`NoInterrupt`, and `at` alternates between `"loop"` and `"intr"`, or is
`"scp"`.  Nothing else runs between the two in the code; they are separate so
that the properties can speak of the check by its name.

| Code | Model |
|---|---|
| `case FETCH_state` | `FetchMri`, `FetchJmpDirect`, `FetchJmpIndirect`, the IOT actions, `Operate`, and `FetchBreakpoint` |
| `case DEFER_state` | `Defer`, the autoincrement included |
| `case EXECUTE_state` | `ExecuteData`, `ExecuteJms`, `ExecuteJmsTrapped` |
| `sim_process_event` | `DeviceEvent`, `StopEvent` |
| CONTINUE, GO, RUN and BOOT, RESET | `Continue`, `Go`, `Run`, `Reset` |
| `PC`, `MA` with field bits | pairs `<<field, word>>` |
| `int_req` | a set of bits; `int_req > INT_PENDING` is `IntPending` |

Abstractions.  AC, L, MQ, SC and GT are in `Operate`; what depends on them (a skip,
the operand of RTF, the word DCA stores) is any value.  The fetched instruction
is any of `Instructions`, whatever memory holds, which covers programs that
modify themselves and data breaks.  Memory is tracked in `Cells` only; another
cell reads as any word.  A device is a bit of `int_req` that its IOT or its
event may change.  It is the CPU without a panel; `FrontPanel` has the other
half of the loop.  `IFR` is the code's `IF`, a keyword of TLA+.

`InterruptReturn` extends `Cpu` with the history variable `saved`, what the last
interrupt saved and what has become of it.  `MCCpu` and `MCReturn` hold the
programs and cells for TLC, `MCProcessor` puts the CPU's control, its
arithmetic and that of the FPP8A into one run.

### `Operate`: OPR and the EAE

An instruction is a function of the record of arithmetic registers; the words
have any width, and the code's numbers for twelve bits are given in terms of it.
A step gives the registers to one instruction, so that a behaviour visits what
a program can bring about.  `EaeIsExact` compares every EAE instruction with
what it is used for (division, arithmetic shift, sums of double words),
`MicrocodeComposes` the combined microinstructions with their parts in order.
DST and the rotations DEC left undefined are left out.  `Powers` has the powers of
two, which the code writes as shifts and masks, as a recursive function: of
`2^n` for an `n` that is not a number the provers know nothing.

### `Fpp8a` and `FppArithmetic`: the floating point processor

`Fpp8a` is the control: the IOTs, and one action per instruction of the loop of
`fpp_svc`, with pause, halt, single step, traps and lock.  Of the parameter table
the FPC is kept.  The history variables are `due`, the instruction the program
is at, and `stepped`, that a single step was spent on FPAUSE.

`FppArithmetic` is what the instructions compute, without products and
quotients.  The code's rows of words are signed integers here, of as many bits
as the format has; alignment is a division that rounds down, as the code's
arithmetic shift is.  `SumIsFaithful` says that a sum of normalized numbers is
normalized and less than a unit of its last place off, `IntegerSum` and
`IndexSurvives` that integers and index registers are exact.

### `Display`: `set_pidp8i_leds` against `swap_displays`

Every load and every store of a counter is an action, `memset` and `memcpy`
touch one part per step in any order, and the brightness targets are computed
one LED at a time.  An LED stands for a row of the panel.  An update may begin
at any time and straddle a call of `swap_displays`; with `Delays` the host may
hold it up over any number of them, without it it ends before the next call, a
frame later.  The history variables `mixed` and `torn` say whether the last
update met a swap and whether `cycle_count` was read in the middle of one.
Accesses are sequentially consistent, which is stronger than C gives: the
passing run says nothing of a reordering by compiler or processor, nor, by the
wording of `CountsBounded` and `StopShows`, of what the panel shows in the frame of
a torn count or after a pause whose last update met a swap.  Section 4 tells how the
latter, and an update held up for a frame, do go wrong.

### `Debounce`: `read_switches`

One action per switch of the scan.  The code keeps the time of a change; the
model keeps its age.  With `ClockSteps` the wall clock may be set between two
scans, and a negative unsigned age is a huge one.  `unlike` is a history
variable, the time for which every sample differed from the report.

### `FrontPanel`: the head of the loop

`Panels` is a set of sets of switches; in a behaviour the user operates those
of one set.  `pos` walks through the tests of one turn in the order of
`handle_flow_control_switches`; every read of `switchstatus` is a step of its own,
because the GPIO thread may change it in between (`Move`).  So a key has two
steps in a pass, as in the code: its test for a press (at `At[k]`) and that for
its release (at `OpenAt[k]`, `CheckRelease`), which LOAD ADD, DEP and EXAM reach
after a press too; START and CONT return from theirs with `pft_go`.  SING_STEP's
special cases are steps likewise: SING_INST with CONT (`CheckSpecial`), then the IF
switches (`CheckScript`), then SING_INST with STOP and with START.  `flags` are `swStart` to
`swSingInst`.  The rest of the turn is the pause (`StayStopped`) or one major
state.  `sim_interval` is explicit, because a stopped machine has to decrement
it itself.  The initial state is the end of clock calibration, which runs
`sim_instr` once before the first command.

### `UsbMount`: `mount_usb_stick_file`

One action per directory under `/media`, in any order, as `readdir` gives them.
`attached` is what SIMH has attached, `mountedFiles` what the function believes.
`Replug` is the host's automounter.  With `Operator`, units are attached and detached
at the prompt too (`Command`), of which the function learns nothing: so
`AttachUnmounted` and the type invariant speak of what it knows, `RecordTells` says
that the record is true when a mount ends, and `NotTwice`, about what is attached, is
refuted even without an operator (`usb_twice`).  A file of the same name in the same
directory counts as the same image.

### `Lifecycle`: from start to exit

The main thread from `start_pidp8i_gpio_thread` over script, prompt and runs to
its end, the GPIO thread from its first unlock to its last pass, and the three
dispositions SIGTERM goes through.  `terminate_gpio_thread` is read once a pass.
`lit` is whether a row is lit.

### `EventQueue` and `Agenda`: the queue of SIMH

`Agenda` is what callers rely on: units wait in the order of the times they
asked for.  `EventQueue` is the code: a list of differences, whose head is
counted in `sim_interval`.  One action is a call of `sim_activate`,
`sim_activate_abs` or `sim_cancel` by an instruction, a service or a command, the
count of an instruction fetch, the service of the first unit, the handler of a
signal, or the way to the prompt and back.  The refinement maps the list to the
sums of its differences; `ImplementsAgenda` is checked as a property.  `Clock`
reschedules itself and does not slip, `Step` ends a STEP command, `Rearmed`
units are those that an instruction asks for anew.  A tick of the clock may ask
for an event at once, as `sim_timer.c:2119` does for the units coscheduled with it;
the queue in which those wait for their tick is left out.

### `CharDevices`, `Ttx`: character devices

The flags are subsets of the devices, one for each of `dev_done`, `int_enable`
and `int_req`; an IOT is described by its pulses.  `polite` is a history variable:
the program has not broken the rules its manual gives, to hand over a character
only when the flag was seen.  `Ttx` has the lines that share two bits of
`dev_done` and one poll.

### `Rk8e`, `Rl8a`, `Rf08`, `Df32`, `Rx8e`: disks

One action per IOT, per way a service ends, and per operator's command.  The
registers are abstracted to what the protection of a transfer in progress has
to keep; `ordered` is what the program asked for when it gave the command, and
the properties compare the transfer with it.  In `Rf08` and `Df32` the word count
is in memory, where a read may change it.  `Rx8e` keeps its ten states, since
nothing but the state says what an event is for.

### `Tc08`, `Td8e`, `Tm8e`, `Ta8e`: tapes

`Tc08` has lines of tape: a position in an end zone, a header, a word or a
trailer, brought up to date only when somebody looks, and a queue of up to
three motions (stop, reverse, start), each with an event.  The steps of
routines that others call are functions of the controller.  `Tm8e` has the
rewind that goes on by itself, `Ta8e` the file gaps and the characters of a
cassette, `Td8e` lines that pass whether or not the program takes them.

### The modules for TLC

`MCPanel`, `MCHost`, `MCDevices`, `MCDisks`, `MCTapes` and `MCProcessor` check
several components that share no state in one run: a behaviour is about one of
them, the others rest.  Variables of the same name in two of them are one
variable there.

## 3. The runs

Passing runs:

| Run | Properties | Shows |
|---|---|---|
| `cpu` | `TypeOK` `BuffersInhibit` `CellsAreWords` `ArithmeticIsExact` `InterruptReturns` | interrupts, fields, every kind of memory operand and jump: buffered fields stay protected until the jump, a handler that restores them resumes what it interrupted, words stay words; OPR, the EAE and the FPP8A compute what they are used for |
| `cpu_user` | `UserModeHeld` `ViolationTraps` `UserModeConfined` | with breakpoints and undefined instructions too, a user program cannot clear user mode, change fields or the interrupt enable, and each violation traps before the next fetch |
| `cpu_live` | `RequestServed` `IonDelay` | a serviceable request is served; the instruction after ION comes first |
| `panel` | `PanelTypes` `ContResumes` `OnePerPress` `SingleSteps` `PromptReached` `StopStops` `BlankSlate` `CountsBounded` `StopShows` | keys moved between any two reads of them, for a press and for a release: one press, one action; the machine pauses, stops and resumes as asked; Ctrl-E always works.  Lamps, with updates that straddle swaps: the CPU thread gets a blank buffer, brightness is bounded unless the count is torn, a stopped machine's last state is shown if its update met no swap |
| `host` | `HostTypes` `LeavesDark` `AttachUnmounted` `RecordTells` `Debounced` `OrderKept` `EventuallyReported` `StopReturns` `NothingOverdue` `ImplementsAgenda` `StopServed` `EveryUnitRuns` | with a steady clock, reports of switches are stable, ordered and never missing; the record of USB images is true when a mount ends, and obeyed by the next, whatever the operator does at the prompt; start-up interlock, termination and dark lamps; the event queue is an agenda, stop requests are served, no unit waits for ever but one put off again and again |
| `devices` | `RequestsAgree` `OrderStands` `KeyKept` `AnswersCome` | character devices, extra terminals, RK8E, control of the FPP8A: requests agree with flags and enables, what was ordered is what is done, keys are not overrun in less than half a second, flags and ends of transfers come |
| `disks` | `RequestsAgree` `EventsMatch` | floppy, RL8A, RF08, DF32: requests agree, each event finds the state or order it is for and none is missing, words are counted as they move |
| `tapes` | `RequestsAgree` `EventsMatch` `FoundIsRead` | both DECtapes, magnetic tape, cassette: every motion has the event that ends it, commands are carried out as given, and the block that a search reports is the one that is read |

Runs that end in a counterexample, each a place where the code and what the
sources say of it disagree (`PROJECT.json`, "findings", quotes both):

| Run | Shows |
|---|---|
| `cpu_prompt` | `if (IB = -1)` assigns: a field buffered by CIF, RMF or RTF is lost across Ctrl-E and CONTINUE, and the program goes on in the wrong field |
| `usb_twice` | a fruitless search forgets what a drive holds; the image is then attached to the other drive as well |
| `rx_idle` | a reset of the floppy controller without a disk in drive 0 leaves that drive's event behind, which comes in IDLE and stops the simulator, or advances the next command |
| `fpp_underflow` | `fpp_add` flushes a copy: a sum too small for its exponent, with the trap off, leaves a huge number in the accumulator |

Each property of a passing run has a mutant, a definition changed the way a
plausible slip would change the code, under which TLC finds it violated.

### Bounds, and why they are enough

* **CPU.**  Two fields of one page of two words.  Two fields tell "this field"
  from "another"; the control flow compares fields for nothing else.  A wrapping
  increment, an autoincrement cell that is not location 0, and a jump to either
  all happen with two words.  One device: devices do not interact in `int_req`.
  Each program has the instructions that reach the states its question is
  about; together they have all of them.  The theorems of section 5 remove these
  bounds for the safety properties of `Cpu`.
* **Arithmetic.**  Words of four bits, with the operands 0, 1, the most negative
  and all ones, and all contents of the registers that follow; shift counts go
  past a double word.  For the FPP8A words of two bits, exponents of three, and
  fractions next to each limit: all cases of alignment, carry, rounding up to
  the next power and overflow happen, underflow too.
* **Display.**  Two LEDs, so that an update can be caught between them, and
  one update begun per frame (`MaxCount`, a bound in `Begin`), to which a
  straddling update adds a second.
* **Keys.**  Six sets of switches: the four of the restart combination, which
  include the single steps with CONT; STOP, then START, with both single steps;
  and each key that acts once a press with another that runs or stops the
  machine, or that changes its registers.  `MaxInterval` 1 makes
  events as frequent as possible; longer intervals only add turns of the same
  kind.
* **Debounce.**  Two switches, for their order; time in units of the shortest
  scan interval, capped just above the debounce time of 2, beyond which the code
  makes no difference.  A scan interval may be longer than the debounce time.
* **USB.**  Two directories with one image name, three slots, two of which share
  an extension and one of which is exempt from the comparison; an operator who
  attaches and detaches any of them between two mounts.
* **Life cycle.**  No bound: the state is finite.
* **Event queue.**  Four units, one of each kind.  Delays of 0 to 3 make equal
  times, earlier and later ones and an insertion in every place of the list;
  `NOQUEUE_WAIT` is just longer.
* **Character devices.**  Pairs of devices, one of which has a peer to be
  disturbed by; two characters, one of which the device treats specially.
  Extra terminals: one line and two.
* **Controllers.**  Two drives, one to disturb the other.  A memory field of
  four words and a sector of four, so that a transfer of the RK8E wraps; two
  cylinders of two sectors of the RL8A; RF08 and DF32 with two disk sizes
  and a transfer up to the end; a floppy buffer of two words; a DECtape of two blocks of
  two words and end zones of two lines, cassettes of up to three blocks or gaps.
* **FPP8A control.**  A program of three words that begins anew, so that "the
  next" differs from "the one before"; four contents of the command register
  with each of its bits on and off.

### Fairness, and why the code justifies it

* `Cpu`: weak fairness of the cycle and the interrupt check, taken together:
  `sim_instr` loops until something ends it.  Nothing is assumed of devices or of
  the program; so `RequestServed` excepts the program that executes nothing but
  ION, which does hold interrupts off.
* `Display`: the GPIO thread loops until termination, and an update that has
  begun ends.  No fairness for beginning one: a machine may be stopped for ever.
* `Debounce`: the GPIO thread keeps scanning.  `FrontPanel`: `sim_instr` keeps
  looping; nothing of the user.  `Lifecycle`: either thread takes its next step;
  commands and signals are not assumed to come.
* `EventQueue`: the machine's steps go on while it runs.  `EveryUnitRuns` is
  about all units; one that instructions schedule anew may wait for ever only by
  being put off again and again, as KRB in a tight loop does to the keyboard's poll.
* `CharDevices`, `Rk8e`: a scheduled service comes, which is what `EveryUnitRuns`
  says of the queue; for the console, strongly, since the host's terminal may
  stall again and again but not for ever.

Deadlock is checked everywhere but in `host`, where the process ends and a
machine may be left at the prompt.

## 4. What the modelling showed

The four counterexamples are those of section 3.  Other things the models, or
their translation from the code, make plain and no run is kept for:

CPU and loop

* `pdp8_cpu.c:662`: `(IR & 0200 == 0)` is `IR & (0200 == 0)`, always 0, so a
  direct JMP is never seen as an idle loop, nor as the infinite loop of line 671,
  and `sim_idle` is never called.  `Cpu` has neither, as the code has not.
* `pdp8_cpu.c:1462`: an interrupt right after a JMP stores a PC that still has
  its field bits in location 0; a TAD 0 of the handler adds them into the link.
  This is the exception in `CellsAreWords`.
* `pdp8_cpu.c:1334`: ISZ and DCA store outside the installed memory; JMS, and
  the comment at line 220, do not.
* `pdp8_cpu.c:1515`: RESET clears the request of every device, but leaves that of a
  user mode violation standing.
* `scp.c:9239`: GO without a reset keeps `saved_Major_State`.

Panel

* `gpio-common.c.in:287`: a machine that pauses while its last update meets a swap is
  shown in a state it was never in, for good.  A swap between the load and the
  store of `++pd->cycle_count` finds the count zero, takes the update for none and
  copies the lamps of an older one over part of it; no later update puts it right.
  `pdp8_cpu.c:480` says this update is there to show the correct state.  `StopShows`
  excepts it, and TLC refutes it without the exception.
* `gpio-common.c.in:272`: an update held up for a frame writes to the buffer that has
  been cleared for its next use: with `Delays` TRUE, `BlankSlate` fails.
* `main.c.in:893`: SING_INST clears `cpuRun` whatever the next major state is, so
  the machine may rest inside an instruction, where `pdp8_cpu.c:536` says that it stops
  at the next Fetch: START, a Fetch that leads to Defer, and SING_INST closes.
* `main.c.in:595`: the shutdown combination is tested after SING_STEP was, so a
  switch that closes in between counts; the comment says it was set before.
* `main.c.in:744`: LOAD ADD, DEP and EXAM force the Fetch state on a machine that
  STOP left inside an instruction.
* `main.c.in:473`: the `break` leaves the inner of two loops, and an image found
  in one directory is dropped when the next has only mounted ones.
* `gpio-common.c.in:384`: the age of a change is a difference of wall clock
  times, unsigned; with `ClockSteps` TRUE `Debounced` fails.
* `gpio-common.c.in:692`: the handler for SIGTERM is installed once, and each
  run command replaces it and restores the default (`scp.c:9396`, `9477`): at a
  prompt after a run SIGTERM kills with lamps lit.  A SIGTERM during a run ends
  at the prompt, which then ignores it (`scp.c:11990`, `2044`).
* `main.c.in:149`: a relaunch whose `execlp` fails returns to the prompt with the
  GPIO thread stopped and `switchstatus` frozen.

Events

* `sim_interval` is only ever counted down by one, so the branch of
  `sim_process_event` that catches up is dead (`NothingOverdue`); it would count
  the time of the head twice.
* A Ctrl-E between the installation of the handler and `stop_cpu = FALSE` in
  `run_cmd` is lost.

Disks

* RX: besides `rx_idle`, INTR with AC 0 leaves a request standing; SDXFR without
  a disk writes through a null pointer (no step of `Rx8e`).
* RF08: every IOT brings the photocell up to date without the interrupt, and
  `RF_INT_UPDATE` may drop a request it already made; DXAC and DXAL clear the
  error of a transfer from an unattached disk; with four platters the address
  wraps and never overflows.  A read over its own word count changes it.
* RF08, DF32: with autosize an image of exactly p platters is taken for p + 1.
  DF32: a reset leaves the done flag without a request.
* RL8A: `rl_svc` takes the function from the register and the drive from the
  event, so only a program that waits gets what it asked for.

Tapes

* TC08: WRITE ALL stores without `WRITTEN` (`pdp8_dt.c:972`), so its words are not
  saved; a continuous read whose count overflows at the end of a block never sets
  the flag, since line 829 compares the sub-state after line 827 has added a bit
  to it; `dt_deselect` lets a tape that is to reverse go on, and it then
  transfers though deselected.
* TD8E: CAF leaves the timing error; a locked tape is written to; a CAF just after
  a tape ran off its reel stops the simulator.
* TM8E: a tape changed while it rewinds makes `mt_svc` perform the controller's
  function on the new one; `mt_vlock` is referred to by nothing, so SET LOCKED
  does not update the status.
* TA8E: characters past the end of a block's room are dropped without an error;
  a WRITE after a reverse command that ended in a gap overwrites that gap; detach
  does not cancel the event.

FPP8A

* CAF and FPICL cancel the event and leave RUN, PAUSE and LOCK: FPST and FPCOM are
  ignored until an FPHLT, which dumps the table.  An undefined instruction ends
  the same way.  These are the exceptions in `RunsOn`.
* A single step spent on FPAUSE leaves PAUSE set; the next start runs one
  instruction, and a halt then steps the FPC back too far (`stepped`).
* The branch of FEXIT for programs that have trapped is dead (`TrapsTold`).
* Leaving extended precision is to round and truncates, because `fpp_round` does
  nothing while EP is set.
* In extended precision a sum of two negative numbers is always shifted right and
  back, and loses its last bit even where the exact sum has a number: hence the
  two units in `SumIsFaithful`.
* The most negative integer subtracted in double precision overflows untold.

## 5. The proofs

### The CPU

`CpuProofs` holds eight theorems, seven about `Spec` of `Cpu`, for every number of
fields, size of word and page, set of tracked cells, program, set of devices and
set of breakpoints that the named assumptions of `Cpu` admit: at least two
fields, a word of whole pages, location 0 tracked and not an autoincrement
cell, and the bits of devices distinct from those of the CPU.  The real sizes
(8 fields, 4096 words, pages of 128, 010-017) satisfy them.

| Theorem | States |
|---|---|
| `TypeCorrect` | `TypeOK` |
| `MemoryOfWords` | `CellsAreWords` |
| `BuffersProtected` | `BuffersInhibit` |
| `UserModeKept` | `UserModeHeld` |
| `ViolationsTrap` | `ViolationTraps` |
| `UserProgramConfined` | `UserModeConfined` |
| `DelayOfIon` | `IonDelay` |
| `HandlersReturn` | `InterruptReturns` of `InterruptReturn` |

The argument.  None of these is inductive.  `IInv` adds three facts to them:

* `PCMasked`: in Defer and Execute, PC has been masked by the Fetch before it.
  JMS stores PC; without this its return address would not be a word.  It does
  not hold in Fetch, right after a jump, and that is why location 0, which the
  interrupt check fills, is the exception in `CellsAreWords`.
* `DelayOver`: in Defer and Execute, and in user mode at all times, no ION is
  pending.  A delayed ION in user mode would hold off the trap of a violation.
* `TrapsTaken`: `ViolationTraps` at the prompt too, from which the loop may be
  entered again with `Continue`.

`UserModeHeld` is what makes `ViolationTraps` go through: in user mode the CIF
inhibit is off, since it is entered only by a jump, which lifts the inhibit, and
everything that would set it is privileged.  The proof has a lemma per action of
`CpuCycle` (grouped where the effect is the same), one for the interrupt check,
one for the prompt.  `IonDelay` needs an invariant of its own, `IonInv`: after an
ION that takes effect and before the check, the delay is on.

`HandlersReturn` is about `HSpec` of `InterruptReturn`, the CPU with a history of
the interrupt being handled.  `ReturnInv` says what each stage of a handler has
kept: while location 0 and SF are untouched they hold the address, fields and
mode; after the RMF the buffers hold them and the CIF inhibit is on; after the
jump the fields are loaded.  It needs that the saved state has its types, hence
`IInv` once more.

`RequestServed` is a liveness property and beyond the prover.

### The arithmetic

`ArithmeticProofs`, about `ProcessorSpec` of `MCProcessor`, for words, step counters,
exponents and fractions of any width, any operands and any guard words.

| Theorem | States |
|---|---|
| `ArithmeticExact` | `ArithmeticIsExact`: `EaeIsExact` and `MicrocodeComposes` of `Operate`, `SumIsFaithful`, `IntegerSum` and `IndexSurvives` of `FppArithmetic`, and their types |

The invariant is the types, `r \in Regs /\ fac \in Facs`: what the property says is
about one state and every instruction that could come next.  That the types are
inductive takes a lemma for each instruction, since a sum that overflows its
format or an exponent that leaves its range would break them.  The rest is
about numbers, and most of it is not linear.

* Powers and division.  The provers decide neither products of unknowns nor division
  by one.  Facts about them are by least counterexample (`Least`, from the
  well-foundedness of `<` on `Nat`), among them that a recursive function on `Nat`
  exists (`PowerRecursion`), that powers grow (`Growing`) and that a quotient and a
  remainder are the only ones (`Division`, `Quotient`).
* OPR and the EAE.  `Reading` and `Held` go from the record of registers to the
  numbers it stands for and back.  Or is a sum over the bits (`OrSums`), and the
  link and the accumulator share none (`OrJoins`).  `Divided` is the quotient and
  remainder of DVI.  NMI multiplies by the power it counts and stops with a normal
  double word (`NormalForm`, `NotNormal`, `Normalised`).
* Sums of the FPP8A.  `Shifting` to the left while normalizing is exact; rounding is off
  by less than a unit (`FpRounds`); the guard words keep what aligning shifts out
  (`FpAligned`), up to the overshift, beyond which the smaller operand is below the
  last place anyhow (`TooSmall`).  In extended precision aligning loses less than
  two units (`EpAligned`).  `WholeSum` adds these up to what `SumIsFaithful` allows.
* Index registers.  XTA only shifts the word (`IndexNormal`), and ATX shifts it back by
  the difference of the exponents, which is all that counts (`SameDistance`).

`WidthAssumption` of `Operate` asks for words of an even number of bits, for byte swaps,
and for a step counter that fits a word and can ask for more steps than a double
word has bits; the code has 12 and 5.  `SizesAssumption` of `FppArithmetic` asks that
EXTEND, 60, is at most three times `ExpSize`, which is 2048; it keeps the weights of
units natural numbers.

### The host: switches, USB, life cycle, event queue

`HostProofs`, about `FairHost` of `MCHost`, for any number of switches, debounce
period, sticks, files, slots, commands and units.

| Theorem | States |
|---|---|
| `BouncesHidden` | `Debounced`, if the wall clock is not set (`~ClockSteps`) |
| `ReportsInOrder` | `OrderKept`, likewise |
| `NoFileTwice` | `AttachUnmounted`, whatever sticks and operator do |
| `RecordIsTrue` | `RecordTells` |
| `EndsInTheDark` | `LeavesDark` |
| `NeverLate` | `NothingOverdue` |
| `ListIsAgenda` | `ImplementsAgenda` |
| `HostTyped` | `HostTypes`; of USB, that no file is *known* to be mounted in two slots |

`ScanInv` adds to the types that the age the debouncer keeps is how long the samples
were unlike the stable state (`AgeIsUnlike`), and that a switch visited in this scan
has not been outstanding for longer than the period, or it had been reported
(`VisitedIsYoung`, which gives the order); `UsbInv` that the slot to be mounted has
an empty record while the search goes on (`GivenUp`), and that what was found is of
its type and known in no slot (`FoundIsNew`); of what is attached it says nothing,
since that is changed at the prompt; `LifeInv` that the lamps are dark wherever the
GPIO thread is not running.

`QueueProofs` holds the refinement, about `EventQueue` alone (`QueueIsAgenda`,
`NeverLate`); `HostProofs` instantiates it.  The list `q` of differences stands for the
agenda `Pending(q)`, a sequence of units and times; a time is a sum of
differences.  One lemma per operation shows that what it does to `q` is what the
agenda does to `Pending(q)`: a unit inserted with the difference its neighbour
loses (`Activated`), one removed with its difference left to the next
(`Cancelled`), an absolute time (`Rescheduled`), the passing of time at the head
(`IntervalSet`), a unit's turn (`Popped`).  The invariant `QInv` has the places of
the loop, `WellFormed` (differences are natural, no unit is twice), `Ordered`,
`NotLate` (a negative `sim_interval` only between a stop request's fetch and its
service) and `ClockKept` (`sim_interval` is the time to the first unit).  Two facts
about sums are by induction over the length of the list.  TLAPS has no induction
rule that its backends can instantiate with an operator; the lemma `Induction`
states it for a set of numbers instead, from the well-foundedness of `<` on `Nat`.

### The panel

`PanelProofs`, about `FairPanel` of `MCPanel`, for any keys, interval of events, number of
LEDs and of updates.

| Theorem | States |
|---|---|
| `ActsOnce` | `OnePerPress` |
| `StepsSingly` | `SingleSteps` |
| `PromptResumes` | `ContResumes` |
| `PanelTyped` | `PanelTypes` |
| `HandsOverBlank` | `BlankSlate`, unless updates are held up (`~Delays`) |
| `BrightnessBounded` | `CountsBounded`, likewise |

`KeysInv` has `FreshOrActed`: a closed key has acted or has not since it was
pressed; `HeldIsSeen`: a SING_STEP or SING_INST held since the turn began is in
`flags` once its test for closing is past, and its test for opening leaves it there;
`GoHasRun`: pft_go belongs to a running machine and is gone when the next turn
begins. `LampsInv` has `ClearedAlone`: no update writes the buffer that is cleared,
since an update that straddled the last swap has ended by then; `ClearedSoFar`: what
the memset has passed stays clear; `UpdateExact` and `Counted`: an update has
counted its cycle before its LEDs, and the counter it loaded is its own;
`ReadWhole`: a cycle count read outside an update covers every LED. With `Delays`
the first fails, and with it the two properties: an update held up for a frame
writes a buffer that is being cleared.

### The disks

`DisksProofs`, about `DisksSpec` of `MCDisks`, for any drives, sizes, counts and
programs.

| Theorem | States |
|---|---|
| `RequestsKept` | `RequestsAgree` |
| `EventsKept` | `EventsMatch` |

A behaviour is about one controller, so that `DisksInv` is an invariant for each.

* RX8E: `RxRoom`, that the buffer has room for the word the next event brings;
  `WordUnderWay`, that between the words given and the words stored there is none
  or the one that the event waits for, and which of the two the flags tell.  From
  these a fill keeps its order.
* RL8A: each of `RlInv`'s parts is inductive given the types.
* RF08 and DF32: `CountedWords` says that the disk address is as far from the one
  ordered as the word count is.  Both are counters of different length that
  wrap, so the two distances agree modulo the lesser ring only; the lemmas `Turns`,
  `CountedUp`, `RingTurns` and `InStep` are that argument.  The DF32 sets its address
  back by one and adds, hence `BackAndForth`.  `RfOrdered` and `DfOrdered`: what
  is remembered of an order is in range.

`SizesAssumption` of `Rf08` and `Df32` asks that the lesser ring divides the other
and that the two halves of an address are closed under OR; powers of two, which the
real sizes are, satisfy both.

### The character devices, extra terminals, RK8E and FPP8A together

`DevicesProofs`, about `DevicesSpec` of `MCDevices`, the run's specification, each
behaviour of which is about one of the four controllers, and about `Spec` of
`CharDevices` and that of `Rk8e` alone.

| Theorem | States |
|---|---|
| `AllRequestsKept` | `RequestsAgree` |
| `OrdersKept` | `OrderStands` |
| `AllKeysKept` | `KeyKept` |
| `RequestsKept`, `OutputKept`, `KeysKept` | `IntAgrees`, `ReadyIsDone`, `KeyKept` of `CharDevices` |
| `RkRequestKept`, `RkOrderKept` | `IntAgrees`, `OrderStands` of `Rk8e` |
| `WrapsInField` | the two parts of an RK8E transfer that meets the end of the field are the addresses of a counter that wraps |

The invariant of `CharDevices` adds `BusyFlagDown`, that a busy output device of a
polite program has its flag down and has not been seen ready, which gives
`ReadyIsDone`; and `KeyFlagUp`, that a waiting key keeps its flag up, because of
which `tti_svc` does not accept the next one.  That of `Ttx` has `TxBusyFlagDown`,
the same for a line; its requests are recomputed as a whole, `NewFlagsAgree`.  That
of `Fpp8a` has `LeftBehind`, that a program paused and not running has made its
step, and the lemma `Ring`, by which the place an instruction was held at is the one
before the place it would go to.  That of `Rk8e` is types, `IntAgrees` and
`OrderStands`; each part is inductive given the types, `OrderStands` because it says
both that a busy controller has one transfer under way, with the registers in
`ordered`, and that an idle one has none.  Each IOT that would change a register is
refused while busy; that is the step of the proof that fails without the guard.
Lines come in sets with a largest (`LinesAssumption`) and
the commands to the FPP8A are among those it decodes (`CommandsAssumption`).

### The tapes

`TapesProofs`, about `TapesSpec` of `MCTapes`, for any drives, any sizes of zones,
headers, blocks and tapes, any times to start and stop, programs, records and
cassettes.

| Theorem | States |
|---|---|
| `RequestsAlwaysAgree` | `RequestsAgree` |
| `EventsAlwaysMatch` | `EventsMatch` |
| `FoundIsAlwaysRead` | `FoundIsRead` |

As with the disks, `TapesInv` is an invariant for each controller.

* TC08.  `TcHolds` says of the controller what its routines, which are functions of it,
  hand on to each other: `Served`, a tape that moves has an event to come, not at the
  moment it starts; `LandsRight`, a tape at speed that searches comes to a block
  number with its event, and one that was deselected off the reel; `AsAsked`, the
  drive selected does, or will do, what status A asks for.  Without `LandsRight` and
  `AsAsked` the event of a search could come anywhere.  `Touches` is the frame of
  each routine: it leaves the other drives alone and of status A clears only GO.
  `FoundOf` carries a search to what follows it: `HeadsFor` counts the lines from the
  number of the block to its first word, and the lemmas `HeaderToWord`, `Followed` and
  `FoundItsWord` follow them over the command that comes in between, in
  either direction.  The arithmetic of lines is in `LineOfBlock`, `BlockOfLine`,
  `NextNumber`, `NumbersAhead` and `WordsAhead`.  Of the sizes `SizesAssumption` asks that
  they are not zero and that a tape takes no more lines to start or stop than it has
  up to its far end zone; by default the code's are 2,500 and 3,333 lines (`dt_dctime`,
  `dt_ltime`) of some 870,000.
* TD8E: each part is inductive given the types.
* TM8E: `LeftTheBeginning`, a drive at work that does not rewind does not say that it
  stands at the beginning, since it lost its status with the command.
* TA8E: `WorkUnderWay` ties the data flag and `ct_write` to the command under way,
  which gives `CharsKept`; `AtTheGap` and `GapBehind` say on which side of a gap the
  head of a drive is that reported it, or that has started from it, which gives
  `OneGapOnce`.

### What is model-checked only

* Liveness (`RequestServed`, `StopShows`, `PromptReached`, `StopStops`,
  `EventuallyReported`, `StopReturns`, `StopServed`, `EveryUnitRuns`,
  `AnswersCome`, `BusyEnds`): TLAPS 1.4.5 has no rules for ENABLED, on which
  weak fairness rests.

Every safety property that a passing run checks is stated by a theorem above.  The
`violation` runs refute theirs.

## 6. The plan

Done: the CPU; the panel, the scan, USB and the life cycle; the event queue with its
refinement; the arithmetic; all device controllers of the PDP-8; proofs of every
safety property of the runs.  Left, in this order:

1. `Cpu` composed with `FrontPanel`, with the registers that START, LOAD ADD, DEP
   and EXAM load.  Two hazards wait for it: LOAD ADD leaves IB alone, and these
   keys force the Fetch state on a machine stopped inside an instruction.  Then
   `FrontPanel` with `Lifecycle`, for the failed relaunch.
2. The queue of coscheduled units (that a tick runs some at once is in `EventQueue`
   already) and the flush unit (`sim_timer.c:2943`) beside
   `EventQueue`.
3. Products and quotients of the FPP8A against those of numbers.
4. A replacement of the disks' abstract contents by words that are followed from
   memory to disk and back.

## 7. Not modelled

* **Upstream SIMH** libraries (`sim_disk.c`, `sim_tape.c`, `sim_tmxr.c`,
  `sim_ether.c` and others) are host I/O, most of it not used by a PDP-8; errors
  of the host end in the same controller states as those modelled.  Of `scp.c`
  the commands that configure, save, restore, examine, deposit and script are
  text processing.  Asynchronous I/O (`SIM_ASYNCH`) is not in this build.
* **Words on disks and tapes**, except where an address or a count depends on
  them; file formats; boot programs.
* **The NLS display core** paints rows without brightness from the same buffers;
  row and column access, sleeps and pin numbers are hardware.
* **The ramping of brightness** and the pulse widths in `gpio-ils.c` are
  arithmetic on floats without shared state.
* **The simple display mode** is used by the test program only.
* **Loader, symbolic input and disassembly** are conversions at the prompt.
* **Python tools** (`simh.py`, `os8-run`, `os8-cp`) match text of the console of
  a simulated OS/8, which is not part of the sources.
* **Compilers, assemblers, PDP-8 software, media, hardware, documentation.**  Some
  of these are large (`palbart.c`, `code8.c`, `jimsh0.c`), third-party and no
  part of the running system; they are most of the source lines that `map` does
  not reach, with the SIMH libraries.
