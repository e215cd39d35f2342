--------------------------------- MODULE Cpu ---------------------------------
(***************************************************************************)
(* The control structure of the PDP-8 CPU: sim_instr of                    *)
(* src/src/SIMH/PDP8/pdp8_cpu.c, one major state per turn of its loop, the *)
(* interrupt check that ends each turn, the memory extension (IFR, IB, DF, *)
(* SF), the user mode of the time sharing option (UF, UB, TSC8-75), and    *)
(* the way into the loop from the SCP prompt and out to it.                *)
(*                                                                         *)
(* This is the CPU without a front panel (pidp8i_gpio false), which makes  *)
(* handle_flow_control_switches a constant pft_running.                    *)
(*                                                                         *)
(* A 15-bit quantity is a pair <<f, w>>: f is bits 12-14, w bits 0-11.     *)
(* Masking with 07777 makes the first component 0.  The registers that     *)
(* only carry data (LAC, MQ, MB, SC, gtf) are left out; what depends on    *)
(* them (a skip on AC, the operand of RTF) is a choice.  The memory word   *)
(* an instruction is fetched from is any instruction, so that every        *)
(* program is covered, the ones that modify themselves and the ones a      *)
(* data break overwrites included.                                         *)
(***************************************************************************)
EXTENDS Integers, FiniteSets

CONSTANTS
    Fields,         \* 4K fields the simulator can address (8 in the code)
    WordSize,       \* number of values of a 12-bit word (4096)
    PageSize,       \* words of a page (128)
    AutoIndex,      \* the words 010-017 that autoincrement
    MemFields,      \* fields installed: MEMSIZE is MemFields * WordSize
    Cells,          \* the memory cells whose contents are tracked
    Instructions,   \* the instructions a program may consist of
    Devices,        \* devices that can request an interrupt
    Breakpoints,    \* addresses with an execution breakpoint
    StopInst        \* stop_inst: an undefined instruction stops the loop

Field == 0 .. (Fields - 1)
Word == 0 .. (WordSize - 1)
Wide == Field \X Word

MriOps == {"AND", "TAD", "ISZ", "DCA", "JMS"}
DataIotOps == {"SKIPIOT", "READIOT", "ESKP"}
FieldOps == {"CDF", "CIF", "CDFCIF", "RMF", "RTF", "CUF", "SUF"}
IotOps == {"SKON", "ION", "IOF", "SRQ", "CAF", "CINT", "SINT", "DEV",
           "ETDS", "ECTF", "ETEN", "UNDEF"} \cup FieldOps \cup DataIotOps
OprOps == {"OPR", "HLT", "OSR"}
Ops == MriOps \cup {"JMP"} \cup IotOps \cup OprOps

\* ind, cur and off are meant for the memory reference instructions, fld for
\* CDF and CIF, dev for the IOT of a device.
Instruction == [op : Ops, ind : BOOLEAN, cur : BOOLEAN,
                off : 0 .. (PageSize - 1), fld : Field]

NoInstruction == [op |-> "OPR", ind |-> FALSE, cur |-> FALSE,
                  off |-> 0, fld |-> 0]

OverheadBits == {"ION", "NO_CIF_PENDING", "NO_ION_PENDING"}
RequestBits == {"UF", "TSC"} \cup Devices

ASSUME SizeAssumption ==
    /\ Fields \in Nat /\ Fields > 1
    /\ PageSize \in Nat /\ PageSize > 0
    /\ WordSize \in Nat /\ WordSize > 1
    /\ WordSize % PageSize = 0
    /\ MemFields \in 1 .. Fields
ASSUME CellAssumption == <<0, 0>> \in Cells /\ Cells \subseteq Wide
ASSUME AutoIndexAssumption == AutoIndex \subseteq Word \ {0}
ASSUME ProgramAssumption == Instructions \subseteq Instruction
ASSUME DeviceAssumption == Devices \cap (OverheadBits \cup {"UF", "TSC"}) = {}
ASSUME StopAssumption == Breakpoints \subseteq Wide /\ StopInst \in BOOLEAN

VARIABLES
    at,                 \* where the CPU thread is: "loop", "intr" or "scp"
    reason,             \* why the loop is about to end, "none" if it is not
    fired,              \* breakpoints already reported at the current time
    M, PC, MA, IR, next_Major_State,
    IFR, DF, IB, SF, UF, UB,
    int_req, tsc_enb

control == <<at, reason, fired>>
core == <<M, PC, MA, IR, next_Major_State>>
extension == <<IFR, DF, IB, SF, UF, UB>>
vars == <<control, core, extension, int_req, tsc_enb>>

-----------------------------------------------------------------------------
(* Words, addresses and memory.                                            *)

Clean(w) == <<0, w>>

IncUnmasked(w) == w + 1                         \* mutant of Inc
Inc(w) == IF w = WordSize - 1 THEN 0 ELSE w + 1

\* ++MB of an int32: the carry leaves the twelve bits.
IncWide(v) == IF v[2] = WordSize - 1 THEN <<v[1] + 1, 0>> ELSE <<v[1], v[2] + 1>>

WriteBackUnmasked(v) == IncWide(v)              \* mutant of WriteBack
\* What the autoincrement writes back.
WriteBack(v) == Clean(Inc(v[2]))

Page(w) == w - (w % PageSize)

Offset(i, w) == IF i.cur THEN Page(w) + i.off ELSE i.off

\* A cell that is not tracked holds any word.
Contents(a) == IF a \in Cells THEN {M[a]} ELSE {Clean(w) : w \in Word}

Store(a, v) == IF a \in Cells THEN [M EXCEPT ![a] = v] ELSE M

MemAddrOk(a) == a[1] < MemFields

\* Mutant of IntPending: only the devices are looked at.
IntPendingDevices == OverheadBits \subseteq int_req /\ int_req \cap Devices # {}

\* int_req > INT_PENDING: the three overhead bits are the high ones.
IntPending ==
    /\ OverheadBits \subseteq int_req
    /\ int_req # OverheadBits

\* ION, its delay, and the inhibit of CIF, RMF, RTF, CUF and SUF, which the
\* next jump ends.
InterruptsOnAtOnce(req) == req \cup {"ION"}      \* mutant of InterruptsOn
InterruptsOn(req) == (req \cup {"ION"}) \ {"NO_ION_PENDING"}

NotInhibited(req) == req                        \* mutant of Inhibit
Inhibit(req) == req \ {"NO_CIF_PENDING"}

StillInhibited(req) == req                      \* mutant of EndInhibit
EndInhibit(req) == req \cup {"NO_CIF_PENDING"}

-----------------------------------------------------------------------------
(* Fetch.                                                                  *)

FetchAddress == <<IFR, PC[2]>>
NextPC == Clean(Inc(PC[2]))
SkipPC == Clean(Inc(Inc(PC[2])))
FetchedDelayed == int_req                       \* mutant of Fetched
Fetched == int_req \cup {"NO_ION_PENDING"}

BreakpointHere == FetchAddress \in Breakpoints \ fired

\* The break leaves the switch, not the loop: the interrupt check follows.
FetchBreakpoint ==
    /\ at = "loop" /\ next_Major_State = "Fetch"
    /\ BreakpointHere
    /\ fired' = fired \cup {FetchAddress}
    /\ reason' = "STOP_IBKPT"
    /\ MA' = FetchAddress
    /\ at' = "intr"
    /\ UNCHANGED <<M, PC, IR, next_Major_State, extension, int_req, tsc_enb>>

Fetch(i) ==
    /\ at = "loop" /\ next_Major_State = "Fetch"
    /\ ~BreakpointHere
    /\ IR' = i
    /\ fired' = {}
    /\ at' = "intr"

FetchMri(i) ==
    /\ Fetch(i)
    /\ i.op \in MriOps
    /\ MA' = Clean(Offset(i, PC[2]))
    /\ PC' = NextPC
    /\ next_Major_State' = IF i.ind THEN "Defer" ELSE "Execute"
    /\ int_req' = Fetched
    /\ UNCHANGED <<reason, M, extension, tsc_enb>>

\* What JMP does once its target is known, in Fetch or in Defer; req is the
\* int_req it starts from.
Jump(target, req) ==
    /\ PC' = target
    /\ MA' = target
    /\ IFR' = IB
    /\ UF' = UB
    /\ int_req' = EndInhibit(req)
                      \cup (IF UF = 1 /\ tsc_enb = 1 THEN {"TSC"} ELSE {})
    /\ next_Major_State' = "Fetch"
    /\ UNCHANGED <<DF, IB, SF, UB, tsc_enb>>

FetchJmpDirect(i) ==
    /\ Fetch(i)
    /\ i.op = "JMP" /\ ~i.ind
    /\ Jump(<<IFR, Offset(i, PC[2])>>, Fetched)
    /\ UNCHANGED <<reason, M>>

FetchJmpIndirect(i) ==
    /\ Fetch(i)
    /\ i.op = "JMP" /\ i.ind
    /\ MA' = <<IFR, Offset(i, PC[2])>>
    /\ PC' = NextPC
    /\ next_Major_State' = "Defer"
    /\ int_req' = Fetched
    /\ UNCHANGED <<reason, M, extension, tsc_enb>>

\* IOT and OPR are complete at the end of Fetch and reach no memory operand.
OneCycle(i) ==
    /\ Fetch(i)
    /\ MA' = FetchAddress
    /\ UNCHANGED <<M, next_Major_State, IFR, SF, UF>>

-----------------------------------------------------------------------------
(* IOT.                                                                    *)

\* Mutant of Privileged: the memory extension IOTs are let through.
PrivilegedDevices(i) == UF = 1 /\ i.op \in IotOps \ FieldOps
Privileged(i) == UF = 1 /\ i.op \in IotOps

UserTrap(i) ==
    /\ OneCycle(i)
    /\ Privileged(i)
    /\ PC' = NextPC
    /\ int_req' = Fetched \cup {"UF"}
    /\ UNCHANGED <<reason, DF, IB, UB, tsc_enb>>

Iot(i) == OneCycle(i) /\ ~Privileged(i)

\* The IOTs that only turn bits of int_req on and off.
Requests(i) ==
    /\ Iot(i)
    /\ \/ i.op = "ION" /\ int_req' = InterruptsOn(Fetched)
       \/ i.op = "IOF" /\ int_req' = Fetched \ {"ION"}
       \/ i.op = "CINT" /\ int_req' = Fetched \ {"UF"}
       \/ i.op = "ECTF" /\ int_req' = Fetched \ {"TSC"}
    /\ PC' = NextPC
    /\ UNCHANGED <<reason, DF, IB, UB, tsc_enb>>

\* The IOTs that test a flag and skip.
SkipOnFlag(i) ==
    /\ Iot(i)
    /\ \/ /\ i.op = "SKON"
          /\ PC' = IF "ION" \in int_req THEN SkipPC ELSE NextPC
          /\ int_req' = Fetched \ {"ION"}
       \/ /\ i.op = "SRQ"
          /\ PC' = IF int_req \cap RequestBits # {} THEN SkipPC ELSE NextPC
          /\ int_req' = Fetched
       \/ /\ i.op = "SINT"
          /\ PC' = IF "UF" \in int_req THEN SkipPC ELSE NextPC
          /\ int_req' = Fetched
       \/ /\ i.op = "ESKP"
          /\ PC' = IF "TSC" \in int_req THEN SkipPC ELSE NextPC
          /\ int_req' = Fetched
    /\ UNCHANGED <<reason, DF, IB, UB, tsc_enb>>

\* GTF, RDF, RIF, RIB, ECDF, ERTB, ERIOT read into AC; SGT and ECDF skip on
\* a flag that is not modelled.
ReadIot(i) ==
    /\ Iot(i)
    /\ \/ i.op = "READIOT" /\ PC' = NextPC
       \/ i.op = "SKIPIOT" /\ PC' \in {NextPC, SkipPC}
    /\ int_req' = Fetched
    /\ UNCHANGED <<reason, DF, IB, UB, tsc_enb>>

SetDataField(i) ==
    /\ Iot(i)
    /\ i.op = "CDF"
    /\ DF' = i.fld
    /\ PC' = NextPC
    /\ int_req' = Fetched
    /\ UNCHANGED <<reason, IB, UB, tsc_enb>>

\* The IOTs that load a buffer of the next jump; all inhibit interrupts.
LoadBuffers(i) ==
    /\ Iot(i)
    /\ \/ i.op = "CIF" /\ IB' = i.fld /\ UNCHANGED <<DF, UB>>
       \/ i.op = "CDFCIF" /\ IB' = i.fld /\ DF' = i.fld /\ UNCHANGED UB
       \/ i.op = "RMF" /\ UB' = SF.UF /\ IB' = SF.IFR /\ DF' = SF.DF
       \/ i.op = "RTF" /\ UB' \in {0, 1} /\ IB' \in Field /\ DF' \in Field
       \/ i.op = "CUF" /\ UB' = 0 /\ UNCHANGED <<IB, DF>>
       \/ i.op = "SUF" /\ UB' = 1 /\ UNCHANGED <<IB, DF>>
    /\ PC' = NextPC
    /\ int_req' = Inhibit(Fetched \cup (IF i.op = "RTF" THEN {"ION"} ELSE {}))
    /\ UNCHANGED <<reason, tsc_enb>>

\* Everything but the CIF inhibit goes, and reset_all (1) resets every device
\* after the CPU in the list, the TSC8-75 included.
ClearAllFlags(i) ==
    /\ Iot(i)
    /\ i.op = "CAF"
    /\ int_req' = int_req \cap {"NO_CIF_PENDING"}
    /\ tsc_enb' = 0
    /\ PC' = NextPC
    /\ UNCHANGED <<reason, DF, IB, UB>>

TscIot(i) ==
    /\ Iot(i)
    /\ \/ i.op = "ETDS" /\ tsc_enb' = 0 /\ int_req' = Fetched \ {"TSC"}
       \/ i.op = "ETEN" /\ tsc_enb' = 1 /\ int_req' = Fetched
    /\ PC' = NextPC
    /\ UNCHANGED <<reason, DF, IB, UB>>

\* A device's handler may raise or clear its own request, skip, or report an
\* I/O error.
DeviceIot(i) ==
    /\ Iot(i)
    /\ i.op = "DEV"
    /\ \E d \in Devices : int_req' \in {Fetched, Fetched \cup {d}, Fetched \ {d}}
    /\ PC' \in {NextPC, SkipPC}
    /\ reason' \in {reason, "IO_ERROR"}
    /\ UNCHANGED <<DF, IB, UB, tsc_enb>>

UndefinedIot(i) ==
    /\ Iot(i)
    /\ i.op = "UNDEF"
    /\ reason' = IF StopInst THEN "STOP_RSRV" ELSE "none"
    /\ PC' = NextPC
    /\ int_req' = Fetched
    /\ UNCHANGED <<DF, IB, UB, tsc_enb>>

-----------------------------------------------------------------------------
(* OPR.  A skip depends on AC and L.                                       *)

Operate(i) ==
    /\ OneCycle(i)
    /\ i.op \in OprOps
    /\ PC' \in {NextPC, SkipPC}
    /\ int_req' = Fetched \cup (IF UF = 1 /\ i.op # "OPR" THEN {"UF"} ELSE {})
    /\ reason' = IF UF = 0 /\ i.op = "HLT" THEN "STOP_HALT" ELSE reason
    /\ UNCHANGED <<DF, IB, UB, tsc_enb>>

-----------------------------------------------------------------------------
(* Defer.                                                                  *)

Defer ==
    /\ at = "loop" /\ next_Major_State = "Defer"
    /\ at' = "intr"
    /\ LET a == <<IFR, MA[2]>> IN
       \E v \in Contents(a) :
          LET MB == IF a[2] \in AutoIndex THEN IncWide(v) ELSE v IN
          /\ M' = IF a[2] \in AutoIndex THEN Store(a, WriteBack(v)) ELSE M
          /\ IF IR.op = "JMP"
             THEN Jump(MB, int_req)
             ELSE /\ MA' = MB
                  /\ next_Major_State' = "Execute"
                  /\ UNCHANGED <<PC, extension, int_req, tsc_enb>>
    /\ UNCHANGED <<reason, fired, IR>>

-----------------------------------------------------------------------------
(* Execute.                                                                *)

Execute ==
    /\ at = "loop" /\ next_Major_State = "Execute"
    /\ at' = "intr"
    /\ next_Major_State' = "Fetch"
    /\ UNCHANGED <<reason, fired, IR, DF, IB, SF, UB, tsc_enb>>

OperandAddress == <<IF IR.ind THEN DF ELSE IFR, MA[2]>>

ExecuteData ==
    /\ Execute
    /\ IR.op \in {"AND", "TAD", "ISZ", "DCA"}
    /\ MA' = OperandAddress
    /\ \/ /\ IR.op \in {"AND", "TAD"}
          /\ UNCHANGED <<M, PC>>
       \/ /\ IR.op = "ISZ"
          /\ \E v \in Contents(OperandAddress) :
                /\ M' = Store(OperandAddress, Clean(Inc(v[2])))
                /\ PC' = IF Inc(v[2]) = 0 THEN NextPC ELSE PC
       \/ /\ IR.op = "DCA"
          /\ \E w \in Word : M' = Store(OperandAddress, Clean(w))
          /\ UNCHANGED PC
    /\ UNCHANGED <<IFR, UF, int_req>>

\* With the TSC8-75 enabled, a JMS of user mode only requests an interrupt
\* and loads PC.
ExecuteJmsTrapped ==
    /\ Execute
    /\ IR.op = "JMS" /\ UF = 1 /\ tsc_enb = 1
    /\ int_req' = int_req \cup {"TSC"}
    /\ PC' = Clean(Inc(MA[2]))
    /\ UNCHANGED <<M, MA, IFR, UF>>

ExecuteJms ==
    /\ Execute
    /\ IR.op = "JMS" /\ ~(UF = 1 /\ tsc_enb = 1)
    /\ IFR' = IB
    /\ UF' = UB
    /\ int_req' = EndInhibit(int_req)
    /\ MA' = <<IB, MA[2]>>
    /\ M' = IF MemAddrOk(MA') THEN Store(MA', PC) ELSE M
    /\ PC' = Clean(Inc(MA[2]))

-----------------------------------------------------------------------------
(* The end of a turn: the interrupt check, then the loop condition.        *)

Leave ==
    /\ at' = IF reason = "none" THEN "loop" ELSE "scp"
    /\ MA' = IF reason = "none" THEN MA ELSE Clean(MA[2])

SavedFieldsSwapped == [UF |-> UF, IFR |-> DF, DF |-> IFR]  \* mutant of SavedFields
SavedFields == [UF |-> UF, IFR |-> IFR, DF |-> DF]

TakeInterrupt ==
    /\ at = "intr"
    /\ next_Major_State = "Fetch" /\ IntPending
    /\ int_req' = int_req \ {"ION"}
    /\ SF' = SavedFields
    /\ IFR' = 0 /\ IB' = 0 /\ DF' = 0 /\ UF' = 0 /\ UB' = 0
    /\ M' = Store(<<0, 0>>, PC)
    /\ PC' = Clean(1)
    /\ Leave
    /\ UNCHANGED <<reason, fired, IR, next_Major_State, tsc_enb>>

NoInterrupt ==
    /\ at = "intr"
    /\ ~(next_Major_State = "Fetch" /\ IntPending)
    /\ PC' = IF reason = "none" THEN PC ELSE Clean(PC[2])
    /\ Leave
    /\ UNCHANGED <<reason, fired, M, IR, next_Major_State, extension,
                   int_req, tsc_enb>>

-----------------------------------------------------------------------------
(* The event queue, at the top of a turn: a device completes an operation, *)
(* or the user's Ctrl-E ends the loop wherever the instruction is.         *)

DeviceEvent(d) ==
    /\ at = "loop"
    /\ d \notin int_req
    /\ int_req' = int_req \cup {d}
    /\ UNCHANGED <<control, core, extension, tsc_enb>>

StopEvent ==
    /\ at = "loop"
    /\ at' = "scp"
    /\ reason' = "SCPE_STOP"
    /\ PC' = Clean(PC[2])
    /\ MA' = Clean(MA[2])
    /\ UNCHANGED <<fired, M, IR, next_Major_State, extension, int_req, tsc_enb>>

-----------------------------------------------------------------------------
(* The SCP prompt.  Entering the loop assigns IB, because the test of the  *)
(* code is an assignment.                                                  *)

Enter(f) ==
    /\ at' = "loop"
    /\ reason' = "none"
    /\ IB' = f

\* CONTINUE
Continue ==
    /\ at = "scp"
    /\ Enter(IFR)
    /\ UNCHANGED <<fired, core, IFR, DF, SF, UF, UB, int_req, tsc_enb>>

\* GO a: no reset, and no new major state either.
Go(a) ==
    /\ at = "scp"
    /\ IFR' = a[1] /\ PC' = Clean(a[2])
    /\ Enter(a[1])
    /\ UNCHANGED <<fired, M, MA, IR, next_Major_State, DF, SF, UF, UB,
                   int_req, tsc_enb>>

\* reset_all: cpu_reset keeps the request of a user mode violation.
ResetAll(f) ==
    /\ next_Major_State' = "Fetch"
    /\ int_req' = (int_req \cap {"UF", "NO_ION_PENDING"}) \cup {"NO_CIF_PENDING"}
    /\ DF' = f /\ UF' = 0 /\ UB' = 0
    /\ tsc_enb' = 0
    /\ UNCHANGED <<M, MA, IR, SF>>

Reset ==
    /\ at = "scp"
    /\ ResetAll(IFR)
    /\ IB' = IFR
    /\ UNCHANGED <<control, PC, IFR>>

\* RUN a and BOOT: a reset, then the loop from a.
Run(a) ==
    /\ at = "scp"
    /\ ResetAll(a[1])
    /\ IFR' = a[1] /\ PC' = Clean(a[2])
    /\ Enter(a[1])
    /\ UNCHANGED fired

-----------------------------------------------------------------------------
Init ==
    /\ at = "scp" /\ reason = "none" /\ fired = {}
    /\ M = [a \in Cells |-> Clean(0)]
    /\ PC = Clean(0) /\ MA = Clean(0) /\ IR = NoInstruction
    /\ next_Major_State = "Fetch"
    /\ IFR = 0 /\ DF = 0 /\ IB = 0 /\ UF = 0 /\ UB = 0
    /\ SF = [UF |-> 0, IFR |-> 0, DF |-> 0]
    /\ int_req = {"NO_CIF_PENDING"} /\ tsc_enb = 0

FetchStep(i) ==
    \/ FetchMri(i) \/ FetchJmpDirect(i) \/ FetchJmpIndirect(i)
    \/ UserTrap(i) \/ Requests(i) \/ SkipOnFlag(i) \/ ReadIot(i)
    \/ SetDataField(i) \/ LoadBuffers(i) \/ ClearAllFlags(i) \/ TscIot(i)
    \/ DeviceIot(i) \/ UndefinedIot(i) \/ Operate(i)

CpuCycle ==
    \/ FetchBreakpoint
    \/ \E i \in Instructions : FetchStep(i)
    \/ Defer
    \/ ExecuteData \/ ExecuteJmsTrapped \/ ExecuteJms

Event == StopEvent \/ \E d \in Devices : DeviceEvent(d)

Command == Continue \/ Reset \/ \E a \in Wide : Go(a) \/ Run(a)

Next == CpuCycle \/ TakeInterrupt \/ NoInterrupt \/ Event \/ Command

Spec == Init /\ [][Next]_vars

-----------------------------------------------------------------------------
(* Properties.                                                             *)

\* Every register stays within its width, except that PC and location 0 may
\* carry field bits (see CellsAreWords).
TypeOK ==
    /\ at \in {"loop", "intr", "scp"}
    /\ reason \in {"none", "STOP_IBKPT", "STOP_HALT", "STOP_RSRV", "IO_ERROR",
                   "SCPE_STOP"}
    /\ fired \subseteq Breakpoints
    /\ M \in [Cells -> Wide]
    /\ PC \in Wide /\ MA \in Wide
    /\ IR \in Instruction
    /\ next_Major_State \in {"Fetch", "Defer", "Execute"}
    /\ IFR \in Field /\ DF \in Field /\ IB \in Field
    /\ UF \in {0, 1} /\ UB \in {0, 1}
    /\ SF \in [UF : {0, 1}, IFR : Field, DF : Field]
    /\ int_req \subseteq OverheadBits \cup RequestBits
    /\ tsc_enb \in {0, 1}

\* While a CIF, RMF, RTF, CUF or SUF waits for the jump that completes it, the
\* interrupt inhibit is on: an interrupt there would save IF and UF and lose
\* the buffered values for good.
BuffersInhibit ==
    /\ at # "scp" /\ IB # IFR => "NO_CIF_PENDING" \notin int_req
    /\ UB # UF => "NO_CIF_PENDING" \notin int_req

\* A user program cannot leave user mode by a jump of its own, nor hold the
\* CIF inhibit that would keep the monitor's interrupts out.
UserModeHeld == UF = 1 => UB = 1 /\ "NO_CIF_PENDING" \in int_req

\* A privileged instruction of user mode ends in an interrupt before another
\* instruction is fetched, provided the monitor left interrupts on.
ViolationTraps ==
    at = "loop" /\ next_Major_State = "Fetch" /\ UF = 1 /\ "UF" \in int_req
        => "ION" \notin int_req

\* Memory words have twelve bits, but for location 0 of field 0.
CellsAreWords == \A a \in Cells \ {<<0, 0>>} : M[a][1] = 0

\* In user mode the fields and the interrupt enable are out of the program's
\* reach: they change only with the interrupt that leaves user mode, or from
\* the prompt.
UserModeConfined ==
    [][at # "scp" /\ UF = 1 =>
         \/ UNCHANGED <<IFR, IB, DF, UB, UF, tsc_enb>> /\ ("ION" \in int_req <=> "ION" \in int_req')
         \/ TakeInterrupt]_vars

\* The instruction after an ION that takes effect always runs before an
\* interrupt; the ION of a user program traps instead.
IonDelay == [][TakeInterrupt => IR.op # "ION" \/ UF = 1]_vars

\* The loop of sim_instr runs as long as the prompt does not have control.
FairSpec == Spec /\ WF_vars(CpuCycle \/ TakeInterrupt \/ NoInterrupt)

\* A request that finds interrupts on and no jump outstanding is served, or
\* withdrawn, whatever else the program does; only a program of nothing but
\* ION instructions holds it off.
Serviceable(d) == {d, "ION", "NO_CIF_PENDING"} \subseteq int_req

RequestServed ==
    \A d \in Devices :
        (at = "loop" /\ Serviceable(d))
            ~> (at = "scp" \/ ~Serviceable(d) \/ IR.op = "ION")
=============================================================================
