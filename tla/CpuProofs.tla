------------------------------ MODULE CpuProofs ------------------------------
(***************************************************************************)
(* Type correctness and the safety invariants of the CPU, for any memory,  *)
(* program and set of devices; and what an interrupt handler relies on.    *)
(***************************************************************************)
EXTENDS InterruptReturn, TLAPS

LEMMA IncType == ASSUME NEW w \in Word PROVE Inc(w) \in Word
BY SizeAssumption DEF Inc, Word

LEMMA OffsetType ==
    ASSUME NEW i \in Instruction, NEW w \in Word
    PROVE  Offset(i, w) \in Word
<1>1. i.off \in 0 .. (PageSize - 1) /\ i.cur \in BOOLEAN
  BY DEF Instruction
<1>2. CASE ~i.cur
  <2>1. PageSize <= WordSize
    BY SizeAssumption
  <2> QED BY <1>1, <1>2, <2>1, SizeAssumption DEF Offset, Word
<1>3. CASE i.cur
  <2> DEFINE q == w \div PageSize
             k == WordSize \div PageSize
  <2>1. w = PageSize * q + (w % PageSize) /\ q \in Int /\ w % PageSize \in 0 .. (PageSize - 1)
    BY SizeAssumption DEF Word
  <2>2. WordSize = PageSize * k /\ k \in Int
    BY SizeAssumption
  <2> HIDE DEF q, k
  <2>3. q + 1 <= k
    BY <2>1, <2>2, SizeAssumption DEF Word
  <2>4. PageSize * q + PageSize <= WordSize
    BY <2>1, <2>2, <2>3, SizeAssumption
  <2>5. 0 <= PageSize * q
    BY <2>1, SizeAssumption DEF Word
  <2> QED BY <1>1, <1>3, <2>1, <2>4, <2>5, SizeAssumption DEF Offset, Page, Word
<1> QED BY <1>1, <1>2, <1>3

-----------------------------------------------------------------------------
(* The inductive invariant.  PCMasked is what keeps the return address of   *)
(* JMS a word, DelayOver is why a violation in user mode is never held off  *)
(* by the delay of ION.                                                     *)

PCMasked == next_Major_State # "Fetch" => PC[1] = 0

DelayOver ==
    next_Major_State # "Fetch" \/ UF = 1 => "NO_ION_PENDING" \in int_req

\* ViolationTraps at the prompt as well, where the loop may be entered again.
TrapsTaken ==
    at # "intr" /\ next_Major_State = "Fetch" /\ UF = 1 /\ "UF" \in int_req
        => "ION" \notin int_req

IInv ==
    /\ TypeOK
    /\ CellsAreWords
    /\ PCMasked
    /\ DelayOver
    /\ BuffersInhibit
    /\ UserModeHeld
    /\ TrapsTaken

LEMMA InitInv == Init => IInv
<1> SUFFICES ASSUME Init PROVE IInv
  OBVIOUS
<1> QED
  BY SizeAssumption, CellAssumption
  DEF Init, IInv, TypeOK, CellsAreWords, PCMasked, DelayOver, BuffersInhibit, UserModeHeld,
      TrapsTaken, Clean, NoInstruction, Instruction, Ops, OprOps, Wide, Word, Field,
      OverheadBits

-----------------------------------------------------------------------------
(* Words and memory.                                                        *)

LEMMA CleanType == ASSUME NEW w \in Word PROVE Clean(w) \in Wide /\ Clean(w)[1] = 0 /\ Clean(w)[2] = w
BY SizeAssumption DEF Clean, Wide, Field

LEMMA NextPCType ==
    ASSUME TypeOK
    PROVE  /\ NextPC \in Wide /\ NextPC[1] = 0
           /\ SkipPC \in Wide /\ SkipPC[1] = 0
           /\ FetchAddress \in Wide
<1>1. PC[2] \in Word /\ IFR \in Field
  BY DEF TypeOK, Wide
<1>2. Inc(PC[2]) \in Word /\ Inc(Inc(PC[2])) \in Word
  BY <1>1, IncType
<1> QED
  BY <1>1, <1>2, CleanType DEF NextPC, SkipPC, FetchAddress, Wide

\* A store of a clean word anywhere keeps the memory well typed and its words
\* clean; the interrupt check may store any PC in location 0.
LEMMA StoreType ==
    ASSUME M \in [Cells -> Wide], CellsAreWords, NEW a \in Wide, NEW v \in Wide,
           v[1] = 0 \/ a = <<0, 0>>, M' = Store(a, v)
    PROVE  M' \in [Cells -> Wide] /\ CellsAreWords'
BY CellAssumption DEF Store, CellsAreWords

LEMMA ContentsType ==
    ASSUME M \in [Cells -> Wide], CellsAreWords, NEW a, NEW v \in Contents(a)
    PROVE  v \in Wide /\ (a # <<0, 0>> => v[1] = 0)
BY CleanType DEF Contents, CellsAreWords, Wide

-----------------------------------------------------------------------------
(* One lemma per group of actions.                                          *)

LEMMA OneCycleInv ==
    ASSUME IInv, NEW i \in Instructions,
           UserTrap(i) \/ Requests(i) \/ SkipOnFlag(i) \/ ReadIot(i)
             \/ SetDataField(i) \/ LoadBuffers(i) \/ ClearAllFlags(i) \/ TscIot(i)
             \/ DeviceIot(i) \/ UndefinedIot(i) \/ Operate(i)
    PROVE  IInv'
<1> USE DEF IInv
<1>0. i \in Instruction
  BY ProgramAssumption
<1>1. OneCycle(i)
  BY DEF UserTrap, Requests, SkipOnFlag, ReadIot, SetDataField, LoadBuffers,
         ClearAllFlags, TscIot, DeviceIot, UndefinedIot, Operate, Iot
<1>2. PC' \in {NextPC, SkipPC}
  BY DEF UserTrap, Requests, SkipOnFlag, ReadIot, SetDataField, LoadBuffers,
         ClearAllFlags, TscIot, DeviceIot, UndefinedIot, Operate, Iot
<1>3. /\ at = "loop" /\ at' = "intr" /\ fired' = {} /\ IR' \in Instruction /\ next_Major_State = "Fetch"
      /\ MA' \in Wide /\ PC' \in Wide
      /\ UNCHANGED <<M, next_Major_State, IFR, SF, UF>>
  BY <1>0, <1>1, <1>2, NextPCType DEF OneCycle, Fetch
<1>4. SUFFICES /\ reason' \in {"none", "STOP_HALT", "STOP_RSRV", "IO_ERROR", reason}
               /\ DF' \in Field /\ IB' \in Field /\ UB' \in {0, 1} /\ tsc_enb' \in {0, 1}
               /\ int_req' \subseteq OverheadBits \cup RequestBits
               /\ UF = 1 => "NO_ION_PENDING" \in int_req'
               /\ BuffersInhibit' /\ UserModeHeld'
  BY <1>3 DEF TypeOK, CellsAreWords, PCMasked, DelayOver, TrapsTaken
<1>5. /\ i.fld \in Field /\ DF \in Field /\ IB \in Field /\ UB \in {0, 1} /\ UF \in {0, 1}
      /\ SF.IFR \in Field /\ SF.DF \in Field /\ SF.UF \in {0, 1} /\ tsc_enb \in {0, 1}
  BY <1>0 DEF TypeOK, Instruction
<1>6. /\ int_req \subseteq OverheadBits \cup RequestBits
      /\ Fetched \subseteq OverheadBits \cup RequestBits
      /\ "NO_ION_PENDING" \in Fetched
      /\ "NO_CIF_PENDING" \in Fetched <=> "NO_CIF_PENDING" \in int_req
  BY DEF TypeOK, Fetched, OverheadBits
<1>7. CASE UserTrap(i) \/ Operate(i)
  <2>1. /\ int_req' \in {Fetched, Fetched \cup {"UF"}}
        /\ reason' \in {"STOP_HALT", reason}
        /\ UNCHANGED <<DF, IB, UB, tsc_enb>>
    BY <1>7 DEF UserTrap, Operate
  <2> QED
    BY <1>3, <1>5, <1>6, <2>1 DEF RequestBits, BuffersInhibit, UserModeHeld
<1>8. CASE ~(UserTrap(i) \/ Operate(i))
  <2>1. UF = 0
    BY <1>8 DEF Requests, SkipOnFlag, ReadIot, SetDataField, LoadBuffers, ClearAllFlags, TscIot,
                DeviceIot, UndefinedIot, Iot, Privileged, IotOps, FieldOps, DataIotOps, TypeOK
  \* The IOTs that leave the buffers alone only have to leave the inhibit on.
  <2>2. CASE /\ UNCHANGED <<IB, UB>>
             /\ int_req' \subseteq OverheadBits \cup RequestBits
             /\ "NO_CIF_PENDING" \in int_req' <=> "NO_CIF_PENDING" \in int_req
             /\ DF' \in Field /\ tsc_enb' \in {0, 1}
             /\ reason' \in {"none", "STOP_RSRV", "IO_ERROR", reason}
    BY <1>3, <1>5, <2>1, <2>2 DEF BuffersInhibit, UserModeHeld
  <2>3. CASE Requests(i)
    <3>1. \/ int_req' = InterruptsOn(Fetched)
          \/ \E b \in {"ION", "UF", "TSC"} : int_req' = Fetched \ {b}
      BY <2>3 DEF Requests
    <3> QED BY <1>5, <1>6, <2>2, <2>3, <3>1 DEF Requests, InterruptsOn, OverheadBits
  <2>4. CASE SkipOnFlag(i)
    <3>1. int_req' \in {Fetched, Fetched \ {"ION"}}
      BY <2>4 DEF SkipOnFlag
    <3> QED BY <1>5, <1>6, <2>2, <2>4, <3>1 DEF SkipOnFlag
  <2>5. CASE ReadIot(i) \/ SetDataField(i) \/ UndefinedIot(i)
    BY <1>5, <1>6, <2>2, <2>5 DEF ReadIot, SetDataField, UndefinedIot
  <2>6. CASE TscIot(i)
    <3>1. int_req' \in {Fetched, Fetched \ {"TSC"}} /\ tsc_enb' \in {0, 1}
      BY <2>6 DEF TscIot
    <3> QED BY <1>5, <1>6, <2>2, <2>6, <3>1 DEF TscIot
  <2>7. CASE LoadBuffers(i)
    <3>1. /\ IB' \in Field /\ DF' \in Field /\ UB' \in {0, 1}
          /\ UNCHANGED <<reason, tsc_enb>>
      BY <1>5, <2>7 DEF LoadBuffers
    <3>2. int_req' \in {Inhibit(Fetched), Inhibit(Fetched \cup {"ION"})}
      BY <2>7 DEF LoadBuffers
    <3>3. /\ int_req' \subseteq OverheadBits \cup RequestBits
          /\ "NO_CIF_PENDING" \notin int_req'
      BY <1>6, <3>2 DEF Inhibit, OverheadBits
    <3>4. BuffersInhibit' /\ UserModeHeld'
      BY <1>3, <2>1, <3>3 DEF BuffersInhibit, UserModeHeld
    <3> QED
      BY <1>5, <2>1, <3>1, <3>3, <3>4
  <2>8. CASE ClearAllFlags(i)
    BY <1>5, <1>6, <2>2, <2>8 DEF ClearAllFlags
  <2>9. CASE DeviceIot(i)
    <3>1. PICK d \in Devices : int_req' \in {Fetched, Fetched \cup {d}, Fetched \ {d}}
      BY <2>9 DEF DeviceIot
    <3> QED
      BY <1>5, <1>6, <2>2, <2>9, <3>1, DeviceAssumption DEF DeviceIot, RequestBits, OverheadBits
  <2> QED BY <1>8, <2>3, <2>4, <2>5, <2>6, <2>7, <2>8, <2>9
<1> QED BY <1>7, <1>8

\* The jump that ends a JMP, direct or indirect: it completes what waits in
\* the buffers, and keeps user mode because UserModeHeld puts UB = 1 there.
LEMMA JumpInv ==
    ASSUME IInv, NEW target \in Wide, NEW req,
           at = "loop", at' = "intr", IR' \in Instruction,
           reason' = reason, fired' \subseteq Breakpoints,
           M' \in [Cells -> Wide], CellsAreWords',
           req \subseteq OverheadBits \cup RequestBits, "NO_ION_PENDING" \in req,
           Jump(target, req)
    PROVE  IInv'
<1> USE DEF IInv
<1>1. /\ PC' \in Wide /\ MA' \in Wide /\ IFR' = IB /\ UF' = UB /\ next_Major_State' = "Fetch"
      /\ UNCHANGED <<DF, IB, SF, UB, tsc_enb>>
  BY DEF Jump
<1>2. /\ int_req' \subseteq OverheadBits \cup RequestBits
      /\ "NO_ION_PENDING" \in int_req' /\ "NO_CIF_PENDING" \in int_req'
  BY DEF Jump, EndInhibit, OverheadBits, RequestBits
<1>3. TypeOK'
  BY <1>1, <1>2 DEF TypeOK
<1> QED
  BY <1>1, <1>2, <1>3 DEF PCMasked, DelayOver, BuffersInhibit, UserModeHeld, TrapsTaken

\* The other fetches: a memory reference instruction, a JMP, a breakpoint.
LEMMA FetchInv ==
    ASSUME IInv,
           FetchBreakpoint \/ \E i \in Instructions :
                FetchMri(i) \/ FetchJmpDirect(i) \/ FetchJmpIndirect(i)
    PROVE  IInv'
<1> USE DEF IInv
<1>1. PC \in Wide /\ PC[2] \in Word /\ IFR \in Field
  BY DEF TypeOK, Wide
<1>2. CASE FetchBreakpoint
  <2>1. /\ at' = "intr" /\ fired' \subseteq Breakpoints /\ reason' = "STOP_IBKPT"
        /\ MA' \in Wide
        /\ at = "loop"
        /\ UNCHANGED <<M, PC, IR, next_Major_State, IFR, DF, IB, SF, UF, UB, int_req, tsc_enb>>
    BY <1>2, NextPCType DEF FetchBreakpoint, BreakpointHere, TypeOK, extension
  <2> QED
    BY <2>1 DEF TypeOK, CellsAreWords, PCMasked, DelayOver, BuffersInhibit, UserModeHeld, TrapsTaken
<1>3. CASE ~FetchBreakpoint
  <2>1. PICK i \in Instructions : FetchMri(i) \/ FetchJmpDirect(i) \/ FetchJmpIndirect(i)
    BY <1>3
  <2>2. /\ at = "loop" /\ at' = "intr" /\ fired' = {} /\ IR' = i /\ IR' \in Instruction
        /\ i \in Instruction /\ next_Major_State = "Fetch"
    BY <2>1, ProgramAssumption DEF FetchMri, FetchJmpDirect, FetchJmpIndirect, Fetch
  <2>3. Offset(i, PC[2]) \in Word
    BY <1>1, <2>2, OffsetType
  <2>4. Fetched \subseteq OverheadBits \cup RequestBits /\ "NO_ION_PENDING" \in Fetched
    BY DEF Fetched, TypeOK, OverheadBits
  <2>5. CASE FetchJmpDirect(i)
    <3>1. /\ <<IFR, Offset(i, PC[2])>> \in Wide
          /\ Jump(<<IFR, Offset(i, PC[2])>>, Fetched) /\ UNCHANGED <<reason, M>>
      BY <1>1, <2>3, <2>5 DEF FetchJmpDirect, Wide
    <3>2. M' \in [Cells -> Wide] /\ CellsAreWords' /\ fired' \subseteq Breakpoints
      BY <2>2, <3>1 DEF TypeOK, CellsAreWords
    <3> QED BY <2>2, <2>4, <3>1, <3>2, JumpInv
  <2>6. CASE FetchMri(i) \/ FetchJmpIndirect(i)
    <3>1. /\ MA' \in Wide /\ PC' = NextPC /\ PC' \in Wide /\ PC'[1] = 0
          /\ next_Major_State' \in {"Defer", "Execute"} /\ int_req' = Fetched
          /\ UNCHANGED <<reason, M, IFR, DF, IB, SF, UF, UB, tsc_enb>>
      BY <1>1, <2>3, <2>6, NextPCType, CleanType DEF FetchMri, FetchJmpIndirect, extension, Wide
    <3>2. TypeOK'
      BY <2>2, <2>4, <3>1 DEF TypeOK
    <3>3. "NO_CIF_PENDING" \in int_req' <=> "NO_CIF_PENDING" \in int_req
      BY <3>1 DEF Fetched
    <3>4. BuffersInhibit' /\ UserModeHeld'
      BY <2>2, <3>1, <3>3 DEF BuffersInhibit, UserModeHeld
    <3> QED
      BY <2>2, <2>4, <3>1, <3>2, <3>4 DEF CellsAreWords, PCMasked, DelayOver, TrapsTaken
  <2> QED BY <2>1, <2>5, <2>6
<1> QED BY <1>2, <1>3

\* An autoincrement only reaches words that have twelve bits, so that its
\* carry, which is not masked in MA, still is an address.
LEMMA DeferInv == ASSUME IInv, Defer PROVE IInv'
<1> USE DEF IInv
<1> DEFINE a == <<IFR, MA[2]>>
<1>1. a \in Wide /\ a[2] \in Word
  BY DEF TypeOK, Wide
<1>2. PICK v \in Contents(a) :
        LET MB == IF a[2] \in AutoIndex THEN IncWide(v) ELSE v IN
        /\ M' = IF a[2] \in AutoIndex THEN Store(a, WriteBack(v)) ELSE M
        /\ IF IR.op = "JMP"
           THEN Jump(MB, int_req)
           ELSE /\ MA' = MB
                /\ next_Major_State' = "Execute"
                /\ UNCHANGED <<PC, extension, int_req, tsc_enb>>
  BY DEF Defer
<1> DEFINE MB == IF a[2] \in AutoIndex THEN IncWide(v) ELSE v
<1>3. v \in Wide /\ v[2] \in Word /\ (a # <<0, 0>> => v[1] = 0)
  BY ContentsType DEF TypeOK, Wide
<1>4. at = "loop" /\ at' = "intr" /\ next_Major_State = "Defer" /\ UNCHANGED <<reason, fired, IR>>
  BY DEF Defer
<1>5. a[2] \in AutoIndex => a # <<0, 0>>
  BY AutoIndexAssumption
<1>6. MB \in Wide
  <2>1. CASE a[2] \in AutoIndex
    BY <1>3, <1>5, <2>1, SizeAssumption DEF IncWide, Wide, Word, Field
  <2> QED BY <1>3, <2>1
<1>7. M' \in [Cells -> Wide] /\ CellsAreWords'
  <2>1. CASE a[2] \in AutoIndex
    <3>1. WriteBack(v) \in Wide /\ WriteBack(v)[1] = 0
      BY <1>3, IncType, CleanType DEF WriteBack
    <3> QED BY <1>1, <1>2, <2>1, <3>1, StoreType DEF TypeOK
  <2>2. CASE a[2] \notin AutoIndex
    BY <1>2, <2>2 DEF TypeOK, CellsAreWords
  <2> QED BY <2>1, <2>2
<1>8. int_req \subseteq OverheadBits \cup RequestBits /\ "NO_ION_PENDING" \in int_req
  BY <1>4 DEF TypeOK, DelayOver
<1>9. CASE IR.op = "JMP"
  <2>1. Jump(MB, int_req) /\ IR' \in Instruction /\ fired' \subseteq Breakpoints
    BY <1>2, <1>4, <1>9 DEF TypeOK
  <2> HIDE DEF MB
  <2> QED BY <1>4, <1>6, <1>7, <1>8, <2>1, JumpInv
<1>10. CASE IR.op # "JMP"
  <2>1. /\ MA' = MB /\ next_Major_State' = "Execute"
        /\ UNCHANGED <<PC, IFR, DF, IB, SF, UF, UB, int_req, tsc_enb>>
    BY <1>2, <1>10 DEF extension
  <2> HIDE DEF MB
  <2>2. TypeOK'
    BY <1>4, <1>6, <1>7, <2>1 DEF TypeOK
  <2> QED
    BY <1>4, <1>7, <1>8, <2>1, <2>2 DEF PCMasked, DelayOver, BuffersInhibit, UserModeHeld, TrapsTaken
<1> QED BY <1>9, <1>10

LEMMA OperandType ==
    ASSUME TypeOK
    PROVE  OperandAddress \in Wide /\ MA[2] \in Word /\ Clean(Inc(MA[2])) \in Wide
BY IncType, CleanType DEF OperandAddress, TypeOK, Wide

LEMMA ExecuteDataInv == ASSUME IInv, ExecuteData PROVE IInv'
<1> USE DEF IInv
<1>1. /\ at = "loop" /\ at' = "intr"
      /\ next_Major_State = "Execute" /\ next_Major_State' = "Fetch"
      /\ MA' \in Wide
      /\ UNCHANGED <<reason, fired, IR, IFR, DF, IB, SF, UF, UB, int_req, tsc_enb>>
  BY OperandType DEF ExecuteData, Execute
<1>2. PC' \in Wide /\ M' \in [Cells -> Wide] /\ CellsAreWords'
  <2>1. CASE IR.op \in {"AND", "TAD"}
    BY <2>1 DEF ExecuteData, TypeOK, CellsAreWords
  <2>2. CASE IR.op = "ISZ"
    <3>1. PICK v \in Contents(OperandAddress) :
             /\ M' = Store(OperandAddress, Clean(Inc(v[2])))
             /\ PC' = IF Inc(v[2]) = 0 THEN NextPC ELSE PC
      BY <2>2 DEF ExecuteData
    <3>2. v[2] \in Word
      BY ContentsType DEF TypeOK, Wide
    <3>3. Clean(Inc(v[2])) \in Wide /\ Clean(Inc(v[2]))[1] = 0
      BY <3>2, IncType, CleanType
    <3>4. M' \in [Cells -> Wide] /\ CellsAreWords'
      BY <3>1, <3>3, OperandType, StoreType DEF TypeOK
    <3> QED BY <3>1, <3>4, NextPCType DEF TypeOK
  <2>3. CASE IR.op = "DCA"
    <3>1. PICK w \in Word : M' = Store(OperandAddress, Clean(w))
      BY <2>3 DEF ExecuteData
    <3>2. Clean(w) \in Wide /\ Clean(w)[1] = 0
      BY CleanType
    <3>3. M' \in [Cells -> Wide] /\ CellsAreWords'
      BY <3>1, <3>2, OperandType, StoreType DEF TypeOK
    <3> QED BY <2>3, <3>3 DEF ExecuteData, TypeOK
  <2> QED BY <2>1, <2>2, <2>3 DEF ExecuteData
<1>3. TypeOK'
  BY <1>1, <1>2 DEF TypeOK
<1> QED
  BY <1>1, <1>2, <1>3 DEF PCMasked, DelayOver, BuffersInhibit, UserModeHeld, TrapsTaken

LEMMA ExecuteJmsInv == ASSUME IInv, ExecuteJmsTrapped \/ ExecuteJms PROVE IInv'
<1> USE DEF IInv
<1>1. /\ at = "loop" /\ at' = "intr"
      /\ next_Major_State = "Execute" /\ next_Major_State' = "Fetch"
      /\ PC' \in Wide
      /\ UNCHANGED <<reason, fired, IR, DF, IB, SF, UB, tsc_enb>>
  BY OperandType DEF ExecuteJmsTrapped, ExecuteJms, Execute
<1>2. int_req \subseteq OverheadBits \cup RequestBits /\ "NO_ION_PENDING" \in int_req
  BY <1>1 DEF TypeOK, DelayOver
<1>3. CASE ExecuteJmsTrapped
  <2>1. UNCHANGED <<M, MA, IFR, UF>> /\ int_req' = int_req \cup {"TSC"}
    BY <1>3 DEF ExecuteJmsTrapped
  <2>2. TypeOK'
    BY <1>1, <1>2, <2>1 DEF TypeOK, RequestBits
  <2>3. "NO_CIF_PENDING" \in int_req' <=> "NO_CIF_PENDING" \in int_req
    BY <2>1
  <2> QED
    BY <1>1, <1>2, <2>1, <2>2, <2>3
    DEF CellsAreWords, PCMasked, DelayOver, BuffersInhibit, UserModeHeld, TrapsTaken
<1>4. CASE ExecuteJms
  <2>1. /\ MA' = <<IB, MA[2]>> /\ MA' \in Wide
        /\ IFR' = IB /\ UF' = UB /\ int_req' = EndInhibit(int_req)
        /\ M' = IF MemAddrOk(MA') THEN Store(MA', PC) ELSE M
    BY <1>4, OperandType DEF ExecuteJms, TypeOK, Wide
  <2>2. PC \in Wide /\ PC[1] = 0
    BY <1>1 DEF TypeOK, PCMasked
  <2>3. M' \in [Cells -> Wide] /\ CellsAreWords'
    <3>1. CASE M' = Store(MA', PC)
      BY <2>1, <2>2, <3>1, StoreType DEF TypeOK
    <3>2. CASE M' = M
      BY <3>2 DEF TypeOK, CellsAreWords
    <3> QED BY <2>1, <3>1, <3>2
  <2>4. /\ int_req' \subseteq OverheadBits \cup RequestBits
        /\ "NO_ION_PENDING" \in int_req' /\ "NO_CIF_PENDING" \in int_req'
    BY <1>2, <2>1 DEF EndInhibit, OverheadBits
  <2>5. TypeOK'
    BY <1>1, <2>1, <2>3, <2>4 DEF TypeOK
  <2> QED
    BY <1>1, <2>1, <2>3, <2>4, <2>5
    DEF PCMasked, DelayOver, BuffersInhibit, UserModeHeld, TrapsTaken
<1> QED BY <1>3, <1>4

\* The check that ends a turn.  Without an interrupt a pending violation
\* means that ION is off: nothing else keeps the interrupt out in user mode.
LEMMA InterruptInv == ASSUME IInv, TakeInterrupt \/ NoInterrupt PROVE IInv'
<1> USE DEF IInv
<1>1. MA[2] \in Word /\ PC[2] \in Word
  BY DEF TypeOK, Wide
<1>2. /\ at = "intr" /\ at' \in {"loop", "scp"} /\ MA' \in Wide
      /\ UNCHANGED <<reason, fired, IR, next_Major_State, tsc_enb>>
  BY <1>1, CleanType DEF TakeInterrupt, NoInterrupt, Leave, TypeOK
<1>3. CASE TakeInterrupt
  <2>1. /\ next_Major_State = "Fetch" /\ IntPending /\ int_req' = int_req \ {"ION"}
        /\ IFR' = 0 /\ IB' = 0 /\ DF' = 0 /\ UF' = 0 /\ UB' = 0
        /\ SF' = SavedFields /\ M' = Store(<<0, 0>>, PC) /\ PC' = Clean(1)
    BY <1>3 DEF TakeInterrupt
  <2>2. PC' \in Wide /\ 0 \in Field /\ <<0, 0>> \in Wide
    BY <2>1, SizeAssumption, CellAssumption, CleanType DEF Word, Field
  <2>3. M' \in [Cells -> Wide] /\ CellsAreWords'
    BY <2>1, <2>2, StoreType DEF TypeOK
  <2>4. SF' \in [UF : {0, 1}, IFR : Field, DF : Field]
    BY <2>1 DEF SavedFields, TypeOK
  <2>5. TypeOK'
    BY <1>2, <2>1, <2>2, <2>3, <2>4 DEF TypeOK
  <2>6. "NO_ION_PENDING" \in int_req'
    BY <2>1 DEF IntPending, OverheadBits
  <2> QED
    BY <1>2, <2>1, <2>3, <2>5, <2>6
    DEF PCMasked, DelayOver, BuffersInhibit, UserModeHeld, TrapsTaken
<1>4. CASE NoInterrupt
  <2>1. /\ ~(next_Major_State = "Fetch" /\ IntPending)
        /\ PC' = (IF reason = "none" THEN PC ELSE Clean(PC[2]))
        /\ UNCHANGED <<M, IFR, DF, IB, SF, UF, UB, int_req>>
    BY <1>4 DEF NoInterrupt, extension
  <2>2. PC' \in Wide /\ (PC[1] = 0 => PC'[1] = 0)
    BY <1>1, <2>1, CleanType DEF TypeOK
  <2>3. TypeOK'
    BY <1>2, <2>1, <2>2 DEF TypeOK
  <2>4. CellsAreWords' /\ PCMasked' /\ DelayOver' /\ BuffersInhibit' /\ UserModeHeld'
    BY <1>2, <2>1, <2>2 DEF CellsAreWords, PCMasked, DelayOver, BuffersInhibit, UserModeHeld
  <2>5. TrapsTaken'
    <3> SUFFICES ASSUME next_Major_State = "Fetch", UF = 1, "UF" \in int_req,
                        "ION" \in int_req
                 PROVE  FALSE
      BY <1>2, <2>1 DEF TrapsTaken
    <3>1. OverheadBits \subseteq int_req
      BY DEF OverheadBits, DelayOver, UserModeHeld
    <3>2. int_req # OverheadBits
      BY DEF OverheadBits
    <3> QED BY <2>1, <3>1, <3>2 DEF IntPending
  <2> QED BY <2>3, <2>4, <2>5
<1> QED BY <1>3, <1>4

LEMMA EventInv == ASSUME IInv, Event PROVE IInv'
<1> USE DEF IInv
<1>1. CASE \E d \in Devices : DeviceEvent(d)
  <2>1. PICK d \in Devices : DeviceEvent(d)
    BY <1>1
  <2>2. /\ int_req' = int_req \cup {d} /\ d \notin OverheadBits \cup {"UF", "TSC"}
        /\ UNCHANGED <<at, reason, fired, M, PC, MA, IR, next_Major_State,
                       IFR, DF, IB, SF, UF, UB, tsc_enb>>
    BY <2>1, DeviceAssumption DEF DeviceEvent, control, core, extension
  <2>3. TypeOK'
    BY <2>2 DEF TypeOK, RequestBits
  <2> QED
    BY <2>2, <2>3
    DEF CellsAreWords, PCMasked, DelayOver, BuffersInhibit, UserModeHeld, TrapsTaken, OverheadBits
<1>2. CASE StopEvent
  <2>1. PC[2] \in Word /\ MA[2] \in Word
    BY DEF TypeOK, Wide
  <2>2. /\ at = "loop" /\ at' = "scp" /\ reason' = "SCPE_STOP"
        /\ PC' \in Wide /\ PC'[1] = 0 /\ MA' \in Wide
        /\ UNCHANGED <<fired, M, IR, next_Major_State, IFR, DF, IB, SF, UF, UB, int_req, tsc_enb>>
    BY <1>2, <2>1, CleanType DEF StopEvent, extension
  <2>3. TypeOK'
    BY <2>2 DEF TypeOK
  <2> QED
    BY <2>2, <2>3
    DEF CellsAreWords, PCMasked, DelayOver, BuffersInhibit, UserModeHeld, TrapsTaken
<1> QED BY <1>1, <1>2 DEF Event

\* At the prompt IB may differ from IF; entering the loop makes them equal
\* again, which is what BuffersInhibit needs there.
LEMMA CommandInv == ASSUME IInv, Command PROVE IInv'
<1> USE DEF IInv
<1>1. /\ at = "scp" /\ M' = M /\ MA' = MA /\ IR' = IR /\ SF' = SF /\ fired' = fired
      /\ CellsAreWords'
  BY DEF Command, Continue, Go, Run, Reset, ResetAll, core, control, CellsAreWords
<1>2. CASE Continue \/ \E a \in Wide : Go(a)
  <2>1. /\ at' = "loop" /\ reason' = "none" /\ IB' = IFR'
        /\ UNCHANGED <<next_Major_State, DF, SF, UF, UB, int_req, tsc_enb>>
    BY <1>2 DEF Continue, Go, Enter, core
  <2>2. IFR' \in Field /\ PC' \in Wide /\ (PC[1] = 0 => PC'[1] = 0)
    <3>1. CASE Continue
      BY <3>1 DEF Continue, core, TypeOK
    <3>2. CASE \E a \in Wide : Go(a)
      <4>1. PICK a \in Wide : Go(a)
        BY <3>2
      <4>2. a[1] \in Field /\ a[2] \in Word
        BY DEF Wide
      <4> QED BY <4>1, <4>2, CleanType DEF Go
    <3> QED BY <1>2, <3>1, <3>2
  <2>3. TypeOK'
    BY <1>1, <2>1, <2>2 DEF TypeOK
  <2> QED
    BY <1>1, <2>1, <2>2, <2>3 DEF PCMasked, DelayOver, BuffersInhibit, UserModeHeld, TrapsTaken
<1>3. CASE Reset \/ \E a \in Wide : Run(a)
  <2>1. IFR' \in Field /\ PC' \in Wide /\ IB' = IFR' /\ ResetAll(IFR')
        /\ at' \in {"loop", "scp"} /\ reason' \in {reason, "none"}
    <3>1. CASE Reset
      BY <1>1, <3>1 DEF Reset, TypeOK, control
    <3>2. CASE \E a \in Wide : Run(a)
      <4>1. PICK a \in Wide : Run(a)
        BY <3>2
      <4>2. a[1] \in Field /\ a[2] \in Word
        BY DEF Wide
      <4> QED BY <4>1, <4>2, CleanType DEF Run, Enter
    <3> QED BY <1>3, <3>1, <3>2
  <2>2. /\ next_Major_State' = "Fetch" /\ DF' = IFR' /\ UF' = 0 /\ UB' = 0 /\ tsc_enb' = 0
        /\ int_req' \subseteq OverheadBits \cup RequestBits
    BY <2>1 DEF ResetAll, TypeOK, OverheadBits
  <2>3. TypeOK'
    BY <1>1, <2>1, <2>2 DEF TypeOK
  <2> QED
    BY <1>1, <2>1, <2>2, <2>3 DEF PCMasked, DelayOver, BuffersInhibit, UserModeHeld, TrapsTaken
<1> QED BY <1>2, <1>3 DEF Command

-----------------------------------------------------------------------------
LEMMA StepInv == IInv /\ [Next]_vars => IInv'
<1> SUFFICES ASSUME IInv, [Next]_vars PROVE IInv'
  OBVIOUS
<1>1. CASE CpuCycle
  <2>1. CASE FetchBreakpoint \/ \E i \in Instructions :
               FetchMri(i) \/ FetchJmpDirect(i) \/ FetchJmpIndirect(i)
    BY <2>1, FetchInv
  <2>2. CASE \E i \in Instructions :
               \/ UserTrap(i) \/ Requests(i) \/ SkipOnFlag(i) \/ ReadIot(i)
               \/ SetDataField(i) \/ LoadBuffers(i) \/ ClearAllFlags(i) \/ TscIot(i)
               \/ DeviceIot(i) \/ UndefinedIot(i) \/ Operate(i)
    BY <2>2, OneCycleInv
  <2>3. CASE Defer \/ ExecuteData \/ ExecuteJmsTrapped \/ ExecuteJms
    BY <2>3, DeferInv, ExecuteDataInv, ExecuteJmsInv
  <2> QED BY <1>1, <2>1, <2>2, <2>3 DEF CpuCycle, FetchStep
<1>2. CASE TakeInterrupt \/ NoInterrupt
  BY <1>2, InterruptInv
<1>3. CASE Event \/ Command
  BY <1>3, EventInv, CommandInv
<1>4. CASE UNCHANGED vars
  BY <1>4
  DEF vars, control, core, extension, IInv, TypeOK, CellsAreWords, PCMasked, DelayOver,
      BuffersInhibit, UserModeHeld, TrapsTaken
<1> QED BY <1>1, <1>2, <1>3, <1>4 DEF Next

LEMMA Invariance == Spec => []IInv
BY InitInv, StepInv, PTL DEF Spec

\* Every register keeps its width, in every reachable state.
THEOREM TypeCorrect == Spec => []TypeOK
<1>1. IInv => TypeOK
  BY DEF IInv
<1> QED BY <1>1, Invariance, PTL

\* Memory keeps twelve-bit words, location 0 excepted, although PC and MA
\* carry field bits in between.
THEOREM MemoryOfWords == Spec => []CellsAreWords
<1>1. IInv => CellsAreWords
  BY DEF IInv
<1> QED BY <1>1, Invariance, PTL

\* No interrupt is taken while a field or mode change waits for its jump.
THEOREM BuffersProtected == Spec => []BuffersInhibit
<1>1. IInv => BuffersInhibit
  BY DEF IInv
<1> QED BY <1>1, Invariance, PTL

\* User mode ends with an interrupt or a command, never with a jump.
THEOREM UserModeKept == Spec => []UserModeHeld
<1>1. IInv => UserModeHeld
  BY DEF IInv
<1> QED BY <1>1, Invariance, PTL

\* A privileged instruction of a user program traps at once.
THEOREM ViolationsTrap == Spec => []ViolationTraps
<1>1. IInv => ViolationTraps
  BY DEF IInv, TrapsTaken, ViolationTraps
<1> QED BY <1>1, Invariance, PTL

-----------------------------------------------------------------------------
(* Action properties.                                                       *)

\* Every step of a user program other than the interrupt leaves the fields,
\* the mode and the interrupt enable alone: IOTs trap, and the jumps load
\* buffers that UserModeHeld and BuffersInhibit force to be equal already.
THEOREM UserProgramConfined == Spec => UserModeConfined
<1> DEFINE Kept == /\ UNCHANGED <<IFR, IB, DF, UB, UF, tsc_enb>>
                   /\ "ION" \in int_req <=> "ION" \in int_req'
<1>1. ASSUME IInv, [Next]_vars, at # "scp", UF = 1
      PROVE  Kept \/ TakeInterrupt
  <2>2. IB = IFR /\ UB = UF
    BY <1>1 DEF IInv, BuffersInhibit, UserModeHeld
  <2>3. ASSUME NEW target, NEW req, Jump(target, req),
               "ION" \in req <=> "ION" \in int_req
        PROVE  Kept
    BY <2>2, <2>3 DEF Jump, EndInhibit
  <2>4. "ION" \in Fetched <=> "ION" \in int_req
    BY DEF Fetched
  <2>5. ASSUME NEW i \in Instructions, FetchStep(i) PROVE Kept
    <3>1. CASE FetchMri(i) \/ FetchJmpIndirect(i)
      BY <2>4, <3>1 DEF FetchMri, FetchJmpIndirect, extension
    <3>2. CASE FetchJmpDirect(i)
      BY <2>3, <2>4, <3>2 DEF FetchJmpDirect
    <3>3. CASE UserTrap(i) \/ Operate(i)
      <4>1. /\ int_req' \in {Fetched, Fetched \cup {"UF"}}
            /\ UNCHANGED <<IFR, UF, DF, IB, UB, tsc_enb>>
        BY <3>3 DEF UserTrap, Operate, OneCycle
      <4> QED BY <2>4, <4>1
    <3>4. ~Iot(i) \/ i.op \notin IotOps
      BY <1>1 DEF Iot, Privileged
    <3>5. ~(Requests(i) \/ SkipOnFlag(i) \/ ReadIot(i) \/ SetDataField(i) \/ LoadBuffers(i)
              \/ ClearAllFlags(i) \/ TscIot(i) \/ DeviceIot(i) \/ UndefinedIot(i))
      BY <3>4
      DEF Requests, SkipOnFlag, ReadIot, SetDataField, LoadBuffers, ClearAllFlags, TscIot,
          DeviceIot, UndefinedIot, IotOps, FieldOps, DataIotOps
    <3> QED BY <2>5, <3>1, <3>2, <3>3, <3>5 DEF FetchStep
  <2>6. ASSUME FetchBreakpoint \/ Defer \/ ExecuteData \/ ExecuteJmsTrapped \/ ExecuteJms
        PROVE  Kept
    <3>1. CASE FetchBreakpoint
      BY <3>1 DEF FetchBreakpoint, extension
    <3>2. CASE Defer
      BY <2>3, <3>2 DEF Defer, extension
    <3>3. CASE ExecuteData
      BY <3>3 DEF ExecuteData, Execute
    <3>4. CASE ExecuteJmsTrapped
      BY <3>4 DEF ExecuteJmsTrapped, Execute
    <3>5. CASE ExecuteJms
      BY <2>2, <3>5 DEF ExecuteJms, Execute, EndInhibit
    <3> QED BY <2>6, <3>1, <3>2, <3>3, <3>4, <3>5
  <2>7. ASSUME NoInterrupt \/ Event PROVE Kept
    <3>1. CASE NoInterrupt \/ StopEvent
      BY <3>1 DEF NoInterrupt, StopEvent, extension
    <3>2. CASE \E d \in Devices : DeviceEvent(d)
      BY <3>2, DeviceAssumption DEF DeviceEvent, extension, OverheadBits
    <3> QED BY <2>7, <3>1, <3>2 DEF Event
  <2>8. ~Command
    BY <1>1 DEF Command, Continue, Reset, Go, Run
  <2>9. CASE UNCHANGED vars
    BY <2>9 DEF vars, extension
  <2> HIDE DEF Kept
  <2> QED
    BY <1>1, <2>5, <2>6, <2>7, <2>8, <2>9 DEF Next, CpuCycle
<1>2. IInv /\ [Next]_vars
        => [at # "scp" /\ UF = 1 =>
              \/ UNCHANGED <<IFR, IB, DF, UB, UF, tsc_enb>> /\ ("ION" \in int_req <=> "ION" \in int_req')
              \/ TakeInterrupt]_vars
  BY <1>1
<1> QED BY <1>2, Invariance, PTL DEF Spec, UserModeConfined

\* An ION that took effect and the end of its delay exclude each other while
\* IR still holds the ION.
IonInv ==
    /\ next_Major_State # "Fetch" => IR.op \in MriOps \cup {"JMP"}
    /\ IR.op = "ION" /\ UF = 0 => ~({"ION", "NO_ION_PENDING"} \subseteq int_req)

LEMMA IonStep == IonInv /\ [Next]_vars => IonInv'
<1> SUFFICES ASSUME IonInv, [Next]_vars PROVE IonInv'
  OBVIOUS
<1>1. ASSUME NEW i \in Instructions, FetchStep(i) PROVE IonInv'
  <2>1. IR' = i /\ next_Major_State = "Fetch"
    BY <1>1
    DEF FetchStep, FetchMri, FetchJmpDirect, FetchJmpIndirect, UserTrap, Requests, SkipOnFlag,
        ReadIot, SetDataField, LoadBuffers, ClearAllFlags, TscIot, DeviceIot, UndefinedIot,
        Operate, OneCycle, Iot, Fetch
  <2>2. CASE i.op \in MriOps \cup {"JMP"}
    BY <2>1, <2>2 DEF IonInv, MriOps
  <2>3. CASE i.op \notin MriOps \cup {"JMP"}
    <3>1. next_Major_State' = "Fetch" /\ UF' = UF
      BY <1>1, <2>1, <2>3
      DEF FetchStep, FetchMri, FetchJmpDirect, FetchJmpIndirect, UserTrap, Requests, SkipOnFlag,
          ReadIot, SetDataField, LoadBuffers, ClearAllFlags, TscIot, DeviceIot, UndefinedIot,
          Operate, OneCycle, Iot
    <3>2. i.op = "ION" /\ UF = 0 => int_req' = InterruptsOn(Fetched)
      BY <1>1, <2>3
      DEF FetchStep, FetchMri, FetchJmpDirect, FetchJmpIndirect, UserTrap, Requests, SkipOnFlag,
          ReadIot, SetDataField, LoadBuffers, ClearAllFlags, TscIot, DeviceIot, UndefinedIot,
          Operate, Privileged, OprOps
    <3> QED BY <2>1, <3>1, <3>2 DEF IonInv, InterruptsOn
  <2> QED BY <2>2, <2>3
<1>2. CASE FetchBreakpoint
  BY <1>2 DEF IonInv, FetchBreakpoint, extension
<1>3. CASE Defer \/ ExecuteData \/ ExecuteJmsTrapped \/ ExecuteJms
  <2>1. next_Major_State # "Fetch" /\ IR' = IR
    BY <1>3 DEF Defer, ExecuteData, ExecuteJmsTrapped, ExecuteJms, Execute
  <2> QED BY <2>1 DEF IonInv, MriOps
<1>4. CASE TakeInterrupt \/ NoInterrupt
  BY <1>4 DEF IonInv, TakeInterrupt, NoInterrupt, extension
<1>5. CASE Event
  <2>1. CASE StopEvent
    BY <2>1 DEF IonInv, StopEvent, extension
  <2>2. CASE \E d \in Devices : DeviceEvent(d)
    BY <2>2, DeviceAssumption DEF IonInv, DeviceEvent, core, extension, OverheadBits
  <2> QED BY <1>5, <2>1, <2>2 DEF Event
<1>6. CASE Command
  <2>1. CASE Continue \/ \E a \in Wide : Go(a)
    BY <2>1 DEF IonInv, Continue, Go, core
  <2>2. CASE Reset \/ \E a \in Wide : Run(a)
    BY <2>2 DEF IonInv, Reset, Run, ResetAll
  <2> QED BY <1>6, <2>1, <2>2 DEF Command
<1>7. CASE UNCHANGED vars
  BY <1>7 DEF IonInv, vars, core, extension
<1> QED BY <1>1, <1>2, <1>3, <1>4, <1>5, <1>6, <1>7 DEF Next, CpuCycle

\* The interrupt check never interrupts between an ION and the instruction
\* that follows it.
THEOREM DelayOfIon == Spec => IonDelay
<1>1. Init => IonInv
  BY DEF Init, IonInv, NoInstruction, Clean
<1>2. TypeOK /\ IonInv /\ [Next]_vars => [TakeInterrupt => IR.op # "ION" \/ UF = 1]_vars
  <2>1. ASSUME TypeOK, IonInv, TakeInterrupt PROVE IR.op # "ION" \/ UF = 1
    BY <2>1 DEF IonInv, TakeInterrupt, IntPending, OverheadBits, TypeOK
  <2> QED BY <2>1
<1> QED BY <1>1, <1>2, IonStep, TypeCorrect, PTL DEF Spec, IonDelay

-----------------------------------------------------------------------------
(* The return from an interrupt.  SF keeps the fields and the mode of what  *)
(* was interrupted until the next interrupt; location 0 keeps its address   *)
(* as long as no instruction writes there; and from an RMF on, until an     *)
(* instruction or the prompt loads a field, the buffers, and DF, are those  *)
(* of SF.                                                                   *)

SavedTyped == saved \in [context : [IFR : Int, DF : Int, UF : Int, PC : Int],
                         intact : BOOLEAN, restored : BOOLEAN, prompted : BOOLEAN]

SavedInSF == /\ SF.IFR = saved.context.IFR /\ SF.DF = saved.context.DF
             /\ SF.UF = saved.context.UF

SavedIn0 == saved.intact => M[<<0, 0>>][2] = saved.context.PC

BuffersRestored ==
    saved.restored /\ ~saved.prompted => IB = SF.IFR /\ DF = SF.DF /\ UB = SF.UF

ReturnInv == SavedTyped /\ SavedInSF /\ SavedIn0 /\ BuffersRestored

\* The instructions that load a field write no memory, RMF loads all of SF,
\* and no other instruction loads a field.
LEMMA FieldsLoaded ==
    ASSUME NEW i \in Instructions, FetchStep(i)
    PROVE  /\ next_Major_State = "Fetch" /\ ~BreakpointHere /\ IR' = i /\ M' = M /\ SF' = SF
           /\ i.op \in FieldOps /\ ~Privileged(i) /\ i.op = "RMF"
                => IB' = SF.IFR /\ DF' = SF.DF /\ UB' = SF.UF
           /\ ~(i.op \in FieldOps /\ ~Privileged(i)) => UNCHANGED <<IB, DF, UB>>
<1> USE DEF FetchStep, OneCycle, Iot, Fetch, extension
<1>1. /\ next_Major_State = "Fetch" /\ ~BreakpointHere /\ IR' = i
  BY DEF FetchMri, FetchJmpDirect, FetchJmpIndirect, UserTrap, Requests, SkipOnFlag, ReadIot,
         SetDataField, LoadBuffers, ClearAllFlags, TscIot, DeviceIot, UndefinedIot, Operate
<1>2. M' = M /\ SF' = SF
  BY DEF FetchMri, FetchJmpDirect, FetchJmpIndirect, Jump, UserTrap, Requests, SkipOnFlag, ReadIot,
         SetDataField, LoadBuffers, ClearAllFlags, TscIot, DeviceIot, UndefinedIot, Operate
<1>3. ASSUME i.op \in FieldOps, ~Privileged(i), i.op = "RMF"
      PROVE  IB' = SF.IFR /\ DF' = SF.DF /\ UB' = SF.UF
  BY <1>3 DEF FetchMri, FetchJmpDirect, FetchJmpIndirect, UserTrap, Requests, SkipOnFlag, ReadIot,
         SetDataField, LoadBuffers, ClearAllFlags, TscIot, DeviceIot, UndefinedIot, Operate,
         MriOps, OprOps
<1>4. ASSUME ~(i.op \in FieldOps /\ ~Privileged(i)) PROVE UNCHANGED <<IB, DF, UB>>
  BY <1>4 DEF FetchMri, FetchJmpDirect, FetchJmpIndirect, Jump, UserTrap, Requests, SkipOnFlag,
         ReadIot, SetDataField, LoadBuffers, ClearAllFlags, TscIot, DeviceIot, UndefinedIot,
         Operate, FieldOps
<1> QED BY <1>1, <1>2, <1>3, <1>4

LEMMA ReturnInit == HInit => ReturnInv
BY CellAssumption
DEF HInit, Init, NoContext, ReturnInv, SavedTyped, SavedInSF, SavedIn0, BuffersRestored, Clean

LEMMA ReturnStep == ASSUME IInv, ReturnInv, [HNext]_hvars PROVE ReturnInv'
<1> USE DEF ReturnInv
<1>1. CASE TakeInterrupt /\ saved' = Interrupted
  <2>1. /\ SF' = [UF |-> UF, IFR |-> IFR, DF |-> DF] /\ M' = Store(<<0, 0>>, PC)
        /\ saved' = [context |-> [IFR |-> IFR, DF |-> DF, UF |-> UF, PC |-> PC[2]],
                     intact |-> TRUE, restored |-> FALSE, prompted |-> FALSE]
    BY <1>1 DEF TakeInterrupt, SavedFields, Interrupted
  <2>2. M'[<<0, 0>>] = PC
    BY <2>1, CellAssumption DEF Store, IInv, TypeOK
  <2>3. SavedTyped'
    <3>1. IFR \in Int /\ DF \in Int /\ UF \in Int /\ PC[2] \in Int
      BY SizeAssumption DEF IInv, TypeOK, Wide, Word, Field
    <3> QED BY <2>1, <3>1 DEF SavedTyped
  <2> QED BY <2>1, <2>2, <2>3 DEF SavedInSF, SavedIn0, BuffersRestored
<1>2. ASSUME NEW i \in Instructions, FetchStep(i),
             saved' = IF LoadsField
                      THEN [saved EXCEPT !.restored = (IR'.op = "RMF"), !.prompted = FALSE]
                      ELSE [saved EXCEPT !.intact = @ /\ KeepsLocation0]
      PROVE  ReturnInv'
  <2>1. LoadsField <=> i.op \in FieldOps /\ ~Privileged(i)
    BY <1>2, FieldsLoaded DEF LoadsField
  <2>2. M' = M /\ SF' = SF /\ IR' = i
    BY <1>2, FieldsLoaded
  <2>3. CASE LoadsField
    <3>1. saved' = [saved EXCEPT !.restored = (i.op = "RMF"), !.prompted = FALSE]
      BY <1>2, <2>2, <2>3
    <3>2. i.op = "RMF" => IB' = SF.IFR /\ DF' = SF.DF /\ UB' = SF.UF
      BY <1>2, <2>1, <2>3, FieldsLoaded
    <3>3. SavedTyped' /\ saved'.context = saved.context /\ saved'.intact = saved.intact
          /\ (saved'.restored <=> i.op = "RMF")
      BY <3>1 DEF SavedTyped
    <3> QED BY <2>2, <3>2, <3>3 DEF SavedInSF, SavedIn0, BuffersRestored
  <2>4. CASE ~LoadsField
    <3>1. UNCHANGED <<IB, DF, UB>>
      BY <1>2, <2>1, <2>4, FieldsLoaded
    <3>2. /\ SavedTyped' /\ saved'.context = saved.context /\ (saved'.intact => saved.intact)
          /\ saved'.restored = saved.restored /\ saved'.prompted = saved.prompted
      BY <1>2, <2>4 DEF SavedTyped
    <3> QED BY <2>2, <3>1, <3>2 DEF SavedInSF, SavedIn0, BuffersRestored
  <2> QED BY <2>3, <2>4
<1>3. ASSUME FetchBreakpoint \/ Defer \/ ExecuteData \/ ExecuteJmsTrapped \/ ExecuteJms,
             saved' = IF LoadsField
                      THEN [saved EXCEPT !.restored = (IR'.op = "RMF"), !.prompted = FALSE]
                      ELSE [saved EXCEPT !.intact = @ /\ KeepsLocation0]
      PROVE  ReturnInv'
  <2>1. ~LoadsField
    BY <1>3
    DEF LoadsField, FetchBreakpoint, Defer, ExecuteData, ExecuteJmsTrapped, ExecuteJms, Execute
  <2>2. UNCHANGED <<IB, DF, UB, SF>>
    BY <1>3
    DEF FetchBreakpoint, Defer, Jump, ExecuteData, ExecuteJmsTrapped, ExecuteJms, Execute, extension
  <2>3. /\ SavedTyped' /\ saved'.context = saved.context
        /\ (saved'.intact => saved.intact /\ KeepsLocation0)
        /\ saved'.restored = saved.restored /\ saved'.prompted = saved.prompted
    BY <1>3, <2>1 DEF SavedTyped
  <2> QED BY <2>2, <2>3 DEF SavedInSF, SavedIn0, BuffersRestored, KeepsLocation0
<1>4. CASE (NoInterrupt \/ Event) /\ UNCHANGED saved
  <2>1. UNCHANGED <<IB, DF, UB, SF, M>>
    BY <1>4 DEF NoInterrupt, Event, StopEvent, DeviceEvent, core, extension
  <2> QED BY <1>4, <2>1 DEF SavedTyped, SavedInSF, SavedIn0, BuffersRestored
<1>5. CASE Continue /\ saved' = [saved EXCEPT !.prompted = TRUE]
  <2>1. UNCHANGED <<SF, M>>
    BY <1>5 DEF Continue, core
  <2>2. /\ SavedTyped' /\ saved'.context = saved.context /\ saved'.intact = saved.intact
        /\ saved'.prompted
    BY <1>5 DEF SavedTyped
  <2> QED BY <2>1, <2>2 DEF SavedInSF, SavedIn0, BuffersRestored
<1>6. CASE /\ Reset \/ \E a \in Wide : Go(a) \/ Run(a)
           /\ saved' = [saved EXCEPT !.restored = FALSE]
  <2>1. UNCHANGED <<SF, M>>
    BY <1>6 DEF Reset, Go, Run, ResetAll
  <2>2. /\ SavedTyped' /\ saved'.context = saved.context /\ saved'.intact = saved.intact
        /\ ~saved'.restored
    BY <1>6 DEF SavedTyped
  <2> QED BY <2>1, <2>2 DEF SavedInSF, SavedIn0, BuffersRestored
<1>7. CASE UNCHANGED hvars
  BY <1>7 DEF hvars, vars, core, extension, SavedTyped, SavedInSF, SavedIn0, BuffersRestored
<1> QED BY <1>1, <1>2, <1>3, <1>4, <1>5, <1>6, <1>7 DEF HNext, CpuCycle

LEMMA HistoryOnly == [HNext]_hvars => [Next]_vars
BY DEF HNext, hvars, Next, Command

\* A handler that restores the fields with RMF, loads no other and leaves
\* location 0 alone resumes the interrupted program with JMP I 0: the same
\* address, fields and mode, in every memory and with every device, as long
\* as the prompt is not entered in between.
THEOREM HandlersReturn == HSpec => InterruptReturns
<1>1. ASSUME IInv, ReturnInv, ReturnJump, saved.intact, saved.restored, ~saved.prompted
      PROVE  Resumed
  <2>1. 0 \notin AutoIndex /\ <<0, 0>> \in Cells
    BY AutoIndexAssumption, CellAssumption
  <2>2. PC' = M[<<0, 0>>] /\ IFR' = IB /\ UF' = UB /\ DF' = DF
    <3>1. IFR = 0 /\ MA[2] = 0 /\ IR.op = "JMP" /\ Defer
      BY <1>1 DEF ReturnJump
    <3>2. Contents(<<IFR, MA[2]>>) = {M[<<0, 0>>]} /\ <<IFR, MA[2]>>[2] \notin AutoIndex
      BY <2>1, <3>1 DEF Contents
    <3>3. Jump(M[<<0, 0>>], int_req)
      BY <3>1, <3>2 DEF Defer
    <3> QED BY <3>3 DEF Jump
  <2> QED BY <1>1, <2>2 DEF ReturnInv, SavedInSF, SavedIn0, BuffersRestored, Resumed
<1>2. IInv /\ ReturnInv /\ [HNext]_hvars
        => [ReturnJump /\ saved.intact /\ saved.restored /\ ~saved.prompted => Resumed]_hvars
  BY <1>1
<1>3. IInv /\ ReturnInv /\ [HNext]_hvars => ReturnInv'
  BY ReturnStep
<1>4. HInit => Init
  BY DEF HInit
<1>5. IInv /\ [HNext]_hvars => IInv'
  BY HistoryOnly, StepInv
<1> QED BY <1>2, <1>3, <1>4, <1>5, InitInv, ReturnInit, PTL DEF HSpec, InterruptReturns
=============================================================================
