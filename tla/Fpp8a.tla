-------------------------------- MODULE Fpp8a --------------------------------
(***************************************************************************)
(* The control of the FPP8A floating point processor (pdp8_fpp.c): a       *)
(* second processor, which runs a program of its own in the memory of the  *)
(* first one until an exit, a trap, a halt or a pause.  It starts from the *)
(* active parameter table (APT) and leaves its state there.                *)
(*                                                                         *)
(* An instruction is an event.  While the CPU is locked out the code takes *)
(* several in one event; here the next one may follow as well.  Of the     *)
(* table the address to go on at is kept.  Instructions have one word, and *)
(* those that compute are told apart by the trap they may end in.          *)
(***************************************************************************)
EXTENDS Naturals

CONSTANTS
    Places,         \* the program has so many words, and then begins anew
    FppCommands     \* what the program loads into the command register

CommandsAssumption ==
    Places \in Nat \ {0} /\ FppCommands \subseteq SUBSET {"DP", "IE", "LOCK"}

VARIABLES
    fpp_flag,
    fpp_sta,            \* set of the status bits that are on
    fpp_cmd,            \* set of command bits: "DP", "IE", "LOCK"
    fpp_ssf,            \* single step
    fpp_last_lockbit,
    fpp_fpc,
    int_fpp,            \* INT_FPP in int_req
    fpp_active,         \* an event is scheduled
    apt,                \* the FPC in the table
    due,                \* history: the instruction to carry out next, or none
    stepped             \* history: a single step was spent on FPAUSE

vars == <<fpp_flag, fpp_sta, fpp_cmd, fpp_ssf, fpp_last_lockbit, fpp_fpc, int_fpp,
          fpp_active, apt, due, stepped>>

none == Places
Place == 0 .. Places - 1
Next1(p) == (p + 1) % Places
Before(p) == (p + Places - 1) % Places

Traps == {"DVZX", "OVX", "UNF"}                 \* of an arithmetic instruction
Cleared == Traps \union {"TRPX", "DP", "EP"}
FPC_STA == {"DP", "LOCK"}

Running == "RUN" \in fpp_sta
Paused == "PAUSE" \in fpp_sta

----------------------------------------------------------------------------
\* What fpp_dump_apt makes of the status, once for each of the reasons given.
Dumped(sta, reasons) == (sta \union UNION reasons) \ {"RUN"}

fpp_dump_apt(sta, pc, reasons) ==
    IF reasons = {} THEN fpp_sta' = sta /\ UNCHANGED <<fpp_flag, int_fpp, apt>>
    ELSE /\ apt' = pc
         /\ fpp_sta' = Dumped(sta, reasons)
         /\ fpp_flag' = TRUE
         /\ int_fpp' = (int_fpp \/ "IE" \in fpp_cmd)

\* FPICL and CAF.  The processor forgets its event and goes on saying RUN.
fpp_reset ==
    /\ fpp_active' = FALSE
    /\ fpp_flag' = FALSE
    /\ fpp_last_lockbit' = FALSE
    /\ int_fpp' = FALSE
    /\ fpp_sta' = fpp_sta \ Cleared
    /\ fpp_cmd' = fpp_cmd \ {"LOCK"}
    /\ due' = IF Running THEN none ELSE due
    /\ UNCHANGED <<fpp_ssf, fpp_fpc, apt, stepped>>

FPCOM(cmd) ==
    /\ ~fpp_flag /\ ~Running
    /\ fpp_cmd' = cmd
    /\ fpp_last_lockbit' = ("LOCK" \in cmd)
    /\ fpp_sta' = (fpp_sta \ FPC_STA) \union (cmd \intersect FPC_STA)
    /\ UNCHANGED <<fpp_flag, fpp_ssf, fpp_fpc, int_fpp, fpp_active, apt, due, stepped>>

\* A pause is taken back, so that the program comes to it again.
StillPaused(sta) == sta                         \* mutant of NoLongerPaused
NoLongerPaused(sta) == sta \ {"PAUSE"}

\* The diagnostic wants a halt after a division by zero to be told.
HaltTold(sta) == IF "DVZX" \in sta THEN sta \union {"HLTX"} ELSE sta

FPHLT ==
    \/ /\ Running
       /\ LET pc == IF Paused THEN Before(fpp_fpc) ELSE fpp_fpc
          IN  /\ fpp_fpc' = pc
              /\ fpp_dump_apt(NoLongerPaused(fpp_sta), pc, {{"HLTX"}})
       /\ fpp_ssf' = TRUE
       /\ fpp_active' = FALSE
       /\ UNCHANGED <<fpp_cmd, fpp_last_lockbit, due, stepped>>
    \/ /\ ~Running
       /\ fpp_ssf' = (fpp_ssf \/ ~fpp_flag)
       /\ fpp_sta' = HaltTold(fpp_sta)
       /\ UNCHANGED <<fpp_flag, fpp_cmd, fpp_last_lockbit, fpp_fpc, int_fpp, fpp_active, apt,
                      due, stepped>>

\* FPST starts from the table, or lets a program go on that has paused.
Start ==
    /\ ~fpp_flag /\ ~Running
    /\ fpp_sta' = ((fpp_sta \ {"HLTX"}) \union {"RUN"})
                    \union (IF fpp_ssf /\ fpp_last_lockbit THEN {"LOCK"} ELSE {})
    /\ fpp_fpc' = apt
    /\ fpp_active' = TRUE
    /\ UNCHANGED <<fpp_flag, fpp_cmd, fpp_ssf, fpp_last_lockbit, int_fpp, apt, due, stepped>>

GoOn ==
    /\ Running /\ Paused
    /\ fpp_sta' = fpp_sta \ {"PAUSE"}
    /\ fpp_active' = TRUE
    /\ due' = IF due = none THEN none ELSE fpp_fpc
    /\ stepped' = FALSE
    /\ UNCHANGED <<fpp_flag, fpp_cmd, fpp_ssf, fpp_last_lockbit, fpp_fpc, int_fpp, apt>>

FPIST ==
    /\ fpp_flag
    /\ fpp_flag' = FALSE
    /\ fpp_sta' = fpp_sta \ Cleared
    /\ int_fpp' = FALSE
    /\ UNCHANGED <<fpp_cmd, fpp_ssf, fpp_last_lockbit, fpp_fpc, fpp_active, apt, due, stepped>>

FPEP ==
    /\ ~Running
    /\ fpp_sta' = (fpp_sta \union {"EP"}) \ {"DP"}
    /\ UNCHANGED <<fpp_flag, fpp_cmd, fpp_ssf, fpp_last_lockbit, fpp_fpc, int_fpp, fpp_active,
                   apt, due, stepped>>

\* The CPU's program gives the FPP another program.
NewProgram ==
    /\ ~Running /\ ~Paused
    /\ apt' \in Place /\ due' = apt'
    /\ UNCHANGED <<fpp_flag, fpp_sta, fpp_cmd, fpp_ssf, fpp_last_lockbit, fpp_fpc, int_fpp,
                   fpp_active, stepped>>

----------------------------------------------------------------------------
(* fpp_svc carries out an instruction: it goes on at pc with this status,  *)
(* having called for a dump for these reasons.                             *)

Steps == IF fpp_ssf THEN {{"HLTX"}} ELSE {}

Instruction(pc, sta, reasons) ==
    /\ fpp_active
    /\ fpp_fpc' = pc
    /\ fpp_dump_apt(sta, pc, reasons \union Steps)
    /\ fpp_ssf' = FALSE
    /\ fpp_active' = ("RUN" \in fpp_sta' /\ "PAUSE" \notin fpp_sta')
    /\ UNCHANGED <<fpp_cmd, fpp_last_lockbit>>

\* Any instruction that ends without a trap, and those that may end in one.
Compute ==
    \E pc \in Place : Instruction(pc, fpp_sta, {}) /\ due' = pc /\ UNCHANGED stepped

Onward(sta, reasons) ==
    /\ Instruction(Next1(fpp_fpc), sta, reasons)
    /\ due' = Next1(fpp_fpc)
    /\ UNCHANGED stepped

Trap == \E t \in Traps : Onward(fpp_sta, {{t}})

TRAP == Onward(fpp_sta, {{"TRPX"}})

\* LEA, which computes an address, goes to double precision like STARTD.
STARTF == Onward(fpp_sta \ {"DP", "EP"}, {})
STARTD == Onward((fpp_sta \union {"DP"}) \ {"EP"}, {})
STARTE ==
    Onward(IF "EP" \in fpp_sta THEN fpp_sta ELSE (fpp_sta \union {"EP"}) \ {"DP"}, {})

FEXIT ==
    IF fpp_sta \intersect Traps # {} THEN Onward(fpp_sta \union {"HLTX"}, {})
    ELSE Onward(fpp_sta, {{}})

\* It stands for itself until it is told to go on.  A single step leaves it behind
\* with PAUSE set.
FPAUSE ==
    /\ Instruction(Next1(fpp_fpc), fpp_sta \union {"PAUSE"}, {})
    /\ due' = IF fpp_ssf THEN Next1(fpp_fpc) ELSE fpp_fpc
    /\ stepped' = fpp_ssf

\* An undefined instruction ends the service there and then.
Undefined ==
    /\ fpp_active
    /\ fpp_fpc' = Next1(fpp_fpc)
    /\ fpp_active' = FALSE
    /\ due' = none
    /\ UNCHANGED <<fpp_flag, fpp_sta, fpp_cmd, fpp_ssf, fpp_last_lockbit, int_fpp, apt, stepped>>

fpp_svc ==
    \/ Compute \/ Trap \/ TRAP \/ STARTF \/ STARTD \/ STARTE
    \/ FEXIT \/ FPAUSE \/ Undefined

IOT ==
    \/ fpp_reset \/ FPHLT \/ Start \/ GoOn \/ FPIST \/ FPEP
    \/ \E cmd \in FppCommands : FPCOM(cmd)

Init ==
    /\ fpp_flag = FALSE /\ fpp_sta = {} /\ fpp_cmd = {} /\ fpp_ssf = FALSE
    /\ fpp_last_lockbit = FALSE /\ fpp_fpc = 0 /\ int_fpp = FALSE /\ fpp_active = FALSE
    /\ apt = 0 /\ due = 0 /\ stepped = FALSE

Next == IOT \/ fpp_svc \/ NewProgram

Spec == Init /\ [][Next]_vars

----------------------------------------------------------------------------
StatusBits == Cleared \union {"HLTX", "LOCK", "PAUSE", "RUN"}

TypeOK ==
    /\ fpp_sta \subseteq StatusBits /\ fpp_cmd \in FppCommands \union SUBSET {"DP", "IE"}
    /\ {fpp_flag, fpp_ssf, fpp_last_lockbit, int_fpp, fpp_active, stepped} \subseteq BOOLEAN
    /\ {fpp_fpc, apt} \subseteq Place /\ due \in Place \union {none}

\* The request stands for as long as the flag does and is enabled, though the
\* command register that enables it can be loaded anew.
IntAgrees == int_fpp <=> fpp_flag /\ "IE" \in fpp_cmd

\* A program that is halted, trapped or single stepped and started again goes on at
\* the instruction that was next, and comes to a pause once more that was not
\* ended; unless it was stepped over a pause.
Resumes ==
    due # none /\ ~stepped =>
        IF ~Running THEN apt = due
        ELSE fpp_fpc = IF Paused THEN Next1(due) ELSE due

\* What runs has its event and what has it runs, except that a reset or an
\* undefined instruction leaves a program running without one, and one that was
\* stepped over a pause runs while it pauses.
RunsOn ==
    /\ fpp_active => Running /\ (Paused => stepped)
    /\ Running /\ ~Paused /\ ~fpp_active => due = none

\* No program runs whose last instruction has trapped, so FEXIT never finds a trap.
TrapsTold == fpp_sta \intersect Traps # {} => fpp_flag /\ ~Running
=============================================================================
