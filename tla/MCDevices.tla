------------------------------ MODULE MCDevices ------------------------------
(***************************************************************************)
(* The terminals, the other character devices, the RK8E and the FPP8A for  *)
(* TLC.  A behaviour is about one of them: they have no state in common    *)
(* but the words of int_req, dev_done and int_enable, of which each        *)
(* touches its own bits.  What is named alike in two of them is one        *)
(* variable here.                                                          *)
(***************************************************************************)
EXTENDS CharDevices, Sequences

CONSTANTS Controllers                                   \* those a run is about
CONSTANTS Drives, Addresses, FieldSize, SectorSize      \* Rk8e
CONSTANTS LineSets                                      \* Ttx
CONSTANTS Places, FppCommands                           \* Fpp8a

VARIABLES
    controller,
    rk_busy, rk_sta, rk_cmd, rk_da, rk_ma, int_rk, active, locks, ordered,
    present, ttix_done, ttox_done, ttx_enbl, polling, conn,
    fpp_flag, fpp_sta, fpp_cmd, fpp_ssf, fpp_last_lockbit, fpp_fpc, int_fpp, fpp_active,
    apt, due, stepped

Rk == INSTANCE Rk8e
Tx == INSTANCE Ttx
Fp == INSTANCE Fpp8a

ASSUME ControllersAssumption == Controllers \subseteq {"char", "rk", "ttx", "fpp"}
ASSUME RkSizes == Rk!SizesAssumption
ASSUME TxLines == Tx!LinesAssumption
ASSUME FpCommands == Fp!CommandsAssumption

requestvars == <<dev_done, int_enable, int_req, queued, unread, idle>>
charvars == <<devices, buf, lpt_err, old_char>>
rkvars == <<rk_busy, rk_sta, rk_cmd, rk_da, rk_ma, int_rk, active, locks, ordered>>
txvars == <<present, ttix_done, ttox_done, ttx_enbl, polling, conn>>
fpvars == <<fpp_flag, fpp_sta, fpp_cmd, fpp_ssf, fpp_last_lockbit, fpp_fpc, int_fpp,
            fpp_active, apt, due, stepped>>
allvars == <<controller, attached, polite, requestvars, charvars, rkvars, txvars, fpvars>>

CharStep(step) == controller = "char" /\ step
    /\ UNCHANGED <<controller, rkvars, txvars, fpvars>>
RkStep(step) == controller = "rk" /\ step
    /\ UNCHANGED <<controller, polite, requestvars, charvars, txvars, fpvars>>
TxStep(step) == controller = "ttx" /\ step
    /\ UNCHANGED <<controller, charvars, rkvars, fpvars>>
FpStep(step) == controller = "fpp" /\ step
    /\ UNCHANGED <<controller, attached, polite, requestvars, charvars, rkvars, txvars>>

\* What a behaviour is not about rests.
RequestRest ==
    dev_done = {} /\ int_enable = {} /\ int_req = {} /\ queued = {} /\ unread = {} /\ idle = {}
CharRest ==
    /\ devices = {} /\ buf = [d \in {"TTI", "TTO", "PTP", "LPT"} |-> "nul"]
    /\ lpt_err = TRUE /\ old_char = TRUE
RkRest ==
    /\ rk_busy = FALSE /\ rk_sta = {} /\ rk_cmd = Rk!Cleared /\ rk_da = "cyl" /\ rk_ma = 0
    /\ int_rk = FALSE /\ active = {} /\ locks = {} /\ ordered = <<>>
TxRest ==
    /\ present = {} /\ ttix_done = {} /\ ttox_done = {} /\ ttx_enbl = {}
    /\ polling = FALSE /\ conn = {}

DevicesInit ==
    /\ controller \in Controllers
    /\ Fp!Init
    /\ \/ controller = "char" /\ Init /\ RkRest /\ TxRest
       \/ controller = "rk" /\ Rk!Init /\ polite = TRUE /\ RequestRest /\ CharRest /\ TxRest
       \/ controller = "ttx" /\ Tx!Init /\ CharRest /\ RkRest
       \/ /\ controller = "fpp" /\ attached = {} /\ polite = TRUE
          /\ RequestRest /\ CharRest /\ RkRest /\ TxRest

DevicesNext == CharStep(Next) \/ RkStep(Rk!Next) \/ TxStep(Tx!Next) \/ FpStep(Fp!Next)

MCFppCommands == {{}, {"IE"}, {"DP", "LOCK"}, {"IE", "LOCK"}}

\* That of CharDevices and Rk8e.
DevicesFairness ==
    /\ SF_allvars(CharStep(PrintChar))
    /\ WF_allvars(CharStep(ptp_svc)) /\ WF_allvars(CharStep(lpt_svc))
    /\ \A u \in Drives : WF_allvars(RkStep(Rk!rk_svc(u)))

DevicesSpec == DevicesInit /\ [][DevicesNext]_allvars

FairDevices == DevicesSpec /\ DevicesFairness

----------------------------------------------------------------------------
\* The types of the controller a behaviour is about; and though every IOT, service
\* and reset updates int_req by itself, its request stands just while its flags
\* call for one and it is enabled.
RequestsAgree ==
    CASE controller = "char" -> TypeOK /\ IntAgrees
      [] controller = "rk" -> Rk!TypeOK /\ Rk!IntAgrees
      [] controller = "ttx" -> Tx!TypeOK /\ Tx!IntAgrees
      [] controller = "fpp" -> Fp!TypeOK /\ Fp!IntAgrees

\* What a device was given to do stands until it is done.  A character device or
\* line that a polite program has seen ready has printed the last character, and
\* the lines go on being polled; a transfer of the RK8E is made with the registers
\* it was ordered with, for busy keeps the program from changing what rk_svc reads
\* when the time has come; a program of the FPP8A goes on where it was held.
OrderStands ==
    /\ controller = "char" => ReadyIsDone
    /\ controller = "rk" => Rk!OrderStands
    /\ controller = "ttx" => Tx!CharsKept /\ Tx!PollsOn
    /\ controller = "fpp" => Fp!Resumes /\ Fp!RunsOn /\ Fp!TrapsTold

\* What a program waits for comes: the flag of a device it has given a
\* character, the end of a busy disk controller.
AnswersCome == FlagComes /\ Rk!BusyEnds
=============================================================================
