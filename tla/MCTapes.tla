------------------------------- MODULE MCTapes -------------------------------
(***************************************************************************)
(* The controllers of tapes for TLC: both DECtapes, magnetic tape and      *)
(* cassette.  A behaviour is about one of them; what is named alike in two *)
(* of them is one variable here.                                           *)
(***************************************************************************)
EXTENDS Naturals, Sequences

CONSTANTS Controllers                                   \* those a run is about
CONSTANTS Units, Tapes                                  \* Tc08, Tm8e and Ta8e
CONSTANTS Programs, EZLIN, HTLIN, BSIZE, TSIZE, Decel, Accel, MaxCount  \* Tc08
CONSTANTS Selects, Records                              \* Tm8e
CONSTANTS Drives, DT_WSIZE                              \* Td8e
CONSTANTS Loads, Layouts, Capacity, CT_MAXFR            \* Ta8e

VARIABLES
    controller, polite,
    active, attached, locks, ordered,
    dt, program, found,
    mt_cu, mt_fn, mt_sta, mt_done, int_mt, USTAT, pos,
    td_cmd, td_flags, td_tme, motion, obeys,
    ct_sra, ct_srb, ct_df, ct_write, ct_bptr, ct_blnt, int_ct, FNC, UST, tape, at,
    chars, said, before

Tc == INSTANCE Tc08
Tm == INSTANCE Tm8e
Td == INSTANCE Td8e
Ct == INSTANCE Ta8e

ASSUME ControllersAssumption == Controllers \subseteq {"tc", "mt", "td", "ct"}
ASSUME TcSizes == Tc!SizesAssumption
ASSUME TmDrives == Tm!DrivesAssumption
ASSUME TdDrives == Td!DrivesAssumption
ASSUME CtTapes == Ct!TapesAssumption

ownvars == <<controller, active, attached, locks, polite, ordered>>
tcvars == <<dt, program, found>>
tmvars == <<mt_cu, mt_fn, mt_sta, mt_done, int_mt, USTAT, pos>>
tdvars == <<td_cmd, td_flags, td_tme, motion, obeys>>
ctvars == <<ct_sra, ct_srb, ct_df, ct_write, ct_bptr, ct_blnt, int_ct, FNC, UST, tape, at,
            chars, said, before>>
allvars == <<ownvars, tcvars, tmvars, tdvars, ctvars>>

TcStep(step) == controller = "tc" /\ step
    /\ UNCHANGED <<ownvars, tmvars, tdvars, ctvars>>
TmStep(step) == controller = "mt" /\ step
    /\ UNCHANGED <<controller, tcvars, tdvars, ctvars>>
TdStep(step) == controller = "td" /\ step
    /\ UNCHANGED <<controller, polite, ordered, tcvars, tmvars, ctvars>>
CtStep(step) == controller = "ct" /\ step
    /\ UNCHANGED <<controller, ordered, tcvars, tmvars, tdvars>>

\* What a behaviour is not about rests.
DriveRest == active = {} /\ attached = {} /\ locks = {}
TcRest == dt = 0 /\ program = 0 /\ found = 0
TmRest ==
    /\ mt_cu = 0 /\ mt_fn = "UNLOAD" /\ mt_sta = {} /\ mt_done = FALSE /\ int_mt = FALSE
    /\ USTAT = 0 /\ pos = 0
TdRest ==
    /\ td_cmd = Td!NoCommand /\ td_flags = Td!NoFlags /\ td_tme = FALSE
    /\ motion = [u \in Drives |-> Td!Stopped] /\ obeys = {}
CtRest ==
    /\ ct_sra = Ct!Cleared /\ ct_srb = {} /\ ct_df = FALSE /\ ct_write = FALSE
    /\ ct_bptr = 0 /\ ct_blnt = 0 /\ int_ct = FALSE /\ FNC = Ct!First("READ")
    /\ UST = 0 /\ tape = 0 /\ at = 0 /\ chars = 0 /\ said = 0 /\ before = 0

TapesInit ==
    /\ controller \in Controllers
    /\ \/ controller = "tc" /\ Tc!Init /\ DriveRest /\ polite = TRUE /\ ordered = <<>>
       \/ controller # "tc" /\ TcRest
    /\ \/ controller = "mt" /\ Tm!Init
       \/ controller # "mt" /\ TmRest
    /\ \/ controller = "td" /\ Td!Init /\ polite = TRUE /\ ordered = <<>>
       \/ controller # "td" /\ TdRest
    /\ \/ controller = "ct" /\ Ct!Init /\ ordered = <<>>
       \/ controller # "ct" /\ CtRest

TapesNext ==
    TcStep(Tc!Next) \/ TmStep(Tm!Next) \/ TdStep(Td!Next) \/ CtStep(Ct!Next)

TapesSpec == TapesInit /\ [][TapesNext]_allvars

\* The programs of Tc08.
Uses(fncs, mode, enb, readonly) ==
    [fncs |-> fncs, mode |-> mode, enb |-> enb, readonly |-> readonly]
MCPrograms ==
    { Uses({"SRCH", "READ"}, FALSE, TRUE, TRUE), Uses({"SRCH", "WRIT"}, TRUE, FALSE, FALSE),
      Uses({"RALL", "WALL", "WMRK"}, TRUE, TRUE, FALSE) }

\* What the command register of Tm8e is loaded with.
Choice(unit, iee, ied) == [unit |-> unit, iee |-> iee, ied |-> ied]
MCSelects == {Choice(0, FALSE, TRUE), Choice(0, TRUE, FALSE), Choice(1, TRUE, TRUE)}

\* What status register A of Ta8e is loaded with.
Load(unit, func, ie) == [enab |-> TRUE, unit |-> unit, func |-> func, ie |-> ie]
MCLoads ==
    { Load(0, func, TRUE) : func \in {"READ", "WRITE", "WFG", "CRC", "SRF", "SFF"} }
    \union { Load(0, func, FALSE) : func \in {"REW", "SRB"} } \union { Load(1, "READ", TRUE) }
MCLayouts == {<<"R", "M">>}

----------------------------------------------------------------------------
\* The types of the controller a behaviour is about; and though every IOT, service
\* and reset updates int_req by itself, its request stands just while its flags
\* call for one and it is enabled.  The TD8E makes no requests.
RequestsAgree ==
    CASE controller = "tc" -> Tc!TypeOK /\ Tc!IntAgrees
      [] controller = "mt" -> Tm!TypeOK /\ Tm!IntAgrees
      [] controller = "td" -> Td!TypeOK
      [] controller = "ct" -> Ct!TypeOK /\ Ct!IntAgrees

\* No tape runs on unattended, each motion has the event that ends it, and a
\* command is carried out as it was given, on the drive it was given to; no
\* character of a cassette is lost unseen nor a gap told twice.
EventsMatch ==
    /\ controller = "tc" => Tc!MotionServed
    /\ controller = "mt" => Tm!StatusTrue /\ Tm!OrderStands
    /\ controller = "td" => Td!CommandObeyed /\ Td!ErrorEndsWriting
    /\ controller = "ct" => Ct!CharsKept /\ Ct!OneGapOnce

\* The block of a DECtape that a search reports is the one that the transfer
\* begins with, if the program is quick enough.
FoundIsRead == controller = "tc" => Tc!FoundIsRead
=============================================================================
