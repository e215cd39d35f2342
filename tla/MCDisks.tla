------------------------------- MODULE MCDisks -------------------------------
(***************************************************************************)
(* The controllers of disks but the RK8E for TLC: floppy, RL8A, RF08 and   *)
(* DF32.  A behaviour is about one of them; what is named alike in two of  *)
(* them is one variable here.                                              *)
(***************************************************************************)
EXTENDS Naturals, Sequences

CONSTANTS Controllers                                   \* those a run is about
CONSTANTS Drives                                        \* Rx8e and Rl8a
CONSTANTS Words                                         \* Rx8e
CONSTANTS Cylinders, RL_NUMSC, RL_NUMBY, Orders, Seeks, WordCounts  \* Rl8a
CONSTANTS Low, High, Sizes, Counts                      \* Rf08 and Df32
CONSTANTS MaxWords                                      \* these and Rl8a

VARIABLES
    controller, polite,
    active, attached, locks, ordered,
    rx_28, rx_state, rx_csr, rx_tr, rx_err, rx_dbr, rx_bptr, rx_buf, done, enable, int_rx,
    unloads, saw, given,
    rlcsb, rlcsa, rlsa, rlwc, rl_done, rler, rl_erf, int_rl, TRK,
    rf_sta, rf_da, rf_done, int_rf, rf_wlk, rf_burst, rf_active, pcell_active,
    df_da, dex, df_err, df_done, int_df, df_wlk, df_burst, df_active,
    FUNC, wc, disk                                      \* Rf08 and Df32

Rx == INSTANCE Rx8e
Rl == INSTANCE Rl8a
Rf == INSTANCE Rf08
Df == INSTANCE Df32

ASSUME ControllersAssumption == Controllers \subseteq {"rx", "rl", "rf", "df"}
ASSUME RxSizes == Rx!SizesAssumption
ASSUME RlSizes == Rl!SizesAssumption
ASSUME RfSizes == Rf!SizesAssumption
ASSUME DfSizes == Df!SizesAssumption

rxvars == <<rx_28, rx_state, rx_csr, rx_tr, rx_err, rx_dbr, rx_bptr, rx_buf, done, enable,
            int_rx, unloads, saw, given>>
rlvars == <<rlcsb, rlcsa, rlsa, rlwc, rl_done, rler, rl_erf, int_rl, TRK>>
rfvars == <<rf_sta, rf_da, rf_done, int_rf, rf_wlk, rf_burst, rf_active, pcell_active>>
dfvars == <<df_da, dex, df_err, df_done, int_df, df_wlk, df_burst, df_active>>
diskvars == <<FUNC, wc, disk>>
allvars == <<controller, polite, active, attached, locks, ordered,
             rxvars, rlvars, rfvars, dfvars, diskvars>>

RxStep(step) == controller = "rx" /\ step
    /\ UNCHANGED <<controller, locks, ordered, rlvars, rfvars, dfvars, diskvars>>
RlStep(step) == controller = "rl" /\ step
    /\ UNCHANGED <<controller, rxvars, rfvars, dfvars, diskvars>>
RfStep(step) == controller = "rf" /\ step
    /\ UNCHANGED <<controller, active, attached, locks, rxvars, rlvars, dfvars>>
DfStep(step) == controller = "df" /\ step
    /\ UNCHANGED <<controller, active, attached, locks, rxvars, rlvars, rfvars>>

\* What a behaviour is not about rests.
DriveRest == active = {} /\ attached = {} /\ locks = {}
RxRest ==
    /\ rx_28 = FALSE /\ rx_state = "IDLE" /\ rx_csr = [drive |-> 0, func |-> "FILL"]
    /\ rx_tr = FALSE /\ rx_err = TRUE /\ rx_dbr = 0 /\ rx_bptr = 0 /\ rx_buf = <<>>
    /\ done = TRUE /\ enable = FALSE /\ int_rx = FALSE
    /\ unloads = {} /\ saw = FALSE /\ given = 0
RlRest ==
    /\ rlcsb = Rl!Cleared /\ rlcsa = 0 /\ rlsa = 0 /\ rlwc = 0
    /\ rl_done = FALSE /\ rler = {} /\ rl_erf = FALSE /\ int_rl = FALSE /\ TRK = 0
RfRest ==
    /\ rf_sta = {} /\ rf_da = 0 /\ rf_done = TRUE /\ int_rf = FALSE
    /\ rf_wlk = {} /\ rf_burst = TRUE /\ rf_active = FALSE /\ pcell_active = FALSE
DfRest ==
    /\ df_da = 0 /\ dex = 0 /\ df_err = FALSE /\ df_done = TRUE /\ int_df = FALSE
    /\ df_wlk = {} /\ df_burst = TRUE /\ df_active = FALSE
DiskRest == FUNC = "READ" /\ wc = 0 /\ disk = 0

DisksInit ==
    /\ controller \in Controllers
    /\ \/ controller = "rx" /\ Rx!Init /\ locks = {} /\ ordered = <<>>
       \/ controller # "rx" /\ RxRest
    /\ \/ controller = "rl" /\ Rl!Init
       \/ controller # "rl" /\ RlRest
    /\ \/ controller = "rf" /\ Rf!Init /\ DriveRest
       \/ controller # "rf" /\ RfRest
    /\ \/ controller = "df" /\ Df!Init /\ DriveRest
       \/ controller # "df" /\ DfRest
    /\ (controller \in {"rf", "df"} \/ DiskRest)

DisksNext ==
    RxStep(Rx!Next) \/ RlStep(Rl!Next) \/ RfStep(Rf!Next) \/ DfStep(Df!Next)

DisksSpec == DisksInit /\ [][DisksNext]_allvars

\* The commands and the ways to seek of Rl8a.
Order(drive, func, ie, bytes) == [drive |-> drive, func |-> func, ie |-> ie, bytes |-> bytes]
MCOrders ==
    { Order(0, "CLRD", TRUE, FALSE), Order(1, "GSTA", TRUE, FALSE), Order(0, "SEEK", TRUE, FALSE),
      Order(0, "READ", FALSE, FALSE), Order(1, "RNOHDR", TRUE, TRUE), Order(0, "WRITE", TRUE, TRUE) }
MCSeeks == {[cyl |-> 0, out |-> FALSE], [cyl |-> 1, out |-> TRUE]}

----------------------------------------------------------------------------
\* The types of the controller a behaviour is about; and though every IOT, service
\* and reset updates int_req by itself, its request stands just while its flags
\* call for one and it is enabled.  That of the RX may outlive its enable, that of
\* the RF08's photocell what it saw.
RequestsAgree ==
    CASE controller = "rx" -> Rx!TypeOK /\ Rx!IntAgrees
      [] controller = "rl" -> Rl!TypeOK /\ Rl!IntAgrees
      [] controller = "rf" -> Rf!TypeOK /\ Rf!IntAgrees
      [] controller = "df" -> Df!TypeOK /\ Df!IntAgrees

\* The event that a controller waits for is there and is for the unit and state
\* it is in: nothing hangs in the middle of a floppy command, and a command of the
\* others is carried out as it was given, on the drive it was given to and all of
\* it.  The words that a careful program gives to fill the floppy's buffer get
\* there in their order.
EventsMatch ==
    /\ controller = "rx" => Rx!EventsMatch /\ Rx!FillInOrder
    /\ controller = "rl" => Rl!OrderStands
    /\ controller = "rf" => Rf!PhotocellRuns /\ Rf!CountedWords
    /\ controller = "df" => Df!CountedWords

\* As the comment of rx_svc has it, no event comes in the IDLE state of the RX.
NeverInIdle == controller = "rx" => Rx!NeverInIdle
=============================================================================
