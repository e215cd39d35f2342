------------------------------- MODULE MCPanel -------------------------------
(***************************************************************************)
(* The front panel for TLC.  A behaviour is about its keys, module         *)
(* FrontPanel, or about its lamps, module Display.  The two have no        *)
(* variable in common: the lamps show whatever registers they are given.   *)
(***************************************************************************)
EXTENDS FrontPanel

CONSTANTS NLEDs, MaxCount, Delays                       \* Display

VARIABLES
    part,
    display_bufs, pdis_update, pdis_paint, copy, cpu, pd, led, lit, tmp, mixed, last, called,
    gpio, left, cycle_count, br_target, torn

Lamps == INSTANCE Display WITH fresh <- called

ASSUME LampSizes == Lamps!SizesAssumption

lampvars == <<display_bufs, pdis_update, pdis_paint, copy, cpu, pd, led, lit, tmp, mixed, last,
              called, gpio, left, cycle_count, br_target, torn>>
panelvars == <<part, vars, lampvars>>

KeyStep(A) == part = "keys" /\ A /\ UNCHANGED <<part, lampvars>>
LampStep(A) == part = "lamps" /\ A /\ UNCHANGED <<part, vars>>

\* The keys rest where the behaviour is about the lamps.
KeysRest == Init /\ panel = {} /\ keys = CHOOSE k \in Panels : TRUE

PanelInit ==
    /\ Lamps!Init
    /\ \/ part = "keys" /\ Init
       \/ part = "lamps" /\ KeysRest

PanelNext == KeyStep(Next) \/ LampStep(Lamps!Next)

\* That of FrontPanel and Display.
FairPanel ==
    /\ PanelInit /\ [][PanelNext]_panelvars
    /\ WF_panelvars(KeyStep(CpuThread /\ UNCHANGED keys))
    /\ WF_panelvars(LampStep(Lamps!GpioThread)) /\ WF_panelvars(LampStep(Lamps!Call))

----------------------------------------------------------------------------
\* Types; and the two flags of SING_STEP agree, and the painted buffer is the one
\* that is not handed to the CPU thread.
PanelTypes == TypeOK /\ Lamps!TypeOK

\* The buffer handed to the CPU thread is a blank slate.
BlankSlate == Lamps!BlankSlate

\* Brightness stays within its range when no update is torn.
CountsBounded == Lamps!CountsBounded

\* A stopped machine's panel settles on its last state.
StopShows == Lamps!StopShows
=============================================================================
