------------------------------ MODULE Debounce ------------------------------
(***************************************************************************)
(* The switches of the front panel as the simulator sees them: read_switches *)
(* and debounce_switch of gpio-common.c.in, run by the GPIO thread.        *)
(*                                                                         *)
(* The code compares times of gettimeofday.  Only differences matter, so   *)
(* last_change is kept as its age at the start of the scan.  The clock is  *)
(* the wall clock: where ClockSteps is TRUE it may also be set between two *)
(* scans, and an age below zero is, being unsigned, a huge one.            *)
(***************************************************************************)
EXTENDS Integers

CONSTANTS
    NSwitches,      \* switches, in the order read_switches visits them
    DebounceTime,   \* debounce_ms, in units of the shortest time between scans
    ClockSteps      \* whether the wall clock may be set

ASSUME SizeAssumption == NSwitches \in Nat \ {0} /\ DebounceTime \in Nat \ {0}
ASSUME ClockAssumption == ClockSteps \in BOOLEAN

Switch == 1 .. NSwitches
Long == DebounceTime + 1        \* any age above debounce_ms
na == -1                        \* na_ms

VARIABLES
    contact,        \* the switches that are closed, a contact that bounces included
    switchstatus,   \* the switches reported as closed
    stable_state,   \* the switches closed in the stable state
    age,            \* age of last_change, or na
    gss_initted,
    pos,            \* the switch the scan is at, 0 between scans
    unlike          \* history: how long every sample differed from the report

vars == <<contact, switchstatus, stable_state, age, gss_initted, pos, unlike>>

Capped(t) == IF t > Long THEN Long ELSE t

\* The difference of two unsigned times.
Unsigned(t) == IF t < 0 THEN Long ELSE Capped(t)

-----------------------------------------------------------------------------
\* The user moves a switch, or its contact bounces.
Move(s) ==
    /\ contact' = IF s \in contact THEN contact \ {s} ELSE contact \cup {s}
    /\ UNCHANGED <<switchstatus, stable_state, age, gss_initted, pos, unlike>>

\* The clock is read once for all switches of a scan.
BeginScan ==
    /\ pos = 0
    /\ \E passed \in 1 .. Long :
       \E set \in (IF ClockSteps THEN -Long .. Long ELSE {0}) :
          /\ age' = [s \in Switch |-> IF age[s] = na THEN na
                                      ELSE Unsigned(age[s] + passed + set)]
          /\ unlike' = [s \in Switch |-> IF unlike[s] = na THEN na
                                         ELSE Capped(unlike[s] + passed)]
    /\ pos' = 1
    /\ UNCHANGED <<contact, switchstatus, stable_state, gss_initted>>

ReportAlone(s, ss) ==                           \* mutant of Report
    /\ stable_state' = IF ss THEN stable_state \cup {s} ELSE stable_state \ {s}
    /\ switchstatus' = IF ss THEN {s} ELSE switchstatus \ {s}
    /\ age' = [age EXCEPT ![s] = na]

Report(s, ss) ==
    /\ stable_state' = IF ss THEN stable_state \cup {s} ELSE stable_state \ {s}
    /\ switchstatus' = IF ss THEN switchstatus \cup {s} ELSE switchstatus \ {s}
    /\ age' = [age EXCEPT ![s] = na]

Pend(s, t) ==
    /\ age' = [age EXCEPT ![s] = t]
    /\ UNCHANGED <<stable_state, switchstatus>>

DebounceBlip(s, ss) ==                          \* mutant of DebounceSwitch
    IF ~gss_initted THEN Report(s, ss)
    ELSE IF ss = (s \in stable_state) THEN Pend(s, age[s])
    ELSE IF age[s] = na THEN Pend(s, 0)
    ELSE IF age[s] > DebounceTime THEN Report(s, ss)
    ELSE Pend(s, age[s])

DebounceRestart(s, ss) ==                       \* mutant of DebounceSwitch
    IF ~gss_initted THEN Report(s, ss)
    ELSE IF ss = (s \in stable_state) THEN Pend(s, na)
    ELSE IF age[s] > DebounceTime THEN Report(s, ss)
    ELSE Pend(s, 0)

DebounceSwitch(s, ss) ==
    IF ~gss_initted THEN Report(s, ss)
    ELSE IF ss = (s \in stable_state) THEN Pend(s, na)
    ELSE IF age[s] = na THEN Pend(s, 0)
    ELSE IF age[s] > DebounceTime THEN Report(s, ss)
    ELSE Pend(s, age[s])

VisitReverse == NSwitches + 1 - pos             \* mutant of Visit

Visit == pos                                    \* the switch that is read

ReadSwitch ==
    /\ pos # 0
    /\ LET s == Visit
           ss == s \in contact
       IN /\ DebounceSwitch(s, ss)
          /\ unlike' = [unlike EXCEPT ![s] =
                           IF ss = (s \in switchstatus') THEN na
                           ELSE IF @ = na THEN 0 ELSE @]
    /\ pos' = IF pos = NSwitches THEN 0 ELSE pos + 1
    /\ gss_initted' = (gss_initted \/ pos = NSwitches)
    /\ UNCHANGED contact

Init ==
    /\ contact \in SUBSET Switch
    /\ switchstatus = {} /\ stable_state = {}
    /\ age = [s \in Switch |-> na] /\ unlike = [s \in Switch |-> na]
    /\ gss_initted = FALSE /\ pos = 0

Scan == BeginScan \/ ReadSwitch

Next == Scan \/ \E s \in Switch : Move(s)

Spec == Init /\ [][Next]_vars

\* The GPIO thread scans until the program ends.
FairSpec == Spec /\ WF_vars(Scan)

-----------------------------------------------------------------------------
\* Types, and that the exported bits and the internal ones agree.
TypeOK ==
    /\ contact \subseteq Switch
    /\ switchstatus \subseteq Switch
    /\ stable_state = switchstatus
    /\ age \in [Switch -> {na} \cup 0 .. Long]
    /\ unlike \in [Switch -> {na} \cup 0 .. Long]
    /\ gss_initted \in BOOLEAN
    /\ pos \in 0 .. NSwitches

Reports(s) == gss_initted /\ (s \in switchstatus) # (s \in switchstatus')

\* After the first scan a change is reported only when every sample of more
\* than debounce_ms showed it: a bounce, however often it comes back, is not.
Debounced == [][\A s \in Switch : Reports(s) => unlike[s] > DebounceTime]_vars

\* Of two switches that were moved one after the other, the second is not
\* reported while the first is outstanding, if the scan reads the first one
\* first: LOAD ADD finds the switch register that was set before it.
OrderKept ==
    [][\A s, t \in Switch : s < t /\ Reports(t) /\ unlike[s] # na => unlike[s] < unlike[t]]_vars

\* A switch that stays where it is gets reported.
EventuallyReported ==
    \A s \in Switch : /\ <>[](s \in contact) => <>[](s \in switchstatus)
                      /\ <>[](s \notin contact) => <>[](s \notin switchstatus)
=============================================================================
