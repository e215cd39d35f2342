-------------------------------- MODULE Rf08 --------------------------------
(***************************************************************************)
(* The RF08 fixed head disk (pdp8_rf.c).  The word count is in memory: the *)
(* transfer counts it up there, in one burst or word by word as the        *)
(* operator has set, and reads it back each time, so that a disk that is   *)
(* read over it changes how much is read.  The photocell sees the          *)
(* beginning of a turn pass, and every IOT looks again.  What is read and  *)
(* written, and the addresses in memory, are left out.                     *)
(*                                                                         *)
(* A polite program leaves the registers and the count alone until the     *)
(* done flag is up, and does not read over the count.                      *)
(***************************************************************************)
EXTENDS Naturals

CONSTANTS
    Low,            \* values of DAR<8:19>, the low part of the address: a power of 2
    High,           \* values of DAR<0:7>
    Sizes,          \* capacities of the disks there are
    MaxWords,       \* 010000
    Counts          \* what the program loads the word count with

Last == High * Low                  \* words of the largest disk
Lesser(m, n) == IF m < n THEN m ELSE n

\* The OR of two numbers below size, a power of 2, has the bits of either.
Bit(m, i) == (m \div (2^i)) % 2
IsOr(size, k, m, n) ==
    \A i \in 0 .. size - 1 : Bit(k, i) = 1 <=> Bit(m, i) = 1 \/ Bit(n, i) = 1
Or(size, m, n) == CHOOSE k \in 0 .. size - 1 : IsOr(size, k, m, n)
Closed(size) == \A m, n \in 0 .. size - 1 : \E k \in 0 .. size - 1 : IsOr(size, k, m, n)

\* Addresses and counts are of powers of 2, so that one divides the other.
SizesAssumption ==
    /\ Low \in Nat \ {0} /\ Closed(Low) /\ High \in Nat \ {0} /\ MaxWords \in Nat \ {0}
    /\ Last % Lesser(Last, MaxWords) = 0 /\ MaxWords % Lesser(Last, MaxWords) = 0
    /\ Sizes \subseteq 1 .. Last /\ Counts \subseteq 0 .. MaxWords - 1

VARIABLES
    rf_sta,         \* those of PCA, WLS, NXD, EIE, PIE, CIE that are on
    rf_da, rf_done,
    int_rf,
    rf_wlk,         \* {1} while the upper half of the disk is write protected
    rf_burst,
    FUNC,
    wc,             \* M[RF_WC]
    rf_active, pcell_active,    \* the events that wait
    disk,           \* capac and whether attached: [capac, attached]
    polite,
    ordered         \* history: [da, wc] of the transfer of a polite program under
                    \* way, or just ended, or <<>>

operator == <<rf_wlk, rf_burst, disk, polite>>
vars == <<rf_sta, rf_da, rf_done, int_rf, FUNC, wc, rf_active, pcell_active, operator, ordered>>

RFS_ERR == {"WLS", "NXD"}
Enables == {"EIE", "PIE", "CIE"}
Ready == polite => ~rf_active

Calls(done, sta) ==
    \/ done /\ "CIE" \in sta
    \/ sta \cap RFS_ERR # {} /\ "EIE" \in sta
    \/ {"PCA", "PIE"} \subseteq sta
UpdateRaises == int_rf' = (int_rf \/ Calls(rf_done', rf_sta'))      \* mutant of RF_INT_UPDATE
RF_INT_UPDATE == int_rf' = Calls(rf_done', rf_sta')

\* UPDATE_PCELL: the disk is where it is.
Seen == {rf_sta \ {"PCA"}, rf_sta \union {"PCA"}}

----------------------------------------------------------------------------
\* rf60.  Both forms of an order, with the address cleared and completed or not.
DCMA ==
    /\ Ready
    /\ \E sta \in Seen : rf_sta' = sta \ RFS_ERR
    /\ rf_da' = (rf_da \div Low) * Low
    /\ rf_done' = FALSE
    /\ RF_INT_UPDATE
    /\ ordered' = <<>>
    /\ UNCHANGED <<FUNC, wc, rf_active, pcell_active, operator>>

Order(func, addr, clear) ==
    /\ Ready
    /\ LET low == Or(Low, IF clear THEN 0 ELSE rf_da % Low, addr)
       IN  rf_da' = ((rf_da \div Low) * Low) + low
    /\ \E sta \in Seen :
          IF clear
          THEN rf_sta' = sta \ RFS_ERR /\ rf_done' = FALSE /\ RF_INT_UPDATE
          ELSE (polite => ~rf_done) /\ rf_sta' = sta /\ UNCHANGED <<rf_done, int_rf>>
    /\ FUNC' = func
    /\ rf_active' = TRUE
    /\ ordered' = IF polite THEN [da |-> rf_da', wc |-> wc] ELSE <<>>
    /\ UNCHANGED <<wc, pcell_active, operator>>

\* rf61.
DCIM ==
    /\ \E sta \in Seen : rf_sta' = sta \ Enables
    /\ int_rf' = FALSE
    /\ pcell_active' = FALSE
    /\ UNCHANGED <<rf_da, rf_done, FUNC, wc, rf_active, operator, ordered>>

StartOnly(on) == pcell_active' = (pcell_active \/ on)   \* mutant of Photocell
Photocell(on) == pcell_active' = on
DIML(enables) ==
    /\ \E sta \in Seen : rf_sta' = (sta \ Enables) \union enables
    /\ Photocell("PIE" \in enables)
    /\ rf_done' = rf_done /\ RF_INT_UPDATE
    /\ UNCHANGED <<rf_da, FUNC, wc, rf_active, operator, ordered>>

\* DSAC, DIMA and rf62 look only.
Look ==
    /\ rf_sta' \in Seen
    /\ UNCHANGED <<rf_da, rf_done, int_rf, FUNC, wc, rf_active, pcell_active, operator, ordered>>

\* rf64: DCXA, DXAL and DXAC, which all look whether the disk is there.
SetHigh(high) ==
    /\ Ready \/ high = rf_da \div Low
    /\ rf_da' = (high * Low) + (rf_da % Low)
    /\ \E sta \in Seen :
          rf_sta' = IF rf_da' >= disk.capac THEN sta \union {"NXD"} ELSE sta \ {"NXD"}
    /\ rf_done' = rf_done /\ RF_INT_UPDATE
    /\ UNCHANGED <<FUNC, wc, rf_active, pcell_active, operator>>
    /\ ordered' = IF rf_active /\ high = rf_da \div Low THEN ordered ELSE <<>>

\* The program stores the word count.
SetCount(n) ==
    /\ Ready
    /\ wc' = n
    /\ ordered' = <<>>
    /\ UNCHANGED <<rf_sta, rf_da, rf_done, int_rf, FUNC, rf_active, pcell_active, operator>>

----------------------------------------------------------------------------
\* rf_svc.  The words of a burst end where the count is used up, or the disk; the
\* address of the largest disk begins again.
Area(da) == da \div (Last \div 2)
Room == IF disk.capac = Last THEN MaxWords ELSE disk.capac - rf_da

Done ==
    /\ rf_done' = TRUE /\ RF_INT_UPDATE
    /\ rf_active' = FALSE

\* How many words, with the count that it leaves.
AsAsked == LET n == IF rf_burst THEN Lesser(MaxWords - wc, Room) ELSE 1
           IN  <<n, (wc + n) % MaxWords>>
OverCount == { m \in (1 .. Lesser(Room, MaxWords)) \X (0 .. MaxWords - 1) :
                  rf_burst => m[2] = 0 \/ m[1] = Room }
Moves == {AsAsked} \union (IF FUNC = "READ" /\ ~polite THEN OverCount ELSE {})

NoDisk ==
    /\ ~disk.attached \/ rf_da >= disk.capac
    /\ \E sta \in Seen : rf_sta' = sta \union {"NXD"}
    /\ Done
    /\ UNCHANGED <<rf_da, wc>>

Move(n, left) ==
    /\ disk.attached /\ rf_da < disk.capac
    /\ wc' = left
    /\ rf_da' = (rf_da + n) % Last
    /\ LET areas == {Area((rf_da + i) % Last) : i \in 0 .. n - 1}
           wls == IF FUNC = "WRITE" /\ areas \cap rf_wlk # {} THEN {"WLS"} ELSE {}
           nxd == IF rf_burst /\ left # 0 THEN {"NXD"} ELSE {}
       IN  \E sta \in Seen : rf_sta' = sta \union wls \union nxd
    /\ IF left # 0 /\ rf_sta' \cap RFS_ERR = {}
       THEN UNCHANGED <<rf_done, int_rf, rf_active>>
       ELSE Done

rf_svc ==
    /\ rf_active
    /\ NoDisk \/ \E m \in Moves : Move(m[1], m[2])
    /\ UNCHANGED <<FUNC, pcell_active, operator, ordered>>

pcell_svc ==
    /\ pcell_active
    /\ rf_sta' = rf_sta \union {"PCA"}
    /\ IF "PIE" \in rf_sta THEN int_rf' = TRUE /\ UNCHANGED pcell_active
       ELSE pcell_active' = FALSE /\ UNCHANGED int_rf
    /\ UNCHANGED <<rf_da, rf_done, FUNC, wc, rf_active, operator, ordered>>

----------------------------------------------------------------------------
\* CAF and RESET RF.
rf_reset ==
    /\ rf_sta' = {} /\ rf_da' = 0 /\ rf_done' = TRUE /\ int_rf' = FALSE
    /\ rf_active' = FALSE /\ pcell_active' = FALSE
    /\ ordered' = <<>>
    /\ UNCHANGED <<FUNC, wc, operator>>

rf_attach(capac) ==
    /\ disk' = [capac |-> capac, attached |-> TRUE]
    /\ UNCHANGED <<rf_sta, rf_da, rf_done, int_rf, FUNC, wc, rf_active, pcell_active,
                   rf_wlk, rf_burst, polite, ordered>>

rf_set_size(capac) ==
    /\ ~disk.attached /\ disk' = [disk EXCEPT !.capac = capac]
    /\ UNCHANGED <<rf_sta, rf_da, rf_done, int_rf, FUNC, wc, rf_active, pcell_active,
                   rf_wlk, rf_burst, polite, ordered>>

Detach ==
    /\ disk.attached /\ disk' = [disk EXCEPT !.attached = FALSE]
    /\ UNCHANGED <<rf_sta, rf_da, rf_done, int_rf, FUNC, wc, rf_active, pcell_active,
                   rf_wlk, rf_burst, polite, ordered>>

\* The operator sets the switches of the locks, or the way to transfer.
Deposit ==
    /\ \/ rf_wlk' \in SUBSET {1} /\ UNCHANGED rf_burst
       \/ rf_burst' \in BOOLEAN /\ UNCHANGED rf_wlk
    /\ UNCHANGED <<rf_sta, rf_da, rf_done, int_rf, FUNC, wc, rf_active, pcell_active,
                   disk, polite, ordered>>

Init ==
    /\ rf_sta = {} /\ rf_da = 0 /\ rf_done = TRUE /\ int_rf = FALSE
    /\ rf_wlk = {} /\ rf_burst = TRUE /\ FUNC = "READ" /\ wc \in Counts
    /\ rf_active = FALSE /\ pcell_active = FALSE
    /\ disk \in [capac : Sizes, attached : {FALSE}]
    /\ polite \in BOOLEAN /\ ordered = <<>>

rf ==
    \/ DCMA \/ DCIM \/ Look
    \/ \E func \in {"READ", "WRITE"}, addr \in 0 .. Low - 1, clear \in BOOLEAN :
          Order(func, addr, clear)
    \/ \E enables \in SUBSET Enables : DIML(enables)
    \/ \E high \in 0 .. High - 1 : SetHigh(high)

Next ==
    \/ rf \/ \E n \in Counts : SetCount(n)
    \/ rf_svc \/ pcell_svc
    \/ rf_reset \/ Detach \/ Deposit \/ \E c \in Sizes : rf_attach(c) \/ rf_set_size(c)

Spec == Init /\ [][Next]_vars

----------------------------------------------------------------------------
TypeOK ==
    /\ rf_sta \subseteq {"PCA"} \union RFS_ERR \union Enables
    /\ rf_da \in 0 .. Last - 1 /\ wc \in 0 .. MaxWords - 1
    /\ {rf_done, int_rf, rf_burst, rf_active, pcell_active, polite} \subseteq BOOLEAN
    /\ rf_wlk \subseteq {1} /\ FUNC \in {"READ", "WRITE"}
    /\ disk \in [capac : Sizes, attached : BOOLEAN]

\* The done flag and the errors request an interrupt just while they are up and
\* enabled.  The photocell alone is looked at without an update of the request.
IntAgrees ==
    /\ Calls(rf_done, rf_sta \ {"PIE"}) => int_rf
    /\ int_rf /\ "PIE" \notin rf_sta => Calls(rf_done, rf_sta)

\* The photocell's event waits just while its interrupts are enabled.
PhotocellRuns == pcell_active <=> "PIE" \in rf_sta

\* A transfer of a polite program moves a word for every one it counts, on the disk
\* from the address it was ordered at, and unless it ends with an error until
\* the count is used up; done does not rise before.
CountedWords ==
    ordered # <<>> =>
        /\ (rf_da + Last - ordered.da) % Lesser(Last, MaxWords)
              = (wc + MaxWords - ordered.wc) % Lesser(Last, MaxWords)
        /\ rf_active <=> ~rf_done
        /\ rf_done => wc = 0 \/ rf_sta \cap RFS_ERR # {}
=============================================================================
