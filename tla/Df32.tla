-------------------------------- MODULE Df32 --------------------------------
(***************************************************************************)
(* The DF32 fixed head disk (pdp8_df.c).  It counts its words in memory    *)
(* like the RF08, but has no interrupt enable, keeps the high part of the  *)
(* address in its status register, and after a write holds the address of  *)
(* the last word and not of the next.  What is read and written, the       *)
(* addresses in memory and the photocell bit are left out.                 *)
(*                                                                         *)
(* A polite program is that of Rf08.                                       *)
(***************************************************************************)
EXTENDS Integers

CONSTANTS Low, High, Sizes, MaxWords, Counts            \* those of Rf08

Last == High * Low                  \* words of the largest disk
Lesser(m, n) == IF m < n THEN m ELSE n

\* The OR of two numbers below size, a power of 2, has the bits of either.
Bit(m, i) == (m \div (2^i)) % 2
IsOr(size, k, m, n) ==
    \A i \in 0 .. size - 1 : Bit(k, i) = 1 <=> Bit(m, i) = 1 \/ Bit(n, i) = 1
Or(size, m, n) == CHOOSE k \in 0 .. size - 1 : IsOr(size, k, m, n)
Closed(size) == \A m, n \in 0 .. size - 1 : \E k \in 0 .. size - 1 : IsOr(size, k, m, n)

\* Addresses and counts are of powers of 2, so that one divides the other.
SizesAssumption ==
    /\ Low \in Nat \ {0} /\ Closed(Low) /\ High \in Nat \ {0} /\ Closed(High)
    /\ MaxWords \in Nat \ {0}
    /\ Last % Lesser(Last, MaxWords) = 0 /\ MaxWords % Lesser(Last, MaxWords) = 0
    /\ Sizes \subseteq 1 .. Last /\ Counts \subseteq 0 .. MaxWords - 1

VARIABLES
    df_da, dex,     \* the address and, in df_sta, its extension
    df_err,         \* DFS_WLS, which is DFS_NXD as well
    df_done, int_df,
    df_wlk, df_burst, FUNC, wc, df_active, disk, polite,
    ordered         \* history: [da, wc] of the transfer of a polite program under
                    \* way, or just ended, or <<>>

operator == <<df_wlk, df_burst, disk, polite>>
regvars == <<df_da, dex, df_err, df_done, int_df, FUNC>>
vars == <<regvars, wc, df_active, operator, ordered>>

Ready == polite => ~df_active
Address == (dex * Low) + df_da

----------------------------------------------------------------------------
\* df60.
OnlyFlagDown ==                                         \* mutant of BeginAnew
    df_done' = FALSE /\ df_err' = FALSE /\ UNCHANGED int_df
BeginAnew == df_done' = FALSE /\ df_err' = FALSE /\ int_df' = FALSE

DCMA ==
    /\ Ready
    /\ df_da' = 0
    /\ BeginAnew
    /\ ordered' = <<>>
    /\ UNCHANGED <<dex, FUNC, wc, df_active, operator>>

Order(func, addr, clear) ==
    /\ Ready
    /\ df_da' = Or(Low, IF clear THEN 0 ELSE df_da, addr)
    /\ IF clear THEN BeginAnew
       ELSE (polite => ~df_done) /\ UNCHANGED <<df_err, df_done, int_df>>
    /\ FUNC' = func /\ df_active' = TRUE
    /\ ordered' = IF polite THEN [da |-> (dex * Low) + df_da', wc |-> wc] ELSE <<>>
    /\ UNCHANGED <<dex, wc, operator>>

\* df61: DCEA, DEAL and DEAC.
SetHigh(high, clear) ==
    /\ dex' = Or(High, IF clear THEN 0 ELSE dex, high)
    /\ Ready \/ dex' = dex
    /\ ordered' = IF df_active /\ dex' = dex THEN ordered ELSE <<>>
    /\ UNCHANGED <<df_da, df_err, df_done, int_df, FUNC, wc, df_active, operator>>

SetCount(n) ==
    /\ Ready /\ wc' = n /\ ordered' = <<>>
    /\ UNCHANGED <<regvars, df_active, operator>>

----------------------------------------------------------------------------
\* df_svc.
Room == IF disk.capac = Last THEN MaxWords ELSE disk.capac - Address
Area(da) == da \div (Last \div 2)

AsAsked == LET n == IF df_burst THEN Lesser(MaxWords - wc, Room) ELSE 1
           IN  <<n, (wc + n) % MaxWords>>
OverCount == { m \in (1 .. Lesser(Room, MaxWords)) \X (0 .. MaxWords - 1) :
                  df_burst => m[2] = 0 \/ m[1] = Room }
Moves == {AsAsked} \union (IF FUNC = "READ" /\ ~polite THEN OverCount ELSE {})

SetAddress(da) == df_da' = da % Low /\ dex' = da \div Low

BackAlways(da) == (da + Last - 1) % Last                \* mutant of HeldAt
HeldAt(da) == IF FUNC = "READ" THEN da ELSE (da + Last - 1) % Last

Done(da) ==
    /\ df_done' = TRUE /\ int_df' = TRUE
    /\ df_active' = FALSE
    /\ SetAddress(HeldAt(da))

NotAttached ==
    /\ ~disk.attached
    /\ df_done' = TRUE /\ int_df' = TRUE
    /\ df_active' = FALSE
    /\ ordered' = <<>>
    /\ UNCHANGED <<df_da, dex, df_err, wc>>

BeyondDisk ==
    /\ disk.attached /\ Address >= disk.capac
    /\ df_err' = TRUE
    /\ Done(Address)
    /\ UNCHANGED <<wc, ordered>>

Move(n, left) ==
    /\ disk.attached /\ Address < disk.capac
    /\ wc' = left
    /\ LET areas == {Area((Address + i) % Last) : i \in 0 .. n - 1}
       IN  df_err' = \/ df_err
                     \/ FUNC = "WRITE" /\ areas \cap df_wlk # {}
                     \/ df_burst /\ left # 0
    /\ IF left # 0 /\ ~df_err'
       THEN SetAddress((Address + n) % Last) /\ UNCHANGED <<df_done, int_df, df_active>>
       ELSE Done((Address + n) % Last)
    /\ UNCHANGED ordered

df_svc ==
    /\ df_active
    /\ NotAttached \/ BeyondDisk \/ \E m \in Moves : Move(m[1], m[2])
    /\ UNCHANGED <<FUNC, operator>>

----------------------------------------------------------------------------
\* CAF and RESET DF: done without a request.
df_reset ==
    /\ df_da' = 0 /\ dex' = 0 /\ df_err' = FALSE
    /\ df_done' = TRUE /\ int_df' = FALSE /\ df_active' = FALSE
    /\ ordered' = <<>>
    /\ UNCHANGED <<FUNC, wc, operator>>

df_attach(capac) ==
    /\ disk' = [capac |-> capac, attached |-> TRUE]
    /\ UNCHANGED <<regvars, wc, df_active, df_wlk, df_burst, polite, ordered>>

df_set_size(capac) ==
    /\ ~disk.attached /\ disk' = [disk EXCEPT !.capac = capac]
    /\ UNCHANGED <<regvars, wc, df_active, df_wlk, df_burst, polite, ordered>>

Detach ==
    /\ disk.attached /\ disk' = [disk EXCEPT !.attached = FALSE]
    /\ UNCHANGED <<regvars, wc, df_active, df_wlk, df_burst, polite, ordered>>

Deposit ==
    /\ \/ df_wlk' \in SUBSET {1} /\ UNCHANGED df_burst
       \/ df_burst' \in BOOLEAN /\ UNCHANGED df_wlk
    /\ UNCHANGED <<regvars, wc, df_active, disk, polite, ordered>>

Init ==
    /\ df_da = 0 /\ dex = 0 /\ df_err = FALSE /\ df_done = TRUE /\ int_df = FALSE
    /\ df_wlk = {} /\ df_burst = TRUE /\ FUNC = "READ" /\ wc \in Counts
    /\ df_active = FALSE /\ disk \in [capac : Sizes, attached : {FALSE}]
    /\ polite \in BOOLEAN /\ ordered = <<>>

df ==
    \/ DCMA
    \/ \E func \in {"READ", "WRITE"}, addr \in 0 .. Low - 1, clear \in BOOLEAN :
          Order(func, addr, clear)
    \/ \E high \in 0 .. High - 1, clear \in BOOLEAN : SetHigh(high, clear)

Next ==
    \/ df \/ \E n \in Counts : SetCount(n)
    \/ df_svc \/ df_reset \/ Detach \/ Deposit \/ \E c \in Sizes : df_attach(c) \/ df_set_size(c)

Spec == Init /\ [][Next]_vars

----------------------------------------------------------------------------
TypeOK ==
    /\ df_da \in 0 .. Low - 1 /\ dex \in 0 .. High - 1 /\ wc \in 0 .. MaxWords - 1
    /\ {df_err, df_done, int_df, df_burst, df_active, polite} \subseteq BOOLEAN
    /\ df_wlk \subseteq {1} /\ FUNC \in {"READ", "WRITE"}
    /\ disk \in [capac : Sizes, attached : BOOLEAN]

\* The request comes with the done flag, and no error stands without them.  Done
\* alone is how a reset leaves the disk.
IntAgrees == (int_df => df_done) /\ (df_err => int_df)

\* A transfer of a polite program moves a word for every one it counts, and one that
\* wrote leaves the address of its last word; it ends when the count is used up
\* or with an error, and done does not rise before.
CountedWords ==
    ordered # <<>> =>
        LET step == Lesser(Last, MaxWords)
            held == IF df_done /\ FUNC = "WRITE" THEN 1 ELSE 0
        IN  /\ (Address + held + Last - ordered.da) % step
                  = (wc + MaxWords - ordered.wc) % step
            /\ df_active <=> ~df_done
            /\ df_done => wc = 0 \/ df_err
=============================================================================
