-------------------------------- MODULE Rl8a --------------------------------
(***************************************************************************)
(* The RL8A disk controller and its drives (pdp8_rl.c).  Every command but *)
(* two is an event of the drive selected, and nothing protects the         *)
(* registers until it comes: rl_svc takes the function from them and the   *)
(* drive from the event.  The words moved, the silo and the status that a  *)
(* drive reports are left out.                                             *)
(*                                                                         *)
(* A polite program waits for the end of a command before it changes a     *)
(* register or gives the next; it may read the errors and clear the        *)
(* controller.                                                             *)
(***************************************************************************)
EXTENDS Integers

CONSTANTS
    Drives,
    Cylinders,      \* of a drive: they are 0 .. Cylinders - 1
    RL_NUMSC,       \* sectors of a track
    RL_NUMBY,       \* bytes of a sector
    MaxWords,       \* 010000
    Orders, Seeks, WordCounts       \* what the program loads rlcsb, rlcsa and rlwc with

Functions == {"MNT", "CLRD", "GSTA", "SEEK", "RHDR", "WRITE", "READ", "RNOHDR"}
Controls == [drive : Drives, func : Functions, ie : BOOLEAN, bytes : BOOLEAN]
Addresses == [cyl : 0 .. Cylinders - 1, out : BOOLEAN]

SizesAssumption ==
    /\ 0 \in Drives
    /\ {Cylinders, RL_NUMSC, RL_NUMBY, MaxWords} \subseteq Nat \ {0}
    /\ Orders \subseteq Controls /\ Seeks \subseteq Addresses
    /\ WordCounts \subseteq 0 .. MaxWords - 1

VARIABLES
    rlcsb,          \* [drive, func, ie, bytes]: bytes is RLCSB_8B
    rlcsa,          \* [cyl, out]: the cylinder, or how far to seek and which way
    rlsa,           \* RL_NUMSC is any sector past the last
    rlwc,
    rl_done, rler, rl_erf,
    int_rl,
    TRK,            \* where each drive's heads are
    active,         \* the drives with an event waiting
    attached,       \* those with a cartridge
    locks,          \* those that are write protected
    polite,
    ordered         \* history: the registers of the command under way of a polite
                    \* program, or <<>>

flagvars == <<rl_done, rler, rl_erf, int_rl>>
drivevars == <<TRK, active, attached, locks>>
vars == <<rlcsb, rlcsa, rlsa, rlwc, flagvars, drivevars, polite, ordered>>

Registers == <<rlcsb, rlcsa, rlsa, rlwc>>
Ready == polite => ordered = <<>>

rl_set_done(errors, ie) ==
    /\ rl_done' = TRUE /\ rler' = errors
    /\ rl_erf' = (rl_erf \/ errors # {})
    /\ int_rl' = ie

----------------------------------------------------------------------------
\* RLSD.
FlagOnly == rl_done' = FALSE /\ UNCHANGED int_rl        \* mutant of ClearDone
ClearDone == rl_done' = FALSE /\ int_rl' = FALSE
SkipOnDone ==
    /\ ClearDone
    /\ UNCHANGED <<rlcsb, rlcsa, rlsa, rlwc, rler, rl_erf, drivevars, polite, ordered>>

\* RLCA, RLSA and RLWC.
LoadAddress(a) ==
    /\ Ready /\ rlcsa' = a
    /\ UNCHANGED <<rlcsb, rlsa, rlwc, flagvars, drivevars, polite, ordered>>
LoadSector(s) ==
    /\ Ready /\ rlsa' = s
    /\ UNCHANGED <<rlcsb, rlcsa, rlwc, flagvars, drivevars, polite, ordered>>
LoadCount(n) ==
    /\ Ready /\ rlwc' = n
    /\ UNCHANGED <<rlcsb, rlcsa, rlsa, flagvars, drivevars, polite, ordered>>

\* RLCB.  A command replaces the errors of the one before.
SeekTo(cyl) ==
    LET to == IF rlcsa.out THEN cyl + rlcsa.cyl ELSE cyl - rlcsa.cyl
    IN  IF to < 0 THEN 0 ELSE IF to >= Cylinders THEN Cylinders - 1 ELSE to

Command(c) ==
    /\ Ready
    /\ rlcsb' = c
    /\ \/ /\ c.func \in {"MNT", "CLRD"}
          /\ rl_done' = TRUE /\ rler' = {} /\ rl_erf' = FALSE /\ int_rl' = c.ie
          /\ UNCHANGED <<TRK, active, ordered>>
       \/ /\ c.func \notin {"MNT", "CLRD"}
          /\ rl_done' = FALSE /\ rler' = {} /\ rl_erf' = FALSE /\ int_rl' = FALSE
          /\ TRK' = IF c.func = "SEEK" THEN [TRK EXCEPT ![c.drive] = SeekTo(@)] ELSE TRK
          /\ active' = active \union {c.drive}
          /\ ordered' = IF polite THEN <<c, rlcsa, rlsa, rlwc>> ELSE <<>>
    /\ UNCHANGED <<rlcsa, rlsa, rlwc, attached, locks, polite>>

\* RRER: the ready bit of the drive selected is brought up to date.
ReadyWhenAttached ==                                    \* mutant of DriveReady
    rlcsb.drive \in attached
DriveReady == rlcsb.drive \in attached \ active
ReadErrors ==
    /\ rler' = IF DriveReady THEN rler \union {"DRDY"} ELSE rler \ {"DRDY"}
    /\ UNCHANGED <<rlcsb, rlcsa, rlsa, rlwc, rl_done, rl_erf, int_rl, drivevars, polite, ordered>>

\* RLSE.
SkipOnError ==
    /\ rl_erf' = FALSE
    /\ UNCHANGED <<rlcsb, rlcsa, rlsa, rlwc, rl_done, rler, int_rl, drivevars, polite, ordered>>

----------------------------------------------------------------------------
\* rl_svc.  The cylinder, unlike the drive, is that of the unit and the register.
Moves(u) ==
    /\ rlcsb.func # "RNOHDR" => TRK[u] = rlcsa.cyl
    /\ rlsa < RL_NUMSC

\* The words moved and the bytes they take, of one sector at most with 12 bits, to
\* the end of the track with 8.
Lesser(m, n) == IF m < n THEN m ELSE n
Amount ==
    LET wc == MaxWords - rlwc
        bc == (wc * 3 + 1) \div 2
        fit == Lesser(wc, (RL_NUMSC - rlsa) * RL_NUMBY)
    IN  IF rlcsb.bytes THEN <<fit, fit>>
        ELSE IF bc > RL_NUMBY THEN <<(RL_NUMBY * 2) \div 3, RL_NUMBY>> ELSE <<wc, bc>>

Finish(u, errors) ==
    /\ rl_set_done(rler \union errors, rlcsb.ie)
    /\ active' = active \ {u}
    /\ ordered' = IF u = rlcsb.drive THEN <<>> ELSE ordered
    /\ UNCHANGED <<rlcsb, rlcsa, TRK, attached, locks, polite>>

Plain == {"GSTA", "SEEK", "RHDR"}                       \* no words to move
Fails(u) ==
    IF rlcsb.func = "GSTA" THEN {}
    ELSE IF u \notin attached THEN {"INCMP"}
    ELSE IF rlcsb.func = "WRITE" /\ u \in locks THEN {"DRE"}
    ELSE IF rlcsb.func \notin Plain /\ ~Moves(u) THEN {"HDE", "INCMP"}
    ELSE {}

CommandEnds(u) ==
    /\ rlcsb.func \in Plain \/ Fails(u) # {}
    /\ Finish(u, Fails(u))
    /\ UNCHANGED <<rlsa, rlwc>>

Transfer(u) ==
    /\ rlcsb.func \notin Plain /\ Fails(u) = {}
    /\ rlwc' = (rlwc + Amount[1]) % MaxWords
    /\ rlsa' = rlsa + (Amount[2] + RL_NUMBY - 1) \div RL_NUMBY
    /\ Finish(u, IF rlwc' # 0 THEN {"INCMP"} ELSE {})

rl_svc(u) == u \in active /\ (CommandEnds(u) \/ Transfer(u))

----------------------------------------------------------------------------
\* RLDC, CAF and RESET RL; the drives stay where they are.
NoCancel == UNCHANGED active                            \* mutant of Cancel
Cancel == active' = {}

Cleared == [drive |-> 0, func |-> "MNT", ie |-> FALSE, bytes |-> FALSE]
rl_reset ==
    /\ rlcsb' = Cleared /\ rlcsa' = [cyl |-> 0, out |-> FALSE] /\ rlsa' = 0 /\ rlwc' = 0
    /\ rl_done' = FALSE /\ rler' = {} /\ rl_erf' = FALSE /\ int_rl' = FALSE
    /\ Cancel
    /\ ordered' = <<>>
    /\ UNCHANGED <<attached, locks, polite>>

Clear == rl_reset /\ UNCHANGED TRK

\* BOOT RL resets the devices as well.
rl_boot == rl_reset /\ TRK' = [TRK EXCEPT ![0] = 0]

\* A cartridge is mounted, perhaps read only and in the place of another, or
\* taken out: the event of the drive goes on waiting.
rl_attach(u) ==
    /\ attached' = attached \union {u}
    /\ \E readonly \in BOOLEAN : locks' = IF readonly THEN locks \union {u} ELSE locks \ {u}
    /\ TRK' = [TRK EXCEPT ![u] = 0]
    /\ UNCHANGED <<rlcsb, rlcsa, rlsa, rlwc, flagvars, active, polite, ordered>>

Detach(u) ==
    /\ u \in attached /\ attached' = attached \ {u}
    /\ locks' = locks \ {u}
    /\ UNCHANGED <<rlcsb, rlcsa, rlsa, rlwc, flagvars, TRK, active, polite, ordered>>

Init ==
    /\ rlcsb = Cleared /\ rlcsa = [cyl |-> 0, out |-> FALSE] /\ rlsa = 0 /\ rlwc = 0
    /\ rl_done = FALSE /\ rler = {} /\ rl_erf = FALSE /\ int_rl = FALSE
    /\ TRK = [u \in Drives |-> 0] /\ active = {} /\ attached = {} /\ locks = {}
    /\ polite \in BOOLEAN /\ ordered = <<>>

rl60 ==
    \/ \E a \in Seeks : LoadAddress(a)
    \/ \E s \in 0 .. RL_NUMSC : LoadSector(s)
    \/ \E n \in WordCounts : LoadCount(n)
    \/ \E c \in Orders : Command(c)
    \/ SkipOnDone

rl61 == ReadErrors \/ SkipOnError

Next ==
    \/ rl60 \/ rl61
    \/ \E u \in Drives : rl_svc(u) \/ rl_attach(u) \/ Detach(u)
    \/ Clear \/ rl_boot

Spec == Init /\ [][Next]_vars

----------------------------------------------------------------------------
TypeOK ==
    /\ rlcsb \in Controls /\ rlcsa \in Addresses
    /\ rlsa \in 0 .. RL_NUMSC /\ rlwc \in 0 .. MaxWords - 1
    /\ {rl_done, rl_erf, int_rl, polite} \subseteq BOOLEAN
    /\ rler \subseteq {"DRDY", "DRE", "HDE", "INCMP"}
    /\ TRK \in [Drives -> 0 .. Cylinders - 1]
    /\ {active, attached, locks} \subseteq SUBSET Drives

\* A request stands just while the done flag is up and the command enables it.
IntAgrees == int_rl = (rl_done /\ rlcsb.ie)

\* The command of a polite program runs on the drive and with the registers that
\* it was given with, and with no error of another, until it is done; and no event
\* is left over from a command before.
OrderStands ==
    polite => IF ordered = <<>> THEN active = {}
              ELSE /\ active = {rlcsb.drive} /\ ordered = Registers
                   /\ ~rl_done /\ rler = {} /\ ~rl_erf
=============================================================================
