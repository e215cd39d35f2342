-------------------------------- MODULE Ta8e --------------------------------
(***************************************************************************)
(* The TA8E cassette controller (pdp8_ct.c).  One drive moves at a time; a *)
(* character comes by each time its event does, and the program takes or   *)
(* gives it in time or not.  A drive that ran into a file gap has it on    *)
(* either side: when it turns round it skips it, so as not to report it    *)
(* twice.  Which characters a block holds is left out, and so is how far   *)
(* into the last block the tape reaches; a tape is a sequence of blocks    *)
(* and file gaps.                                                          *)
(*                                                                         *)
(* A polite program moves characters only when the data flag is up, and    *)
(* while a drive is at work changes the function only to CRC.              *)
(***************************************************************************)
EXTENDS Integers, Sequences

CONSTANTS
    Units, Tapes,   \* the drives, and those that get a tape
    Loads,          \* what the program loads status register A with
    Layouts,        \* what a tape holds when it is mounted
    Capacity,       \* blocks and gaps a tape has room for
    CT_MAXFR

VARIABLES
    ct_sra,         \* [enab, unit, func, ie]
    ct_srb,         \* the bits on, those "computed on the fly" as last computed
    ct_df, ct_write, ct_bptr, ct_blnt, int_ct,
    FNC,            \* [func, second] of the drive at work
    UST,            \* of each drive
    tape, at,       \* what is on each tape, and how much of it is behind the head
    active, attached, locks,
    polite,
    chars,          \* history: the characters a polite program has given or taken
    said, before    \* history: the gap that the last command of a drive reported, and
                    \* the command before it, or 0

mediavars == <<tape, at, attached, locks>>
commandvars == <<ct_write, ct_bptr, ct_blnt, FNC, UST>>
historyvars == <<chars, said, before>>
vars == <<ct_sra, ct_srb, ct_df, int_ct, commandvars, mediavars, active, polite, historyvars>>

Writes == {"WRITE", "WFG"}                              \* ct_fnc_tab
Reverse == {"SRF", "SRB"}
Forward == {"READ", "WRITE", "WFG", "SFF"}
Functions == Writes \union Reverse \union Forward \union {"REW", "CRC"}
ALLERR == {"WLE", "CRC", "TIM", "BEOT", "EOF", "EMP"}
XFRERR == {"WLE", "CRC", "TIM", "EOF"}
BothWays == {"REV", "GAP"}

Cleared == [enab |-> FALSE, unit |-> 0, func |-> "READ", ie |-> FALSE]
First(func) == [func |-> func, second |-> FALSE]

Calls(sra, srb, df) ==
    sra.ie /\ (df \/ (sra.enab /\ srb \cap (ALLERR \union {"RDY"}) # {}))

Lit(u, own) ==
    LET empty == IF u \in attached' THEN {} ELSE {"EMP"}
        ready == IF u \in active' THEN {} ELSE {"RDY"}
        rew == IF empty \union ready = {} THEN own \cap {"REW"} ELSE {}
        lock == IF u \notin attached' \/ u \in locks' \/ rew # {} THEN {"WLK"} ELSE {}
    IN  (own \ {"WLK", "EMP", "RDY", "REW"}) \union empty \union ready \union rew \union lock

\* The drive that the status is of.
Busy == IF active' # {} THEN active' ELSE IF ct_sra'.enab THEN {ct_sra'.unit} ELSE {}

RaisesOnly(own, of) ==                                  \* mutant of ct_updsta
    /\ ct_srb' = IF of = {} THEN own ELSE Lit(CHOOSE u \in of : TRUE, own)
    /\ int_ct' = (int_ct \/ Calls(ct_sra', ct_srb', ct_df'))
ct_updsta(own, of) ==
    /\ ct_srb' = IF of = {} THEN own ELSE Lit(CHOOSE u \in of : TRUE, own)
    /\ int_ct' = Calls(ct_sra', ct_srb', ct_df')

Careful(load) ==
    (polite /\ active # {}) =>
        /\ ct_df /\ load.enab /\ {load.unit} = active /\ load.func \in {FNC.func, "CRC"}

TapesAssumption ==
    /\ 0 \in Units /\ Tapes \subseteq Units
    /\ Loads \subseteq [enab : BOOLEAN, unit : Units, func : Functions, ie : BOOLEAN]
    /\ Capacity \in Nat /\ CT_MAXFR \in Nat \ {0}
    /\ \A layout \in Layouts : layout \in Seq({"R", "M"}) /\ Len(layout) <= Capacity

----------------------------------------------------------------------------
\* Any IOT of the controller brings the status up to date, ...
Look ==
    /\ UNCHANGED <<ct_sra, ct_df, commandvars, mediavars, active, polite, historyvars>>
    /\ ct_updsta(ct_srb, Busy)

KLSA(load) ==
    /\ Careful(load)
    /\ ct_sra' = load
    /\ UNCHANGED <<ct_df, commandvars, mediavars, active, polite, historyvars>>
    /\ ct_updsta(ct_srb, Busy)

\* ... and KGOA starts a command or goes on with it.
Locked(u) == u \in locks
Over(u) == IF at[u] < Len(tape[u]) THEN at[u] + 1 ELSE at[u]
Back(u) == IF at[u] > 0 THEN at[u] - 1 ELSE 0
LeaderGap(u) == at[u] = 0 /\ tape[u] # <<>> /\ tape[u][1] = "M"

Straight(u, direction) == at' = at                      \* mutant of SkipGap
SkipGap(u, direction) ==
    at' = IF (UST[u] \ direction) \union (direction \ UST[u]) # BothWays THEN at
          ELSE [at EXCEPT ![u] = IF direction = {} THEN Over(u) ELSE Back(u)]

TakesOff(u) ==
    LET func == ct_sra.func
        direction == IF func \in Reverse THEN {"REV"} ELSE {}
    IN  IF func \in Writes \union {"REW"} THEN at' = at /\ UST' = [UST EXCEPT ![u] = {}]
        ELSE /\ UST' = [UST EXCEPT ![u] = direction]
             /\ IF func \in Forward /\ LeaderGap(u) THEN at' = [at EXCEPT ![u] = 1]
                ELSE SkipGap(u, direction)

Started(u) ==
    LET func == ct_sra.func
    IN  /\ TakesOff(u)
        /\ ct_write' = (func \in Writes)
        /\ ct_bptr' = 0 /\ ct_blnt' = 0
        /\ FNC' = First(func)
        /\ active' = {u}
        /\ chars' = IF polite /\ func \in Writes THEN 1 ELSE 0
        /\ before' = [before EXCEPT ![u] = said[u]] /\ said' = [said EXCEPT ![u] = 0]
        /\ UNCHANGED <<ct_sra, tape, attached, locks, polite>>
        /\ ct_updsta((ct_srb \ (XFRERR \union {"REW", "BEOT"}))
                        \union (IF func = "REW" THEN {"REW"} ELSE {}), Busy)

NotStarted(own) ==
    /\ UNCHANGED <<ct_sra, commandvars, mediavars, active, polite, historyvars>>
    /\ ct_updsta(own, Busy)

ct_go_start ==
    LET u == ct_sra.unit
        on == ct_sra.enab /\ u \in attached
        refused == ct_sra.func \in Writes /\ Locked(u)
    IN  \/ ~on /\ NotStarted(ct_srb)
        \/ on /\ refused /\ NotStarted((ct_srb \ (XFRERR \union {"REW"})) \union {"WLE"})
        \/ on /\ ~refused /\ Started(u)

Moved == IF polite /\ chars < CT_MAXFR + 2 THEN chars + 1 ELSE chars

ct_go_cont ==
    /\ polite => ct_df
    /\ FNC' = IF ct_sra.func = "CRC" /\ FNC.func # "CRC"
              THEN First("CRC") ELSE FNC
    /\ chars' = IF ct_sra.func = "CRC" /\ ct_write THEN chars ELSE Moved
    /\ UNCHANGED <<ct_sra, ct_write, ct_bptr, ct_blnt, UST, mediavars, active, polite>>
    /\ UNCHANGED <<said, before>>
    /\ ct_updsta(ct_srb, Busy)

KGOA ==
    /\ ct_df' = FALSE
    /\ \/ active # {} /\ ct_go_cont
       \/ active = {} /\ ct_go_start

\* KCLR, CAF and RESET CT.
ct_reset ==
    /\ ct_sra' = Cleared
    /\ ct_srb' = {} /\ ct_df' = FALSE /\ ct_write' = FALSE /\ ct_bptr' = 0 /\ ct_blnt' = 0
    /\ int_ct' = FALSE /\ active' = {}
    /\ chars' = 0 /\ before' = [u \in Units |-> 0]
    /\ UNCHANGED <<FNC, UST, mediavars, polite, said>>

----------------------------------------------------------------------------
\* ct_svc.  The command is over, with some error or none, ...
Done(u, own) ==
    /\ active' = {}
    /\ UST' = [UST EXCEPT ![u] = IF "EOF" \in own THEN @ \union {"GAP"} ELSE @]
    /\ chars' = 0
    /\ UNCHANGED <<ct_sra, ct_df, ct_write, FNC, attached, locks, polite>>
    /\ ct_updsta(own, {u})

Ends(u, to, errors) ==
    /\ at' = [at EXCEPT ![u] = to]
    /\ IF "EOF" \in errors
       THEN said' = [said EXCEPT ![u] = IF to < at[u] THEN to + 1 ELSE to] /\ UNCHANGED before
       ELSE UNCHANGED said /\ before' = [before EXCEPT ![u] = 0]
    /\ Done(u, ct_srb \union errors)
    /\ UNCHANGED <<ct_bptr, ct_blnt>>

NotPut(u, errors) == Ends(u, at[u], errors) /\ UNCHANGED tape

\* ... or goes on with the next character.
GoesOn ==
    /\ FNC' = [FNC EXCEPT !.second = TRUE]
    /\ UNCHANGED <<ct_sra, ct_write, UST, attached, locks, active, polite, historyvars>>

Unwatched(srb, timchk) == ct_srb' = srb                 \* mutant of Timing
Timing(srb, timchk) == ct_srb' = IF ct_df /\ timchk THEN srb \union {"TIM"} ELSE srb
ct_set_df(srb, timchk) ==
    /\ Timing(srb, timchk)
    /\ ct_df' = TRUE
    /\ int_ct' = (int_ct \/ ct_sra.ie)

ReadStart(u) ==
    \/ /\ at[u] < Len(tape[u]) /\ tape[u][Over(u)] = "R"
       /\ at' = [at EXCEPT ![u] = @ + 1]
       /\ \E length \in 1 .. CT_MAXFR, bad \in BOOLEAN :
             /\ ct_blnt' = length + 2
             /\ ct_srb' = IF bad THEN ct_srb \union {"CRC"} ELSE ct_srb
       /\ GoesOn /\ UNCHANGED <<ct_bptr, ct_df, int_ct, tape>>
    \/ /\ at[u] < Len(tape[u]) /\ tape[u][Over(u)] = "M"
       /\ Ends(u, Over(u), {"EOF"}) /\ UNCHANGED tape
    \/ at[u] = Len(tape[u]) /\ NotPut(u, {"CRC"})

ReadNext(u) ==
    \/ /\ ct_bptr < ct_blnt /\ ct_bptr' = ct_bptr + 1
       /\ ct_set_df(ct_srb, TRUE)
       /\ GoesOn /\ UNCHANGED <<ct_blnt, tape, at>>
    \/ ct_bptr >= ct_blnt /\ NotPut(u, {"CRC"})

WriteNext(u) ==
    /\ IF FNC.second
       THEN /\ ct_bptr' = IF ct_bptr < CT_MAXFR THEN ct_bptr + 1 ELSE ct_bptr
            /\ ct_set_df(ct_srb, TRUE)
       ELSE UNCHANGED <<ct_srb, ct_df, int_ct, ct_bptr>>
    /\ GoesOn /\ UNCHANGED <<ct_blnt, tape, at>>

\* What follows on the tape is overwritten with it or not.
Put(u, what) ==
    /\ at[u] < Capacity
    /\ \E rest \in {<<>>, SubSeq(tape[u], at[u] + 2, Len(tape[u]))} :
          tape' = [tape EXCEPT ![u] = SubSeq(@, 1, at[u]) \o <<what>> \o rest]
    /\ Ends(u, at[u] + 1, {})

WriteBlock(u) ==
    \/ Locked(u) /\ NotPut(u, {"WLE"})
    \/ ~Locked(u) /\ ct_bptr = 0 /\ NotPut(u, {})
    \/ ~Locked(u) /\ ct_bptr > 0 /\ Put(u, "R")
WriteGap(u) ==
    \/ Locked(u) /\ NotPut(u, {"WLE"})
    \/ ~Locked(u) /\ Put(u, "M")

SecondCrc(u) ==
    /\ IF ct_bptr < ct_blnt THEN ct_bptr' = ct_bptr + 1 /\ ct_set_df(ct_srb, FALSE)
       ELSE UNCHANGED ct_bptr /\ ct_set_df(ct_srb \union {"CRC"}, FALSE)
    /\ GoesOn /\ UNCHANGED <<ct_blnt, tape, at>>
CrcChecked(u) ==
    \/ NotPut(u, {})
    \/ ct_bptr # ct_blnt /\ NotPut(u, {"CRC"})

Marks(u) == {i \in 1 .. Len(tape[u]) : tape[u][i] = "M"}
Ahead(u) == {i \in Marks(u) : i > at[u]}
Behind(u) == {i \in Marks(u) : i <= at[u]}
SpaceForward(u) ==
    \/ Ahead(u) # {} /\ UNCHANGED tape
          /\ Ends(u, CHOOSE i \in Ahead(u) : \A j \in Ahead(u) : i <= j, {"EOF"})
    \/ Ahead(u) = {} /\ Ends(u, Len(tape[u]), {"CRC"}) /\ UNCHANGED tape
SpaceBack(u) ==
    /\ UNCHANGED tape
    /\ IF Behind(u) = {} THEN Ends(u, 0, {"BEOT"})
       ELSE Ends(u, (CHOOSE i \in Behind(u) : \A j \in Behind(u) : i >= j) - 1, {"EOF"})
BlockBack(u) ==
    /\ UNCHANGED tape
    /\ Ends(u, Back(u), IF at[u] \in Marks(u) THEN {"EOF"} ELSE {})

\* Where the file of the host fails.
Accessed ==
    \/ FNC.func \in Reverse \union {"SFF", "WFG"}
    \/ FNC = First("READ")
    \/ FNC = First("CRC") /\ ct_write

Performed(u) ==
    \/ Accessed /\ NotPut(u, {"CRC"})
    \/ FNC.func = "READ" /\ ~FNC.second /\ ReadStart(u)
    \/ FNC.func = "READ" /\ FNC.second /\ ReadNext(u)
    \/ FNC.func = "WRITE" /\ WriteNext(u)
    \/ FNC.func = "CRC" /\ ~FNC.second /\ ct_write /\ WriteBlock(u)
    \/ FNC.func = "CRC" /\ ~FNC.second /\ ~ct_write /\ SecondCrc(u)
    \/ FNC.func = "CRC" /\ FNC.second /\ CrcChecked(u)
    \/ FNC.func = "WFG" /\ WriteGap(u)
    \/ FNC.func = "REW" /\ Ends(u, 0, {"BEOT"}) /\ UNCHANGED tape
    \/ FNC.func = "SRB" /\ BlockBack(u)
    \/ FNC.func = "SRF" /\ SpaceBack(u)
    \/ FNC.func = "SFF" /\ SpaceForward(u)

EndOfTape(u) ==
    \/ FNC.func \in Reverse /\ at[u] = 0
    \/ FNC.func \in Forward /\ at[u] >= Capacity

ct_svc(u) ==
    /\ u \in active
    /\ \/ u \notin attached /\ NotPut(u, {})
       \/ u \in attached /\ EndOfTape(u) /\ NotPut(u, {"BEOT"})
       \/ u \in attached /\ ~EndOfTape(u) /\ Performed(u)

----------------------------------------------------------------------------
\* The operator.
Other(u) ==
    /\ UST' = [UST EXCEPT ![u] = {}]
    /\ at' = [at EXCEPT ![u] = 0]
    /\ said' = [said EXCEPT ![u] = 0] /\ before' = [before EXCEPT ![u] = 0]
    /\ UNCHANGED <<ct_sra, ct_df, ct_write, ct_bptr, ct_blnt, FNC, active, polite, chars>>
    /\ ct_updsta(ct_srb, Busy)

ct_attach(u) ==
    /\ attached' = attached \union {u}
    /\ \E readonly \in BOOLEAN : locks' = IF readonly THEN locks \union {u} ELSE locks \ {u}
    /\ \E layout \in Layouts : tape' = [tape EXCEPT ![u] = layout]
    /\ Other(u)

ct_detach(u) ==
    /\ u \in attached /\ attached' = attached \ {u}
    /\ locks' = locks \ {u} /\ UNCHANGED tape
    /\ Other(u)

set_writelock(u) ==
    /\ u \in attached
    /\ locks' = IF u \in locks THEN locks \ {u} ELSE locks \union {u}
    /\ UNCHANGED <<ct_sra, ct_srb, ct_df, int_ct, commandvars, tape, at, attached, active,
                   polite, historyvars>>

Init ==
    /\ ct_sra = Cleared
    /\ ct_srb = {} /\ ct_df = FALSE /\ ct_write = FALSE /\ ct_bptr = 0 /\ ct_blnt = 0
    /\ int_ct = FALSE
    /\ FNC = First("READ") /\ UST = [u \in Units |-> {}]
    /\ tape = [u \in Units |-> <<>>] /\ at = [u \in Units |-> 0]
    /\ active = {} /\ attached = {} /\ locks = {}
    /\ polite \in BOOLEAN
    /\ chars = 0 /\ said = [u \in Units |-> 0] /\ before = [u \in Units |-> 0]

ct70 == Look \/ KGOA \/ \E load \in Loads : KLSA(load)

Next ==
    \/ ct70 \/ ct_reset
    \/ \E u \in Units : ct_svc(u)
    \/ \E u \in Tapes : ct_attach(u) \/ ct_detach(u) \/ set_writelock(u)

Spec == Init /\ [][Next]_vars

----------------------------------------------------------------------------
TypeOK ==
    /\ ct_sra \in [enab : BOOLEAN, unit : Units, func : Functions, ie : BOOLEAN]
    /\ ct_srb \subseteq ALLERR \union {"REW", "WLK", "RDY"}
    /\ {ct_df, ct_write, int_ct, polite} \subseteq BOOLEAN
    /\ ct_bptr \in 0 .. CT_MAXFR + 2 /\ ct_blnt \in 0 .. CT_MAXFR + 2
    /\ FNC \in [func : Functions, second : BOOLEAN] /\ UST \in [Units -> SUBSET BothWays]
    /\ \A u \in Units : Len(tape[u]) <= Capacity /\ at[u] \in 0 .. Len(tape[u])
    /\ {active, attached, locks} \subseteq SUBSET Units

\* A request stands just while a flag calls for one, but that a block found bad is
\* only told with its first character.
IntAgrees ==
    /\ int_ct => Calls(ct_sra, ct_srb, ct_df)
    /\ Calls(ct_sra, ct_srb, ct_df) =>
          int_ct \/ (active # {} /\ FNC = [func |-> "READ", second |-> TRUE] /\ ct_bptr = 0)

\* No character of a polite program gets lost or is taken twice while no error is
\* reported: what it has given is in the buffer, but for the one on its way and
\* those that the buffer has no room for; what has come by it has taken, but for the
\* one that the data flag tells it of.
Least(i, j) == IF i < j THEN i ELSE j
OnItsWay == IF ct_df \/ FNC.func = "CRC" THEN 0 ELSE 1
CharsKept ==
    polite /\ active # {} /\ ct_srb \cap {"TIM", "CRC"} = {} =>
        /\ FNC.func \in {"WRITE", "CRC"} /\ ct_write =>
              ct_bptr = Least(chars - OnItsWay, CT_MAXFR)
        /\ FNC.func \in {"READ", "CRC"} /\ ~ct_write =>
              ct_bptr = chars + (IF ct_df THEN 1 ELSE 0)

\* One drive moves at a time, and a command does not end at the file gap that the
\* one before it ended at.
OneGapOnce ==
    /\ \A u, v \in active : u = v
    /\ \A u \in Units : said[u] # 0 => said[u] # before[u]
=============================================================================
