-------------------------------- MODULE Rx8e --------------------------------
(***************************************************************************)
(* The RX8E and RX28 floppy controllers (pdp8_rx.c): a state machine that  *)
(* the program's IOTs and the event of one unit advance in turn.  Nothing  *)
(* but rx_state says what an event that comes is for.                      *)
(*                                                                         *)
(* A polite program gives the controller a word only when it has seen the  *)
(* transfer request flag since the last one.                               *)
(***************************************************************************)
EXTENDS Naturals

CONSTANTS
    Words           \* of the sector buffer

SizesAssumption == Words \in Nat \ {0}

VARIABLES
    rx_28,          \* the type of the controller
    rx_state,
    rx_csr,         \* [drive, func]
    rx_tr, rx_err,
    rx_dbr,         \* the number of the word of a fill, 0 for anything else
    rx_bptr,
    rx_buf,
    done, enable, int_rx,   \* INT_RX in dev_done, int_enable and int_req
    active,         \* the units with an event waiting
    attached,       \* the drives with a disk
    unloads,        \* the drives whose disk the operator may take out
    polite,         \* the style of the program
    saw,            \* it has seen the transfer request of the word it owes
    given           \* the words it has given for the fill

ctlvars == <<rx_28, rx_state, rx_csr, rx_tr, rx_err, rx_dbr, rx_bptr, rx_buf>>
intvars == <<done, enable, int_rx>>
drivevars == <<attached, unloads>>
progvars == <<polite, saw, given>>
vars == <<ctlvars, intvars, active, drivevars, progvars>>

DiskDrives == {0, 1}
Functions == {"FILL", "EMPTY", "READ", "WRITE", "SDEN", "RXES", "ECODE"}
Commands == [drive : DiskDrives, func : Functions]

\* The interrupt bit of the RX is not among those that INT_UPDATE recomputes.
INT_UPDATE(d, e, i) == i \/ (d /\ e)

ClearDone == done' = FALSE /\ int_rx' = FALSE /\ UNCHANGED enable

\* rx_done, with an error code or not.
rx_done(error) ==
    /\ rx_state' = "IDLE"
    /\ done' = TRUE /\ int_rx' = INT_UPDATE(TRUE, enable, int_rx) /\ UNCHANGED enable
    /\ rx_err' = (rx_err \/ error)

----------------------------------------------------------------------------
NextState(func) ==
    CASE func = "FILL" -> "FILL"
      [] func = "EMPTY" -> "EMPTY"
      [] func \in {"READ", "WRITE"} -> "RWDS"
      [] func = "SDEN" -> IF rx_28 THEN "SDCNF" ELSE "CMD_COMPLETE"
      [] OTHER -> "CMD_COMPLETE"

\* tr is the flag as the caller leaves it.
rx_cmd(csr, tr) ==
    LET state == NextState(csr.func)
        waits == state \notin {"EMPTY", "CMD_COMPLETE"}
    IN  /\ rx_state' = state
        /\ rx_tr' = (tr \/ waits)
        /\ active' = IF waits THEN active ELSE active \union {csr.drive}

\* LCD: the first half of the command in the byte mode of an RX28.
LCD(csr, bytes) ==
    /\ rx_state = "IDLE"
    /\ rx_csr' = csr /\ rx_dbr' = 0 /\ rx_bptr' = 0 /\ rx_err' = FALSE
    /\ saw' = FALSE /\ given' = 0
    /\ ClearDone
    /\ IF bytes /\ rx_28
       THEN rx_state' = "CMD8" /\ rx_tr' = TRUE /\ UNCHANGED active
       ELSE rx_cmd(csr, FALSE)
    /\ UNCHANGED <<rx_28, rx_buf, drivevars, polite>>

\* XDR: the second half of a command, a word for the controller, or one from it.
XDRCommand ==
    /\ rx_state = "CMD8"
    /\ polite => saw
    /\ rx_cmd(rx_csr, rx_tr)
    /\ rx_dbr' = 0 /\ saw' = FALSE
    /\ UNCHANGED <<rx_28, rx_csr, rx_err, rx_bptr, rx_buf, intvars, drivevars, polite, given>>

XDRGive(word) ==
    /\ rx_state \in {"RWDS", "RWDT", "FILL", "SDCNF"}
    /\ rx_state = "FILL" /\ polite => given < Words
    /\ polite => saw /\ word = (IF rx_state = "FILL" THEN given + 1 ELSE 0)
    /\ rx_dbr' = word /\ saw' = FALSE
    /\ given' = (IF polite THEN word ELSE given)
    /\ active' = active \union {rx_csr.drive}
    /\ UNCHANGED <<rx_28, rx_state, rx_csr, rx_tr, rx_err, rx_bptr, rx_buf, intvars,
                   drivevars, polite>>

XDRTake ==
    /\ rx_state = "EMPTY"
    /\ polite => saw
    /\ active' = active \union {rx_csr.drive}
    /\ saw' = FALSE
    /\ UNCHANGED <<ctlvars, intvars, drivevars, polite, given>>

\* STR, SER and SDN skip and clear their flag.
SeenStays == TRUE                               \* mutant of Seen
Seen == FALSE

STR ==
    /\ rx_tr
    /\ rx_tr' = Seen /\ saw' = TRUE
    /\ UNCHANGED <<rx_28, rx_state, rx_csr, rx_err, rx_dbr, rx_bptr, rx_buf, intvars,
                   active, drivevars, polite, given>>

SER ==
    /\ rx_err
    /\ rx_err' = FALSE
    /\ UNCHANGED <<rx_28, rx_state, rx_csr, rx_tr, rx_dbr, rx_bptr, rx_buf, intvars,
                   active, drivevars, progvars>>

SDN ==
    /\ done
    /\ ClearDone
    /\ UNCHANGED <<ctlvars, active, drivevars, progvars>>

INTR(on) ==
    /\ enable' = on
    /\ int_rx' = INT_UPDATE(done, on, int_rx)
    /\ UNCHANGED <<done, ctlvars, active, drivevars, progvars>>

CancelNone(units) == units                      \* mutant of Cancel1
Cancel1(units) == units \ {1}

\* INIT, CAF and RESET RX.  Without a disk in drive 0 its event stays where it is.
rx_reset ==
    /\ rx_csr' = [drive |-> 0, func |-> "FILL"]
    /\ rx_dbr' = 0 /\ rx_tr' = FALSE
    /\ enable' = FALSE /\ int_rx' = FALSE
    /\ saw' = FALSE /\ given' = 0
    /\ IF 0 \in attached
       THEN rx_state' = "INIT_COMPLETE" /\ active' = Cancel1(active) \union {0}
            /\ done' = FALSE /\ rx_err' = FALSE
       ELSE rx_state' = "IDLE" /\ active' = Cancel1(active)
            /\ done' = TRUE /\ rx_err' = TRUE
    /\ UNCHANGED <<rx_28, rx_bptr, rx_buf, drivevars, polite>>

----------------------------------------------------------------------------
\* rx_svc, by the state of the controller.
Fires(u) == u \in active /\ active' = active \ {u}

EmptyBuffer(u) ==
    /\ rx_state = "EMPTY" /\ Fires(u)
    /\ \/ /\ rx_bptr >= Words
          /\ rx_done(FALSE)
          /\ UNCHANGED <<rx_tr, rx_bptr>>
       \/ /\ rx_bptr < Words
          /\ rx_bptr' = rx_bptr + 1 /\ rx_tr' = TRUE
          /\ UNCHANGED <<rx_state, rx_err, intvars>>
    /\ rx_dbr' = 0
    /\ UNCHANGED <<rx_28, rx_csr, rx_buf, drivevars, progvars>>

FilledUp(n) == n >= Words

FillBuffer(u) ==
    /\ rx_state = "FILL" /\ Fires(u)
    /\ rx_buf' = [rx_buf EXCEPT ![rx_bptr + 1] = rx_dbr]
    /\ rx_bptr' = rx_bptr + 1
    /\ \/ /\ FilledUp(rx_bptr')
          /\ rx_done(FALSE) /\ rx_dbr' = 0
          /\ UNCHANGED rx_tr
       \/ /\ ~FilledUp(rx_bptr')
          /\ rx_tr' = TRUE
          /\ UNCHANGED <<rx_state, rx_dbr, rx_err, intvars>>
    /\ UNCHANGED <<rx_28, rx_csr, drivevars, progvars>>

TakeSector(u) ==
    /\ rx_state = "RWDS" /\ Fires(u)
    /\ rx_state' = "RWDT" /\ rx_tr' = TRUE
    /\ UNCHANGED <<rx_28, rx_csr, rx_err, rx_dbr, rx_bptr, rx_buf, intvars, drivevars,
                   progvars>>

\* The event for the seek is scheduled by the service of the one before.
TakeTrack(u) ==
    /\ rx_state = "RWDT" /\ u \in active
    /\ rx_state' = "RWXFR"
    /\ UNCHANGED <<rx_28, rx_csr, rx_tr, rx_err, rx_dbr, rx_bptr, rx_buf, intvars,
                   active, drivevars, progvars>>

\* No disk is an error, and so may be the track, the sector, the density and a
\* write lock.
TransferSector(u) ==
    /\ rx_state = "RWXFR" /\ Fires(u)
    /\ \E error \in BOOLEAN :
        /\ u \notin attached => error
        /\ rx_done(error)
        /\ rx_buf' = IF ~error /\ rx_csr.func = "READ" THEN [i \in 1 .. Words |-> 0]
                     ELSE rx_buf
    /\ rx_dbr' = 0
    /\ UNCHANGED <<rx_28, rx_csr, rx_tr, rx_bptr, drivevars, progvars>>

ConfirmDensity(u) ==
    /\ rx_state = "SDCNF" /\ u \in active
    /\ \/ rx_done(TRUE) /\ Fires(u) /\ rx_dbr' = 0
       \/ /\ rx_state' = "SDXFR"
          /\ UNCHANGED <<rx_dbr, rx_err, intvars, active>>
    /\ UNCHANGED <<rx_28, rx_csr, rx_tr, rx_bptr, rx_buf, drivevars, progvars>>

\* Without a disk the buffer erased is not there and the process ends: no step.
SetDensity(u) ==
    /\ rx_state = "SDXFR" /\ Fires(u)
    /\ u \in attached
    /\ rx_done(FALSE) /\ rx_dbr' = 0
    /\ UNCHANGED <<rx_28, rx_csr, rx_tr, rx_bptr, rx_buf, drivevars, progvars>>

\* The density may be the wrong one for the status of an RX28.
CompleteCommand(u) ==
    /\ rx_state = "CMD_COMPLETE" /\ Fires(u)
    /\ \E error \in BOOLEAN :
        /\ error => rx_28 /\ rx_csr.func # "ECODE"
        /\ rx_done(error)
    /\ rx_dbr' = 0
    /\ UNCHANGED <<rx_28, rx_csr, rx_tr, rx_bptr, rx_buf, drivevars, progvars>>

CompleteInit(u) ==
    /\ rx_state = "INIT_COMPLETE" /\ Fires(u)
    /\ rx_done(0 \notin attached)
    /\ rx_buf' = IF 0 \in attached THEN [i \in 1 .. Words |-> 0] ELSE rx_buf
    /\ rx_dbr' = 0
    /\ UNCHANGED <<rx_28, rx_csr, rx_tr, rx_bptr, drivevars, progvars>>

\* SCPE_IERR, which stops the simulator.
IdleService(u) ==
    /\ rx_state = "IDLE" /\ Fires(u)
    /\ UNCHANGED <<ctlvars, intvars, drivevars, progvars>>

Attach(u) ==
    /\ u \notin attached
    /\ attached' = attached \union {u}
    /\ UNCHANGED <<ctlvars, intvars, active, unloads, progvars>>

Detach(u) ==
    /\ u \in attached \cap unloads
    /\ attached' = attached \ {u}
    /\ UNCHANGED <<ctlvars, intvars, active, unloads, progvars>>

Init ==
    /\ rx_28 \in BOOLEAN
    /\ rx_state = "IDLE" /\ rx_csr = [drive |-> 0, func |-> "FILL"]
    /\ rx_tr = FALSE /\ rx_err = TRUE /\ rx_dbr = 0 /\ rx_bptr = 0
    /\ rx_buf = [i \in 1 .. Words |-> 0]
    /\ done = TRUE /\ enable = FALSE /\ int_rx = FALSE
    /\ active = {} /\ attached \in SUBSET DiskDrives /\ unloads \in SUBSET DiskDrives
    /\ DiskDrives \ unloads \subseteq attached
    /\ polite \in BOOLEAN /\ saw = FALSE /\ given = 0

rx ==
    \/ \E csr \in Commands, bytes \in BOOLEAN : LCD(csr, bytes)
    \/ \E word \in 0 .. Words : XDRGive(word)
    \/ XDRCommand \/ XDRTake \/ STR \/ SER \/ SDN
    \/ \E on \in BOOLEAN : INTR(on)

rx_svc(u) ==
    \/ EmptyBuffer(u) \/ FillBuffer(u) \/ TakeSector(u) \/ TakeTrack(u)
    \/ TransferSector(u) \/ ConfirmDensity(u) \/ SetDensity(u)
    \/ CompleteCommand(u) \/ CompleteInit(u) \/ IdleService(u)

Next ==
    \/ rx \/ rx_reset
    \/ \E u \in DiskDrives : rx_svc(u) \/ Attach(u) \/ Detach(u)

Spec == Init /\ [][Next]_vars

----------------------------------------------------------------------------
States == {"IDLE", "CMD8", "FILL", "EMPTY", "RWDS", "RWDT", "RWXFR", "SDCNF", "SDXFR",
           "CMD_COMPLETE", "INIT_COMPLETE"}

TypeOK ==
    /\ rx_state \in States /\ rx_csr \in Commands
    /\ {rx_28, rx_tr, rx_err, done, enable, int_rx, polite, saw} \subseteq BOOLEAN
    /\ {rx_dbr, rx_bptr, given} \subseteq 0 .. Words
    /\ rx_buf \in [1 .. Words -> 0 .. Words]
    /\ active \subseteq DiskDrives /\ attached \subseteq DiskDrives /\ unloads \subseteq DiskDrives

\* As long as the disk of drive 0 stays in, the event that is waiting is the one
\* the state is for: it is for the drive of the command, there is one in every
\* state that nothing else ends, and none in IDLE, where rx_svc stops the
\* simulator.
EventsMatch ==
    0 \notin unloads =>
        /\ active \subseteq {rx_csr.drive}
        /\ rx_state \in {"RWXFR", "SDXFR", "CMD_COMPLETE", "INIT_COMPLETE"} => active # {}
        /\ rx_state = "IDLE" => active = {}

\* With that disk in, too, the words of a program that waits for the transfer
\* request get into the buffer in their order, none lost and none twice.
FillInOrder ==
    0 \notin unloads /\ polite /\ rx_state = "FILL" =>
        \A i \in 1 .. rx_bptr : rx_buf[i] = i

\* A command that is done with interrupts enabled has its request up, and no
\* request outlives the done flag.
IntAgrees == (done /\ enable => int_rx) /\ (int_rx => done)

\* As the comment of rx_svc has it, there is no event in the IDLE state.
NeverInIdle == ~(rx_state = "IDLE" /\ active # {})
=============================================================================
