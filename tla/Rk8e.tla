-------------------------------- MODULE Rk8e --------------------------------
(***************************************************************************)
(* The RK8E disk controller and its drives (pdp8_rk.c).  A transfer uses   *)
(* the registers as they are when its time has come, not as they were when *)
(* it was ordered: rk_busy has to keep the program from changing them.  A  *)
(* seek does not hold the controller, and the heads of one drive move      *)
(* while another transfers.                                                *)
(***************************************************************************)
EXTENDS Naturals, Sequences, FiniteSets

CONSTANTS
    Drives,         \* the first one can be locked
    Addresses,      \* values of rk_ma the program loads
    FieldSize,      \* words in a memory field
    SectorSize

SizesAssumption ==
    /\ 0 \in Drives
    /\ FieldSize \in Nat \ {0} /\ SectorSize \in Nat
    /\ Addresses \subseteq 0 .. FieldSize - 1

VARIABLES
    rk_busy,
    rk_sta,         \* set of the status bits that are on, less HMOV
    rk_cmd,         \* [drive, func, ie, skdn]
    rk_da,          \* a cylinder that exists, or "bad"
    rk_ma,
    int_rk,         \* INT_RK in int_req
    active,         \* what each unit has scheduled: UNIT.FUNC, or "none"
    attached,       \* the drives with a pack
    locks,          \* of the first drive: "SWLK" by the program, "HWLK" by the operator
    ordered         \* history: the registers the transfer under way was ordered with

vars == <<rk_busy, rk_sta, rk_cmd, rk_da, rk_ma, int_rk, active, attached, locks, ordered>>

\* "READ" is also the two codes of no function, which move nothing.
Functions == {"READ", "WRITE", "SEEK", "WLK"}
Transfers == {"READ", "WRITE"}
Commands == [drive : Drives, func : Functions, ie : BOOLEAN, skdn : BOOLEAN]
Cleared == [drive |-> 0, func |-> "READ", ie |-> FALSE, skdn |-> FALSE]
RKS_ERR == {"BUSY", "WLK", "STAT"}
Registers == <<rk_cmd, rk_da, rk_ma>>

Locked(u) == u = 0 /\ locks # {}

IntOnlySet(sta, cmd) ==                                 \* mutant of RK_INT_UPDATE
    int_rk' = (int_rk \/ (sta \cap ({"DONE"} \union RKS_ERR) # {} /\ cmd.ie))
RK_INT_UPDATE(sta, cmd) == int_rk' = (sta \cap ({"DONE"} \union RKS_ERR) # {} /\ cmd.ie)

----------------------------------------------------------------------------
\* rk_go on a status already cleared or not: what it adds to the status, or the
\* unit's event and, but for a seek, the controller busy.
Refused(func, cyl) ==
    LET u == rk_cmd.drive
    IN  CASE u \notin attached -> {"DONE", "NRDY", "STAT"}
          [] u \in attached /\ (active[u] # "none" \/ cyl = "bad") -> {"DONE", "STAT"}
          [] u \in attached /\ active[u] = "none" /\ cyl # "bad"
                /\ func = "WRITE" /\ Locked(u) -> {"DONE", "WLK"}
          [] OTHER -> {}

rk_go(sta, func, cyl) ==
    LET u == rk_cmd.drive
        no == Refused(func, cyl)
    IN  /\ rk_sta' = sta \union (IF no # {} THEN no
                                 ELSE IF func \in {"WLK", "SEEK"} THEN {"DONE"} ELSE {})
        /\ locks' = IF no = {} /\ func = "WLK" /\ u = 0 THEN locks \union {"SWLK"}
                    ELSE locks
        /\ active' = IF no = {} /\ func # "WLK" THEN [active EXCEPT ![u] = func]
                     ELSE active
        /\ rk_busy' = (no = {} /\ func \in Transfers)
        /\ ordered' = IF rk_busy' THEN <<rk_cmd, rk_da', rk_ma>> ELSE <<>>
        /\ RK_INT_UPDATE(rk_sta', rk_cmd)

\* An IOT that finds the controller busy says so and does nothing else.
BusyIgnored == FALSE                                    \* mutant of Busy
Busy == rk_busy

BusyError ==
    /\ rk_sta' = rk_sta \union {"BUSY"}
    /\ RK_INT_UPDATE(rk_sta', rk_cmd)
    /\ UNCHANGED <<rk_busy, rk_cmd, rk_da, rk_ma, active, attached, locks, ordered>>

DLAG(da) ==
    \/ Busy /\ BusyError
    \/ /\ ~Busy
       /\ rk_da' = da
       /\ rk_go(rk_sta, rk_cmd.func, da)
       /\ UNCHANGED <<rk_cmd, rk_ma, attached>>

DLCA(ma) ==
    \/ Busy /\ BusyError
    \/ /\ ~Busy
       /\ rk_ma' = ma
       /\ RK_INT_UPDATE(rk_sta, rk_cmd)
       /\ UNCHANGED <<rk_busy, rk_sta, rk_cmd, rk_da, active, attached, locks, ordered>>

DLDC(cmd) ==
    \/ Busy /\ BusyError
    \/ /\ ~Busy
       /\ rk_cmd' = cmd
       /\ rk_sta' = {}
       /\ RK_INT_UPDATE({}, cmd)
       /\ UNCHANGED <<rk_busy, rk_da, rk_ma, active, attached, locks, ordered>>

\* DRST brings the bit of the drive selected up to date.
DRST ==
    /\ rk_sta' = (rk_sta \ {"NRDY"})
                 \union (IF rk_cmd.drive \in attached THEN {} ELSE {"NRDY"})
    /\ UNCHANGED <<rk_busy, rk_cmd, rk_da, rk_ma, int_rk, active, attached, locks, ordered>>

\* DCLR: the status alone, with a word about a busy controller ...
ClearStatus(says) ==
    /\ rk_sta' = IF says /\ rk_busy THEN {"BUSY"} ELSE {}
    /\ RK_INT_UPDATE(rk_sta', rk_cmd)
    /\ UNCHANGED <<rk_busy, rk_cmd, rk_da, rk_ma, active, attached, locks, ordered>>

\* ... the controller, with whatever its drives are at ...
Idle == [u \in Drives |-> "none"]
ClearControl ==
    /\ rk_sta' = {} /\ rk_cmd' = Cleared /\ rk_da' = "cyl" /\ rk_ma' = 0
    /\ rk_busy' = FALSE
    /\ active' = Idle
    /\ ordered' = <<>>
    /\ RK_INT_UPDATE({}, rk_cmd')
    /\ UNCHANGED <<attached, locks>>

\* ... or the drive, by a seek to cylinder 0.
ClearDrive ==
    /\ \/ /\ rk_busy
          /\ rk_sta' = {"BUSY"}
          /\ RK_INT_UPDATE(rk_sta', rk_cmd)
          /\ UNCHANGED <<rk_busy, active, locks, ordered>>
       \/ /\ ~rk_busy
          /\ rk_go({}, "SEEK", "cyl")
    /\ UNCHANGED <<rk_cmd, rk_da, rk_ma, attached>>

\* RESET RK and CAF.
rk_reset ==
    /\ rk_sta' = {} /\ rk_cmd' = Cleared /\ rk_da' = "cyl" /\ rk_ma' = 0
    /\ rk_busy' = FALSE /\ int_rk' = FALSE
    /\ active' = Idle
    /\ locks' = locks \ {"SWLK"}
    /\ ordered' = <<>>
    /\ UNCHANGED attached

----------------------------------------------------------------------------
\* rk_svc.
CompleteBusy(u) ==                                      \* mutant of Complete
    /\ active' = [active EXCEPT ![u] = "none"]
    /\ UNCHANGED <<rk_busy, ordered>>
    /\ RK_INT_UPDATE(rk_sta', rk_cmd)
    /\ UNCHANGED <<rk_cmd, rk_da, attached, locks>>

Complete(u) ==
    /\ active' = [active EXCEPT ![u] = "none"]
    /\ rk_busy' = FALSE /\ ordered' = <<>>
    /\ RK_INT_UPDATE(rk_sta', rk_cmd)
    /\ UNCHANGED <<rk_cmd, rk_da, attached, locks>>

SeekDone(u) ==
    /\ active[u] = "SEEK"
    /\ active' = [active EXCEPT ![u] = "none"]
    /\ IF u = rk_cmd.drive /\ rk_cmd.skdn
       THEN rk_sta' = rk_sta \union {"DONE"} /\ RK_INT_UPDATE(rk_sta', rk_cmd)
       ELSE UNCHANGED <<rk_sta, int_rk>>
    /\ UNCHANGED <<rk_busy, rk_cmd, rk_da, rk_ma, attached, locks, ordered>>

\* The pack was taken off or the drive locked in the meantime.
TransferFails(u) ==
    /\ active[u] \in Transfers
    /\ \/ u \notin attached /\ rk_sta' = rk_sta \union {"DONE", "NRDY", "STAT"}
       \/ /\ u \in attached /\ active[u] = "WRITE" /\ Locked(u)
          /\ rk_sta' = rk_sta \union {"DONE", "WLK"}
    /\ rk_ma' = rk_ma
    /\ Complete(u)

\* The words of memory the transfer touches: up to the end of the field and on
\* from its beginning.
Moved(ma, wc0) ==
    LET wc1 == ma + wc0 - FieldSize
        wc  == IF wc1 > 0 THEN wc0 - wc1 ELSE wc0
    IN  [i \in 1 .. wc |-> ma + i - 1]
        \o [i \in 1 .. (IF wc1 > 0 THEN wc1 ELSE 0) |-> i - 1]

Transfer(u) ==
    /\ active[u] \in Transfers
    /\ u \in attached
    /\ ~(active[u] = "WRITE" /\ Locked(u))
    /\ rk_ma' = (rk_ma + SectorSize) % FieldSize
    /\ rk_sta' = rk_sta \union {"DONE"}
    /\ Complete(u)

----------------------------------------------------------------------------
\* The operator.  Detaching a file leaves the unit's event in the queue.
Attach(u) ==
    /\ u \notin attached
    /\ attached' = attached \union {u}
    /\ UNCHANGED <<rk_busy, rk_sta, rk_cmd, rk_da, rk_ma, int_rk, active, locks, ordered>>

Detach(u) ==
    /\ u \in attached
    /\ attached' = attached \ {u}
    /\ UNCHANGED <<rk_busy, rk_sta, rk_cmd, rk_da, rk_ma, int_rk, active, locks, ordered>>

set_writelock ==
    /\ locks' = IF "HWLK" \in locks THEN locks \ {"HWLK"} ELSE locks \union {"HWLK"}
    /\ UNCHANGED <<rk_busy, rk_sta, rk_cmd, rk_da, rk_ma, int_rk, active, attached, ordered>>

Init ==
    /\ rk_busy = FALSE /\ rk_sta = {} /\ rk_cmd = Cleared /\ rk_da = "cyl" /\ rk_ma = 0
    /\ int_rk = FALSE /\ active = Idle /\ attached = {} /\ locks = {}
    /\ ordered = <<>>

rk ==
    \/ \E da \in {"cyl", "bad"} : DLAG(da)
    \/ \E ma \in Addresses : DLCA(ma)
    \/ \E cmd \in Commands : DLDC(cmd)
    \/ \E says \in BOOLEAN : ClearStatus(says)
    \/ DRST \/ ClearControl \/ ClearDrive

rk_svc(u) == SeekDone(u) \/ TransferFails(u) \/ Transfer(u)

Next ==
    \/ rk \/ rk_reset
    \/ \E u \in Drives : rk_svc(u) \/ Attach(u) \/ Detach(u)
    \/ set_writelock

Fairness == \A u \in Drives : WF_vars(rk_svc(u))

Spec == Init /\ [][Next]_vars /\ Fairness

----------------------------------------------------------------------------
TypeOK ==
    /\ {rk_busy, int_rk} \subseteq BOOLEAN
    /\ rk_sta \subseteq {"DONE", "NRDY"} \union RKS_ERR
    /\ rk_cmd \in Commands /\ rk_da \in {"cyl", "bad"} /\ rk_ma \in 0 .. FieldSize - 1
    /\ active \in [Drives -> {"none", "SEEK"} \union Transfers]
    /\ attached \subseteq Drives /\ locks \subseteq {"SWLK", "HWLK"}

(***************************************************************************)
(* The controller is busy just while one transfer is under way, on the     *)
(* drive and with the registers it was ordered with: what rk_svc reads     *)
(* when the time has come is the program's order, whatever IOTs, seeks of  *)
(* other drives and operator's commands came in between.                   *)
(***************************************************************************)
OrderStands ==
    LET transferring == {u \in Drives : active[u] \in Transfers}
    IN  /\ rk_busy => /\ transferring = {rk_cmd.drive}
                      /\ active[rk_cmd.drive] = rk_cmd.func
                      /\ ordered = Registers
        /\ ~rk_busy => transferring = {}

(***************************************************************************)
(* The interrupt is requested just while the done flag or an error is up   *)
(* and the command enables it.                                             *)
(***************************************************************************)
IntAgrees == int_rk = (rk_sta \cap ({"DONE"} \union RKS_ERR) # {} /\ rk_cmd.ie)

(***************************************************************************)
(* A busy controller becomes free again: no command, detached pack or lock *)
(* leaves it waiting for an event that nobody has scheduled.               *)
(***************************************************************************)
BusyEnds == rk_busy ~> ~rk_busy
=============================================================================
