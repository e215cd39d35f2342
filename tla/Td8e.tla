-------------------------------- MODULE Td8e --------------------------------
(***************************************************************************)
(* The TD8E DECtape controller (pdp8_td.c), the simple one: no interrupts, *)
(* no data break, a flag for each line of the tape and one for each four,  *)
(* which the program has to take in time.  A drive that is not selected    *)
(* goes on as it was told.  Where a tape is, its lines and its marks are   *)
(* left out: a tape that moves may come to its end at any time.  One that  *)
(* could be written does not, for there the simulator would end.           *)
(***************************************************************************)
EXTENDS Naturals

CONSTANTS Drives, DT_WSIZE

DrivesAssumption == 0 \in Drives /\ DT_WSIZE \in Nat \ {0}

VARIABLES
    td_cmd,         \* [unit, rev, go, rw]
    td_flags,       \* [slf, qlf, qlctr]
    td_tme,
    motion,         \* STATE of each drive: [state, rev]
    active, attached,
    locks,          \* the tapes that are mounted read only
    obeys           \* history: the drives given a command since their tape was mounted

vars == <<td_cmd, td_flags, td_tme, motion, active, attached, locks, obeys>>

States == {"STOP", "DEC", "ACC", "UTS"}
Motion(state, rev) == [state |-> state, rev |-> rev]
Stopped == Motion("STOP", FALSE)
NoFlags == [slf |-> FALSE, qlf |-> FALSE, qlctr |-> 0]
NoCommand == [unit |-> 0, rev |-> FALSE, go |-> FALSE, rw |-> FALSE]
Fast(u) == motion[u].state \in {"ACC", "UTS"}

\* td_setpos and td_svc find the tape off its reel; its drive stays as it is.
OffReel(u) ==
    /\ u \in locks
    /\ attached' = attached \ {u} /\ locks' = locks \ {u}
    /\ active' = active \ {u}
    /\ UNCHANGED motion

Moves(u, to) ==
    /\ motion' = [motion EXCEPT ![u] = to]
    /\ active' = active \union {u}

----------------------------------------------------------------------------
\* SDLC.
NewSpeed(u, c) ==
    \/ /\ motion[u].state = "STOP" /\ c.go
       /\ Moves(u, Motion("ACC", c.rev))
       /\ td_flags' = NoFlags
       /\ UNCHANGED <<attached, locks>>
    \/ /\ Fast(u) /\ (~c.go \/ motion[u].rev # c.rev)
       /\ \/ /\ Moves(u, Motion("DEC", motion[u].rev))
             /\ td_flags' = NoFlags
             /\ UNCHANGED <<attached, locks>>
          \/ OffReel(u) /\ UNCHANGED td_flags
    \/ /\ \/ motion[u].state = "STOP" /\ ~c.go
          \/ motion[u].state = "DEC"
          \/ Fast(u) /\ c.go /\ motion[u].rev = c.rev
       /\ UNCHANGED <<motion, active, td_flags, attached, locks>>

td_newsa(c) ==
    \/ c.unit \in attached /\ NewSpeed(c.unit, c) /\ obeys' = obeys \union {c.unit}
    \/ c.unit \notin attached /\ UNCHANGED <<motion, active, td_flags, attached, locks, obeys>>

WhenMoving(c) == c.go # td_cmd.go \/ c.rev # td_cmd.rev      \* mutant of Significant
Significant(c) == [c EXCEPT !.rw = td_cmd.rw] # td_cmd

LoadCommand(c) ==
    /\ td_tme' = FALSE
    /\ td_cmd' = c
    /\ \/ Significant(c) /\ td_newsa(c)
       \/ ~Significant(c) /\ UNCHANGED <<motion, active, td_flags, attached, locks, obeys>>

\* SDLD, SDRC and SDRD.
ClearFlags ==
    /\ td_flags' = NoFlags
    /\ UNCHANGED <<td_cmd, td_tme, motion, active, attached, locks, obeys>>

----------------------------------------------------------------------------
\* td_svc.  A line passes; the fourth finds the four before taken, or is too late.
GoesOnWriting == td_tme' = TRUE /\ UNCHANGED td_cmd     \* mutant of TooLate
TooLate == td_tme' = TRUE /\ td_cmd' = [td_cmd EXCEPT !.rw = FALSE]

Line(u) ==
    LET last == td_flags.qlctr = DT_WSIZE - 1
    IN  /\ td_flags' = IF u # td_cmd.unit THEN td_flags
                       ELSE [slf |-> TRUE, qlf |-> td_flags.qlf \/ last,
                             qlctr |-> (td_flags.qlctr + 1) % DT_WSIZE]
        /\ IF u = td_cmd.unit /\ last /\ td_flags.qlf THEN TooLate
           ELSE UNCHANGED <<td_tme, td_cmd>>

RestartsOnly(u) ==                                      \* mutant of SpeedsUp
    u = td_cmd.unit /\ td_cmd.go /\ td_cmd.rev = motion[u].rev
SpeedsUp(u) == u = td_cmd.unit /\ td_cmd.go
AtRest(u) ==
    /\ active' = active \ {u} /\ motion' = [motion EXCEPT ![u] = Stopped]
SlowedDown(u) ==
    /\ motion[u].state = "DEC"
    /\ IF SpeedsUp(u) THEN Moves(u, Motion("ACC", td_cmd.rev)) ELSE AtRest(u)

td_svc(u) ==
    /\ u \in active
    /\ \/ /\ motion[u].state = "STOP" \/ u \notin attached
          /\ AtRest(u)
          /\ UNCHANGED <<td_flags, td_tme, td_cmd, attached, locks, obeys>>
       \/ /\ u \in attached
          /\ SlowedDown(u)
          /\ UNCHANGED <<td_flags, td_tme, td_cmd, attached, locks, obeys>>
       \/ /\ u \in attached /\ Fast(u)
          /\ Moves(u, Motion("UTS", motion[u].rev))
          /\ Line(u)
          /\ UNCHANGED <<attached, locks, obeys>>
       \/ /\ u \in attached /\ motion[u].state # "STOP"
          /\ OffReel(u)
          /\ UNCHANGED <<td_flags, td_tme, td_cmd, obeys>>

----------------------------------------------------------------------------
\* CAF slows all drives down.  A tape just off its reel, at the very end of it, is
\* taken for one on it.
td_clear ==
    /\ td_cmd' = NoCommand /\ td_flags' = NoFlags /\ UNCHANGED td_tme
    /\ \E off \in SUBSET {u \in locks : Fast(u)}, still \in SUBSET {u \in Drives \ attached : Fast(u)} :
          LET slow == {u \in Drives : Fast(u)} \ (off \union still)
          IN  /\ attached' = attached \ off /\ locks' = locks \ off
              /\ active' = (active \union slow) \ off
              /\ motion' = [u \in Drives |->
                    IF u \in slow THEN Motion("DEC", motion[u].rev) ELSE motion[u]]
    /\ UNCHANGED obeys

\* RESET TD stops them at once.
td_reset ==
    /\ td_cmd' = NoCommand /\ td_flags' = NoFlags /\ UNCHANGED td_tme
    /\ active' = {} /\ motion' = [u \in Drives |-> Stopped]
    /\ UNCHANGED <<attached, locks, obeys>>

td_attach(u) ==
    /\ attached' = attached \union {u}
    /\ \E readonly \in BOOLEAN : locks' = IF readonly THEN locks \union {u} ELSE locks \ {u}
    /\ motion' = [motion EXCEPT ![u] = Stopped]
    /\ active' = IF u \in attached THEN active \ {u} ELSE active
    /\ obeys' = obeys \ {u}
    /\ UNCHANGED <<td_cmd, td_flags, td_tme>>

td_detach(u) ==
    /\ u \in attached
    /\ attached' = attached \ {u} /\ locks' = locks \ {u}
    /\ AtRest(u)
    /\ UNCHANGED <<td_cmd, td_flags, td_tme, obeys>>

Init ==
    /\ td_cmd = NoCommand /\ td_flags = NoFlags /\ td_tme = FALSE
    /\ motion = [u \in Drives |-> Stopped]
    /\ active = {} /\ attached = {} /\ locks = {} /\ obeys = {}

td77 ==
    \/ \E c \in [unit : Drives, rev : BOOLEAN, go : BOOLEAN, rw : BOOLEAN] : LoadCommand(c)
    \/ ClearFlags

Next ==
    \/ td77 \/ td_clear \/ td_reset
    \/ \E u \in Drives : td_svc(u) \/ td_attach(u) \/ td_detach(u)

Spec == Init /\ [][Next]_vars

----------------------------------------------------------------------------
TypeOK ==
    /\ td_cmd \in [unit : Drives, rev : BOOLEAN, go : BOOLEAN, rw : BOOLEAN]
    /\ td_flags \in [slf : BOOLEAN, qlf : BOOLEAN, qlctr : 0 .. DT_WSIZE - 1]
    /\ td_tme \in BOOLEAN
    /\ motion \in [Drives -> [state : States, rev : BOOLEAN]]
    /\ {active, attached, locks, obeys} \subseteq SUBSET Drives

\* A tape that moves has its event to come; and the tape selected, if it had a
\* command at all, does not stand still against the command, and at speed it runs
\* as the command has it.
CommandObeyed ==
    /\ \A u \in attached : motion[u].state # "STOP" => u \in active
    /\ LET u == td_cmd.unit
       IN  u \in attached \intersect obeys =>
              /\ td_cmd.go => motion[u].state # "STOP"
              /\ Fast(u) => td_cmd.go /\ motion[u].rev = td_cmd.rev

\* After a timing error nothing is written before the next command.
ErrorEndsWriting == td_tme => ~td_cmd.rw
=============================================================================
