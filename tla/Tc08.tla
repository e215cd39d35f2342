-------------------------------- MODULE Tc08 --------------------------------
(***************************************************************************)
(* The TC08 DECtape controller (pdp8_dt.c).  A tape keeps moving while     *)
(* nobody asks: its position is brought up to date only when a command or  *)
(* the event of its unit comes by, and what the controller does depends on *)
(* the line it has got to.                                                 *)
(*                                                                         *)
(* A tape is an end zone, TSIZE blocks and an end zone.  A block is a      *)
(* header, BSIZE words and a trailer.  A block number and a word take one  *)
(* line each.  Time is the distance that a tape travels in it; tapes other *)
(* than the one a step is about do so unseen.                              *)
(*                                                                         *)
(* The step of a routine that others call is a function of the controller. *)
(***************************************************************************)
EXTENDS Integers, Sequences

CONSTANTS
    Units, Tapes,   \* and the units that may have a tape
    Programs,       \* the functions a program keeps to, its mode and interrupt
                    \* enable, and whether its tapes are read only
    EZLIN, HTLIN,   \* lines of an end zone, and of a header or a trailer
    BSIZE, TSIZE,
    Decel, Accel,   \* lines until a tape has stopped, or is at speed
    MaxCount        \* of the words that the program asks for

VARIABLES
    dt,             \* the controller and its drives
    program,
    found           \* history: where the search is that the program follows up

LPERB == 2 * HTLIN + BSIZE
FWDEZ == EZLIN + TSIZE * LPERB

LIN2BL(p) == (p - EZLIN) \div LPERB
LIN2OF(p) == (p - EZLIN) % LPERB
BLK2LN(b) == EZLIN + b * LPERB

\* The position is unsigned: below zero it is far away.
QREZ(p) == p \in 0 .. EZLIN - 1
QFEZ(p) == p \notin 0 .. FWDEZ - 1
QEZ(p) == QREZ(p) \/ QFEZ(p)

Distance(p, q) == IF p < q THEN q - p ELSE p - q

none == -1
Nowhere == [unit |-> none, blk |-> none, at |-> none]

SizesAssumption ==
    /\ 0 \in Units /\ Units \subseteq Nat /\ Tapes \subseteq Units
    /\ Programs \subseteq [fncs : SUBSET {"MOVE", "SRCH", "READ", "RALL", "WRIT", "WALL", "WMRK"},
                           mode : BOOLEAN, enb : BOOLEAN, readonly : BOOLEAN]
    /\ {EZLIN, HTLIN, BSIZE, TSIZE} \subseteq Nat \ {0} /\ MaxCount \in Nat
    /\ Decel \in 1 .. FWDEZ /\ Accel \in 1 .. FWDEZ

Reverse == {FALSE, TRUE}                        \* the direction of a motion
Stage(phase, dir, fnc) == [phase |-> phase, dir |-> dir, fnc |-> fnc]

\* STATE holds what the unit does and up to two things that it will do next.
Stopped(c, u) == c.state[u] = <<>>
Phase(c, u) == IF Stopped(c, u) THEN "stop" ELSE Head(c.state[u]).phase
Dir(c, u) == ~Stopped(c, u) /\ Head(c.state[u]).dir

\* The lines that a unit may have travelled since its position was updated: it
\* would have got its event at due.
Travelled(c, u) ==
    IF c.due[u] = none THEN {0}
    ELSE IF Phase(c, u) = "ats" THEN 0 .. c.due[u] - 1
    ELSE 0 .. c.due[u]

RaiseOnly(c) == [c EXCEPT !.int = @ \/ (c.sa.enb /\ (c.erf \/ c.dtf))]   \* mutant of DT_UPDINT
DT_UPDINT(c) == [c EXCEPT !.int = c.sa.enb /\ (c.erf \/ c.dtf)]

WithError(c) == [c EXCEPT !.sa.go = FALSE, !.erf = TRUE]

----------------------------------------------------------------------------
\* Without a tape a unit is at rest; what waits for its event still waits.
detach_unit(c, u) ==
    [c EXCEPT !.attached = @ \ {u}, !.state[u] = <<>>, !.pos[u] = 0,
              !.dirty = @ \ {u}]

dt_setpos(c, u, d) ==
    LET p == IF Stopped(c, u) THEN c.pos[u]
             ELSE IF Dir(c, u) THEN c.pos[u] - d ELSE c.pos[u] + d
    IN  IF p \in 0 .. FWDEZ + EZLIN THEN [c EXCEPT !.pos[u] = p]
        ELSE IF u = c.sa.unit THEN DT_UPDINT(WithError(detach_unit(c, u)))
        ELSE detach_unit(c, u)

\* It has run off the reel.
Gone(c, u) == u \notin c.attached

dt_seterr(c, u, d) ==
    IF Phase(c, u) \in {"acc", "ats"}
    THEN LET p == dt_setpos([WithError(c) EXCEPT !.due[u] = none], u, d)
         IN  IF Gone(p, u) THEN p
             ELSE DT_UPDINT([p EXCEPT !.due[u] = Decel,
                                      !.state[u] = <<Stage("dec", Dir(c, u), "MOVE")>>])
    ELSE DT_UPDINT([WithError(c) EXCEPT !.state[u] = IF @ = <<>> THEN @ ELSE <<Head(@)>>])

EndZoneAhead(dir) == IF dir THEN EZLIN - 1 ELSE FWDEZ + 1

\* The line of the next block number, and that of the first word to transfer.
NumberAhead(p, dir) ==
    IF dir THEN BLK2LN(IF QFEZ(p) THEN TSIZE ELSE LIN2BL(p)) - 2
    ELSE BLK2LN(IF QREZ(p) THEN 0 ELSE LIN2BL(p) + 1) + 1

InData(p) == LIN2OF(p) \in HTLIN .. LPERB - HTLIN - 1

NextWord(p, dir) ==                             \* mutant of WordAhead
    IF QEZ(p) THEN IF dir THEN FWDEZ - HTLIN - 1 ELSE EZLIN + HTLIN
    ELSE IF dir THEN BLK2LN(LIN2BL(p)) - HTLIN - 1
    ELSE BLK2LN(LIN2BL(p) + 1) + HTLIN

WordAhead(p, dir) ==
    IF QEZ(p) THEN IF dir THEN FWDEZ - HTLIN - 1 ELSE EZLIN + HTLIN
    ELSE IF dir THEN BLK2LN(LIN2BL(p) + (IF LIN2OF(p) < HTLIN THEN 0 ELSE 1)) - HTLIN - 1
    ELSE BLK2LN(LIN2BL(p) + (IF LIN2OF(p) < HTLIN THEN 0 ELSE 1)) + HTLIN

dt_newfnc(c, u, stage, d) ==
    LET s == dt_setpos(c, u, d)
        p == IF s.pos[u] # c.pos[u] THEN s.pos[u]
             ELSE IF stage.dir THEN s.pos[u] - 1 ELSE s.pos[u] + 1
        n == [s EXCEPT !.pos[u] = p, !.state[u] = <<stage>>]
        To(q) == [n EXCEPT !.due[u] = Distance(q, p), !.substate = {"SOB"}]
    IN  CASE Gone(s, u) -> s
          [] ~Gone(s, u) /\ (IF stage.dir THEN QREZ(p) ELSE QFEZ(p)) -> dt_seterr(n, u, 0)
          [] OTHER ->
             CASE stage.fnc = "OFR" -> To(IF stage.dir THEN -1 ELSE FWDEZ + EZLIN + 1)
               [] stage.fnc = "MOVE" -> To(EndZoneAhead(stage.dir))
               [] stage.fnc = "SRCH" -> To(NumberAhead(p, stage.dir))
               [] stage.fnc \notin {"OFR", "MOVE", "SRCH"} ->
                     IF ~QEZ(p) /\ InData(p)
                     THEN dt_seterr([n EXCEPT !.substate = {"SOB"}], u, 0)
                     ELSE To(WordAhead(p, stage.dir))

\* A unit that decelerates, or is about to reverse, is left alone.
dt_deselect(c, u, d) ==
    CASE Phase(c, u) = "ats" -> dt_newfnc(c, u, Stage("ats", Dir(c, u), "OFR"), d)
      [] Phase(c, u) = "acc" ->
            [c EXCEPT !.state[u] = <<Head(@), Stage("ats", Dir(c, u), "OFR")>>]
      [] OTHER -> c

Start(c, u, d) ==
    LET p == dt_setpos(c, u, d)
    IN  IF Gone(p, u) THEN p
        ELSE [p EXCEPT !.due[u] = Accel,
                       !.state[u] = <<Stage("acc", c.sa.dir, "MOVE"),
                                      Stage("ats", c.sa.dir, c.sa.fnc)>>]

\* To a stop, and then on to the stages that follow.
SlowDown(c, u, d, stages) ==
    LET p == IF Phase(c, u) = "dec" THEN c
             ELSE dt_setpos([c EXCEPT !.due[u] = none], u, d)
    IN  IF Gone(p, u) THEN dt_setpos(c, u, d)
        ELSE [p EXCEPT !.due[u] = IF Phase(c, u) = "dec" THEN @ ELSE Decel,
                       !.state[u] = <<Stage("dec", Dir(c, u), "MOVE")>> \o stages]

dt_newsa(c, d) ==
    LET u == c.sa.unit
        phase == Phase(c, u)
        atspeed == Stage("ats", c.sa.dir, c.sa.fnc)
    IN  CASE u \notin c.attached -> dt_seterr(c, u, d)
          [] u \in c.attached /\ phase = "stop" ->
                IF c.sa.go THEN Start(c, u, d) ELSE c
          [] u \in c.attached /\ phase # "stop" ->
                CASE ~c.sa.go -> SlowDown(c, u, d, <<>>)
                  [] c.sa.go /\ Dir(c, u) # c.sa.dir ->
                        SlowDown(c, u, d, <<Stage("acc", c.sa.dir, "MOVE"), atspeed>>)
                  [] c.sa.go /\ Dir(c, u) = c.sa.dir ->
                        CASE phase = "dec" -> Start(c, u, d)
                          [] phase = "acc" -> [c EXCEPT !.state[u] = <<Head(@), atspeed>>]
                          [] phase = "ats" -> dt_newfnc(c, u, atspeed, d)

\* Status A, with one command to stop and one for the units without a tape.
Select(units, go, dirs, fncs) ==
    [unit : units, go : {go}, dir : dirs, fnc : fncs, mode : {program.mode},
     enb : {program.enb}]
StatusA ==
    Select(Tapes, TRUE, Reverse, program.fncs) \union Select(Tapes, FALSE, {FALSE}, {"MOVE"})
        \union Select(Units \ Tapes, TRUE, {FALSE}, {"MOVE"})
Cleared == [unit |-> 0, go |-> FALSE, dir |-> FALSE, fnc |-> "MOVE", mode |-> FALSE,
            enb |-> FALSE]

Refused(c) ==
    \/ c.sa.fnc = "WMRK"
    \/ c.sa.fnc \in {"WRIT", "WALL"} /\ program.readonly

----------------------------------------------------------------------------
(* dt_svc, one case for each function of a tape at speed.                  *)

\* A word count of zero counts on from 4096, farther than the program goes.
Count(wc) == IF wc \in {0, MaxCount + 1} THEN MaxCount + 1 ELSE wc - 1

Word(p) == LIN2OF(p) - HTLIN
LastWord(dir) == IF dir THEN 0 ELSE BSIZE - 1

Flagged(c, now) == [c EXCEPT !.dtf = @ \/ now]

dt_schedez(c, u) == [c EXCEPT !.due[u] = Distance(EndZoneAhead(Dir(c, u)), c.pos[u])]

Search(c, u) ==
    LET wc == Count(c.wc)
    IN  IF c.dtf THEN dt_seterr(c, u, 0)
        ELSE [c EXCEPT !.due[u] = LPERB, !.wc = wc, !.dtf = ~c.sa.mode \/ wc = 0]

\* The word after that of a block comes behind a trailer and a header.
NextDue(c, u) == IF Word(c.pos[u]) = LastWord(Dir(c, u)) THEN 2 * HTLIN + 1 ELSE 1

AfterWord(c, u, substate) ==
    IF Word(c.pos[u]) = LastWord(Dir(c, u)) THEN substate \union {"SOB"} ELSE substate

Read(c, u) ==
    LET over == c.substate = {"WCO"}
        wc == IF over THEN c.wc ELSE Count(c.wc)
        substate == AfterWord(c, u, IF over \/ wc = 0 THEN {"WCO"} ELSE {})
        ended == Word(c.pos[u]) = LastWord(Dir(c, u))
    IN  CASE c.substate = {"SOB"} /\ c.dtf -> dt_seterr(c, u, 0)
          [] c.substate = {"WCO", "SOB"} ->
                IF Word(c.pos[u]) = (IF Dir(c, u) THEN 0 ELSE BSIZE)
                THEN dt_seterr(c, u, 0)
                ELSE [c EXCEPT !.due[u] = 1]
          [] OTHER ->
                Flagged([c EXCEPT !.due[u] = NextDue(c, u), !.wc = wc,
                                  !.substate = substate],
                        ended /\ (~c.sa.mode \/ substate = {"WCO"}))

Written(c, u) == [c EXCEPT !.dirty = @ \union {u}, !.written = @ \union {u}]

Write(c, u) ==
    LET over == c.substate = {"WCO"}
        wc == IF over THEN c.wc ELSE Count(c.wc)
        substate == AfterWord(c, u, IF over \/ wc = 0 THEN {"WCO"} ELSE {})
        ended == Word(c.pos[u]) = LastWord(Dir(c, u))
    IN  CASE c.substate = {"SOB"} /\ c.dtf -> dt_seterr(c, u, 0)
          [] c.substate = {"WCO", "SOB"} -> dt_schedez(c, u)
          [] OTHER ->
                Flagged([Written(c, u) EXCEPT !.due[u] = NextDue(c, u), !.wc = wc,
                                              !.substate = substate],
                        ended /\ (~c.sa.mode \/ wc = 0))

\* Every word, those of headers and trailers too.  Write all stores the words of
\* the data only and does not set WRITTEN.
All(c, u) ==
    LET wc == Count(c.wc)
    IN  CASE "WCO" \in c.substate -> dt_schedez(c, u)
          [] "WCO" \notin c.substate /\ c.dtf -> dt_seterr(c, u, 0)
          [] OTHER ->
                Flagged([c EXCEPT !.due[u] = 1, !.wc = wc,
                                  !.substate = IF wc = 0 THEN {"WCO"} ELSE @,
                                  !.dirty = IF Head(c.state[u]).fnc = "WALL" /\ InData(c.pos[u])
                                            THEN @ \union {u} ELSE @],
                        ~c.sa.mode \/ wc = 0)

AtSpeed(c, u) ==
    LET fnc == Head(c.state[u]).fnc
    IN  CASE QEZ(c.pos[u]) \/ fnc = "MOVE" -> dt_seterr(c, u, 0)
          [] ~QEZ(c.pos[u]) /\ fnc = "SRCH" -> Search(c, u)
          [] ~QEZ(c.pos[u]) /\ fnc = "READ" -> Read(c, u)
          [] ~QEZ(c.pos[u]) /\ fnc = "WRIT" -> Write(c, u)
          [] ~QEZ(c.pos[u]) /\ fnc \in {"RALL", "WALL"} -> All(c, u)

OnwardNever(stages) == none                     \* mutant of Onward
Onward(stages) == IF Len(stages) > 1 THEN Accel ELSE none

\* A unit whose motion ended with its tape may still get an event.
Serve(c, u) ==
    LET e == [c EXCEPT !.due[u] = none]
        p == dt_setpos(e, u, c.due[u])
    IN  CASE Phase(c, u) = "stop" -> dt_seterr(e, u, 0)
          [] Phase(c, u) = "acc" -> dt_newfnc(e, u, c.state[u][2], c.due[u])
          [] Phase(c, u) \in {"dec", "ats"} /\ Gone(p, u) -> p
          [] Phase(c, u) = "dec" /\ ~Gone(p, u) ->
                [p EXCEPT !.state[u] = Tail(@),
                          !.due[u] = Onward(p.state[u])]
          [] Phase(c, u) = "ats" /\ ~Gone(p, u) -> DT_UPDINT(AtSpeed(p, u))

----------------------------------------------------------------------------
\* Off the reel detach_unit compares the buffer of a tape that is not read only
\* with a copy that was never made, and the process ends: no step.
Survives(c) == program.readonly \/ dt.attached \subseteq c.attached

\* The program follows up a search before the head is past the header.
FollowsUp(c, d) ==
    /\ found.unit = c.sa.unit /\ found.blk # none /\ found.at = none
    /\ dt.sa.unit = c.sa.unit /\ dt.sa.dir = c.sa.dir /\ c.sa.go /\ ~c.erf
    /\ c.sa.fnc \in {"READ", "WRIT"} /\ d < HTLIN - 1

\* DTCA and DTXA: sa is the new status A.
dt76(sa, clear) ==
    LET c == [dt EXCEPT !.sa = sa, !.erf = @ /\ ~clear, !.dtf = @ /\ ~clear]
        old == dt.sa.unit
    IN  \E d \in Travelled(dt, old) : \E e \in Travelled(dt, sa.unit) :
           LET s == IF sa.unit = old THEN c ELSE dt_deselect(c, old, d)
               f == IF sa.unit = old THEN d ELSE e
               n == DT_UPDINT(IF Refused(s) THEN dt_seterr(s, sa.unit, f)
                              ELSE dt_newsa(s, f))
           IN  /\ sa.unit = old => e = d
               /\ Survives(n)
               /\ dt' = n
               /\ found' = IF FollowsUp(n, f) THEN found ELSE Nowhere

\* The program sets the word count in memory, for what it selects next.
StoreCount ==
    /\ ~dt.sa.go
    /\ \E wc \in 1 .. MaxCount : dt' = [dt EXCEPT !.wc = wc]
    /\ UNCHANGED found

FirstWord(u) ==
    IF Word(dt'.pos[u]) = (IF Dir(dt, u) THEN BSIZE - 1 ELSE 0) THEN LIN2BL(dt'.pos[u]) ELSE TSIZE

dt_svc(u) ==
    /\ dt.due[u] # none
    /\ LET n == Serve(dt, u)
       IN  Survives(n) /\ dt' = n
    /\ found' = CASE Phase(dt, u) = "ats" /\ dt.sa.unit = u /\ dt.sa.fnc = "SRCH" /\ dt'.dtf /\ ~dt'.erf
                         -> [unit |-> u, blk |-> LIN2BL(dt'.pos[u]), at |-> none]
                 [] found.unit = u /\ dt.sa.fnc \in {"READ", "WRIT"} /\ ~dt'.erf
                         -> IF found.at = none THEN [found EXCEPT !.at = FirstWord(u)] ELSE found
                 [] OTHER -> IF found.unit = u THEN Nowhere ELSE found

\* CAF: what moves slows down.
ClearAllFlags ==
    LET moving == {u \in Units : Phase(dt, u) \in {"acc", "ats"}}
    IN  \E d \in [moving -> UNION {Travelled(dt, u) : u \in moving}] :
           LET c(u) == dt_setpos(dt, u, d[u])
               gone == {u \in moving : Gone(c(u), u)}
               slow == moving \ gone
               n == [dt EXCEPT
                     !.attached = @ \ gone,
                     !.dirty = @ \ gone,
                     !.pos = [u \in Units |-> IF u \in moving THEN c(u).pos[u] ELSE @[u]],
                     !.due = [u \in Units |-> IF u \in slow THEN Decel ELSE @[u]],
                     !.state = [u \in Units |->
                         IF u \in slow THEN <<Stage("dec", Dir(dt, u), "MOVE")>>
                         ELSE IF u \in gone THEN <<>> ELSE @[u]],
                     !.sa = Cleared, !.erf = FALSE, !.dtf = FALSE, !.int = FALSE]
           IN  /\ \A u \in moving : d[u] \in Travelled(dt, u)
               /\ Survives(n)
               /\ dt' = n
    /\ found' = Nowhere

\* The prompt's RESET.
dt_reset ==
    /\ dt' = [dt EXCEPT !.due = [u \in Units |-> none], !.state = [u \in Units |-> <<>>],
                        !.sa = Cleared, !.erf = FALSE, !.dtf = FALSE, !.int = FALSE]
    /\ found' = Nowhere

dt_attach(u) ==
    /\ u \notin dt.attached
    /\ dt' = [dt EXCEPT !.attached = @ \union {u}, !.pos[u] = EZLIN]
    /\ UNCHANGED found

\* Whenever the machine stops the buffers known to be written go to their files.
Flushed(c, units) ==
    [c EXCEPT !.dirty = @ \ (units \intersect c.written), !.written = @ \ units]

dt_flush ==
    /\ dt.written # {}
    /\ dt' = Flushed(dt, dt.attached)
    /\ UNCHANGED found

dt_detach(u) ==
    /\ u \in dt.attached
    /\ LET selected == dt.due[u] # none /\ u = dt.sa.unit /\ dt.sa.go
           f == Flushed(dt, {u})
           c == [f EXCEPT !.erf = @ \/ selected, !.dtf = @ \/ selected]
           s == IF selected THEN DT_UPDINT(c) ELSE c
       IN  dt' = IF dt.due[u] = none THEN [s EXCEPT !.attached = @ \ {u}, !.dirty = @ \ {u}]
                 ELSE [detach_unit(s, u) EXCEPT !.due[u] = none]
    /\ found' = Nowhere

Init ==
    /\ dt = [sa |-> Cleared, erf |-> FALSE, dtf |-> FALSE, int |-> FALSE, wc |-> 0,
             substate |-> {}, state |-> [u \in Units |-> <<>>],
             pos |-> [u \in Units |-> 0], due |-> [u \in Units |-> none],
             attached |-> {}, dirty |-> {}, written |-> {}]
    /\ program \in Programs
    /\ found = Nowhere

Next ==
    /\ \/ \E sa \in StatusA, clear \in {FALSE, dt.erf \/ dt.dtf} : dt76(sa, clear)
       \/ StoreCount \/ ClearAllFlags \/ dt_reset \/ dt_flush
       \/ \E u \in Units : dt_svc(u)
       \/ \E u \in Tapes : dt_attach(u) \/ dt_detach(u)
    /\ UNCHANGED program

vars == <<dt, program, found>>

Spec == Init /\ [][Next]_vars

----------------------------------------------------------------------------
Phases == {"dec", "acc", "ats"}
Stages == [phase : Phases, dir : Reverse, fnc : program.fncs \union {"MOVE", "OFR"}]

TypeOK ==
    /\ program \in Programs
    /\ dt.sa.unit \in Units /\ dt.sa.fnc \in program.fncs \union {"MOVE"}
    /\ {dt.erf, dt.dtf, dt.int} \subseteq BOOLEAN
    /\ dt.wc \in 0 .. MaxCount + 1 /\ dt.substate \subseteq {"WCO", "SOB"}
    /\ \A u \in Units :
          /\ \A i \in DOMAIN dt.state[u] : dt.state[u][i] \in Stages
          /\ dt.pos[u] \in -1 .. FWDEZ + EZLIN + 1
          /\ dt.due[u] \in none .. FWDEZ + EZLIN + 2
    /\ dt.attached \subseteq Tapes /\ dt.dirty \subseteq dt.attached
    /\ dt.written \subseteq Tapes

\* A tape that moves has an event to stop it or to send it on, and what follows
\* a motion is what the comment of dt_svc says: acceleration the other way or
\* rest after it slowed down, speed after acceleration.
MotionServed ==
    \A u \in Units : LET s == dt.state[u] IN
        s # <<>> =>
            /\ dt.due[u] # none /\ u \in dt.attached
            /\ CASE s[1].phase = "dec" -> \/ Len(s) = 1
                                          \/ /\ Len(s) = 3 /\ s[2].phase = "acc" /\ s[3].phase = "ats"
                                             /\ s[2].dir # s[1].dir /\ s[3].dir = s[2].dir
                 [] s[1].phase = "acc" -> Len(s) = 2 /\ s[2].phase = "ats" /\ s[2].dir = s[1].dir
                 [] s[1].phase = "ats" -> Len(s) = 1

\* The block that a search reports is the one whose first word is transferred
\* first when the program follows up before the head is past the header, in
\* either direction.
FoundIsRead == found.at # none => found.at = found.blk

\* The request stands for as long as a flag does and is enabled.
IntAgrees == dt.int = (dt.sa.enb /\ (dt.erf \/ dt.dtf))
=============================================================================
