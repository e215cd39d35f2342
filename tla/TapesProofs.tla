----------------------------- MODULE TapesProofs -----------------------------
(***************************************************************************)
(* The controllers of tapes, for any number of drives and any sizes.       *)
(***************************************************************************)
EXTENDS MCTapes, Integers, SequenceTheorems, WellFoundedInduction, TLAPS

----------------------------------------------------------------------------
(* The TD8E.  Each part is inductive given the types.                      *)
TdInv == Td!TypeOK /\ Td!CommandObeyed /\ Td!ErrorEndsWriting

TdCommands == [unit : Drives, rev : BOOLEAN, go : BOOLEAN, rw : BOOLEAN]
Motions == [state : Td!States, rev : BOOLEAN]

LEMMA NoFlagsTyped ==
    /\ Td!NoFlags \in [slf : BOOLEAN, qlf : BOOLEAN, qlctr : 0 .. DT_WSIZE - 1]
    /\ Td!NoCommand \in TdCommands /\ ~Td!NoCommand.go /\ ~Td!NoCommand.rw /\ Td!Stopped \in Motions
    /\ Td!Stopped.state = "STOP"
BY TdDrives
DEF Td!DrivesAssumption, Td!NoCommand, Td!NoFlags, TdCommands, Td!Stopped, Td!Motion, Td!States, Motions

LEMMA TdInitHolds == Td!Init => TdInv
<1> SUFFICES ASSUME Td!Init PROVE TdInv
  OBVIOUS
<1>1. \A u \in Drives : motion[u].state = "STOP"
  BY NoFlagsTyped DEF Td!Init
<1>2. motion \in [Drives -> Motions]
  BY NoFlagsTyped DEF Td!Init
<1>3. Td!TypeOK
  BY <1>2, NoFlagsTyped DEF Td!Init, Td!TypeOK, TdCommands, Motions
<1>4. Td!CommandObeyed /\ Td!ErrorEndsWriting
  BY <1>1, NoFlagsTyped DEF Td!Init, Td!CommandObeyed, Td!ErrorEndsWriting
<1> QED BY <1>3, <1>4 DEF TdInv

\* What the new status makes of the drive selected.
LEMMA NewSpeedKept ==
    ASSUME TdInv, NEW c \in TdCommands, td_cmd' = c, td_tme' = FALSE, Td!Significant(c), Td!td_newsa(c)
    PROVE  TdInv'
<1> DEFINE u == c.unit
<1> USE DEF TdInv, Td!TypeOK, Td!Fast, TdCommands, Motions
<1>0. u \in Drives /\ c.rev \in BOOLEAN /\ c.go \in BOOLEAN
  OBVIOUS
<1>1. CASE u \notin attached
  BY <1>0, <1>1 DEF Td!td_newsa, Td!CommandObeyed, Td!ErrorEndsWriting
<1>2. CASE u \in attached
  <2>1. Td!NewSpeed(u, c) /\ obeys' = obeys \union {u}
    BY <1>2 DEF Td!td_newsa
  <2>2. ASSUME NEW to \in Motions, Td!Moves(u, to), td_flags' = Td!NoFlags, UNCHANGED <<attached, locks>>,
               c.go => to.state # "STOP",
               to.state \in {"ACC", "UTS"} => c.go /\ to.rev = c.rev
        PROVE  TdInv'
    <3>1. /\ motion' = [motion EXCEPT ![u] = to] /\ active' = active \union {u} /\ motion'[u] = to
          /\ \A v \in Drives \ {u} : motion'[v] = motion[v]
      BY <1>0, <2>2 DEF Td!Moves
    <3>2. Td!TypeOK'
      <4>1. motion' \in [Drives -> Motions]
        BY <1>0, <3>1, <2>2
      <4>2. td_flags' \in [slf : BOOLEAN, qlf : BOOLEAN, qlctr : 0 .. DT_WSIZE - 1]
        BY <2>2, NoFlagsTyped
      <4>3. {active, attached, locks, obeys}' \subseteq SUBSET Drives
        BY <1>0, <2>1, <2>2, <3>1
      <4> QED BY <4>1, <4>2, <4>3
    <3>3. Td!CommandObeyed' /\ Td!ErrorEndsWriting'
      BY <1>0, <2>1, <2>2, <3>1 DEF Td!CommandObeyed, Td!ErrorEndsWriting
    <3> QED BY <3>2, <3>3
  <2>3. CASE motion[u].state = "STOP" /\ c.go
    <3>1. Td!Moves(u, Td!Motion("ACC", c.rev)) /\ td_flags' = Td!NoFlags /\ UNCHANGED <<attached, locks>>
      BY <1>0, <2>1, <2>3 DEF Td!NewSpeed
    <3>2. Td!Motion("ACC", c.rev) \in Motions
      BY <1>0 DEF Td!Motion, Td!States
    <3> QED BY <2>2, <2>3, <3>1, <3>2 DEF Td!Motion
  <2>4. CASE Td!Fast(u) /\ (~c.go \/ motion[u].rev # c.rev)
    <3>1. CASE Td!Moves(u, Td!Motion("DEC", motion[u].rev)) /\ td_flags' = Td!NoFlags
               /\ UNCHANGED <<attached, locks>>
      <4>1. Td!Motion("DEC", motion[u].rev) \in Motions
        BY <1>0 DEF Td!Motion, Td!States
      <4> QED BY <2>2, <3>1, <4>1 DEF Td!Motion
    <3>2. CASE Td!OffReel(u) /\ UNCHANGED td_flags
      BY <1>0, <2>1, <3>2 DEF Td!OffReel, Td!CommandObeyed, Td!ErrorEndsWriting
    <3> QED BY <2>1, <2>4, <3>1, <3>2 DEF Td!NewSpeed
  <2>5. CASE UNCHANGED <<motion, active, td_flags, attached, locks>>
             /\ (\/ motion[u].state = "STOP" /\ ~c.go
                 \/ motion[u].state = "DEC"
                 \/ Td!Fast(u) /\ c.go /\ motion[u].rev = c.rev)
    BY <1>0, <2>1, <2>5 DEF Td!CommandObeyed, Td!ErrorEndsWriting
  <2> QED BY <2>1, <2>3, <2>4, <2>5 DEF Td!NewSpeed
<1> QED BY <1>1, <1>2

LEMMA TdIotKept == ASSUME TdInv, Td!td77 PROVE TdInv'
<1> USE DEF TdInv, Td!TypeOK, TdCommands
<1>1. ASSUME NEW c \in TdCommands, Td!LoadCommand(c) PROVE TdInv'
  <2>1. CASE Td!Significant(c)
    BY <1>1, <2>1, NewSpeedKept DEF Td!LoadCommand
  <2>2. CASE ~Td!Significant(c)
    <3>1. /\ td_cmd' = c /\ td_tme' = FALSE
          /\ UNCHANGED <<motion, active, td_flags, attached, locks, obeys>>
          /\ c.unit = td_cmd.unit /\ c.go = td_cmd.go /\ c.rev = td_cmd.rev
      BY <1>1, <2>2 DEF Td!LoadCommand, Td!Significant
    <3> QED BY <3>1 DEF Td!CommandObeyed, Td!ErrorEndsWriting, Td!Fast
  <2> QED BY <2>1, <2>2
<1>2. CASE Td!ClearFlags
  BY <1>2, NoFlagsTyped DEF Td!ClearFlags, Td!CommandObeyed, Td!ErrorEndsWriting, Td!Fast
<1> QED BY <1>1, <1>2 DEF Td!td77

\* A line that passes changes nothing of the motion, and the command only so that it
\* writes no more.
LEMMA LineKept ==
    ASSUME TdInv, NEW u \in Drives, Td!Line(u)
    PROVE  /\ td_flags' \in [slf : BOOLEAN, qlf : BOOLEAN, qlctr : 0 .. DT_WSIZE - 1]
           /\ td_cmd' \in TdCommands /\ td_tme' \in BOOLEAN
           /\ td_cmd'.unit = td_cmd.unit /\ td_cmd'.go = td_cmd.go /\ td_cmd'.rev = td_cmd.rev
           /\ Td!ErrorEndsWriting'
<1> USE DEF TdInv, Td!TypeOK, TdCommands
<1>1. /\ td_cmd' \in TdCommands /\ td_tme' \in BOOLEAN
      /\ td_cmd'.unit = td_cmd.unit /\ td_cmd'.go = td_cmd.go /\ td_cmd'.rev = td_cmd.rev
      /\ Td!ErrorEndsWriting'
  <2>1. CASE Td!TooLate
    BY <2>1 DEF Td!TooLate, Td!ErrorEndsWriting
  <2>2. CASE UNCHANGED <<td_tme, td_cmd>>
    BY <2>2 DEF Td!ErrorEndsWriting
  <2> QED BY <2>1, <2>2 DEF Td!Line
<1>2. (td_flags.qlctr + 1) % DT_WSIZE \in 0 .. DT_WSIZE - 1
  <2>1. td_flags.qlctr \in 0 .. DT_WSIZE - 1 /\ DT_WSIZE \in Nat \ {0}
    BY TdDrives DEF Td!DrivesAssumption
  <2> HIDE DEF TdInv, Td!TypeOK
  <2> QED BY <2>1
<1>3. td_flags' \in [slf : BOOLEAN, qlf : BOOLEAN, qlctr : 0 .. DT_WSIZE - 1]
  <2> DEFINE count == (td_flags.qlctr + 1) % DT_WSIZE
             last == td_flags.qlctr = DT_WSIZE - 1
  <2>1. td_flags' = IF u # td_cmd.unit THEN td_flags
                    ELSE [slf |-> TRUE, qlf |-> td_flags.qlf \/ last, qlctr |-> count]
    BY DEF Td!Line
  <2>2. (td_flags.qlf \/ last) \in BOOLEAN
    OBVIOUS
  <2> HIDE DEF count, last
  <2> QED BY <1>2, <2>1, <2>2 DEF count
<1> QED BY <1>1, <1>3

LEMMA TdEventKept == ASSUME TdInv, NEW u \in Drives, Td!td_svc(u) PROVE TdInv'
<1> USE DEF TdInv, Td!TypeOK, Td!Fast, TdCommands, Motions
<1>1. ASSUME Td!AtRest(u), UNCHANGED <<td_flags, td_tme, td_cmd, attached, locks, obeys>>,
             u \in attached => motion[u].state = "STOP" \/ ~(u = td_cmd.unit /\ td_cmd.go)
      PROVE  TdInv'
  <2>1. /\ active' = active \ {u} /\ motion' = [motion EXCEPT ![u] = Td!Stopped]
        /\ motion'[u].state = "STOP" /\ \A v \in Drives \ {u} : motion'[v] = motion[v]
    BY <1>1, NoFlagsTyped DEF Td!AtRest
  <2>2. Td!TypeOK'
    BY <1>1, <2>1, NoFlagsTyped
  <2>3. Td!CommandObeyed' /\ Td!ErrorEndsWriting'
    BY <1>1, <2>1 DEF Td!CommandObeyed, Td!ErrorEndsWriting
  <2> QED BY <2>2, <2>3
<1>2. CASE motion[u].state = "STOP" \/ u \notin attached
  <2>1. CASE Td!AtRest(u) /\ UNCHANGED <<td_flags, td_tme, td_cmd, attached, locks, obeys>>
    BY <1>1, <1>2, <2>1
  <2> QED BY <1>2, <2>1 DEF Td!td_svc, Td!SlowedDown
<1>3. CASE u \in attached /\ Td!SlowedDown(u)
      /\ UNCHANGED <<td_flags, td_tme, td_cmd, attached, locks, obeys>>
  <2>1. CASE Td!SpeedsUp(u)
    <3>1. /\ Td!Motion("ACC", td_cmd.rev) \in Motions
          /\ motion' = [motion EXCEPT ![u] = Td!Motion("ACC", td_cmd.rev)] /\ active' = active \union {u}
      BY <1>3, <2>1 DEF Td!SlowedDown, Td!Moves, Td!Motion, Td!States
    <3>2. /\ motion'[u].state = "ACC" /\ motion'[u].rev = td_cmd.rev /\ td_cmd.go
          /\ \A v \in Drives \ {u} : motion'[v] = motion[v]
      BY <2>1, <3>1 DEF Td!Motion, Td!SpeedsUp
    <3>3. Td!TypeOK'
      BY <1>3, <3>1
    <3>4. Td!CommandObeyed' /\ Td!ErrorEndsWriting'
      BY <1>3, <3>1, <3>2 DEF Td!CommandObeyed, Td!ErrorEndsWriting
    <3> QED BY <3>3, <3>4
  <2> QED BY <1>1, <1>3, <2>1 DEF Td!SlowedDown, Td!SpeedsUp
<1>4. CASE /\ Td!Fast(u) /\ Td!Moves(u, Td!Motion("UTS", motion[u].rev)) /\ Td!Line(u)
           /\ UNCHANGED <<attached, locks, obeys>>
  <2>1. /\ Td!Motion("UTS", motion[u].rev) \in Motions
        /\ motion' = [motion EXCEPT ![u] = Td!Motion("UTS", motion[u].rev)] /\ active' = active \union {u}
    BY <1>4 DEF Td!Moves, Td!Motion, Td!States
  <2>2. /\ motion'[u].state = "UTS" /\ motion'[u].rev = motion[u].rev
        /\ \A v \in Drives \ {u} : motion'[v] = motion[v]
    BY <2>1 DEF Td!Motion
  <2>3. Td!TypeOK' /\ Td!ErrorEndsWriting'
    BY <1>4, <2>1, LineKept
  <2>4. td_cmd'.unit = td_cmd.unit /\ td_cmd'.go = td_cmd.go /\ td_cmd'.rev = td_cmd.rev
    BY <1>4, LineKept
  <2>5. Td!CommandObeyed'
    BY <1>4, <2>1, <2>2, <2>4 DEF Td!CommandObeyed
  <2> QED BY <2>3, <2>5
<1>5. CASE Td!OffReel(u) /\ UNCHANGED <<td_flags, td_tme, td_cmd, obeys>>
  BY <1>5 DEF Td!OffReel, Td!CommandObeyed, Td!ErrorEndsWriting
<1> QED BY <1>2, <1>3, <1>4, <1>5 DEF Td!td_svc

LEMMA TdStepKept == ASSUME TdInv, Td!Next PROVE TdInv'
<1> USE DEF TdInv, Td!TypeOK, Td!Fast, TdCommands, Motions
<1>1. CASE Td!td_clear
  <2>1. PICK off \in SUBSET {u \in locks : Td!Fast(u)},
             still \in SUBSET {u \in Drives \ attached : Td!Fast(u)} :
          LET slow == {u \in Drives : Td!Fast(u)} \ (off \union still)
          IN  /\ attached' = attached \ off /\ locks' = locks \ off
              /\ active' = (active \union slow) \ off
              /\ motion' = [u \in Drives |->
                    IF u \in slow THEN Td!Motion("DEC", motion[u].rev) ELSE motion[u]]
    BY <1>1 DEF Td!td_clear
  <2>2. /\ td_cmd' = Td!NoCommand /\ td_flags' = Td!NoFlags /\ UNCHANGED <<td_tme, obeys>>
    BY <1>1 DEF Td!td_clear
  <2>3. ASSUME NEW u \in Drives
        PROVE  /\ motion'[u] \in Motions
               /\ u \in attached' => ~Td!Fast(u)'
               /\ motion'[u].state # "STOP" => motion[u].state # "STOP"
    BY <2>1 DEF Td!Motion, Td!States
  <2>4. Td!TypeOK'
    BY <2>1, <2>2, <2>3, NoFlagsTyped
  <2>5. \A u \in attached' : motion'[u].state # "STOP" => u \in active'
    BY <2>1, <2>3 DEF Td!CommandObeyed
  <2>6. Td!CommandObeyed' /\ Td!ErrorEndsWriting'
    BY <2>2, <2>3, <2>4, <2>5, NoFlagsTyped DEF Td!CommandObeyed, Td!ErrorEndsWriting
  <2> QED BY <2>4, <2>6
<1>2. CASE Td!td_reset
  BY <1>2, NoFlagsTyped DEF Td!td_reset, Td!CommandObeyed, Td!ErrorEndsWriting
<1>3. ASSUME NEW u \in Drives, Td!td_attach(u) \/ Td!td_detach(u) PROVE TdInv'
  <2>1. /\ motion' = [motion EXCEPT ![u] = Td!Stopped]
        /\ motion'[u].state = "STOP" /\ \A v \in Drives \ {u} : motion'[v] = motion[v]
        /\ UNCHANGED <<td_cmd, td_flags, td_tme>>
        /\ active' \in {active, active \ {u}} /\ attached' \in {attached \union {u}, attached \ {u}}
        /\ locks' \subseteq Drives /\ obeys' \subseteq Drives
        /\ u \in attached' => obeys' = obeys \ {u}
        /\ u \notin attached' => obeys' = obeys
    BY <1>3, NoFlagsTyped DEF Td!td_attach, Td!td_detach, Td!AtRest
  <2>2. Td!TypeOK'
    BY <2>1, NoFlagsTyped
  <2>3. Td!CommandObeyed' /\ Td!ErrorEndsWriting'
    BY <2>1 DEF Td!CommandObeyed, Td!ErrorEndsWriting
  <2> QED BY <2>2, <2>3
<1> QED BY <1>1, <1>2, <1>3, TdIotKept, TdEventKept DEF Td!Next

----------------------------------------------------------------------------
(* The TM8E.  Beyond what the runs check: a drive at work that does not    *)
(* rewind no longer says that it stands at the beginning of its tape, for  *)
(* it lost its status when it took the command.                            *)
LeftTheBeginning ==
    polite => \A u \in active : "REW" \notin USTAT[u] => "BOT" \notin USTAT[u]

TmOrders == [unit : Units, func : Tm!Functions]
OrderTyped == ordered = <<>> \/ (ordered \in TmOrders /\ ordered # <<>>)

TmInv ==
    Tm!TypeOK /\ Tm!IntAgrees /\ Tm!StatusTrue /\ Tm!OrderStands /\ LeftTheBeginning /\ OrderTyped

Selection == [unit : Units, iee : BOOLEAN, ied : BOOLEAN]
TmStatus == SUBSET (Tm!STA_DYN \union Tm!Error)

\* mt_updcsta makes the request what the flags call for, whatever it was.
LEMMA UpdateAgrees ==
    ASSUME NEW u \in Units, NEW own \in TmStatus, Tm!mt_updcsta(u, own),
           USTAT' \in [Units -> SUBSET Tm!STA_DYN], mt_done' \in BOOLEAN, mt_cu' \in Selection
    PROVE  mt_sta' \in TmStatus /\ int_mt' \in BOOLEAN /\ Tm!IntAgrees'
<1>1. mt_sta' \in TmStatus /\ ("ERR" \in mt_sta' <=> "ERR" \in own)
  BY DEF Tm!mt_updcsta, TmStatus, Tm!STA_DYN, Tm!Error
<1>2. int_mt' = Tm!Calls(own, mt_done', mt_cu')
  BY DEF Tm!mt_updcsta
<1>3. Tm!Calls(own, mt_done', mt_cu') \in BOOLEAN
  BY DEF Tm!Calls
<1>4. Tm!Calls(own, mt_done', mt_cu') <=> Tm!Calls(mt_sta', mt_done', mt_cu')
  BY <1>1 DEF Tm!Calls
<1> QED BY <1>1, <1>2, <1>3, <1>4 DEF Tm!IntAgrees

\* What a step leaves alone that only tells the status and done.
LEMMA TmToldKept ==
    ASSUME TmInv, UNCHANGED <<USTAT, pos, active, attached, locks, polite, ordered>>,
           mt_cu' \in Selection, mt_fn' \in Tm!Functions, mt_done' \in BOOLEAN,
           mt_sta' \in TmStatus, int_mt' \in BOOLEAN, Tm!IntAgrees',
           polite => \/ Tm!mt_busy = {}
                     \/ mt_cu' = mt_cu /\ mt_fn' = mt_fn /\ (mt_done' => mt_done)
    PROVE  TmInv'
<1>1. Tm!TypeOK' /\ OrderTyped'
  BY DEF TmInv, Tm!TypeOK, Selection, TmStatus, OrderTyped
<1>2. Tm!StatusTrue' /\ LeftTheBeginning'
  BY DEF TmInv, Tm!StatusTrue, LeftTheBeginning
<1>3. Tm!mt_busy' = Tm!mt_busy
  BY DEF Tm!mt_busy
<1>4. Tm!OrderStands'
  BY <1>3 DEF TmInv, Tm!OrderStands
<1> QED BY <1>1, <1>2, <1>4 DEF TmInv

\* A command that a drive takes.
LEMMA StartKept ==
    ASSUME TmInv, NEW func \in Tm!Functions, NEW status \in SUBSET Tm!STA_DYN,
           Tm!Start(func, status), mt_done' \in BOOLEAN,
           "BOT" \notin status,
           IF "REW" \in status THEN ordered' = ordered
           ELSE /\ ordered' = IF polite THEN [unit |-> mt_cu.unit, func |-> func] ELSE <<>>
                /\ ~mt_done',
           attached' \subseteq attached,
           \A u \in Units \ {mt_cu.unit} : u \in attached => u \in attached',
           IF "REM" \in status THEN mt_cu.unit \notin attached' ELSE mt_cu.unit \in attached'
    PROVE  TmInv'
<1> DEFINE u == mt_cu.unit
<1>0. /\ u \in Units /\ mt_cu \in Selection /\ mt_sta \in TmStatus /\ polite \in BOOLEAN
      /\ USTAT \in [Units -> SUBSET Tm!STA_DYN]
  BY DEF TmInv, Tm!TypeOK, Selection, TmStatus
<1>1. /\ mt_fn' = func /\ USTAT' = [USTAT EXCEPT ![u] = status] /\ active' = active \union {u}
      /\ UNCHANGED <<mt_cu, pos, locks, polite>> /\ Tm!mt_updcsta(u, mt_sta \union Tm!BusyError)
      /\ (polite => Tm!mt_busy = {}) /\ u \notin active
  BY DEF Tm!Start, Tm!Ready, Tm!Refuses
<1>2. USTAT' \in [Units -> SUBSET Tm!STA_DYN] /\ USTAT'[u] = status
      /\ \A v \in Units \ {u} : USTAT'[v] = USTAT[v]
  BY <1>0, <1>1
<1>3. mt_sta \union Tm!BusyError \in TmStatus
  BY <1>0 DEF TmStatus, Tm!BusyError
<1>4. mt_sta' \in TmStatus /\ int_mt' \in BOOLEAN /\ Tm!IntAgrees'
  <2>1. mt_cu' \in Selection
    BY <1>0, <1>1
  <2> QED BY <1>0, <1>1, <1>2, <1>3, <2>1, UpdateAgrees
<1>5. OrderTyped'
  <2>1. [unit |-> u, func |-> func] \in TmOrders /\ [unit |-> u, func |-> func] # <<>>
    BY <1>0 DEF TmOrders
  <2> QED BY <2>1 DEF OrderTyped, TmInv
<1>6. Tm!TypeOK'
  BY <1>0, <1>1, <1>2, <1>4 DEF TmInv, Tm!TypeOK, TmStatus
<1>7. Tm!StatusTrue' /\ LeftTheBeginning'
  <2>1. ASSUME NEW v \in Units \ {u}
        PROVE  USTAT'[v] = USTAT[v] /\ pos'[v] = pos[v] /\ (v \in active' <=> v \in active)
               /\ (v \in attached' <=> v \in attached)
    BY <1>1, <1>2
  <2> QED BY <1>0, <1>1, <1>2, <2>1 DEF TmInv, Tm!StatusTrue, LeftTheBeginning, Tm!TypeOK
<1>8. Tm!OrderStands'
  <2>1. Tm!mt_busy' = IF "REW" \in status THEN Tm!mt_busy ELSE Tm!mt_busy \union {u}
    BY <1>0, <1>1, <1>2 DEF Tm!mt_busy, TmInv, Tm!TypeOK
  <2>2. CASE ~polite
    BY <1>1, <2>2 DEF Tm!OrderStands
  <2>3. CASE polite /\ "REW" \in status
    <3>1. ordered = <<>>
      BY <1>1, <2>3 DEF TmInv, Tm!OrderStands
    <3> QED BY <1>1, <2>1, <2>3, <3>1 DEF Tm!OrderStands
  <2>4. CASE polite /\ "REW" \notin status
    <3>1. /\ ordered' = [unit |-> u, func |-> func] /\ ordered' # <<>> /\ ~mt_done'
          /\ ordered'.unit = u /\ ordered'.func = func /\ Tm!mt_busy' = {u}
      BY <1>1, <2>1, <2>4
    <3> QED BY <1>1, <3>1 DEF Tm!OrderStands
  <2> QED BY <1>0, <2>2, <2>3, <2>4
<1> QED BY <1>4, <1>5, <1>6, <1>7, <1>8 DEF TmInv

LEMMA TmResetKept == ASSUME TmInv, Tm!mt_reset PROVE TmInv'
<1>1. /\ mt_cu' = [unit |-> 0, iee |-> FALSE, ied |-> FALSE] /\ mt_fn' = "UNLOAD"
      /\ mt_sta' = {} /\ mt_done' = FALSE /\ int_mt' = FALSE /\ active' = {} /\ ordered' = <<>>
      /\ UNCHANGED <<pos, attached, locks, polite>>
  BY DEF Tm!mt_reset, Tm!mediavars
<1>2. /\ USTAT' \in [Units -> SUBSET Tm!STA_DYN]
      /\ \A u \in Units : /\ "BOT" \in USTAT'[u] => u \in attached /\ pos[u] = 0
                          /\ "REM" \in USTAT'[u] => u \notin attached
                          /\ "REW" \notin USTAT'[u]
  BY DEF Tm!mt_reset, Tm!STA_DYN
<1>3. mt_cu' \in Selection
  BY <1>1, TmDrives DEF Tm!DrivesAssumption, Selection
<1>4. Tm!TypeOK' /\ OrderTyped'
  BY <1>1, <1>2, <1>3 DEF TmInv, Tm!TypeOK, OrderTyped, Selection, Tm!Functions
<1>5. Tm!IntAgrees'
  BY <1>1 DEF Tm!IntAgrees, Tm!Calls
<1>6. Tm!StatusTrue' /\ LeftTheBeginning'
  BY <1>1, <1>2 DEF Tm!StatusTrue, LeftTheBeginning
<1>7. Tm!OrderStands'
  BY <1>1 DEF Tm!OrderStands, Tm!mt_busy
<1> QED BY <1>4, <1>5, <1>6, <1>7 DEF TmInv

\* An IOT that finds the controller of a polite program ready, or changes nothing
\* but the status and done of one that is busy.
LEMMA TmIotKept == ASSUME TmInv, Tm!mt PROVE TmInv'
<1>0. /\ mt_cu \in Selection /\ mt_cu.unit \in Units /\ mt_sta \in TmStatus /\ mt_fn \in Tm!Functions
      /\ mt_done \in BOOLEAN /\ polite \in BOOLEAN /\ USTAT \in [Units -> SUBSET Tm!STA_DYN]
      /\ Tm!BusyError \in TmStatus
      /\ mt_sta \union Tm!BusyError \in TmStatus /\ mt_sta \union Tm!Error \in TmStatus
  BY DEF TmInv, Tm!TypeOK, Selection, TmStatus, Tm!BusyError, Tm!Error
<1>1. ASSUME NEW cu \in Selects, Tm!LCMR(cu) PROVE TmInv'
  <2>1. /\ mt_cu' = cu /\ cu \in Selection /\ (polite => Tm!mt_busy = {})
        /\ UNCHANGED <<mt_fn, mt_done, USTAT, pos, active, attached, locks, polite, ordered>>
        /\ Tm!mt_updcsta(cu.unit, mt_sta \union Tm!BusyError)
    BY <1>1, TmDrives DEF Tm!LCMR, Tm!Ready, Tm!mediavars, Tm!DrivesAssumption, Selection
  <2>2. cu.unit \in Units
    BY <2>1 DEF Selection
  <2>3. mt_sta' \in TmStatus /\ int_mt' \in BOOLEAN /\ Tm!IntAgrees'
    BY <1>0, <2>1, <2>2, UpdateAgrees
  <2> QED BY <1>0, <2>1, <2>3, TmToldKept
<1>2. CASE Tm!LDBR
  <2>1. /\ mt_done' = TRUE /\ (polite => Tm!mt_busy = {})
        /\ UNCHANGED <<mt_cu, mt_fn, USTAT, pos, active, attached, locks, polite, ordered>>
        /\ Tm!mt_updcsta(mt_cu.unit, mt_sta \union Tm!BusyError)
    BY <1>2 DEF Tm!LDBR, Tm!Ready, Tm!mediavars
  <2>2. mt_sta' \in TmStatus /\ int_mt' \in BOOLEAN /\ Tm!IntAgrees'
    BY <1>0, <2>1, UpdateAgrees
  <2> QED BY <1>0, <2>1, <2>2, TmToldKept
<1>3. ASSUME NEW func \in Tm!Functions, Tm!LoadFunction(func) \/ Tm!Refused(func) PROVE TmInv'
  <2>1. /\ mt_fn' = func /\ mt_done' \in BOOLEAN /\ (polite => Tm!mt_busy = {})
        /\ UNCHANGED <<mt_cu, USTAT, pos, active, attached, locks, polite, ordered>>
        /\ \/ Tm!mt_updcsta(mt_cu.unit, mt_sta \union Tm!BusyError)
           \/ Tm!mt_updcsta(mt_cu.unit, mt_sta \union Tm!Error)
    BY <1>0, <1>3 DEF Tm!LoadFunction, Tm!Refused, Tm!Ready, Tm!mediavars
  <2>2. mt_sta' \in TmStatus /\ int_mt' \in BOOLEAN /\ Tm!IntAgrees'
    BY <1>0, <2>1, UpdateAgrees
  <2> QED BY <1>0, <2>1, <2>2, TmToldKept
<1>4. CASE Tm!Unload
  <2>1. {"REW", "REM"} \in SUBSET Tm!STA_DYN
    BY DEF Tm!STA_DYN
  <2> QED BY <1>0, <1>4, <2>1, StartKept DEF Tm!Unload, Tm!Functions
<1>5. CASE Tm!Rewind
  <2>1. Tm!Locked(mt_cu.unit) \union {"REW"} \in SUBSET Tm!STA_DYN
    BY DEF Tm!STA_DYN, Tm!Locked
  <2>2. "BOT" \notin Tm!Locked(mt_cu.unit) \union {"REW"}
        /\ "REM" \notin Tm!Locked(mt_cu.unit) \union {"REW"}
    BY DEF Tm!Locked
  <2>3. mt_cu.unit \in attached
    BY <1>5 DEF Tm!Rewind, Tm!Start, Tm!Refuses
  <2> QED BY <1>0, <1>5, <2>1, <2>2, <2>3, StartKept DEF Tm!Rewind, Tm!Functions
<1>6. ASSUME NEW func \in Tm!Functions, Tm!Go(func) PROVE TmInv'
  <2>1. Tm!Locked(mt_cu.unit) \in SUBSET Tm!STA_DYN
    BY DEF Tm!STA_DYN, Tm!Locked
  <2>2. /\ "BOT" \notin Tm!Locked(mt_cu.unit) /\ "REM" \notin Tm!Locked(mt_cu.unit)
        /\ "REW" \notin Tm!Locked(mt_cu.unit)
    BY DEF Tm!Locked
  <2>3. mt_cu.unit \in attached
    BY <1>6 DEF Tm!Go, Tm!Start, Tm!Refuses
  <2> QED BY <1>0, <1>6, <2>1, <2>2, <2>3, StartKept DEF Tm!Go
<1>7. CASE Tm!ReadStatus
  <2>1. /\ UNCHANGED <<mt_cu, mt_fn, mt_done, USTAT, pos, active, attached, locks, polite, ordered>>
        /\ Tm!mt_updcsta(mt_cu.unit, mt_sta)
    BY <1>7 DEF Tm!ReadStatus, Tm!mediavars
  <2>2. mt_sta' \in TmStatus /\ int_mt' \in BOOLEAN /\ Tm!IntAgrees'
    BY <1>0, <2>1, UpdateAgrees
  <2> QED BY <1>0, <2>1, <2>2, TmToldKept
<1>8. CASE Tm!ClearFlags
  <2>1. CASE Tm!mt_reset
    BY <2>1, TmResetKept
  <2>2. CASE ~Tm!mt_reset
    <3>1. /\ mt_done' = FALSE
          /\ UNCHANGED <<mt_cu, mt_fn, USTAT, pos, active, attached, locks, polite, ordered>>
          /\ Tm!mt_updcsta(mt_cu.unit, {})
      BY <1>8, <2>2 DEF Tm!ClearFlags, Tm!mediavars
    <3>2. {} \in TmStatus
      BY DEF TmStatus
    <3>3. mt_sta' \in TmStatus /\ int_mt' \in BOOLEAN /\ Tm!IntAgrees'
      BY <1>0, <3>1, <3>2, UpdateAgrees
    <3> QED BY <1>0, <3>1, <3>3, TmToldKept
  <2> QED BY <2>1, <2>2
<1> QED
  BY <1>1, <1>2, <1>3, <1>4, <1>5, <1>6, <1>7, <1>8 DEF Tm!mt, Tm!LFGR

\* The end of what a drive was at: the order of a polite program is over with it, and
\* a drive that comes to the end of its rewinding is not the one with the order.
LEMMA EndsKept ==
    ASSUME TmInv, NEW u \in active, Tm!Ends(u),
           USTAT' \in [Units -> SUBSET Tm!STA_DYN], pos' \in [Units -> 0 .. Records],
           \A v \in Units \ {u} : USTAT'[v] = USTAT[v] /\ pos'[v] = pos[v],
           polite /\ "BOT" \in USTAT'[u] => u \in attached /\ pos'[u] = 0,
           polite /\ "REM" \in USTAT'[u] => u \notin attached,
           "REW" \notin USTAT'[u],
           mt_sta' \in TmStatus, int_mt' \in BOOLEAN, mt_done' \in BOOLEAN, Tm!IntAgrees',
           IF "REW" \in USTAT[u] THEN ordered' = ordered /\ (mt_done' = mt_done \/ u = mt_cu.unit)
           ELSE Tm!Over(u)
    PROVE  TmInv'
<1>0. /\ active' = active \ {u} /\ UNCHANGED <<mt_cu, mt_fn, attached, locks, polite>>
      /\ u \in Units /\ active \subseteq Units
  BY DEF Tm!Ends, Tm!mediavars, TmInv, Tm!TypeOK
<1>1. Tm!TypeOK'
  BY <1>0 DEF TmInv, Tm!TypeOK, TmStatus
<1>2. Tm!StatusTrue' /\ LeftTheBeginning'
  BY <1>0 DEF TmInv, Tm!StatusTrue, LeftTheBeginning
<1>3. OrderTyped'
  BY DEF TmInv, OrderTyped, Tm!Over
<1>4. Tm!OrderStands'
  <2>1. Tm!mt_busy' = IF "REW" \in USTAT[u] THEN Tm!mt_busy ELSE Tm!mt_busy \ {u}
    BY <1>0 DEF Tm!mt_busy
  <2>2. "REW" \notin USTAT[u] => u \in Tm!mt_busy
    BY DEF Tm!mt_busy
  <2>3. "REW" \in USTAT[u] => u \notin Tm!mt_busy
    BY DEF Tm!mt_busy
  <2>4. CASE "REW" \in USTAT[u]
    BY <1>0, <2>1, <2>3, <2>4 DEF TmInv, Tm!OrderStands
  <2>5. CASE "REW" \notin USTAT[u] /\ polite
    <3>1. ordered # <<>> /\ ordered.unit = u /\ Tm!mt_busy = {u}
      BY <2>2, <2>5 DEF TmInv, Tm!OrderStands
    <3>2. ordered' = <<>> /\ Tm!mt_busy' = {}
      BY <2>1, <2>5, <3>1 DEF Tm!Over
    <3> QED BY <3>2 DEF Tm!OrderStands
  <2>6. CASE ~polite
    BY <1>0, <2>6 DEF Tm!OrderStands
  <2> QED BY <2>4, <2>5, <2>6
<1> QED BY <1>1, <1>2, <1>3, <1>4 DEF TmInv

\* Where a function leaves the tape: on it, and at its beginning if it says so.
LEMMA ResultsTyped ==
    ASSUME TmInv, NEW u \in Units, NEW r \in Tm!Results(u)
    PROVE  /\ r.to \in 0 .. Records /\ r.errors \in SUBSET Tm!Error
           /\ r.status \in SUBSET {"BOT", "EOF"} /\ ("BOT" \in r.status => r.to = 0)
<1> DEFINE p == pos[u]
           Good(x) == /\ x.to \in 0 .. Records /\ x.errors \in SUBSET Tm!Error
                      /\ x.status \in SUBSET {"BOT", "EOF"} /\ ("BOT" \in x.status => x.to = 0)
<1>1. p \in 0 .. Records /\ Records \in Nat
  BY TmDrives DEF TmInv, Tm!TypeOK, Tm!DrivesAssumption
<1>2. ASSUME NEW to \in 0 .. Records, NEW errors \in SUBSET Tm!Error, NEW status \in SUBSET {"BOT", "EOF"},
             "BOT" \in status => to = 0
      PROVE  Good(Tm!Result(to, errors, status))
  BY <1>2 DEF Tm!Result
<1>3. Tm!Error \in SUBSET Tm!Error /\ {} \in SUBSET Tm!Error
  OBVIOUS
<1> HIDE DEF Good
<1>4. \A x \in Tm!Read(p) : Good(x)
  BY <1>1, <1>2, <1>3 DEF Tm!Read
<1>5. \A x \in Tm!Write(p, u \in locks) : Good(x)
  BY <1>1, <1>2, <1>3 DEF Tm!Write
<1>6. ASSUME NEW q \in 0 .. Records PROVE \A x \in Tm!Marked(q) : Good(x)
  BY <1>2, <1>3 DEF Tm!Marked
<1>7. \A x \in Tm!SpaceForward(p) : Good(x)
  <2>1. p .. Records \subseteq 0 .. Records /\ p + 1 .. Records \subseteq 0 .. Records
    BY <1>1
  <2> QED BY <1>2, <1>3, <1>6, <2>1 DEF Tm!SpaceForward
<1>8. \A x \in Tm!SpaceReverse(p) : Good(x)
  <2>1. 0 .. p \subseteq 0 .. Records /\ 0 .. p - 1 \subseteq 0 .. Records /\ 0 \in 0 .. Records
    BY <1>1
  <2> QED BY <1>2, <1>3, <1>6, <2>1 DEF Tm!SpaceReverse
<1>9. Good(Tm!Result(p, {}, {}))
  BY <1>1, <1>2, <1>3
<1>10. Good(r)
  BY <1>4, <1>5, <1>7, <1>8, <1>9 DEF Tm!Results
<1> QED BY <1>10 DEF Good

LEMMA TmEventKept == ASSUME TmInv, NEW u \in Units, Tm!mt_svc(u) PROVE TmInv'
<1>0. /\ u \in active /\ Tm!Ends(u) /\ UNCHANGED <<mt_cu, mt_fn, attached, locks, polite>>
      /\ mt_cu \in Selection /\ mt_cu.unit \in Units /\ mt_sta \in TmStatus
      /\ mt_sta \union Tm!Error \in TmStatus /\ mt_done \in BOOLEAN /\ int_mt \in BOOLEAN
      /\ USTAT \in [Units -> SUBSET Tm!STA_DYN] /\ pos \in [Units -> 0 .. Records]
      /\ Records \in Nat /\ polite \in BOOLEAN
  BY TmDrives
  DEF Tm!mt_svc, Tm!Ends, Tm!mediavars, TmInv, Tm!TypeOK, Selection, TmStatus, Tm!Error, Tm!DrivesAssumption
<1>1. CASE Tm!Rewound(u)
  <2> DEFINE status == IF u \in attached THEN Tm!Locked(u) \union {"BOT"} ELSE {"REM"}
  <2>1. status \in SUBSET Tm!STA_DYN /\ "REW" \notin status
        /\ ("BOT" \in status => u \in attached) /\ ("REM" \in status => u \notin attached)
    BY DEF Tm!Locked, Tm!STA_DYN
  <2>2. /\ pos' = [pos EXCEPT ![u] = 0] /\ USTAT' = [USTAT EXCEPT ![u] = status] /\ ordered' = ordered
        /\ "REW" \in USTAT[u]
    BY <1>1 DEF Tm!Rewound
  <2> HIDE DEF status
  <2>3. /\ USTAT' \in [Units -> SUBSET Tm!STA_DYN] /\ USTAT'[u] = status
        /\ pos' \in [Units -> 0 .. Records] /\ pos'[u] = 0
        /\ \A v \in Units \ {u} : USTAT'[v] = USTAT[v] /\ pos'[v] = pos[v]
    BY <1>0, <2>1, <2>2
  <2>4. CASE u = mt_cu.unit
    <3>1. mt_done' = TRUE /\ Tm!mt_updcsta(u, mt_sta)
      BY <1>1, <2>4 DEF Tm!Rewound
    <3>2. mt_sta' \in TmStatus /\ int_mt' \in BOOLEAN /\ Tm!IntAgrees'
      BY <1>0, <2>3, <3>1, UpdateAgrees
    <3> QED BY <1>0, <2>1, <2>2, <2>3, <2>4, <3>1, <3>2, EndsKept
  <2>5. CASE u # mt_cu.unit
    <3>1. UNCHANGED <<mt_done, mt_sta, int_mt>>
      BY <1>1, <2>5 DEF Tm!Rewound
    <3>2. mt_sta' \in TmStatus /\ int_mt' \in BOOLEAN /\ Tm!IntAgrees'
      BY <1>0, <3>1 DEF TmInv, Tm!IntAgrees, Tm!Calls
    <3> QED BY <1>0, <2>1, <2>2, <2>3, <2>5, <3>1, <3>2, EndsKept
  <2> QED BY <2>4, <2>5
<1>2. CASE Tm!NotMounted(u)
  <2>1. /\ USTAT' = [USTAT EXCEPT ![u] = {"REM"}] /\ mt_done' = TRUE /\ pos' = pos /\ Tm!Over(u)
        /\ Tm!mt_updcsta(u, mt_sta \union Tm!Error) /\ u \notin attached /\ "REW" \notin USTAT[u]
    BY <1>2 DEF Tm!NotMounted
  <2>2. /\ USTAT' \in [Units -> SUBSET Tm!STA_DYN] /\ USTAT'[u] = {"REM"}
        /\ \A v \in Units \ {u} : USTAT'[v] = USTAT[v]
    BY <1>0, <2>1 DEF Tm!STA_DYN
  <2>3. mt_sta' \in TmStatus /\ int_mt' \in BOOLEAN /\ Tm!IntAgrees'
    BY <1>0, <2>1, <2>2, UpdateAgrees
  <2> QED BY <1>0, <2>1, <2>2, <2>3, EndsKept
<1>3. CASE Tm!Performed(u)
  <2>1. PICK r \in Tm!Results(u) :
          /\ pos' = [pos EXCEPT ![u] = r.to]
          /\ USTAT' = [USTAT EXCEPT ![u] = @ \union r.status]
          /\ mt_done' = TRUE /\ Tm!mt_updcsta(u, mt_sta \union r.errors)
    BY <1>3 DEF Tm!Performed
  <2>2. "REW" \notin USTAT[u] /\ u \in attached /\ Tm!Over(u)
    BY <1>3 DEF Tm!Performed
  <2>3. /\ r.to \in 0 .. Records /\ r.errors \in SUBSET Tm!Error
        /\ r.status \in SUBSET {"BOT", "EOF"} /\ ("BOT" \in r.status => r.to = 0)
    BY ResultsTyped
  <2>4. USTAT[u] \union r.status \in SUBSET Tm!STA_DYN /\ mt_sta \union r.errors \in TmStatus
    BY <1>0, <2>3 DEF Tm!STA_DYN, TmStatus, Tm!Error
  <2>5. /\ USTAT' \in [Units -> SUBSET Tm!STA_DYN] /\ USTAT'[u] = USTAT[u] \union r.status
        /\ pos' \in [Units -> 0 .. Records] /\ pos'[u] = r.to
        /\ \A v \in Units \ {u} : USTAT'[v] = USTAT[v] /\ pos'[v] = pos[v]
    BY <1>0, <2>1, <2>3, <2>4
  <2>6. polite => "BOT" \notin USTAT[u] /\ "REM" \notin USTAT[u]
    BY <1>0, <2>2 DEF TmInv, LeftTheBeginning, Tm!StatusTrue
  <2>7. mt_sta' \in TmStatus /\ int_mt' \in BOOLEAN /\ Tm!IntAgrees'
    BY <1>0, <2>1, <2>4, <2>5, UpdateAgrees
  <2> QED BY <1>0, <2>1, <2>2, <2>3, <2>5, <2>6, <2>7, EndsKept
<1> QED BY <1>1, <1>2, <1>3 DEF Tm!mt_svc

\* A tape changed.
LEMMA TmOperatorKept ==
    ASSUME TmInv, NEW u \in Units, Tm!mt_attach(u) \/ Tm!mt_detach(u) PROVE TmInv'
<1>0. /\ mt_cu \in Selection /\ mt_cu.unit \in Units /\ mt_sta \in TmStatus
      /\ mt_done \in BOOLEAN /\ int_mt \in BOOLEAN /\ attached \subseteq Units /\ locks \subseteq Units
      /\ USTAT \in [Units -> SUBSET Tm!STA_DYN] /\ pos \in [Units -> 0 .. Records]
      /\ Records \in Nat /\ polite \in BOOLEAN
  BY TmDrives DEF TmInv, Tm!TypeOK, Selection, TmStatus, Tm!DrivesAssumption
<1>1. /\ UNCHANGED <<mt_cu, mt_fn, mt_done, active, polite, ordered>> /\ (polite => u \notin active)
      /\ IF u = mt_cu.unit THEN Tm!mt_updcsta(u, mt_sta) ELSE UNCHANGED <<mt_sta, int_mt>>
      /\ attached' \in {attached \union {u}, attached \ {u}} /\ locks' \in {locks \union {u}, locks \ {u}}
  BY DEF Tm!mt_attach, Tm!mt_detach, Tm!Careful
<1>2. PICK status \in SUBSET Tm!STA_DYN :
         /\ USTAT' = [USTAT EXCEPT ![u] = status]
         /\ u \notin active => "REW" \notin status
         /\ polite => /\ "REM" \in status => u \notin attached'
                      /\ "BOT" \in status => u \in attached' /\ pos' = [pos EXCEPT ![u] = 0]
  <2>1. CASE Tm!mt_attach(u)
    <3>1. PICK readonly \in BOOLEAN :
            USTAT' = [USTAT EXCEPT ![u] = {"BOT"} \union (IF readonly THEN {"WLK"} ELSE {})]
      BY <2>1 DEF Tm!mt_attach
    <3>2. {"BOT"} \union (IF readonly THEN {"WLK"} ELSE {}) \in SUBSET Tm!STA_DYN
      BY DEF Tm!STA_DYN
    <3>3. u \in attached' /\ pos' = [pos EXCEPT ![u] = 0]
      BY <2>1 DEF Tm!mt_attach
    <3>4. /\ "REM" \notin {"BOT"} \union (IF readonly THEN {"WLK"} ELSE {})
          /\ "REW" \notin {"BOT"} \union (IF readonly THEN {"WLK"} ELSE {})
      OBVIOUS
    <3> QED BY <3>1, <3>2, <3>3, <3>4
  <2>2. CASE Tm!mt_detach(u) /\ u \notin active
    <3>1. USTAT' = [USTAT EXCEPT ![u] = {"REM"}] /\ u \notin attached'
      BY <2>2 DEF Tm!mt_detach, Tm!OffLine
    <3>2. {"REM"} \in SUBSET Tm!STA_DYN
      BY DEF Tm!STA_DYN
    <3> QED BY <3>1, <3>2
  <2>3. CASE Tm!mt_detach(u) /\ u \in active
    <3>1. USTAT' = [USTAT EXCEPT ![u] = USTAT[u]] /\ ~polite /\ USTAT[u] \in SUBSET Tm!STA_DYN
      BY <1>0, <1>1, <2>3 DEF Tm!mt_detach, Tm!OffLine
    <3> QED BY <2>3, <3>1
  <2> QED BY <2>1, <2>2, <2>3
<1>3. pos' \in {pos, [pos EXCEPT ![u] = 0]}
  BY DEF Tm!mt_attach, Tm!mt_detach
<1>4. /\ USTAT' \in [Units -> SUBSET Tm!STA_DYN] /\ USTAT'[u] = status
      /\ pos' \in [Units -> 0 .. Records]
      /\ \A v \in Units \ {u} : USTAT'[v] = USTAT[v] /\ pos'[v] = pos[v]
         /\ (v \in attached' <=> v \in attached)
  BY <1>0, <1>1, <1>2, <1>3
<1>5. mt_sta' \in TmStatus /\ int_mt' \in BOOLEAN /\ Tm!IntAgrees'
  <2>1. CASE u = mt_cu.unit
    BY <1>0, <1>1, <1>4, <2>1, UpdateAgrees
  <2>2. CASE u # mt_cu.unit
    BY <1>0, <1>1, <2>2 DEF TmInv, Tm!IntAgrees, Tm!Calls
  <2> QED BY <2>1, <2>2
<1>6. Tm!TypeOK'
  BY <1>0, <1>1, <1>4, <1>5 DEF TmInv, Tm!TypeOK, TmStatus
<1>7. Tm!StatusTrue' /\ LeftTheBeginning'
  BY <1>0, <1>1, <1>2, <1>4 DEF TmInv, Tm!StatusTrue, LeftTheBeginning, Tm!TypeOK
<1>8. Tm!OrderStands' /\ OrderTyped'
  <2>1. polite => Tm!mt_busy' = Tm!mt_busy
    BY <1>0, <1>1, <1>4 DEF Tm!mt_busy, TmInv, Tm!TypeOK
  <2> QED BY <1>0, <1>1, <2>1 DEF TmInv, Tm!OrderStands, OrderTyped
<1> QED BY <1>5, <1>6, <1>7, <1>8 DEF TmInv

LEMMA TmInitHolds == Tm!Init => TmInv
BY TmDrives
DEF Tm!DrivesAssumption, Tm!Init, TmInv, Tm!TypeOK, Tm!IntAgrees, Tm!Calls, Tm!StatusTrue, Tm!OrderStands,
    Tm!mt_busy, LeftTheBeginning, OrderTyped, Tm!Functions, Tm!STA_DYN

LEMMA TmStepKept == ASSUME TmInv, Tm!Next PROVE TmInv'
BY TmIotKept, TmResetKept, TmEventKept, TmOperatorKept DEF Tm!Next

----------------------------------------------------------------------------
(* The TA8E.                                                               *)
Blocks == {"R", "M"}

CtRegisters ==
    /\ ct_sra \in [enab : BOOLEAN, unit : Units, func : Ct!Functions, ie : BOOLEAN]
    /\ ct_srb \subseteq Ct!ALLERR \union {"REW", "WLK", "RDY"}
    /\ ct_df \in BOOLEAN /\ ct_write \in BOOLEAN /\ int_ct \in BOOLEAN
    /\ ct_bptr \in 0 .. CT_MAXFR + 2 /\ ct_blnt \in 0 .. CT_MAXFR + 2
    /\ FNC \in [func : Ct!Functions, second : BOOLEAN]

CtMedia ==
    /\ UST \in [Units -> SUBSET Ct!BothWays]
    /\ tape \in [Units -> Seq(Blocks)] /\ at \in [Units -> Nat]
    /\ \A u \in Units : Len(tape[u]) <= Capacity /\ at[u] <= Len(tape[u])
    /\ active \subseteq Units /\ attached \subseteq Units /\ locks \subseteq Units

CtHistory ==
    /\ polite \in BOOLEAN /\ chars \in Nat
    /\ said \in [Units -> Nat] /\ before \in [Units -> Nat]

\* While a drive is at work, ct_write tells a command that writes until the block is
\* closed; the data flag belongs to commands that move characters, and is down when
\* the block is to be closed; a read begins with an empty buffer.
WorkUnderWay ==
    active # {} =>
        /\ FNC.func # "CRC" => (ct_write <=> FNC.func \in Ct!Writes)
        /\ FNC.func = "CRC" /\ ct_write => ~FNC.second
        /\ FNC.func = "CRC" /\ ~FNC.second => ~ct_df
        /\ FNC.func \notin {"READ", "WRITE", "CRC"} => ~ct_df
        /\ FNC.func = "READ" /\ ~FNC.second => ct_bptr = 0

\* A gap that was reported is the one the head is at, on the side where the drive has
\* come to it.
AtTheGap ==
    \A u \in Units :
        said[u] # 0 =>
            /\ u \notin active /\ "GAP" \in UST[u]
            /\ said[u] <= Len(tape[u]) /\ said[u] # before[u]
            /\ "REV" \in UST[u] => at[u] = said[u] - 1
            /\ "REV" \notin UST[u] => at[u] = said[u]

\* A drive that started from a gap has it behind, and runs as its command says.
GapBehind ==
    \A u \in active :
        /\ FNC.func \in {"READ", "SFF"} => before[u] <= at[u] /\ "REV" \notin UST[u]
        /\ FNC.func \in Ct!Reverse =>
              /\ before[u] # 0 => at[u] < before[u]
              /\ "REV" \in UST[u] \/ at[u] = 0

OneAtWork == \A u, v \in active : u = v

CtGaps == AtTheGap /\ GapBehind /\ OneAtWork

CtInv ==
    /\ CtRegisters /\ CtMedia /\ CtHistory
    /\ Ct!IntAgrees /\ WorkUnderWay /\ Ct!CharsKept
    /\ CtGaps
CtBits == Ct!ALLERR \union {"REW", "WLK", "RDY"}
CtLoad == [enab : BOOLEAN, unit : Units, func : Ct!Functions, ie : BOOLEAN]

LEMMA CtInitHolds == Ct!Init => CtInv
<1> SUFFICES ASSUME Ct!Init PROVE CtInv
  OBVIOUS
<1> USE CtTapes DEF Ct!TapesAssumption, Ct!Init, Ct!Cleared, Ct!First
<1>1. CtRegisters
  <2>1. ct_sra \in [enab : BOOLEAN, unit : Units, func : Ct!Functions, ie : BOOLEAN]
    BY DEF Ct!Functions, Ct!Forward
  <2>2. FNC \in [func : Ct!Functions, second : BOOLEAN]
    BY DEF Ct!Functions, Ct!Forward
  <2> QED BY <2>1, <2>2 DEF CtRegisters
<1>2. CtMedia
  BY DEF CtMedia
<1>3. CtHistory
  BY DEF CtHistory
<1>4. Ct!IntAgrees
  BY DEF Ct!IntAgrees, Ct!Calls
<1> QED
  BY <1>1, <1>2, <1>3, <1>4
  DEF CtInv, WorkUnderWay, Ct!CharsKept, CtGaps, AtTheGap, GapBehind, OneAtWork

\* The status is brought up to date.
LEMMA StatusUpdated ==
    ASSUME NEW own \in SUBSET CtBits, NEW of, Ct!ct_updsta(own, of)
    PROVE  /\ ct_srb' \subseteq CtBits
           /\ ct_srb' \cap {"TIM", "CRC"} = own \cap {"TIM", "CRC"}
           /\ int_ct' \in BOOLEAN
           /\ int_ct' <=> Ct!Calls(ct_sra, ct_srb, ct_df)'
           /\ Ct!IntAgrees'
<1>1. ASSUME NEW u PROVE /\ Ct!Lit(u, own) \subseteq CtBits
                         /\ Ct!Lit(u, own) \cap {"TIM", "CRC"} = own \cap {"TIM", "CRC"}
  BY DEF Ct!Lit, CtBits, Ct!ALLERR
<1>2. ct_srb' = own \/ \E u : ct_srb' = Ct!Lit(u, own)
  BY DEF Ct!ct_updsta
<1>3. int_ct' = Ct!Calls(ct_sra', ct_srb', ct_df')
  BY DEF Ct!ct_updsta
<1>4. int_ct' \in BOOLEAN /\ (int_ct' <=> Ct!Calls(ct_sra', ct_srb', ct_df'))
  BY <1>3, Zenon DEF Ct!Calls
<1> QED BY <1>1, <1>2, <1>4 DEF Ct!IntAgrees

\* IOTs that leave the drives alone.
LEMMA CtQuiet ==
    ASSUME CtInv, ct_sra' \in CtLoad, ct_df' \in BOOLEAN,
           ct_df' = ct_df \/ active = {},
           UNCHANGED <<ct_write, ct_bptr, ct_blnt, FNC, UST, tape, at, attached, locks, active, polite,
                       chars, said, before>>,
           NEW own \in SUBSET CtBits, own = ct_srb \/ active = {},
           NEW of, Ct!ct_updsta(own, of)
    PROVE  CtInv'
<1>1. /\ ct_srb' \subseteq CtBits /\ int_ct' \in BOOLEAN /\ Ct!IntAgrees'
      /\ ct_srb' \cap {"TIM", "CRC"} = own \cap {"TIM", "CRC"}
  BY StatusUpdated
<1>2. CtRegisters' /\ CtMedia' /\ CtHistory'
  BY <1>1 DEF CtInv, CtRegisters, CtMedia, CtHistory, CtLoad, CtBits
<1>3. WorkUnderWay'
  BY DEF CtInv, WorkUnderWay
<1>4. Ct!CharsKept'
  <2>1. CASE active = {}
    BY <2>1 DEF Ct!CharsKept
  <2>2. CASE active # {}
    BY <1>1, <2>2 DEF CtInv, Ct!CharsKept, Ct!OnItsWay, Ct!Least
  <2> QED BY <2>1, <2>2
<1>5. CtGaps'
  BY DEF CtInv, CtGaps, AtTheGap, GapBehind, OneAtWork
<1> QED BY <1>1, <1>2, <1>3, <1>4, <1>5 DEF CtInv

LEMMA CtContinued == ASSUME CtInv, active # {}, Ct!ct_go_cont, ct_df' = FALSE PROVE CtInv'
<1>0. CtRegisters /\ CtMedia /\ CtHistory
  BY DEF CtInv
<1>1. /\ ct_srb' \subseteq CtBits /\ int_ct' \in BOOLEAN /\ Ct!IntAgrees'
      /\ ct_srb' \cap {"TIM", "CRC"} = ct_srb \cap {"TIM", "CRC"}
  BY <1>0, StatusUpdated DEF Ct!ct_go_cont, CtRegisters, CtBits
<1>2. \/ FNC' = FNC
      \/ FNC.func # "CRC" /\ ct_sra.func = "CRC" /\ FNC' = [func |-> "CRC", second |-> FALSE]
  BY DEF Ct!ct_go_cont, Ct!First
<1>3. FNC' \in [func : Ct!Functions, second : BOOLEAN]
  <2>1. "CRC" \in Ct!Functions
    BY DEF Ct!Functions
  <2>2. CASE FNC' = FNC
    BY <1>0, <2>2 DEF CtRegisters
  <2>3. CASE FNC' = [func |-> "CRC", second |-> FALSE]
    BY <2>1, <2>3
  <2> QED BY <1>2, <2>2, <2>3
<1>4. CtRegisters' /\ CtMedia'
  BY <1>0, <1>1, <1>3 DEF Ct!ct_go_cont, Ct!mediavars, CtRegisters, CtMedia, CtBits
<1>5. CtHistory'
  BY <1>0 DEF Ct!ct_go_cont, Ct!Moved, CtHistory
<1>6. WorkUnderWay'
  BY <1>0, <1>2 DEF CtInv, WorkUnderWay, Ct!ct_go_cont, CtRegisters
<1>7. Ct!CharsKept'
  <2> SUFFICES ASSUME polite', ct_srb' \cap {"TIM", "CRC"} = {} PROVE
                  /\ FNC'.func \in {"WRITE", "CRC"} /\ ct_write' =>
                        ct_bptr' = Ct!Least(chars' - Ct!OnItsWay', CT_MAXFR)
                  /\ FNC'.func \in {"READ", "CRC"} /\ ~ct_write' =>
                        ct_bptr' = chars' + (IF ct_df' THEN 1 ELSE 0)
    BY DEF Ct!CharsKept
  <2>1. polite /\ ct_df /\ ct_srb \cap {"TIM", "CRC"} = {} /\ ct_bptr' = ct_bptr
        /\ FNC.func \in {"READ", "WRITE", "CRC"} /\ ct_write' = ct_write
    BY <1>1 DEF Ct!ct_go_cont, CtInv, WorkUnderWay
  <2>2. chars \in Nat /\ ct_bptr \in 0 .. CT_MAXFR + 2 /\ CT_MAXFR \in Nat \ {0}
    BY <1>0, CtTapes DEF CtHistory, CtRegisters, Ct!TapesAssumption
  <2>3. FNC.func # "CRC" => (ct_write <=> FNC.func = "WRITE")
    BY <2>1 DEF CtInv, WorkUnderWay, Ct!Writes
  <2>4. FNC.func = "CRC" => ~ct_write
    BY <2>1, <1>0 DEF CtInv, WorkUnderWay, CtRegisters
  <2>5. CASE ct_write
    <3>1. FNC.func = "WRITE" /\ ct_bptr = Ct!Least(chars, CT_MAXFR)
      BY <2>1, <2>2, <2>3, <2>4, <2>5 DEF CtInv, Ct!CharsKept, Ct!OnItsWay
    <3>2. CASE ct_sra.func = "CRC"
      <4>1. chars' = chars /\ FNC'.func = "CRC"
        BY <2>5, <3>1, <3>2 DEF Ct!ct_go_cont, Ct!First
      <4> QED BY <2>1, <2>2, <2>5, <3>1, <4>1 DEF Ct!OnItsWay
    <3>3. CASE ct_sra.func # "CRC"
      <4>1. FNC' = FNC /\ chars' = IF chars < CT_MAXFR + 2 THEN chars + 1 ELSE chars
        BY <2>1, <3>3 DEF Ct!ct_go_cont, Ct!Moved
      <4> QED BY <2>1, <2>2, <2>5, <3>1, <4>1 DEF Ct!OnItsWay, Ct!Least
    <3> QED BY <3>2, <3>3
  <2>6. CASE ~ct_write
    <3>1. FNC.func \in {"READ", "CRC"} /\ ct_bptr = chars + 1
      BY <2>1, <2>3, <2>6 DEF CtInv, Ct!CharsKept
    <3>2. chars' = chars + 1
      BY <2>1, <2>2, <2>6, <3>1 DEF Ct!ct_go_cont, Ct!Moved
    <3> QED BY <2>1, <2>2, <2>6, <3>1, <3>2
  <2> QED BY <2>5, <2>6
<1>8. CtGaps'
  <2>1. UNCHANGED <<said, before, at, tape, UST, active>>
    BY DEF Ct!ct_go_cont, Ct!mediavars
  <2>2. FNC'.func = "CRC" \/ FNC' = FNC
    BY <1>2
  <2> QED BY <2>1, <2>2 DEF CtInv, CtGaps, AtTheGap, GapBehind, OneAtWork, Ct!Reverse
<1> QED BY <1>1, <1>4, <1>5, <1>6, <1>7, <1>8 DEF CtInv

\* A drive takes off: from a gap on its way to the other side of it.
LEMMA TookOff ==
    ASSUME CtRegisters, CtMedia, CtHistory, AtTheGap, NEW u \in Units, Ct!TakesOff(u)
    PROVE  /\ UST' \in [Units -> SUBSET Ct!BothWays] /\ at' \in [Units -> Nat]
           /\ at'[u] <= Len(tape[u])
           /\ \A v \in Units \ {u} : at'[v] = at[v] /\ UST'[v] = UST[v]
           /\ ct_sra.func \in {"READ", "SFF"} => said[u] <= at'[u] /\ "REV" \notin UST'[u]
           /\ ct_sra.func \in Ct!Reverse => (said[u] # 0 => at'[u] < said[u]) /\ "REV" \in UST'[u]
<1> DEFINE func == ct_sra.func
<1> DEFINE direction == IF func \in Ct!Reverse THEN {"REV"} ELSE {}
<1>1. /\ at[u] \in Nat /\ at[u] <= Len(tape[u]) /\ Len(tape[u]) \in Nat /\ said[u] \in Nat
      /\ at \in [Units -> Nat] /\ UST \in [Units -> SUBSET Ct!BothWays] /\ UST[u] \subseteq {"REV", "GAP"}
  <2>1. tape[u] \in Seq(Blocks)
    BY DEF CtMedia
  <2>2. Len(tape[u]) \in Nat
    BY <2>1, LenProperties
  <2> QED BY <2>2 DEF CtMedia, CtHistory, Ct!BothWays
<1>2. said[u] # 0 =>
         /\ "GAP" \in UST[u] /\ said[u] <= Len(tape[u])
         /\ "REV" \in UST[u] => at[u] = said[u] - 1
         /\ "REV" \notin UST[u] => at[u] = said[u]
  BY DEF AtTheGap
<1>3. CASE func \in Ct!Writes \union {"REW"}
  <2>1. at' = at /\ UST' = [UST EXCEPT ![u] = {}]
    BY <1>3 DEF Ct!TakesOff
  <2>2. func \notin {"READ", "SFF"} \union Ct!Reverse
    BY <1>3 DEF Ct!Writes, Ct!Reverse
  <2> QED BY <1>1, <2>1, <2>2
<1>4. CASE func \notin Ct!Writes \union {"REW"}
  <2>1. UST' = [UST EXCEPT ![u] = direction] /\ direction \subseteq {"REV"}
    BY <1>4 DEF Ct!TakesOff
  <2>2. UST'[u] = direction /\ UST' \in [Units -> SUBSET Ct!BothWays]
        /\ \A v \in Units \ {u} : UST'[v] = UST[v]
    BY <1>1, <2>1 DEF Ct!BothWays
  <2>3. (func \in {"READ", "SFF"} => direction = {}) /\ (func \in Ct!Reverse => direction = {"REV"})
    BY DEF Ct!Reverse
  <2>4. CASE func \in Ct!Forward /\ Ct!LeaderGap(u)
    <3>1. at' = [at EXCEPT ![u] = 1] /\ at[u] = 0 /\ tape[u] # <<>>
      BY <1>4, <2>4 DEF Ct!TakesOff, Ct!LeaderGap
    <3>2. 1 <= Len(tape[u])
      BY <1>1, <3>1, EmptySeq DEF CtMedia
    <3>3. func \notin Ct!Reverse
      BY <2>4 DEF Ct!Forward, Ct!Reverse
    <3>4. said[u] <= 1
      BY <1>1, <1>2, <3>1
    <3>5. at'[u] = 1 /\ at' \in [Units -> Nat] /\ \A v \in Units \ {u} : at'[v] = at[v]
      BY <1>1, <3>1
    <3> QED BY <2>2, <2>3, <3>2, <3>3, <3>4, <3>5
  <2>5. CASE ~(func \in Ct!Forward /\ Ct!LeaderGap(u))
    <3>1. Ct!SkipGap(u, direction)
      BY <1>4, <2>5 DEF Ct!TakesOff
    <3>2. CASE (UST[u] \ direction) \union (direction \ UST[u]) # {"REV", "GAP"}
      <4>1. at' = at
        BY <3>1, <3>2 DEF Ct!SkipGap, Ct!BothWays
      <4>2. said[u] # 0 => ("REV" \in UST[u] <=> "REV" \in direction)
        BY <1>1, <1>2, <2>1, <3>2
      <4>3. said[u] # 0 => (direction = {} => at[u] = said[u])
            /\ (direction = {"REV"} => at[u] = said[u] - 1)
        BY <1>2, <4>2
      <4>4. (direction = {} => said[u] <= at[u]) /\ (direction = {"REV"} /\ said[u] # 0 => at[u] < said[u])
        BY <1>1, <4>3
      <4> QED BY <1>1, <2>2, <2>3, <4>1, <4>4
    <3>3. CASE (UST[u] \ direction) \union (direction \ UST[u]) = {"REV", "GAP"}
      <4> DEFINE to == IF direction = {} THEN Ct!Over(u) ELSE Ct!Back(u)
      <4>1. at' = [at EXCEPT ![u] = to]
        BY <3>1, <3>3 DEF Ct!SkipGap, Ct!BothWays
      <4>2. to \in Nat /\ to <= Len(tape[u])
        BY <1>1 DEF Ct!Over, Ct!Back
      <4>3. said[u] # 0 => ("REV" \in UST[u] <=> "REV" \notin direction)
        BY <1>1, <1>2, <2>1, <3>3
      <4>4. said[u] # 0 => (direction = {} => at[u] = said[u] - 1)
            /\ (direction = {"REV"} => at[u] = said[u])
        BY <1>2, <4>3
      <4>5. (direction = {} => said[u] <= to) /\ (direction = {"REV"} /\ said[u] # 0 => to < said[u])
        BY <1>1, <1>2, <4>4 DEF Ct!Over, Ct!Back
      <4>6. at'[u] = to /\ at' \in [Units -> Nat] /\ \A v \in Units \ {u} : at'[v] = at[v]
        BY <1>1, <4>1, <4>2
      <4> HIDE DEF to
      <4> QED BY <2>2, <2>3, <4>2, <4>5, <4>6
    <3> QED BY <3>2, <3>3
  <2> QED BY <2>4, <2>5
<1> QED BY <1>3, <1>4

LEMMA CtStarts ==
    ASSUME CtInv, active = {}, NEW u \in Units, Ct!Started(u), ct_df' = FALSE
    PROVE  CtInv'
<1> DEFINE func == ct_sra.func
<1> DEFINE own == (ct_srb \ (Ct!XFRERR \union {"REW", "BEOT"})) \union (IF func = "REW" THEN {"REW"} ELSE {})
<1>0. CtRegisters /\ CtMedia /\ CtHistory /\ CtGaps /\ CT_MAXFR \in Nat \ {0}
  BY CtTapes DEF CtInv, Ct!TapesAssumption
<1>1. ct_srb' \subseteq CtBits /\ int_ct' \in BOOLEAN /\ Ct!IntAgrees'
  <2>1. own \in SUBSET CtBits
    BY <1>0 DEF CtRegisters, CtBits
  <2>2. Ct!ct_updsta(own, Ct!Busy)
    BY DEF Ct!Started
  <2> HIDE DEF own
  <2> QED BY <2>1, <2>2, StatusUpdated
<1>2. FNC' = [func |-> func, second |-> FALSE] /\ func \in Ct!Functions
  BY <1>0 DEF Ct!Started, Ct!First, CtRegisters
<1>3. /\ UST' \in [Units -> SUBSET Ct!BothWays] /\ at' \in [Units -> Nat]
      /\ at'[u] <= Len(tape[u])
      /\ \A v \in Units \ {u} : at'[v] = at[v] /\ UST'[v] = UST[v]
      /\ func \in {"READ", "SFF"} => said[u] <= at'[u] /\ "REV" \notin UST'[u]
      /\ func \in Ct!Reverse => (said[u] # 0 => at'[u] < said[u]) /\ "REV" \in UST'[u]
  <2>1. Ct!TakesOff(u)
    BY DEF Ct!Started
  <2> QED BY <1>0, <2>1, TookOff DEF CtGaps
<1>4. /\ ct_bptr' = 0 /\ ct_blnt' = 0 /\ active' = {u} /\ ct_df' = FALSE
      /\ UNCHANGED <<ct_sra, tape, attached, locks, polite>>
      /\ ct_write' \in BOOLEAN /\ (ct_write' <=> func \in Ct!Writes)
      /\ before' = [before EXCEPT ![u] = said[u]] /\ said' = [said EXCEPT ![u] = 0]
  <2>1. ct_write' = (func \in Ct!Writes)
    BY DEF Ct!Started
  <2> HIDE DEF func
  <2>2. ct_write' <=> func \in Ct!Writes
    BY <2>1
  <2>3. ct_write' \in BOOLEAN
    BY <2>1
  <2>4. UNCHANGED <<ct_sra, tape, attached, locks, polite>>
    BY DEF Ct!Started
  <2> QED BY <2>2, <2>3, <2>4 DEF Ct!Started
<1>5. CtRegisters'
  <2>1. FNC' \in [func : Ct!Functions, second : BOOLEAN]
    BY <1>2
  <2>2. ct_bptr' \in 0 .. CT_MAXFR + 2 /\ ct_blnt' \in 0 .. CT_MAXFR + 2
    BY <1>0, <1>4
  <2>3. ct_sra' \in [enab : BOOLEAN, unit : Units, func : Ct!Functions, ie : BOOLEAN]
    BY <1>0, <1>4 DEF CtRegisters
  <2> QED BY <1>1, <1>4, <2>1, <2>2, <2>3 DEF CtRegisters, CtBits
<1>6. CtMedia'
  <2>1. \A v \in Units : Len(tape'[v]) <= Capacity /\ at'[v] <= Len(tape'[v])
    BY <1>0, <1>3, <1>4 DEF CtMedia
  <2> QED BY <1>0, <1>3, <1>4, <2>1 DEF CtMedia
<1>7. chars' = IF polite /\ func \in Ct!Writes THEN 1 ELSE 0
  BY DEF Ct!Started
<1>8. CtHistory'
  BY <1>0, <1>4, <1>7 DEF CtHistory
<1>9. WorkUnderWay'
  <2>1. "CRC" \notin Ct!Writes
    BY DEF Ct!Writes
  <2> QED BY <1>2, <1>4, <2>1 DEF WorkUnderWay
<1>10. Ct!CharsKept'
  <2>1. CASE func \in Ct!Writes
    <3>1. func # "CRC" /\ func # "READ"
      BY <2>1 DEF Ct!Writes
    <3>2. polite' => chars' = 1
      BY <1>4, <1>7, <2>1
    <3> QED BY <1>0, <1>2, <1>4, <2>1, <3>1, <3>2 DEF Ct!CharsKept, Ct!OnItsWay, Ct!Least
  <2>2. CASE func \notin Ct!Writes
    BY <1>2, <1>4, <1>7, <2>2 DEF Ct!CharsKept
  <2> QED BY <2>1, <2>2
<1>11. CtGaps'
  <2>1. said'[u] = 0 /\ before'[u] = said[u]
        /\ \A v \in Units \ {u} : said'[v] = said[v] /\ before'[v] = before[v]
    BY <1>0, <1>4 DEF CtHistory
  <2>2. AtTheGap'
    BY <1>0, <1>3, <1>4, <2>1 DEF CtGaps, AtTheGap
  <2>3. GapBehind'
    BY <1>2, <1>3, <1>4, <2>1 DEF GapBehind
  <2>4. OneAtWork'
    BY <1>4 DEF OneAtWork
  <2> QED BY <2>2, <2>3, <2>4 DEF CtGaps
<1> QED BY <1>1, <1>5, <1>6, <1>8, <1>9, <1>10, <1>11 DEF CtInv

LEMMA CtIotKept == ASSUME CtInv, Ct!ct70 PROVE CtInv'
<1>0. CtRegisters /\ CtMedia
  BY DEF CtInv
<1>1. ct_sra \in CtLoad /\ ct_srb \in SUBSET CtBits /\ ct_df \in BOOLEAN /\ attached \subseteq Units
  BY <1>0 DEF CtRegisters, CtLoad, CtBits, CtMedia
<1>2. CASE Ct!Look
  BY <1>1, <1>2, CtQuiet DEF Ct!Look, Ct!commandvars, Ct!mediavars, Ct!historyvars
<1>3. ASSUME NEW load \in Loads, Ct!KLSA(load) PROVE CtInv'
  <2>1. load \in CtLoad
    BY CtTapes DEF Ct!TapesAssumption, CtLoad
  <2> QED BY <1>1, <1>3, <2>1, CtQuiet DEF Ct!KLSA, Ct!commandvars, Ct!mediavars, Ct!historyvars
<1>4. CASE active # {} /\ ct_df' = FALSE /\ Ct!ct_go_cont
  BY <1>4, CtContinued
<1>5. CASE active = {} /\ ct_df' = FALSE /\ Ct!ct_go_start
  <2>1. ASSUME NEW own \in SUBSET CtBits, Ct!NotStarted(own) PROVE CtInv'
    BY <1>1, <1>5, <2>1, CtQuiet DEF Ct!NotStarted, Ct!commandvars, Ct!mediavars, Ct!historyvars
  <2>2. (ct_srb \ (Ct!XFRERR \union {"REW"})) \union {"WLE"} \in SUBSET CtBits
    BY <1>1 DEF CtBits, Ct!ALLERR
  <2>3. CASE ct_sra.unit \in attached /\ Ct!Started(ct_sra.unit)
    BY <1>1, <1>5, <2>3, CtStarts
  <2> QED BY <1>1, <1>5, <2>1, <2>2, <2>3 DEF Ct!ct_go_start
<1> QED BY <1>2, <1>3, <1>4, <1>5 DEF Ct!ct70, Ct!KGOA

LEMMA CtResetKept == ASSUME CtInv, Ct!ct_reset PROVE CtInv'
<1>0. CtRegisters /\ CtMedia /\ CtHistory /\ CtGaps
  BY DEF CtInv
<1>1. CtRegisters'
  <2>1. Ct!Cleared \in CtLoad
    BY CtTapes DEF Ct!TapesAssumption, Ct!Cleared, CtLoad, Ct!Functions, Ct!Forward
  <2>2. CT_MAXFR \in Nat
    BY CtTapes DEF Ct!TapesAssumption
  <2>3. ct_bptr' \in 0 .. CT_MAXFR + 2 /\ ct_blnt' \in 0 .. CT_MAXFR + 2
    BY <2>2 DEF Ct!ct_reset
  <2>4. FNC' \in [func : Ct!Functions, second : BOOLEAN]
    BY <1>0 DEF Ct!ct_reset, CtRegisters
  <2> QED BY <2>1, <2>3, <2>4 DEF Ct!ct_reset, CtRegisters, CtLoad
<1>2. CtMedia'
  BY <1>0 DEF Ct!ct_reset, Ct!mediavars, CtMedia
<1>3. CtHistory'
  BY <1>0 DEF Ct!ct_reset, CtHistory
<1>4. Ct!IntAgrees'
  BY DEF Ct!ct_reset, Ct!Cleared, Ct!IntAgrees, Ct!Calls
<1>5. CtGaps'
  BY <1>0 DEF Ct!ct_reset, Ct!mediavars, CtGaps, AtTheGap, GapBehind, OneAtWork
<1> QED BY <1>1, <1>2, <1>3, <1>4, <1>5 DEF Ct!ct_reset, CtInv, WorkUnderWay, Ct!CharsKept

\* A command that is over, at a gap or not.
LEMMA CtEnds ==
    ASSUME CtInv, NEW u \in Units, u \in active, NEW to \in Nat, NEW errors \in SUBSET CtBits,
           Ct!Ends(u, to, errors),
           tape' \in [Units -> Seq(Blocks)], \A v \in Units \ {u} : tape'[v] = tape[v],
           to <= Len(tape'[u]), Len(tape'[u]) <= Capacity,
           "EOF" \in errors =>
              /\ tape' = tape
              /\ \/ FNC.func \in {"READ", "SFF"} /\ at[u] < to
                 \/ FNC.func \in Ct!Reverse /\ to < at[u]
    PROVE  CtInv'
<1> DEFINE own == ct_srb \union errors
<1>0. CtRegisters /\ CtMedia /\ CtHistory /\ CtGaps
  BY DEF CtInv
<1>1. /\ active' = {} /\ chars' = 0 /\ at' = [at EXCEPT ![u] = to]
      /\ UNCHANGED <<ct_sra, ct_df, ct_write, FNC, attached, locks, polite, ct_bptr, ct_blnt>>
      /\ UST' = [UST EXCEPT ![u] = IF "EOF" \in own THEN @ \union {"GAP"} ELSE @]
      /\ IF "EOF" \in errors
         THEN said' = [said EXCEPT ![u] = IF to < at[u] THEN to + 1 ELSE to] /\ before' = before
         ELSE said' = said /\ before' = [before EXCEPT ![u] = 0]
  BY DEF Ct!Ends, Ct!Done
<1>2. ct_srb' \subseteq CtBits /\ int_ct' \in BOOLEAN /\ Ct!IntAgrees'
  <2>1. own \in SUBSET CtBits
    BY <1>0 DEF CtRegisters, CtBits
  <2>2. Ct!ct_updsta(own, {u})
    BY DEF Ct!Ends, Ct!Done
  <2> HIDE DEF own
  <2> QED BY <2>1, <2>2, StatusUpdated
<1>3. CtRegisters'
  BY <1>0, <1>1, <1>2 DEF CtRegisters, CtBits
<1>4. /\ UST' \in [Units -> SUBSET Ct!BothWays] /\ at' \in [Units -> Nat] /\ at'[u] = to
      /\ UST'[u] = IF "EOF" \in own THEN UST[u] \union {"GAP"} ELSE UST[u]
      /\ \A v \in Units \ {u} : at'[v] = at[v] /\ UST'[v] = UST[v]
  <2>1. "GAP" \in Ct!BothWays
    BY DEF Ct!BothWays
  <2> HIDE DEF own
  <2> QED BY <1>0, <1>1, <2>1 DEF CtMedia
<1>5. CtMedia'
  <2>1. \A v \in Units : Len(tape'[v]) <= Capacity /\ at'[v] <= Len(tape'[v])
    BY <1>0, <1>4 DEF CtMedia
  <2> QED BY <1>0, <1>1, <1>4, <2>1 DEF CtMedia
<1>6. /\ said' \in [Units -> Nat] /\ before' \in [Units -> Nat]
      /\ \A v \in Units \ {u} : said'[v] = said[v] /\ before'[v] = before[v]
      /\ "EOF" \in errors => said'[u] = (IF to < at[u] THEN to + 1 ELSE to) /\ before'[u] = before[u]
      /\ "EOF" \notin errors => said'[u] = 0
  <2>1. said[u] = 0
    BY <1>0 DEF CtGaps, AtTheGap
  <2>2. CASE "EOF" \in errors
    <3>1. (IF to < at[u] THEN to + 1 ELSE to) \in Nat
      BY <1>0 DEF CtMedia
    <3> QED BY <1>0, <1>1, <2>2, <3>1 DEF CtHistory
  <2>3. CASE "EOF" \notin errors
    BY <1>0, <1>1, <2>1, <2>3 DEF CtHistory
  <2> QED BY <2>2, <2>3
<1>7. CtHistory'
  BY <1>0, <1>1, <1>6 DEF CtHistory
<1>8. AtTheGap'
  <2>1. ASSUME NEW v \in Units \ {u}, said'[v] # 0
        PROVE  /\ v \notin active' /\ "GAP" \in UST'[v]
               /\ said'[v] <= Len(tape'[v]) /\ said'[v] # before'[v]
               /\ "REV" \in UST'[v] => at'[v] = said'[v] - 1
               /\ "REV" \notin UST'[v] => at'[v] = said'[v]
    BY <1>0, <1>1, <1>4, <1>6, <2>1 DEF CtGaps, AtTheGap
  <2>2. ASSUME said'[u] # 0
        PROVE  /\ u \notin active' /\ "GAP" \in UST'[u]
               /\ said'[u] <= Len(tape'[u]) /\ said'[u] # before'[u]
               /\ "REV" \in UST'[u] => at'[u] = said'[u] - 1
               /\ "REV" \notin UST'[u] => at'[u] = said'[u]
    <3>1. "EOF" \in errors
      BY <1>6, <2>2
    <3>2. "EOF" \in own /\ UST'[u] = UST[u] \union {"GAP"} /\ tape' = tape
      BY <1>4, <3>1
    <3>3. at[u] \in Nat /\ at[u] <= Len(tape[u]) /\ Len(tape[u]) \in Nat /\ before[u] \in Nat
      BY <1>0, LenProperties DEF CtMedia, CtHistory
    <3>4. CASE FNC.func \in {"READ", "SFF"} /\ at[u] < to
      <4>1. before[u] <= at[u] /\ "REV" \notin UST[u]
        BY <1>0, <3>4 DEF CtGaps, GapBehind
      <4>2. said'[u] = to /\ before'[u] = before[u]
        BY <1>6, <3>1, <3>3, <3>4
      <4> QED BY <1>1, <1>4, <3>2, <3>3, <3>4, <4>1, <4>2
    <3>5. CASE FNC.func \in Ct!Reverse /\ to < at[u]
      <4>1. (before[u] # 0 => at[u] < before[u]) /\ "REV" \in UST[u]
        BY <1>0, <3>3, <3>5 DEF CtGaps, GapBehind
      <4>2. said'[u] = to + 1 /\ before'[u] = before[u]
        BY <1>6, <3>1, <3>5
      <4> QED BY <1>1, <1>4, <3>2, <3>3, <3>5, <4>1, <4>2
    <3> QED BY <3>1, <3>4, <3>5
  <2> QED BY <2>1, <2>2 DEF AtTheGap
<1>9. WorkUnderWay' /\ Ct!CharsKept' /\ GapBehind' /\ OneAtWork'
  BY <1>1 DEF WorkUnderWay, Ct!CharsKept, GapBehind, OneAtWork
<1> QED BY <1>2, <1>3, <1>5, <1>7, <1>8, <1>9 DEF CtInv, CtGaps

\* Without an error at a gap, where the head is.
LEMMA CtStays ==
    ASSUME CtInv, NEW u \in Units, u \in active, NEW errors \in SUBSET CtBits, "EOF" \notin errors,
           Ct!NotPut(u, errors)
    PROVE  CtInv'
<1>1. tape' = tape /\ Ct!Ends(u, at[u], errors) /\ CtMedia
  BY DEF Ct!NotPut, CtInv
<1>2. at[u] \in Nat /\ at[u] <= Len(tape[u]) /\ Len(tape[u]) <= Capacity /\ tape \in [Units -> Seq(Blocks)]
  BY <1>1 DEF CtMedia
<1> QED BY <1>1, <1>2, CtEnds

\* The next character.
LEMMA CtGoesOn ==
    ASSUME CtInv, NEW u \in Units, u \in active, Ct!GoesOn, tape' = tape,
           \/ at' = at
           \/ FNC.func = "READ" /\ at[u] < Len(tape[u]) /\ at' = [at EXCEPT ![u] = @ + 1],
           ct_srb' \subseteq CtBits, ct_df' \in BOOLEAN, int_ct' \in BOOLEAN,
           ct_bptr' \in 0 .. CT_MAXFR + 2, ct_blnt' \in 0 .. CT_MAXFR + 2,
           FNC.func \in {"READ", "WRITE"} \/ (FNC.func = "CRC" /\ ~ct_write),
           Ct!IntAgrees', Ct!CharsKept'
    PROVE  CtInv'
<1>0. CtRegisters /\ CtMedia /\ CtHistory /\ CtGaps /\ WorkUnderWay
  BY DEF CtInv
<1>1. /\ UNCHANGED <<ct_sra, ct_write, UST, attached, locks, active, polite, chars, said, before>>
      /\ FNC' = [FNC EXCEPT !.second = TRUE]
  BY DEF Ct!GoesOn, Ct!historyvars
<1>2. FNC' \in [func : Ct!Functions, second : BOOLEAN] /\ FNC'.func = FNC.func /\ FNC'.second
  BY <1>0, <1>1 DEF CtRegisters
<1>3. CtRegisters'
  BY <1>0, <1>1, <1>2 DEF CtRegisters, CtBits
<1>4. /\ at' \in [Units -> Nat] /\ \A v \in Units \ {u} : at'[v] = at[v]
      /\ at[u] \in Nat /\ at'[u] \in {at[u], at[u] + 1} /\ at'[u] <= Len(tape[u])
  <2>1. at[u] \in Nat /\ at[u] <= Len(tape[u]) /\ Len(tape[u]) \in Nat /\ at \in [Units -> Nat]
    BY <1>0, LenProperties DEF CtMedia
  <2> QED BY <2>1
<1>5. CtMedia'
  <2>1. \A v \in Units : Len(tape'[v]) <= Capacity /\ at'[v] <= Len(tape'[v])
    BY <1>0, <1>4 DEF CtMedia
  <2> QED BY <1>0, <1>1, <1>4, <2>1 DEF CtMedia
<1>6. CtHistory'
  BY <1>0, <1>1 DEF CtHistory
<1>7. WorkUnderWay'
  BY <1>0, <1>1, <1>2 DEF WorkUnderWay
<1>8. CtGaps'
  <2>1. AtTheGap' /\ OneAtWork'
    BY <1>0, <1>1, <1>4 DEF CtGaps, AtTheGap, OneAtWork
  <2>2. FNC.func \notin Ct!Reverse
    BY DEF Ct!Reverse
  <2>3. \A v \in active : v = u
    BY <1>0 DEF CtGaps, OneAtWork
  <2>4. before[u] \in Nat
    BY <1>0 DEF CtHistory
  <2>5. FNC.func \in {"READ", "SFF"} => before[u] <= at'[u] /\ "REV" \notin UST[u]
    BY <1>0, <1>4, <2>4 DEF CtGaps, GapBehind
  <2>6. GapBehind'
    BY <1>1, <1>2, <2>2, <2>3, <2>5 DEF GapBehind
  <2> QED BY <2>1, <2>6 DEF CtGaps
<1> QED BY <1>3, <1>5, <1>6, <1>7, <1>8 DEF CtInv

\* Next and last of the gaps on a tape.
LEMMA LeastChosen ==
    ASSUME NEW T, T \subseteq Nat, T # {}, NEW c, c = CHOOSE i \in T : \A j \in T : i <= j
    PROVE  c \in T
<1>1. PICK n \in T : \A m \in T : ~(<<m, n>> \in OpToRel(<, Nat))
  BY NatLessThanWellFounded, WFMin
<1>2. \A m \in T : ~(m < n)
  BY <1>1 DEF OpToRel
<1>3. \A m \in T : n <= m
  BY <1>2
<1> QED BY <1>3

LEMMA GreatestChosen ==
    ASSUME NEW T, T \subseteq Nat, T # {}, NEW b \in Nat, \A m \in T : m <= b,
           NEW c, c = CHOOSE i \in T : \A j \in T : i >= j
    PROVE  c \in T
<1> DEFINE U == {k \in Nat : b - k \in T}
<1>1. U # {}
  <2>1. PICK m \in T : TRUE
    OBVIOUS
  <2>2. b - m \in Nat /\ b - (b - m) = m
    BY <2>1
  <2> QED BY <2>1, <2>2
<1>2. PICK k \in U : \A m \in U : ~(<<m, k>> \in OpToRel(<, Nat))
  <2> U \subseteq Nat
    OBVIOUS
  <2> HIDE DEF U
  <2> QED BY <1>1, NatLessThanWellFounded, WFMin
<1>3. \A m \in U : ~(m < k)
  BY <1>2 DEF OpToRel
<1>4. \A m \in T : b - k >= m
  <2> SUFFICES ASSUME NEW m \in T PROVE b - k >= m
    OBVIOUS
  <2>1. m \in Nat /\ b - m \in Nat /\ b - (b - m) = m
    OBVIOUS
  <2>2. ~(b - m < k)
    BY <1>3, <2>1
  <2> QED BY <2>1, <2>2
<1> QED BY <1>2, <1>4

LEMMA RoomLeft ==
    ASSUME NEW n \in Nat, NEW len \in Nat, NEW room \in Nat, NEW l,
           n <= len, n < room, len <= room, l = IF n + 2 <= len THEN len - (n + 2) + 1 ELSE 0
    PROVE  l \in Nat /\ n + 1 + l <= room
OBVIOUS

LEMMA BlocksPut ==
    ASSUME NEW s \in Seq(Blocks), NEW n \in Nat, n <= Len(s), n < Capacity, Len(s) <= Capacity,
           NEW what \in Blocks, NEW rest \in {<<>>, SubSeq(s, n + 2, Len(s))}
    PROVE  /\ SubSeq(s, 1, n) \o <<what>> \o rest \in Seq(Blocks)
           /\ n + 1 <= Len(SubSeq(s, 1, n) \o <<what>> \o rest)
           /\ Len(SubSeq(s, 1, n) \o <<what>> \o rest) <= Capacity
<1>0. Capacity \in Nat /\ Len(s) \in Nat /\ \A i \in 1 .. Len(s) : s[i] \in Blocks
  BY CtTapes, ElementOfSeq, LenProperties DEF Ct!TapesAssumption
<1>1. SubSeq(s, 1, n) \in Seq(Blocks) /\ Len(SubSeq(s, 1, n)) = n
  <2>1. \A i \in 1 .. n : s[i] \in Blocks
    BY <1>0
  <2> QED BY <2>1, SubSeqProperties
<1>2. rest \in Seq(Blocks) /\ Len(rest) \in Nat /\ n + 1 + Len(rest) <= Capacity
  <2>1. CASE rest = <<>>
    BY <1>0, <2>1, EmptySeq
  <2>2. CASE rest = SubSeq(s, n + 2, Len(s))
    <3>1. /\ SubSeq(s, n + 2, Len(s)) \in Seq(Blocks)
          /\ Len(SubSeq(s, n + 2, Len(s))) = IF n + 2 <= Len(s) THEN Len(s) - (n + 2) + 1 ELSE 0
      <4>1. \A i \in n + 2 .. Len(s) : s[i] \in Blocks
        BY <1>0
      <4>2. n + 2 \in Int /\ Len(s) \in Int
        BY <1>0
      <4> QED BY <4>1, <4>2, SubSeqProperties
    <3> DEFINE l == Len(rest)
    <3>2. rest \in Seq(Blocks) /\ l = IF n + 2 <= Len(s) THEN Len(s) - (n + 2) + 1 ELSE 0
      BY <2>2, <3>1, Zenon
    <3> HIDE DEF l
    <3>3. l \in Nat /\ n + 1 + l <= Capacity
      BY <1>0, <3>2, RoomLeft
    <3> QED BY <3>2, <3>3 DEF l
  <2> QED BY <2>1, <2>2
<1>3. <<what>> \in Seq(Blocks) /\ Len(<<what>>) = 1
  OBVIOUS
<1>4. SubSeq(s, 1, n) \o <<what>> \in Seq(Blocks) /\ Len(SubSeq(s, 1, n) \o <<what>>) = n + 1
  BY <1>1, <1>3, ConcatProperties
<1>5. /\ SubSeq(s, 1, n) \o <<what>> \o rest \in Seq(Blocks)
      /\ Len(SubSeq(s, 1, n) \o <<what>> \o rest) = n + 1 + Len(rest)
  BY <1>2, <1>4, ConcatProperties
<1> QED BY <1>0, <1>2, <1>5

LEMMA CtPut ==
    ASSUME CtInv, NEW u \in Units, u \in active, NEW what \in Blocks, Ct!Put(u, what)
    PROVE  CtInv'
<1>0. CtMedia /\ Capacity \in Nat
  BY CtTapes DEF CtInv, Ct!TapesAssumption
<1>1. PICK rest \in {<<>>, SubSeq(tape[u], at[u] + 2, Len(tape[u]))} :
         tape' = [tape EXCEPT ![u] = SubSeq(@, 1, at[u]) \o <<what>> \o rest]
  BY DEF Ct!Put
<1>2. /\ tape \in [Units -> Seq(Blocks)] /\ at[u] \in Nat /\ at[u] <= Len(tape[u]) /\ at[u] < Capacity
      /\ Len(tape[u]) <= Capacity
  BY <1>0 DEF CtMedia, Ct!Put
<1> DEFINE new == SubSeq(tape[u], 1, at[u]) \o <<what>> \o rest
<1>3. new \in Seq(Blocks) /\ at[u] + 1 <= Len(new) /\ Len(new) <= Capacity
  BY <1>1, <1>2, BlocksPut
<1>4. tape' = [tape EXCEPT ![u] = new]
  BY <1>1
<1> HIDE DEF new
<1>5. tape' \in [Units -> Seq(Blocks)] /\ tape'[u] = new /\ \A v \in Units \ {u} : tape'[v] = tape[v]
  BY <1>2, <1>3, <1>4
<1>6. Ct!Ends(u, at[u] + 1, {}) /\ at[u] + 1 \in Nat
  BY <1>2 DEF Ct!Put
<1> QED BY <1>3, <1>5, <1>6, CtEnds

\* Spacing over files and blocks.
LEMMA CtSpaces ==
    ASSUME CtInv, NEW u \in Units, u \in active,
           \/ FNC.func = "SRB" /\ Ct!BlockBack(u)
           \/ FNC.func = "SRF" /\ Ct!SpaceBack(u)
           \/ FNC.func = "SFF" /\ Ct!SpaceForward(u)
           \/ FNC.func = "REW" /\ Ct!Ends(u, 0, {"BEOT"}) /\ tape' = tape
    PROVE  CtInv'
<1>0. /\ tape \in [Units -> Seq(Blocks)] /\ at[u] \in Nat /\ at[u] <= Len(tape[u])
      /\ Len(tape[u]) <= Capacity /\ Len(tape[u]) \in Nat
  BY LenProperties DEF CtInv, CtMedia
<1>1. {"EOF", "CRC", "BEOT"} \subseteq CtBits
  BY DEF CtBits, Ct!ALLERR
<1>2. ASSUME NEW to \in Nat, NEW errors \in SUBSET {"EOF", "CRC", "BEOT"}, Ct!Ends(u, to, errors), tape' = tape,
             to <= Len(tape[u]),
             "EOF" \in errors => \/ FNC.func \in {"READ", "SFF"} /\ at[u] < to
                                 \/ FNC.func \in Ct!Reverse /\ to < at[u]
      PROVE  CtInv'
  BY <1>0, <1>1, <1>2, CtEnds
<1>3. CASE FNC.func = "SRB" /\ Ct!BlockBack(u)
  <2> DEFINE errors == IF at[u] \in Ct!Marks(u) THEN {"EOF"} ELSE {}
  <2>1. Ct!Ends(u, Ct!Back(u), errors) /\ tape' = tape
    BY <1>3 DEF Ct!BlockBack
  <2>2. "EOF" \in errors => at[u] > 0
    BY <1>0 DEF Ct!Marks
  <2>3. Ct!Back(u) \in Nat /\ Ct!Back(u) <= Len(tape[u]) /\ (at[u] > 0 => Ct!Back(u) < at[u])
    BY <1>0 DEF Ct!Back
  <2>4. errors \in SUBSET {"EOF", "CRC", "BEOT"} /\ FNC.func \in Ct!Reverse
    BY <1>3 DEF Ct!Reverse
  <2> HIDE DEF errors
  <2> QED BY <1>2, <2>1, <2>2, <2>3, <2>4
<1>4. CASE FNC.func = "SRF" /\ Ct!SpaceBack(u)
  <2>0. tape' = tape /\ FNC.func \in Ct!Reverse
    BY <1>4 DEF Ct!SpaceBack, Ct!Reverse
  <2>1. CASE Ct!Behind(u) = {}
    BY <1>0, <1>2, <1>4, <2>0, <2>1 DEF Ct!SpaceBack
  <2>2. CASE Ct!Behind(u) # {}
    <3> DEFINE c == CHOOSE i \in Ct!Behind(u) : \A j \in Ct!Behind(u) : i >= j
    <3>1. Ct!Ends(u, c - 1, {"EOF"})
      BY <1>4, <2>2 DEF Ct!SpaceBack
    <3>2. Ct!Behind(u) \subseteq Nat /\ \A m \in Ct!Behind(u) : 1 <= m /\ m <= at[u]
      BY <1>0 DEF Ct!Behind, Ct!Marks
    <3>3. c \in Ct!Behind(u)
      BY <1>0, <2>2, <3>2, GreatestChosen
    <3> HIDE DEF c
    <3>4. c - 1 \in Nat /\ c - 1 < at[u] /\ c - 1 <= Len(tape[u])
      BY <1>0, <3>2, <3>3
    <3> QED BY <1>2, <2>0, <3>1, <3>4
  <2> QED BY <2>1, <2>2
<1>5. CASE FNC.func = "SFF" /\ Ct!SpaceForward(u)
  <2>1. CASE Ct!Ahead(u) = {}
    BY <1>0, <1>2, <1>5, <2>1 DEF Ct!SpaceForward
  <2>2. CASE Ct!Ahead(u) # {}
    <3> DEFINE c == CHOOSE i \in Ct!Ahead(u) : \A j \in Ct!Ahead(u) : i <= j
    <3>1. Ct!Ends(u, c, {"EOF"}) /\ tape' = tape
      BY <1>5, <2>2 DEF Ct!SpaceForward
    <3>2. Ct!Ahead(u) \subseteq Nat /\ \A m \in Ct!Ahead(u) : at[u] < m /\ m <= Len(tape[u])
      BY <1>0 DEF Ct!Ahead, Ct!Marks
    <3>3. c \in Ct!Ahead(u)
      BY <2>2, <3>2, LeastChosen
    <3> HIDE DEF c
    <3>4. c \in Nat /\ at[u] < c /\ c <= Len(tape[u])
      BY <1>0, <3>2, <3>3
    <3> QED BY <1>2, <1>5, <3>1, <3>4
  <2> QED BY <2>1, <2>2
<1>6. CASE FNC.func = "REW" /\ Ct!Ends(u, 0, {"BEOT"}) /\ tape' = tape
  BY <1>0, <1>2, <1>6
<1> QED BY <1>3, <1>4, <1>5, <1>6

LEMMA CtReadStarts ==
    ASSUME CtInv, NEW u \in Units, u \in active, FNC.func = "READ", ~FNC.second, Ct!ReadStart(u)
    PROVE  CtInv'
<1>0. /\ CtRegisters /\ at[u] \in Nat /\ at[u] <= Len(tape[u]) /\ Len(tape[u]) <= Capacity
      /\ Len(tape[u]) \in Nat /\ tape \in [Units -> Seq(Blocks)] /\ CT_MAXFR \in Nat
  BY CtTapes, LenProperties DEF CtInv, CtMedia, Ct!TapesAssumption
<1>1. CASE at[u] < Len(tape[u]) /\ tape' = tape /\ Ct!Ends(u, Ct!Over(u), {"EOF"})
  <2>1. Ct!Over(u) \in Nat /\ at[u] < Ct!Over(u) /\ Ct!Over(u) <= Len(tape[u])
    BY <1>0, <1>1 DEF Ct!Over
  <2>2. {"EOF"} \in SUBSET CtBits
    BY DEF CtBits, Ct!ALLERR
  <2> QED BY <1>0, <1>1, <2>1, <2>2, CtEnds
<1>2. CASE Ct!NotPut(u, {"CRC"})
  <2>1. {"CRC"} \in SUBSET CtBits
    BY DEF CtBits, Ct!ALLERR
  <2> QED BY <1>2, <2>1, CtStays
<1>3. ASSUME at[u] < Len(tape[u]), at' = [at EXCEPT ![u] = @ + 1], NEW length \in 1 .. CT_MAXFR,
             ct_blnt' = length + 2, ct_srb' = ct_srb \/ ct_srb' = ct_srb \union {"CRC"},
             Ct!GoesOn, UNCHANGED <<ct_bptr, ct_df, int_ct, tape>>
      PROVE  CtInv'
  <2>1. ct_bptr = 0 /\ (ct_write <=> FNC.func \in Ct!Writes)
    BY <1>0 DEF CtInv, WorkUnderWay
  <2>2. FNC' = [func |-> "READ", second |-> TRUE] /\ UNCHANGED <<ct_sra, active, polite, chars, ct_write>>
    BY <1>0, <1>3 DEF Ct!GoesOn, Ct!historyvars, CtRegisters
  <2>3. Ct!IntAgrees'
    <3>1. int_ct => Ct!Calls(ct_sra', ct_srb', ct_df')
      BY <1>3, <2>2 DEF CtInv, Ct!IntAgrees, Ct!Calls
    <3> QED BY <1>3, <2>1, <2>2, <3>1 DEF Ct!IntAgrees
  <2>4. Ct!CharsKept'
    <3>1. ct_srb' \cap {"TIM", "CRC"} = {} => ct_srb \cap {"TIM", "CRC"} = {}
      BY <1>3
    <3>2. ~ct_write
      BY <2>1 DEF Ct!Writes
    <3> QED BY <1>3, <2>2, <3>1, <3>2 DEF CtInv, Ct!CharsKept
  <2>5. ct_srb' \subseteq CtBits
    BY <1>0, <1>3 DEF CtRegisters, CtBits, Ct!ALLERR
  <2>6. ct_bptr' \in 0 .. CT_MAXFR + 2 /\ ct_blnt' \in 0 .. CT_MAXFR + 2 /\ ct_df' \in BOOLEAN
        /\ int_ct' \in BOOLEAN
    BY <1>0, <1>3 DEF CtRegisters
  <2> QED BY <1>3, <2>3, <2>4, <2>5, <2>6, CtGoesOn
<1>4. ASSUME at[u] < Len(tape[u]), at' = [at EXCEPT ![u] = @ + 1], 
             \E length \in 1 .. CT_MAXFR, bad \in BOOLEAN :
                /\ ct_blnt' = length + 2
                /\ ct_srb' = IF bad THEN ct_srb \union {"CRC"} ELSE ct_srb,
             Ct!GoesOn, UNCHANGED <<ct_bptr, ct_df, int_ct, tape>>
      PROVE  CtInv'
  BY <1>3, <1>4
<1> QED BY <1>1, <1>2, <1>4 DEF Ct!ReadStart

\* The data flag is raised, in time or not.
LEMMA DataFlagSet ==
    ASSUME CtInv, active # {}, NEW srb \in SUBSET CtBits, NEW timchk \in BOOLEAN, Ct!ct_set_df(srb, timchk),
           ct_sra' = ct_sra, FNC'.func # "READ" \/ ct_bptr' # 0
    PROVE  /\ ct_srb' \subseteq CtBits /\ srb \subseteq ct_srb' /\ (timchk /\ ct_df => "TIM" \in ct_srb')
           /\ ct_df' = TRUE /\ int_ct' \in BOOLEAN /\ Ct!IntAgrees'
<1>1. ct_srb' = srb \/ ct_srb' = srb \union {"TIM"}
  BY DEF Ct!ct_set_df, Ct!Timing
<1>2. CtRegisters /\ ct_sra.ie \in BOOLEAN
  BY DEF CtInv, CtRegisters
<1>3. int_ct' \in BOOLEAN /\ (int_ct' <=> int_ct \/ ct_sra.ie)
  BY <1>2 DEF Ct!ct_set_df, CtRegisters
<1>4. ct_df' = TRUE /\ (timchk /\ ct_df => "TIM" \in ct_srb')
  BY DEF Ct!ct_set_df, Ct!Timing
<1>5. int_ct => ct_sra.ie
  BY DEF CtInv, Ct!IntAgrees, Ct!Calls
<1>6. Ct!IntAgrees'
  BY <1>3, <1>4, <1>5 DEF Ct!IntAgrees, Ct!Calls
<1> QED BY <1>1, <1>3, <1>4, <1>6 DEF CtBits, Ct!ALLERR

LEMMA CtReadsOn ==
    ASSUME CtInv, NEW u \in Units, u \in active, FNC.func = "READ", FNC.second, Ct!ReadNext(u)
    PROVE  CtInv'
<1>0. CtRegisters /\ CtHistory /\ CT_MAXFR \in Nat \ {0} /\ ct_srb \in SUBSET CtBits
  BY CtTapes DEF CtInv, Ct!TapesAssumption, CtRegisters, CtBits
<1>1. CASE Ct!NotPut(u, {"CRC"})
  <2>1. {"CRC"} \in SUBSET CtBits
    BY DEF CtBits, Ct!ALLERR
  <2> QED BY <1>1, <2>1, CtStays
<1>2. CASE /\ ct_bptr < ct_blnt /\ ct_bptr' = ct_bptr + 1 /\ Ct!ct_set_df(ct_srb, TRUE)
           /\ Ct!GoesOn /\ UNCHANGED <<ct_blnt, tape, at>>
  <2>1. ct_bptr \in 0 .. CT_MAXFR + 2 /\ ct_blnt \in 0 .. CT_MAXFR + 2 /\ chars \in Nat
        /\ ct_df \in BOOLEAN
    BY <1>0 DEF CtRegisters, CtHistory
  <2>2. ct_bptr' \in 0 .. CT_MAXFR + 2 /\ ct_bptr' # 0 /\ ct_blnt' \in 0 .. CT_MAXFR + 2
    BY <1>0, <1>2, <2>1
  <2>3. FNC' = [func |-> "READ", second |-> TRUE] /\ UNCHANGED <<ct_sra, active, polite, chars, ct_write>>
    BY <1>0, <1>2 DEF Ct!GoesOn, Ct!historyvars, CtRegisters
  <2>4. /\ ct_srb' \subseteq CtBits /\ ct_srb \subseteq ct_srb' /\ (ct_df => "TIM" \in ct_srb')
        /\ ct_df' = TRUE /\ int_ct' \in BOOLEAN /\ Ct!IntAgrees'
    BY <1>0, <1>2, <2>2, <2>3, DataFlagSet
  <2>5. ~ct_write
    BY DEF CtInv, WorkUnderWay, Ct!Writes
  <2>6. Ct!CharsKept'
    <3> SUFFICES ASSUME polite, ct_srb' \cap {"TIM", "CRC"} = {} PROVE ct_bptr' = chars' + 1
      BY <2>3, <2>4, <2>5 DEF Ct!CharsKept
    <3>1. ct_srb \cap {"TIM", "CRC"} = {} /\ ~ct_df
      BY <2>4
    <3>2. ct_bptr = chars
      BY <2>1, <2>5, <3>1 DEF CtInv, Ct!CharsKept
    <3> QED BY <1>2, <2>1, <2>3, <3>2
  <2> QED BY <1>2, <2>2, <2>4, <2>6, CtGoesOn
<1> QED BY <1>1, <1>2 DEF Ct!ReadNext

LEMMA CtWritesOn ==
    ASSUME CtInv, NEW u \in Units, u \in active, FNC.func = "WRITE", Ct!WriteNext(u)
    PROVE  CtInv'
<1>0. CtRegisters /\ CtHistory /\ CT_MAXFR \in Nat \ {0} /\ ct_srb \in SUBSET CtBits
  BY CtTapes DEF CtInv, Ct!TapesAssumption, CtRegisters, CtBits
<1>1. ct_bptr \in 0 .. CT_MAXFR + 2 /\ ct_blnt \in 0 .. CT_MAXFR + 2 /\ chars \in Nat
  BY <1>0 DEF CtRegisters, CtHistory
<1>2. FNC' = [func |-> "WRITE", second |-> TRUE] /\ UNCHANGED <<ct_sra, active, polite, chars, ct_write>>
      /\ ct_blnt' = ct_blnt /\ tape' = tape /\ at' = at /\ Ct!GoesOn
  BY <1>0 DEF Ct!WriteNext, Ct!GoesOn, Ct!historyvars, CtRegisters
<1>3. ct_write
  BY DEF CtInv, WorkUnderWay, Ct!Writes
<1>4. CASE FNC.second
  <2>1. /\ ct_bptr' = IF ct_bptr < CT_MAXFR THEN ct_bptr + 1 ELSE ct_bptr
        /\ Ct!ct_set_df(ct_srb, TRUE)
    BY <1>4 DEF Ct!WriteNext
  <2>2. ct_bptr' \in 0 .. CT_MAXFR + 2
    BY <1>0, <1>1, <2>1
  <2>3. /\ ct_srb' \subseteq CtBits /\ ct_srb \subseteq ct_srb' /\ (ct_df => "TIM" \in ct_srb')
        /\ ct_df' = TRUE /\ int_ct' \in BOOLEAN /\ Ct!IntAgrees'
    BY <1>0, <1>2, <2>1, DataFlagSet
  <2>4. Ct!CharsKept'
    <3> SUFFICES ASSUME polite, ct_srb' \cap {"TIM", "CRC"} = {} PROVE ct_bptr' = Ct!Least(chars, CT_MAXFR)
      BY <1>1, <1>2, <1>3, <2>3 DEF Ct!CharsKept, Ct!OnItsWay
    <3>1. ct_srb \cap {"TIM", "CRC"} = {} /\ ~ct_df
      BY <2>3
    <3>2. ct_bptr = Ct!Least(chars - 1, CT_MAXFR)
      BY <1>3, <3>1 DEF CtInv, Ct!CharsKept, Ct!OnItsWay
    <3> QED BY <1>0, <1>1, <2>1, <3>2 DEF Ct!Least
  <2> QED BY <1>1, <1>2, <2>2, <2>3, <2>4, CtGoesOn
<1>5. CASE ~FNC.second
  <2>1. UNCHANGED <<ct_srb, ct_df, int_ct, ct_bptr>>
    BY <1>5 DEF Ct!WriteNext
  <2>2. Ct!IntAgrees'
    BY <1>2, <2>1 DEF CtInv, Ct!IntAgrees, Ct!Calls
  <2>3. Ct!CharsKept'
    BY <1>2, <1>3, <2>1 DEF CtInv, Ct!CharsKept, Ct!OnItsWay
  <2> QED BY <1>0, <1>1, <1>2, <2>1, <2>2, <2>3, CtGoesOn DEF CtRegisters, CtBits
<1> QED BY <1>4, <1>5

LEMMA CtChecksOn ==
    ASSUME CtInv, NEW u \in Units, u \in active, FNC.func = "CRC", ~FNC.second, ~ct_write, Ct!SecondCrc(u)
    PROVE  CtInv'
<1>0. CtRegisters /\ CtHistory /\ CT_MAXFR \in Nat \ {0} /\ ct_srb \in SUBSET CtBits
  BY CtTapes DEF CtInv, Ct!TapesAssumption, CtRegisters, CtBits
<1>1. ct_bptr \in 0 .. CT_MAXFR + 2 /\ ct_blnt \in 0 .. CT_MAXFR + 2 /\ chars \in Nat
  BY <1>0 DEF CtRegisters, CtHistory
<1>2. FNC' = [func |-> "CRC", second |-> TRUE] /\ UNCHANGED <<ct_sra, active, polite, chars, ct_write>>
      /\ ct_blnt' = ct_blnt /\ tape' = tape /\ at' = at /\ Ct!GoesOn
  BY <1>0 DEF Ct!SecondCrc, Ct!GoesOn, Ct!historyvars, CtRegisters
<1>3. ~ct_df
  BY DEF CtInv, WorkUnderWay
<1>4. CASE ct_bptr < ct_blnt
  <2>1. ct_bptr' = ct_bptr + 1 /\ Ct!ct_set_df(ct_srb, FALSE)
    BY <1>4 DEF Ct!SecondCrc
  <2>2. ct_bptr' \in 0 .. CT_MAXFR + 2
    BY <1>0, <1>1, <1>4, <2>1
  <2>3. /\ ct_srb' \subseteq CtBits /\ ct_srb \subseteq ct_srb'
        /\ ct_df' = TRUE /\ int_ct' \in BOOLEAN /\ Ct!IntAgrees'
    BY <1>0, <1>2, <2>1, DataFlagSet
  <2>4. Ct!CharsKept'
    <3> SUFFICES ASSUME polite, ct_srb' \cap {"TIM", "CRC"} = {} PROVE ct_bptr' = chars + 1
      BY <1>1, <1>2, <2>3 DEF Ct!CharsKept
    <3>1. ct_srb \cap {"TIM", "CRC"} = {}
      BY <2>3
    <3>2. ct_bptr = chars
      BY <1>1, <1>3, <3>1 DEF CtInv, Ct!CharsKept
    <3> QED BY <2>1, <3>2
  <2> QED BY <1>1, <1>2, <2>2, <2>3, <2>4, CtGoesOn
<1>5. CASE ~(ct_bptr < ct_blnt)
  <2>1. ct_bptr' = ct_bptr /\ Ct!ct_set_df(ct_srb \union {"CRC"}, FALSE)
    BY <1>5 DEF Ct!SecondCrc
  <2>2. ct_srb \union {"CRC"} \in SUBSET CtBits
    BY <1>0 DEF CtBits, Ct!ALLERR
  <2>3. /\ ct_srb' \subseteq CtBits /\ "CRC" \in ct_srb'
        /\ ct_df' = TRUE /\ int_ct' \in BOOLEAN /\ Ct!IntAgrees'
    BY <1>2, <2>1, <2>2, DataFlagSet
  <2>4. Ct!CharsKept'
    BY <2>3 DEF Ct!CharsKept
  <2> QED BY <1>1, <1>2, <2>1, <2>3, <2>4, CtGoesOn
<1> QED BY <1>4, <1>5

LEMMA CtServiceKept == ASSUME CtInv, NEW u \in Units, Ct!ct_svc(u) PROVE CtInv'
<1>0. CtRegisters /\ u \in active
  BY DEF CtInv, Ct!ct_svc
<1>1. {{}, {"CRC"}, {"BEOT"}, {"WLE"}} \subseteq SUBSET CtBits
  BY DEF CtBits, Ct!ALLERR
<1>2. CASE \E errors \in {{}, {"CRC"}, {"BEOT"}, {"WLE"}} : Ct!NotPut(u, errors)
  BY <1>0, <1>1, <1>2, CtStays
<1>3. ASSUME \/ FNC.func = "CRC" /\ ~FNC.second /\ ct_write /\ Ct!WriteBlock(u)
             \/ FNC.func = "CRC" /\ FNC.second /\ Ct!CrcChecked(u)
             \/ FNC.func = "WFG" /\ Ct!WriteGap(u)
      PROVE  CtInv'
  <2>1. CASE Ct!Put(u, "R") \/ Ct!Put(u, "M")
    BY <1>0, <2>1, CtPut DEF Blocks
  <2> QED BY <1>2, <1>3, <2>1 DEF Ct!WriteBlock, Ct!CrcChecked, Ct!WriteGap
<1>4. CASE Ct!Performed(u)
  BY <1>0, <1>2, <1>3, <1>4, CtReadStarts, CtReadsOn, CtWritesOn, CtChecksOn, CtSpaces DEF Ct!Performed
<1> QED BY <1>2, <1>4 DEF Ct!ct_svc

LEMMA CtOtherTape ==
    ASSUME CtInv, NEW u \in Units, Ct!Other(u), attached' \subseteq Units, locks' \subseteq Units,
           tape' \in [Units -> Seq(Blocks)], \A v \in Units : Len(tape'[v]) <= Capacity,
           \A v \in Units \ {u} : tape'[v] = tape[v]
    PROVE  CtInv'
<1>0. CtRegisters /\ CtMedia /\ CtHistory /\ CtGaps /\ ct_srb \in SUBSET CtBits
  BY DEF CtInv, CtRegisters, CtBits
<1>1. /\ UST' = [UST EXCEPT ![u] = {}] /\ at' = [at EXCEPT ![u] = 0]
      /\ said' = [said EXCEPT ![u] = 0] /\ before' = [before EXCEPT ![u] = 0]
      /\ UNCHANGED <<ct_sra, ct_df, ct_write, ct_bptr, ct_blnt, FNC, active, polite, chars>>
  BY DEF Ct!Other
<1>2. /\ ct_srb' \subseteq CtBits /\ int_ct' \in BOOLEAN /\ Ct!IntAgrees'
      /\ ct_srb' \cap {"TIM", "CRC"} = ct_srb \cap {"TIM", "CRC"}
  BY <1>0, StatusUpdated DEF Ct!Other
<1>3. CtRegisters'
  BY <1>0, <1>1, <1>2 DEF CtRegisters, CtBits
<1>4. /\ UST' \in [Units -> SUBSET Ct!BothWays] /\ at' \in [Units -> Nat] /\ at'[u] = 0 /\ UST'[u] = {}
      /\ said' \in [Units -> Nat] /\ before' \in [Units -> Nat] /\ said'[u] = 0 /\ before'[u] = 0
      /\ \A v \in Units \ {u} : /\ at'[v] = at[v] /\ UST'[v] = UST[v]
                                /\ said'[v] = said[v] /\ before'[v] = before[v]
  BY <1>0, <1>1 DEF CtMedia, CtHistory
<1>5. CtMedia'
  <2>1. \A v \in Units : Len(tape'[v]) \in Nat
    BY LenProperties
  <2>2. \A v \in Units \ {u} : at'[v] <= Len(tape'[v])
    BY <1>0, <1>4 DEF CtMedia
  <2>3. at'[u] <= Len(tape'[u])
    BY <1>4, <2>1
  <2>4. \A v \in Units : at'[v] <= Len(tape'[v])
    BY <2>2, <2>3
  <2> QED BY <1>0, <1>1, <1>4, <2>4 DEF CtMedia
<1>6. CtHistory'
  BY <1>0, <1>1, <1>4 DEF CtHistory
<1>7. WorkUnderWay' /\ Ct!CharsKept'
  BY <1>1, <1>2 DEF CtInv, WorkUnderWay, Ct!CharsKept, Ct!OnItsWay, Ct!Least
<1>8. CtGaps'
  <2>1. AtTheGap'
    BY <1>0, <1>1, <1>4 DEF CtGaps, AtTheGap
  <2>2. GapBehind'
    BY <1>0, <1>1, <1>4 DEF CtGaps, GapBehind, CtMedia
  <2> QED BY <1>0, <1>1, <2>1, <2>2 DEF CtGaps, OneAtWork
<1> QED BY <1>2, <1>3, <1>5, <1>6, <1>7, <1>8 DEF CtInv

LEMMA CtOperatorKept ==
    ASSUME CtInv, NEW u \in Tapes, Ct!ct_attach(u) \/ Ct!ct_detach(u) \/ Ct!set_writelock(u) PROVE CtInv'
<1>0. CtMedia /\ u \in Units
  BY CtTapes DEF CtInv, Ct!TapesAssumption
<1>1. CASE Ct!ct_attach(u)
  <2>1. PICK layout \in Layouts : tape' = [tape EXCEPT ![u] = layout]
    BY <1>1 DEF Ct!ct_attach
  <2>2. layout \in Seq(Blocks) /\ Len(layout) <= Capacity
    BY CtTapes DEF Ct!TapesAssumption, Blocks
  <2>3. /\ tape' \in [Units -> Seq(Blocks)] /\ \A v \in Units : Len(tape'[v]) <= Capacity
        /\ \A v \in Units \ {u} : tape'[v] = tape[v]
    BY <1>0, <2>1, <2>2 DEF CtMedia
  <2>4. Ct!Other(u) /\ attached' \subseteq Units /\ locks' \subseteq Units
    BY <1>0, <1>1 DEF Ct!ct_attach, CtMedia
  <2> QED BY <1>0, <2>3, <2>4, CtOtherTape
<1>2. CASE Ct!ct_detach(u)
  <2>1. Ct!Other(u) /\ attached' \subseteq Units /\ locks' \subseteq Units /\ tape' = tape
    BY <1>0, <1>2 DEF Ct!ct_detach, CtMedia
  <2> QED BY <1>0, <2>1, CtOtherTape DEF CtMedia
<1>3. CASE Ct!set_writelock(u)
  <2>1. locks' \subseteq Units
    BY <1>0, <1>3 DEF Ct!set_writelock, CtMedia
  <2>2. UNCHANGED <<ct_sra, ct_srb, ct_df, int_ct, ct_write, ct_bptr, ct_blnt, FNC, UST, tape, at, attached,
                    active, polite, chars, said, before>>
    BY <1>3 DEF Ct!set_writelock, Ct!commandvars, Ct!historyvars
  <2> QED
    BY <2>1, <2>2
    DEF CtInv, CtRegisters, CtMedia, CtHistory, WorkUnderWay, Ct!IntAgrees, Ct!Calls, Ct!CharsKept,
        Ct!OnItsWay, CtGaps, AtTheGap, GapBehind, OneAtWork
<1> QED BY <1>1, <1>2, <1>3

LEMMA CtStepKept == ASSUME CtInv, Ct!Next PROVE CtInv'
BY CtIotKept, CtResetKept, CtServiceKept, CtOperatorKept DEF Ct!Next

----------------------------------------------------------------------------
(* The TC08.                                                               *)
none == -1
LineTop == Tc!FWDEZ + EZLIN

TcAsked == program.fncs \union {"MOVE"}
TcStaged == (program.fncs \ {"WMRK"}) \union {"MOVE", "OFR"}

\* What a drive does and will do.
SlowsDown(s, d) == s = <<Tc!Stage("dec", d, "MOVE")>>
TurnsRound(s, d, e, f) ==
    d # e /\ s = <<Tc!Stage("dec", d, "MOVE"), Tc!Stage("acc", e, "MOVE"), Tc!Stage("ats", e, f)>>
SpeedsUp(s, d, f) == s = <<Tc!Stage("acc", d, "MOVE"), Tc!Stage("ats", d, f)>>
Runs(s, d, f) == s = <<Tc!Stage("ats", d, f)>>

Turns(d, e) ==
    {<<Tc!Stage("dec", d, "MOVE"), Tc!Stage("acc", e, "MOVE"), Tc!Stage("ats", e, f)>> : f \in TcStaged}
Slows == {<<Tc!Stage("dec", d, "MOVE")>> : d \in BOOLEAN}
Speeds == {<<Tc!Stage("acc", d, "MOVE"), Tc!Stage("ats", d, f)>> : d \in BOOLEAN, f \in TcStaged}
AtSpeeds == {<<Tc!Stage("ats", d, f)>> : d \in BOOLEAN, f \in TcStaged}
Courses == {<<>>} \union Slows \union Speeds \union AtSpeeds \union Turns(TRUE, FALSE) \union Turns(FALSE, TRUE)

Controls == [unit : Units, go : BOOLEAN, dir : BOOLEAN, fnc : TcAsked, mode : BOOLEAN, enb : BOOLEAN]

TcRecord ==
    [sa : Controls, erf : BOOLEAN, dtf : BOOLEAN, int : BOOLEAN, wc : 0 .. MaxCount + 1,
     substate : SUBSET {"WCO", "SOB"}, state : [Units -> Courses],
     pos : [Units -> -1 .. LineTop + 1], due : [Units -> none .. LineTop + 2],
     attached : SUBSET Tapes, dirty : SUBSET Tapes, written : SUBSET Tapes]

\* A drive that moves has a tape and an event to come, which is not the moment it
\* starts.
Served(c, u) ==
    c.state[u] # <<>> =>
        /\ c.due[u] # none /\ u \in c.attached
        /\ \A d \in BOOLEAN, f \in TcStaged : SpeedsUp(c.state[u], d, f) => c.due[u] > 0

\* Where a tape at speed will be when its event comes: off the reel if that is where
\* it is sent, at a block number if it searches, or off the reel.
Onwards(dir, p, g) == IF dir THEN p - g ELSE p + g
Lands(c, u) == Onwards(Tc!Dir(c, u), c.pos[u], c.due[u])
OnReel(p) == p \in 0 .. LineTop
NumberLine(dir) == IF dir THEN Tc!LPERB - 2 ELSE 1

LandsRight(c, u) ==
    \A d \in BOOLEAN, f \in TcStaged : Runs(c.state[u], d, f) =>
        /\ f = "OFR" => ~OnReel(Lands(c, u))
        /\ f = "SRCH" => ~OnReel(Lands(c, u)) \/ Tc!LIN2OF(Lands(c, u)) = NumberLine(d)

\* The drive selected does, or is going to do, what status A asks for.
AsAsked(c) ==
    \A d \in BOOLEAN, e \in BOOLEAN, f \in TcStaged :
        LET s == c.state[c.sa.unit] IN
        c.sa.fnc # "MOVE" /\ (TurnsRound(s, e, d, f) \/ SpeedsUp(s, d, f) \/ Runs(s, d, f)) =>
            f = c.sa.fnc /\ d = c.sa.dir

\* The drive that found a block is at its number, or has been told to transfer and
\* comes to the first word.
FirstWordAt(dir) == IF dir THEN Tc!LPERB - HTLIN - 1 ELSE HTLIN
WayToGo(c, u) == IF c.sa.fnc = "SRCH" THEN HTLIN - 1 ELSE c.due[u]
HeadsFor(c, fd) ==
    LET u == fd.unit
        p == c.pos[u]
    IN  /\ u = c.sa.unit /\ \E f \in TcStaged : Runs(c.state[u], c.sa.dir, f)
        /\ ~Tc!QEZ(p) /\ Tc!LIN2BL(p) = fd.blk
        /\ c.sa.fnc \in {"SRCH", "READ", "WRIT"}
        /\ Onwards(c.sa.dir, Tc!LIN2OF(p), WayToGo(c, u)) = FirstWordAt(c.sa.dir)

FoundOf(c, fd) ==
    \/ fd = Tc!Nowhere
    \/ /\ fd \in [unit : Units, blk : Nat, at : Int]
       /\ fd.at = none => HeadsFor(c, fd)
       /\ fd.at # none => fd.at = fd.blk

Sound(c) == c \in TcRecord /\ c.dirty \subseteq c.attached
Agrees(c) == c.int <=> (c.sa.enb /\ (c.erf \/ c.dtf))
DrivesServed(c) == \A v \in Units : Served(c, v) /\ LandsRight(c, v)

TcHolds(c) == Sound(c) /\ Agrees(c) /\ DrivesServed(c) /\ AsAsked(c)

TcInv == program \in Programs /\ TcHolds(dt) /\ FoundOf(dt, found)

\* Blocks and lines.
LEMMA LineSizes ==
    /\ EZLIN \in Nat \ {0} /\ HTLIN \in Nat \ {0} /\ BSIZE \in Nat \ {0} /\ TSIZE \in Nat \ {0}
    /\ MaxCount \in Nat /\ 0 \in Units /\ Units \subseteq Nat /\ Tapes \subseteq Units
    /\ Tc!LPERB \in Nat \ {0} /\ Tc!LPERB = 2 * HTLIN + BSIZE
    /\ TSIZE * Tc!LPERB \in Nat /\ Tc!LPERB <= TSIZE * Tc!LPERB
    /\ Tc!FWDEZ \in Nat /\ Tc!FWDEZ = EZLIN + TSIZE * Tc!LPERB
    /\ LineTop \in Nat /\ LineTop = Tc!FWDEZ + EZLIN
    /\ Decel \in 1 .. Tc!FWDEZ /\ Accel \in 1 .. Tc!FWDEZ
<1>1. EZLIN \in Nat \ {0} /\ HTLIN \in Nat \ {0} /\ BSIZE \in Nat \ {0} /\ TSIZE \in Nat \ {0}
  BY TcSizes DEF Tc!SizesAssumption
<1>2. Tc!LPERB \in Nat \ {0} /\ Tc!LPERB = 2 * HTLIN + BSIZE
  BY <1>1 DEF Tc!LPERB
<1>3. TSIZE * Tc!LPERB \in Nat /\ Tc!LPERB <= TSIZE * Tc!LPERB
  <2>1. PICK n \in Nat : TSIZE = n + 1
    <3>1. TSIZE - 1 \in Nat /\ TSIZE = (TSIZE - 1) + 1
      BY <1>1
    <3> QED BY <3>1
  <2>2. n * Tc!LPERB \in Nat
    BY <1>2
  <2>3. TSIZE * Tc!LPERB = (n * Tc!LPERB) + Tc!LPERB
    BY <1>2, <2>1
  <2> QED BY <1>2, <2>2, <2>3
<1>4. Tc!FWDEZ \in Nat /\ Tc!FWDEZ = EZLIN + TSIZE * Tc!LPERB
  BY <1>1, <1>3 DEF Tc!FWDEZ
<1>5. LineTop \in Nat /\ LineTop = Tc!FWDEZ + EZLIN
  BY <1>1, <1>4 DEF LineTop
<1> QED BY <1>1, <1>2, <1>3, <1>4, <1>5, TcSizes DEF Tc!SizesAssumption

\* A line is one of a block, ...
LEMMA LineOfBlock ==
    ASSUME NEW p \in Int
    PROVE  /\ Tc!LIN2BL(p) \in Int /\ Tc!LIN2OF(p) \in 0 .. Tc!LPERB - 1
           /\ p = Tc!BLK2LN(Tc!LIN2BL(p)) + Tc!LIN2OF(p)
<1> DEFINE x == p - EZLIN
<1>1. x \in Int /\ p = EZLIN + x
  BY LineSizes
<1> HIDE DEF x
<1>2. x = (x \div Tc!LPERB) * Tc!LPERB + (x % Tc!LPERB) /\ x % Tc!LPERB \in 0 .. Tc!LPERB - 1
      /\ x \div Tc!LPERB \in Int
  BY <1>1, LineSizes
<1>3. Tc!LIN2BL(p) = x \div Tc!LPERB /\ Tc!LIN2OF(p) = x % Tc!LPERB
  BY DEF x, Tc!LIN2BL, Tc!LIN2OF
<1>4. Tc!BLK2LN(Tc!LIN2BL(p)) = EZLIN + (x \div Tc!LPERB) * Tc!LPERB
  BY <1>3 DEF Tc!BLK2LN
<1> HIDE DEF x
<1>5. PICK y \in Int : y = (x \div Tc!LPERB) * Tc!LPERB
  BY <1>2, LineSizes
<1>6. p = EZLIN + y + (x % Tc!LPERB)
  BY <1>1, <1>2, <1>5, LineSizes
<1> QED BY <1>2, <1>3, <1>4, <1>5, <1>6

\* ... of just one, ...
LEMMA BlockOfLine ==
    ASSUME NEW b \in Int, NEW o \in 0 .. Tc!LPERB - 1
    PROVE  /\ Tc!BLK2LN(b) \in Int
           /\ Tc!LIN2BL(Tc!BLK2LN(b) + o) = b /\ Tc!LIN2OF(Tc!BLK2LN(b) + o) = o
<1>1. PICK y \in Int : y = b * Tc!LPERB
  BY LineSizes
<1>2. Tc!BLK2LN(b) = EZLIN + y /\ Tc!BLK2LN(b) \in Int
  BY <1>1, LineSizes DEF Tc!BLK2LN
<1>3. (Tc!BLK2LN(b) + o) - EZLIN = b * Tc!LPERB + o
  BY <1>1, <1>2, LineSizes
<1>4. (b * Tc!LPERB + o) \div Tc!LPERB = b /\ (b * Tc!LPERB + o) % Tc!LPERB = o
  BY LineSizes
<1> QED BY <1>2, <1>3, <1>4 DEF Tc!LIN2BL, Tc!LIN2OF

\* ... the next block begins after it, and the blocks are between the end zones.
LEMMA BlocksInOrder ==
    ASSUME NEW b \in Int
    PROVE  /\ Tc!BLK2LN(b) \in Int
           /\ Tc!BLK2LN(b + 1) = Tc!BLK2LN(b) + Tc!LPERB /\ Tc!BLK2LN(b - 1) = Tc!BLK2LN(b) - Tc!LPERB
           /\ b \in 0 .. TSIZE => Tc!BLK2LN(b) \in EZLIN .. Tc!FWDEZ
           /\ b < 0 => Tc!BLK2LN(b) <= EZLIN - Tc!LPERB
           /\ b >= TSIZE => Tc!BLK2LN(b) >= Tc!FWDEZ
<1>1. PICK y \in Int : y = b * Tc!LPERB
  BY LineSizes
<1>2. Tc!BLK2LN(b) = EZLIN + y /\ Tc!BLK2LN(b) \in Int
  BY <1>1, LineSizes DEF Tc!BLK2LN
<1>3. (b + 1) * Tc!LPERB = y + Tc!LPERB /\ (b - 1) * Tc!LPERB = y - Tc!LPERB
  BY <1>1, LineSizes
<1>4. Tc!BLK2LN(b + 1) = EZLIN + (y + Tc!LPERB) /\ Tc!BLK2LN(b - 1) = EZLIN + (y - Tc!LPERB)
  BY <1>3 DEF Tc!BLK2LN
<1>5. b >= 0 => y >= 0
  <2> SUFFICES ASSUME b >= 0 PROVE y >= 0
    OBVIOUS
  <2>1. b \in Nat
    OBVIOUS
  <2> QED BY <1>1, <2>1, LineSizes
<1>6. b < 0 => y <= -Tc!LPERB
  <2> SUFFICES ASSUME b < 0 PROVE y <= -Tc!LPERB
    OBVIOUS
  <2>1. PICK n \in Nat : b = -1 - n
    <3>1. -1 - b \in Nat /\ b = -1 - (-1 - b)
      OBVIOUS
    <3> QED BY <3>1
  <2>2. n * Tc!LPERB \in Nat /\ b * Tc!LPERB = -Tc!LPERB - (n * Tc!LPERB)
    BY <2>1, LineSizes
  <2> QED BY <1>1, <2>2, LineSizes
<1>7. b <= TSIZE => y <= TSIZE * Tc!LPERB
  <2> SUFFICES ASSUME b <= TSIZE PROVE y <= TSIZE * Tc!LPERB
    OBVIOUS
  <2>1. PICK n \in Nat : b = TSIZE - n
    <3>1. TSIZE - b \in Nat /\ b = TSIZE - (TSIZE - b)
      BY LineSizes
    <3> QED BY <3>1
  <2>2. n * Tc!LPERB \in Nat /\ b * Tc!LPERB = (TSIZE * Tc!LPERB) - (n * Tc!LPERB)
    BY <2>1, LineSizes
  <2> QED BY <1>1, <2>2, LineSizes
<1>8. b >= TSIZE => y >= TSIZE * Tc!LPERB
  <2> SUFFICES ASSUME b >= TSIZE PROVE y >= TSIZE * Tc!LPERB
    OBVIOUS
  <2>1. PICK n \in Nat : b = TSIZE + n
    <3>1. b - TSIZE \in Nat /\ b = TSIZE + (b - TSIZE)
      BY LineSizes
    <3> QED BY <3>1
  <2>2. n * Tc!LPERB \in Nat /\ b * Tc!LPERB = (TSIZE * Tc!LPERB) + (n * Tc!LPERB)
    BY <2>1, LineSizes
  <2> QED BY <1>1, <2>2, LineSizes
<1> DEFINE t == TSIZE * Tc!LPERB
<1>9. t \in Nat /\ Tc!FWDEZ = EZLIN + t /\ (b <= TSIZE => y <= t) /\ (b >= TSIZE => y >= t)
  BY <1>7, <1>8, LineSizes
<1> HIDE DEF t
<1>10. EZLIN \in Nat /\ Tc!LPERB \in Nat /\ TSIZE \in Nat
  BY LineSizes
<1> QED BY <1>2, <1>4, <1>5, <1>6, <1>9, <1>10

LEMMA LineInBlocks ==
    ASSUME NEW p \in Int, ~Tc!QEZ(p)
    PROVE  p \in EZLIN .. Tc!FWDEZ - 1 /\ Tc!LIN2BL(p) \in 0 .. TSIZE - 1
<1>1. p \in EZLIN .. Tc!FWDEZ - 1
  BY LineSizes DEF Tc!QEZ, Tc!QREZ, Tc!QFEZ
<1> DEFINE b == Tc!LIN2BL(p)
<1>2. b \in Int /\ Tc!LIN2OF(p) \in 0 .. Tc!LPERB - 1 /\ p = Tc!BLK2LN(b) + Tc!LIN2OF(p)
  BY LineOfBlock
<1> HIDE DEF b
<1>3. /\ Tc!BLK2LN(b) \in Int /\ (b < 0 => Tc!BLK2LN(b) <= EZLIN - Tc!LPERB)
      /\ (b >= TSIZE => Tc!BLK2LN(b) >= Tc!FWDEZ)
  BY <1>2, BlocksInOrder
<1>4. Tc!FWDEZ \in Nat /\ EZLIN \in Nat /\ Tc!LPERB \in Nat /\ TSIZE \in Nat
  BY LineSizes
<1>5. b \in 0 .. TSIZE - 1
  BY <1>1, <1>2, <1>3, <1>4
<1> QED BY <1>1, <1>5 DEF b

\* A tape that searches goes from one block number to the next.
LEMMA NextNumber ==
    ASSUME NEW p \in Int
    PROVE  Tc!LIN2OF(p + Tc!LPERB) = Tc!LIN2OF(p) /\ Tc!LIN2OF(p - Tc!LPERB) = Tc!LIN2OF(p)
<1> DEFINE b == Tc!LIN2BL(p)
           o == Tc!LIN2OF(p)
<1>1. b \in Int /\ o \in 0 .. Tc!LPERB - 1 /\ p = Tc!BLK2LN(b) + o
  BY LineOfBlock
<1> HIDE DEF b, o
<1>2. /\ Tc!BLK2LN(b) \in Int
      /\ Tc!BLK2LN(b + 1) = Tc!BLK2LN(b) + Tc!LPERB /\ Tc!BLK2LN(b - 1) = Tc!BLK2LN(b) - Tc!LPERB
  BY <1>1, BlocksInOrder
<1>3. p + Tc!LPERB = Tc!BLK2LN(b + 1) + o /\ p - Tc!LPERB = Tc!BLK2LN(b - 1) + o
  BY <1>1, <1>2, LineSizes
<1>4. Tc!LIN2OF(Tc!BLK2LN(b + 1) + o) = o /\ Tc!LIN2OF(Tc!BLK2LN(b - 1) + o) = o
  <2>1. b + 1 \in Int /\ b - 1 \in Int
    BY <1>1
  <2> QED BY <1>1, <2>1, BlockOfLine
<1> QED BY <1>3, <1>4 DEF o

\* A tape is on its way to where it looks for a number or a word unless it is in the
\* end zone that it is heading for.
OnItsWay(p, dir) == IF dir THEN p = -1 \/ p \in EZLIN .. LineTop ELSE p \in 0 .. Tc!FWDEZ - 1

\* It stops at an end zone, ...
LEMMA ZoneAhead ==
    ASSUME NEW dir \in BOOLEAN, NEW p \in -1 .. LineTop + 1
    PROVE  Tc!Distance(Tc!EndZoneAhead(dir), p) \in 0 .. LineTop + 2
<1>1. CASE dir
  BY <1>1, LineSizes DEF Tc!Distance, Tc!EndZoneAhead
<1>2. CASE ~dir
  BY <1>2, LineSizes DEF Tc!Distance, Tc!EndZoneAhead
<1> QED BY <1>1, <1>2

\* ... or runs off the reel, ...
LEMMA EndAhead ==
    ASSUME NEW dir \in BOOLEAN, NEW p \in -1 .. LineTop + 1
    PROVE  LET g == Tc!Distance(IF dir THEN -1 ELSE Tc!FWDEZ + EZLIN + 1, p) IN
           g \in 0 .. LineTop + 2 /\ ~OnReel(Onwards(dir, p, g))
<1>1. CASE dir
  BY <1>1, LineSizes DEF Tc!Distance, OnReel, Onwards
<1>2. CASE ~dir
  BY <1>2, LineSizes DEF Tc!Distance, OnReel, Onwards
<1> QED BY <1>1, <1>2

\* ... or gets to the number of a block.
LEMMA NumbersAhead ==
    ASSUME NEW dir \in BOOLEAN, NEW p \in Int, OnItsWay(p, dir)
    PROVE  LET g == Tc!Distance(Tc!NumberAhead(p, dir), p)
               q == Onwards(dir, p, g)
           IN  g \in 0 .. LineTop + 2 /\ (~OnReel(q) \/ Tc!LIN2OF(q) = NumberLine(dir))
<1> DEFINE b == Tc!LIN2BL(p)
           o == Tc!LIN2OF(p)
           L(k) == Tc!BLK2LN(k)
<1>1. b \in Int /\ o \in 0 .. Tc!LPERB - 1 /\ p = L(b) + o
  BY LineOfBlock
<1>2. EZLIN \in Nat \ {0} /\ Tc!LPERB \in Nat /\ Tc!LPERB >= 3 /\ Tc!FWDEZ >= EZLIN + Tc!LPERB
      /\ Tc!FWDEZ \in Nat /\ LineTop = Tc!FWDEZ + EZLIN /\ TSIZE \in Nat
  BY LineSizes
<1>3. L(0) = EZLIN /\ L(TSIZE) = Tc!FWDEZ
  BY LineSizes DEF Tc!BLK2LN, Tc!FWDEZ
<1>4. L(b) \in Int /\ L(b + 1) = L(b) + Tc!LPERB /\ L(b - 1) = L(b) - Tc!LPERB
      /\ L(TSIZE - 1) = L(TSIZE) - Tc!LPERB
  BY <1>1, <1>2, BlocksInOrder
<1>5. ~Tc!QEZ(p) => p \in EZLIN .. Tc!FWDEZ - 1 /\ b \in 0 .. TSIZE - 1
  BY LineInBlocks
<1> HIDE DEF b, o, L
<1>6. CASE dir /\ Tc!QFEZ(p)
  <2>1. Tc!NumberAhead(p, dir) = L(TSIZE) - 2 /\ p \in -1 .. LineTop /\ p \notin 0 .. Tc!FWDEZ - 1
    BY <1>2, <1>6 DEF Tc!NumberAhead, Tc!QFEZ, OnItsWay, L
  <2>2. CASE p = -1
    <3>1. Tc!Distance(Tc!NumberAhead(p, dir), p) = Tc!FWDEZ - 1
      BY <1>2, <1>3, <2>1, <2>2 DEF Tc!Distance
    <3>2. ~OnReel(Onwards(dir, p, Tc!FWDEZ - 1)) /\ Tc!FWDEZ - 1 \in 0 .. LineTop + 2
      BY <1>2, <1>6, <2>2 DEF Onwards, OnReel
    <3> QED BY <3>1, <3>2
  <2>3. CASE p # -1
    <3>1. Tc!Distance(Tc!NumberAhead(p, dir), p) = p - (L(TSIZE) - 2)
      BY <1>2, <1>3, <2>1, <2>3 DEF Tc!Distance
    <3>2. Onwards(dir, p, p - (L(TSIZE) - 2)) = L(TSIZE - 1) + (Tc!LPERB - 2)
      BY <1>2, <1>3, <1>4, <1>6, <2>1 DEF Onwards
    <3>3. Tc!LIN2OF(Tc!BLK2LN(TSIZE - 1) + (Tc!LPERB - 2)) = Tc!LPERB - 2
      <4>1. TSIZE - 1 \in Int /\ Tc!LPERB - 2 \in 0 .. Tc!LPERB - 1
        BY <1>2
      <4> QED BY <4>1, BlockOfLine
    <3>4. p - (L(TSIZE) - 2) \in 0 .. LineTop + 2
      BY <1>2, <1>3, <2>1, <2>3
    <3> QED BY <1>6, <3>1, <3>2, <3>3, <3>4 DEF NumberLine, L
  <2> QED BY <2>2, <2>3
<1>7. CASE dir /\ ~Tc!QFEZ(p)
  <2>1. Tc!NumberAhead(p, dir) = L(b) - 2
    BY <1>7 DEF Tc!NumberAhead, L, b
  <2>2. p \in EZLIN .. Tc!FWDEZ - 1
    BY <1>2, <1>7 DEF OnItsWay, Tc!QFEZ
  <2>3. ~Tc!QEZ(p)
    BY <1>2, <1>7, <2>2 DEF Tc!QEZ, Tc!QREZ
  <2>4. Tc!Distance(Tc!NumberAhead(p, dir), p) = o + 2
    BY <1>1, <1>4, <2>1, <1>2 DEF Tc!Distance
  <2>5. Onwards(dir, p, o + 2) = L(b - 1) + (Tc!LPERB - 2)
    BY <1>1, <1>2, <1>4, <1>7 DEF Onwards
  <2>6. Tc!LIN2OF(Tc!BLK2LN(b - 1) + (Tc!LPERB - 2)) = Tc!LPERB - 2
    <3>1. b - 1 \in Int /\ Tc!LPERB - 2 \in 0 .. Tc!LPERB - 1
      BY <1>1, <1>2
    <3> QED BY <3>1, BlockOfLine
  <2>7. o + 2 \in 0 .. LineTop + 2
    BY <1>1, <1>2
  <2> QED BY <1>7, <2>4, <2>5, <2>6, <2>7 DEF NumberLine, L
<1>8. CASE ~dir /\ Tc!QREZ(p)
  <2>1. Tc!NumberAhead(p, dir) = L(0) + 1 /\ p \in 0 .. EZLIN - 1
    BY <1>2, <1>8 DEF Tc!NumberAhead, Tc!QREZ, L
  <2>2. Tc!Distance(Tc!NumberAhead(p, dir), p) = L(0) + 1 - p
    BY <1>2, <1>3, <2>1 DEF Tc!Distance
  <2>3. Onwards(dir, p, L(0) + 1 - p) = L(0) + 1
    BY <1>2, <1>3, <1>8, <2>1 DEF Onwards
  <2>4. Tc!LIN2OF(Tc!BLK2LN(0) + 1) = 1
    <3>1. 0 \in Int /\ 1 \in 0 .. Tc!LPERB - 1
      BY <1>2
    <3> QED BY <3>1, BlockOfLine
  <2>5. L(0) + 1 - p \in 0 .. LineTop + 2
    BY <1>2, <1>3, <2>1
  <2> QED BY <1>8, <2>2, <2>3, <2>4, <2>5 DEF NumberLine, L
<1>9. CASE ~dir /\ ~Tc!QREZ(p)
  <2>1. Tc!NumberAhead(p, dir) = L(b + 1) + 1
    BY <1>9 DEF Tc!NumberAhead, L, b
  <2>2. p \in EZLIN .. Tc!FWDEZ - 1
    BY <1>2, <1>9 DEF OnItsWay, Tc!QREZ
  <2>4. Tc!Distance(Tc!NumberAhead(p, dir), p) = Tc!LPERB + 1 - o
    BY <1>1, <1>4, <2>1, <1>2 DEF Tc!Distance
  <2>5. Onwards(dir, p, Tc!LPERB + 1 - o) = L(b + 1) + 1
    BY <1>1, <1>2, <1>4, <1>9 DEF Onwards
  <2>6. Tc!LIN2OF(Tc!BLK2LN(b + 1) + 1) = 1
    <3>1. b + 1 \in Int /\ 1 \in 0 .. Tc!LPERB - 1
      BY <1>1, <1>2
    <3> QED BY <3>1, BlockOfLine
  <2>7. Tc!LPERB + 1 - o \in 0 .. LineTop + 2
    BY <1>1, <1>2
  <2> QED BY <1>9, <2>4, <2>5, <2>6, <2>7 DEF NumberLine, L
<1> QED BY <1>6, <1>7, <1>8, <1>9

\* A tape that transfers is as near to its first word.
LEMMA WordsAhead ==
    ASSUME NEW dir \in BOOLEAN, NEW p \in Int, OnItsWay(p, dir), Tc!QEZ(p) \/ ~Tc!InData(p)
    PROVE  Tc!Distance(Tc!WordAhead(p, dir), p) \in 0 .. LineTop + 2
<1> DEFINE b == Tc!LIN2BL(p)
           o == Tc!LIN2OF(p)
           L(k) == Tc!BLK2LN(k)
<1>1. b \in Int /\ o \in 0 .. Tc!LPERB - 1 /\ p = L(b) + o /\ L(b) \in Int /\ L(b + 1) = L(b) + Tc!LPERB
  BY LineOfBlock, BlocksInOrder
<1>2. EZLIN \in Nat \ {0} /\ Tc!LPERB \in Nat /\ Tc!LPERB = 2 * HTLIN + BSIZE /\ HTLIN \in Nat \ {0}
      /\ Tc!FWDEZ >= EZLIN + Tc!LPERB /\ BSIZE \in Nat \ {0}
      /\ Tc!FWDEZ \in Nat /\ LineTop = Tc!FWDEZ + EZLIN /\ TSIZE \in Nat
  BY LineSizes
<1> HIDE DEF b, o, L
<1>3. CASE Tc!QEZ(p)
  <2>1. p \in -1 .. LineTop
    BY <1>2 DEF OnItsWay
  <2>2. CASE dir
    BY <1>2, <1>3, <2>1, <2>2 DEF Tc!WordAhead, Tc!Distance
  <2>3. CASE ~dir
    BY <1>2, <1>3, <2>1, <2>3 DEF Tc!WordAhead, Tc!Distance
  <2> QED BY <2>2, <2>3
<1>4. CASE ~Tc!QEZ(p)
  <2>1. o \notin HTLIN .. Tc!LPERB - HTLIN - 1
    BY <1>4 DEF Tc!InData, o
  <2>2. CASE o < HTLIN
    <3>1. Tc!WordAhead(p, dir) = IF dir THEN L(b) - HTLIN - 1 ELSE L(b) + HTLIN
      <4>1. b + 0 = b
        BY <1>1
      <4> QED BY <1>4, <2>2, <4>1 DEF Tc!WordAhead, o, b, L
    <3> QED BY <1>1, <1>2, <2>2, <3>1 DEF Tc!Distance
  <2>3. CASE ~(o < HTLIN)
    <3>1. Tc!WordAhead(p, dir) = IF dir THEN L(b + 1) - HTLIN - 1 ELSE L(b + 1) + HTLIN
      BY <1>4, <2>3 DEF Tc!WordAhead, o, b, L
    <3>2. o > Tc!LPERB - HTLIN - 1
      BY <1>1, <1>2, <2>1, <2>3
    <3> QED BY <1>1, <1>2, <3>2, <3>1 DEF Tc!Distance
  <2> QED BY <2>2, <2>3
<1> QED BY <1>3, <1>4

\* What a drive does is one of five courses.
LEMMA Forms ==
    ASSUME NEW s
    PROVE  s \in Courses <=>
               \/ s = <<>>
               \/ \E d \in BOOLEAN : SlowsDown(s, d)
               \/ \E d \in BOOLEAN, f \in TcStaged : SpeedsUp(s, d, f)
               \/ \E d \in BOOLEAN, f \in TcStaged : Runs(s, d, f)
               \/ \E f \in TcStaged : TurnsRound(s, TRUE, FALSE, f) \/ TurnsRound(s, FALSE, TRUE, f)
<1>1. s \in Turns(TRUE, FALSE) <=> \E f \in TcStaged : TurnsRound(s, TRUE, FALSE, f)
  BY Zenon DEF Turns, TurnsRound
<1>2. s \in Turns(FALSE, TRUE) <=> \E f \in TcStaged : TurnsRound(s, FALSE, TRUE, f)
  BY Zenon DEF Turns, TurnsRound
<1>3. s \in Slows <=> \E d \in BOOLEAN : SlowsDown(s, d)
  BY Zenon DEF SlowsDown, Slows
<1>4. s \in Speeds <=> \E d \in BOOLEAN, f \in TcStaged : SpeedsUp(s, d, f)
  BY DEF SpeedsUp, Speeds
<1>5. s \in AtSpeeds <=> \E d \in BOOLEAN, f \in TcStaged : Runs(s, d, f)
  BY DEF Runs, AtSpeeds
<1>6. s \in {<<>>} <=> s = <<>>
  OBVIOUS
<1> QED BY <1>1, <1>2, <1>3, <1>4, <1>5, <1>6 DEF Courses

LEMMA StageFields ==
    ASSUME NEW x, NEW d, NEW f
    PROVE  LET t == Tc!Stage(x, d, f) IN t.phase = x /\ t.dir = d /\ t.fnc = f
BY DEF Tc!Stage

LEMMA Slowing ==
    ASSUME NEW s, NEW d, SlowsDown(s, d)
    PROVE  /\ s # <<>> /\ Len(s) = 1 /\ DOMAIN s = {1} /\ s[1] = Tc!Stage("dec", d, "MOVE")
           /\ Head(s) = Tc!Stage("dec", d, "MOVE") /\ Tail(s) = <<>>
BY DEF SlowsDown

LEMMA Running ==
    ASSUME NEW s, NEW d, NEW f, Runs(s, d, f)
    PROVE  /\ s # <<>> /\ Len(s) = 1 /\ DOMAIN s = {1} /\ s[1] = Tc!Stage("ats", d, f)
           /\ Head(s) = Tc!Stage("ats", d, f)
BY DEF Runs

LEMMA Speeding ==
    ASSUME NEW s, NEW d, NEW f, SpeedsUp(s, d, f)
    PROVE  /\ s # <<>> /\ Len(s) = 2 /\ DOMAIN s = {1, 2}
           /\ s[1] = Tc!Stage("acc", d, "MOVE") /\ s[2] = Tc!Stage("ats", d, f)
           /\ Head(s) = Tc!Stage("acc", d, "MOVE")
BY DEF SpeedsUp

LEMMA Turning ==
    ASSUME NEW s, NEW d, NEW e, NEW f, TurnsRound(s, d, e, f)
    PROVE  /\ s # <<>> /\ Len(s) = 3 /\ DOMAIN s = {1, 2, 3} /\ s[1] = Tc!Stage("dec", d, "MOVE")
           /\ s[2] = Tc!Stage("acc", e, "MOVE") /\ s[3] = Tc!Stage("ats", e, f)
           /\ Head(s) = Tc!Stage("dec", d, "MOVE") /\ SpeedsUp(Tail(s), e, f)
BY DEF TurnsRound, SpeedsUp

\* The first stage tells what a drive does and which way.
LEMMA Doing ==
    ASSUME NEW c, NEW u, c.state[u] \in Courses
    PROVE  LET s == c.state[u] IN
           /\ Tc!Phase(c, u) \in {"stop", "dec", "acc", "ats"} /\ Tc!Dir(c, u) \in BOOLEAN
           /\ Tc!Phase(c, u) = "stop" <=> s = <<>>
           /\ Tc!Phase(c, u) = "dec" <=>
                 \/ SlowsDown(s, Tc!Dir(c, u))
                 \/ \E e \in BOOLEAN, f \in TcStaged : TurnsRound(s, Tc!Dir(c, u), e, f)
           /\ Tc!Phase(c, u) = "acc" <=> \E f \in TcStaged : SpeedsUp(s, Tc!Dir(c, u), f)
           /\ Tc!Phase(c, u) = "ats" <=> \E f \in TcStaged : Runs(s, Tc!Dir(c, u), f)
<1> DEFINE s == c.state[u]
<1>1. CASE s = <<>>
  <2>1. Tc!Phase(c, u) = "stop" /\ Tc!Dir(c, u) = FALSE
    BY <1>1 DEF Tc!Phase, Tc!Dir, Tc!Stopped
  <2> QED BY <1>1, <2>1, Slowing, Turning, Speeding, Running
<1>2. ASSUME NEW d \in BOOLEAN, NEW x, NEW g, s # <<>>, Head(s) = Tc!Stage(x, d, g)
      PROVE  Tc!Phase(c, u) = x /\ Tc!Dir(c, u) = d
  <2>1. Tc!Phase(c, u) = x
    BY <1>2, StageFields DEF Tc!Phase, Tc!Stopped
  <2>2. Tc!Dir(c, u) = (~Tc!Stopped(c, u) /\ d)
    <3>1. Tc!Stage(x, d, g).dir = d
      BY DEF Tc!Stage
    <3> QED BY <1>2, <3>1, Zenon DEF Tc!Dir
  <2>3. (~Tc!Stopped(c, u) /\ d) = d
    BY <1>2, Zenon DEF Tc!Stopped
  <2> QED BY <2>1, <2>2, <2>3, Zenon
<1>3. ASSUME NEW d \in BOOLEAN, NEW e, NEW f, SlowsDown(s, d) \/ TurnsRound(s, d, e, f)
      PROVE  Tc!Phase(c, u) = "dec" /\ Tc!Dir(c, u) = d
  <2>1. s # <<>> /\ Head(s) = Tc!Stage("dec", d, "MOVE")
    BY <1>3, Slowing, Turning, Zenon
  <2> QED BY <1>2, <2>1, Zenon
<1>4. ASSUME NEW d \in BOOLEAN, NEW f, SpeedsUp(s, d, f)
      PROVE  Tc!Phase(c, u) = "acc" /\ Tc!Dir(c, u) = d
  <2>1. s # <<>> /\ Head(s) = Tc!Stage("acc", d, "MOVE")
    BY <1>4, Speeding, Zenon
  <2> QED BY <1>2, <2>1, Zenon
<1>5. ASSUME NEW d \in BOOLEAN, NEW f, Runs(s, d, f)
      PROVE  Tc!Phase(c, u) = "ats" /\ Tc!Dir(c, u) = d
  <2>1. s # <<>> /\ Head(s) = Tc!Stage("ats", d, f)
    BY <1>5, Running, Zenon
  <2> QED BY <1>2, <2>1, Zenon
<1> HIDE DEF s
<1>6. \/ s = <<>>
      \/ \E d \in BOOLEAN : SlowsDown(s, d)
      \/ \E d \in BOOLEAN, f \in TcStaged : SpeedsUp(s, d, f)
      \/ \E d \in BOOLEAN, f \in TcStaged : Runs(s, d, f)
      \/ \E f \in TcStaged : TurnsRound(s, TRUE, FALSE, f) \/ TurnsRound(s, FALSE, TRUE, f)
  BY Forms, Zenon DEF s
<1>7. Tc!Dir(c, u) \in BOOLEAN /\ Tc!Phase(c, u) \in {"stop", "dec", "acc", "ats"}
  <2>1. CASE s = <<>>
    BY <2>1 DEF Tc!Phase, Tc!Dir, Tc!Stopped, s
  <2>2. CASE s # <<>>
    <3>1. \E d \in BOOLEAN : Tc!Dir(c, u) = d /\ Tc!Phase(c, u) \in {"dec", "acc", "ats"}
      BY <1>3, <1>4, <1>5, <1>6, <2>2, Zenon
    <3> QED BY <3>1, Zenon
  <2> QED BY <2>1, <2>2
<1>8. Tc!Phase(c, u) = "stop" <=> s = <<>>
  BY <1>1, <1>3, <1>4, <1>5, <1>6 DEF s
<1>9. ASSUME s # <<>>
      PROVE  /\ Tc!Phase(c, u) = "dec" <=>
                   \/ SlowsDown(s, Tc!Dir(c, u))
                   \/ \E e \in BOOLEAN, f \in TcStaged : TurnsRound(s, Tc!Dir(c, u), e, f)
             /\ Tc!Phase(c, u) = "acc" <=> \E f \in TcStaged : SpeedsUp(s, Tc!Dir(c, u), f)
             /\ Tc!Phase(c, u) = "ats" <=> \E f \in TcStaged : Runs(s, Tc!Dir(c, u), f)
  <2>1. ASSUME NEW d \in BOOLEAN, SlowsDown(s, d)
        PROVE  /\ Tc!Phase(c, u) = "dec" /\ SlowsDown(s, Tc!Dir(c, u))
    BY <1>3, <2>1, Zenon
  <2>2. ASSUME NEW d \in BOOLEAN, NEW e \in BOOLEAN, NEW f \in TcStaged, TurnsRound(s, d, e, f)
        PROVE  /\ Tc!Phase(c, u) = "dec" /\ TurnsRound(s, Tc!Dir(c, u), e, f)
    BY <1>3, <2>2, Zenon
  <2>3. ASSUME NEW d \in BOOLEAN, NEW f \in TcStaged, SpeedsUp(s, d, f)
        PROVE  /\ Tc!Phase(c, u) = "acc" /\ SpeedsUp(s, Tc!Dir(c, u), f)
    BY <1>4, <2>3, Zenon
  <2>4. ASSUME NEW d \in BOOLEAN, NEW f \in TcStaged, Runs(s, d, f)
        PROVE  /\ Tc!Phase(c, u) = "ats" /\ Runs(s, Tc!Dir(c, u), f)
    BY <1>5, <2>4, Zenon
  <2>5. \/ Tc!Phase(c, u) = "dec" /\ (\/ SlowsDown(s, Tc!Dir(c, u))
                                      \/ \E e \in BOOLEAN, f \in TcStaged : TurnsRound(s, Tc!Dir(c, u), e, f))
        \/ Tc!Phase(c, u) = "acc" /\ (\E f \in TcStaged : SpeedsUp(s, Tc!Dir(c, u), f))
        \/ Tc!Phase(c, u) = "ats" /\ (\E f \in TcStaged : Runs(s, Tc!Dir(c, u), f))
    BY <1>6, <1>9, <2>1, <2>2, <2>3, <2>4, Zenon
  <2>6. "dec" # "acc" /\ "dec" # "ats" /\ "acc" # "ats"
    OBVIOUS
  <2> DEFINE dd == Tc!Dir(c, u)
             ph == Tc!Phase(c, u)
  <2>7. dd \in BOOLEAN
    BY <1>7
  <2>8. (SlowsDown(s, dd) \/ \E e \in BOOLEAN, f \in TcStaged : TurnsRound(s, dd, e, f)) => ph = "dec"
    BY <1>3, <2>7, Zenon
  <2>9. (\E f \in TcStaged : SpeedsUp(s, dd, f)) => ph = "acc"
    BY <1>4, <2>7, Zenon
  <2>10. (\E f \in TcStaged : Runs(s, dd, f)) => ph = "ats"
    BY <1>5, <2>7, Zenon
  <2> QED BY <2>5, <2>6, <2>8, <2>9, <2>10, Zenon
<1> QED BY <1>1, <1>7, <1>8, <1>9, Zenon DEF s

----------------------------------------------------------------------------
\* What the routines of the TC08 keep.
\* A routine for drive u leaves the others alone, and of status A it clears only GO.
Elsewhere(c, r, u) ==
    \A v \in Units : v # u =>
        /\ r.state[v] = c.state[v] /\ r.pos[v] = c.pos[v] /\ r.due[v] = c.due[v]
        /\ v \in r.attached <=> v \in c.attached
SameOrder(c, r) ==
    /\ r.sa.unit = c.sa.unit /\ r.sa.dir = c.sa.dir /\ r.sa.fnc = c.sa.fnc
    /\ r.sa.mode = c.sa.mode /\ r.sa.enb = c.sa.enb
    /\ r.sa.go => c.sa.go
Touches(c, r, u) == Sound(r) /\ Elsewhere(c, r, u) /\ SameOrder(c, r)

LEMMA TouchesOnly ==
    ASSUME NEW c, NEW r, NEW t, NEW u, Touches(c, r, u), Touches(r, t, u)
    PROVE  Touches(c, t, u)
<1>1. Sound(t)
  BY DEF Touches
<1>2. SameOrder(c, t)
  BY Zenon DEF Touches, SameOrder
<1>3. Elsewhere(c, t, u)
  BY Zenon DEF Touches, Elsewhere
<1> QED BY <1>1, <1>2, <1>3 DEF Touches

LEMMA Itself ==
    ASSUME NEW c, NEW u, Sound(c)
    PROVE  Touches(c, c, u)
BY DEF Touches, Elsewhere, SameOrder

LEMMA Fields ==
    ASSUME NEW c, Sound(c)
    PROVE  /\ c.sa \in Controls /\ c.erf \in BOOLEAN /\ c.dtf \in BOOLEAN /\ c.int \in BOOLEAN
           /\ c.wc \in 0 .. MaxCount + 1 /\ c.substate \in SUBSET {"WCO", "SOB"}
           /\ c.state \in [Units -> Courses] /\ c.pos \in [Units -> -1 .. LineTop + 1]
           /\ c.due \in [Units -> none .. LineTop + 2]
           /\ c.attached \subseteq Tapes /\ c.dirty \subseteq c.attached /\ c.written \subseteq Tapes
BY DEF Sound, TcRecord

LEMMA Orders ==
    ASSUME NEW c, Sound(c)
    PROVE  /\ c.sa.unit \in Units /\ c.sa.go \in BOOLEAN /\ c.sa.dir \in BOOLEAN
           /\ c.sa.fnc \in TcAsked /\ c.sa.mode \in BOOLEAN /\ c.sa.enb \in BOOLEAN
BY Fields DEF Controls

LEMMA OfUnit ==
    ASSUME NEW c, NEW u \in Units, Sound(c)
    PROVE  /\ c.state[u] \in Courses /\ c.pos[u] \in -1 .. LineTop + 1
           /\ c.due[u] \in none .. LineTop + 2
BY Fields

\* An update of the request.
LEMMA UpdInt ==
    ASSUME NEW c, Sound(c)
    PROVE  LET r == Tc!DT_UPDINT(c) IN
           /\ Sound(r) /\ Agrees(r)
           /\ r.sa = c.sa /\ r.erf = c.erf /\ r.dtf = c.dtf /\ r.wc = c.wc /\ r.substate = c.substate
           /\ r.state = c.state /\ r.pos = c.pos /\ r.due = c.due /\ r.attached = c.attached
<1> DEFINE b == c.sa.enb /\ (c.erf \/ c.dtf)
           r == [c EXCEPT !.int = b]
<1>1. b \in BOOLEAN
  BY Orders, Fields
<1>2. Tc!DT_UPDINT(c) = r
  BY Zenon DEF Tc!DT_UPDINT
<1>3. b <=> (c.sa.enb /\ (c.erf \/ c.dtf))
  OBVIOUS
<1> HIDE DEF b
<1>4. Sound(r)
  BY <1>1 DEF Sound, TcRecord
<1>5. r.int = b /\ r.sa = c.sa /\ r.erf = c.erf /\ r.dtf = c.dtf /\ r.wc = c.wc /\ r.substate = c.substate
      /\ r.state = c.state /\ r.pos = c.pos /\ r.due = c.due /\ r.attached = c.attached
  BY DEF Sound, TcRecord
<1> HIDE DEF r
<1>6. Agrees(r)
  BY <1>3, <1>5, Zenon DEF Agrees
<1> QED BY <1>2, <1>4, <1>5, <1>6

LEMMA UpdIntTouches ==
    ASSUME NEW c, NEW r, NEW u, Touches(c, r, u)
    PROVE  Touches(c, Tc!DT_UPDINT(r), u)
<1>1. Sound(r)
  BY DEF Touches
<1> DEFINE t == Tc!DT_UPDINT(r)
<1>2. Sound(t) /\ t.sa = r.sa /\ t.state = r.state /\ t.pos = r.pos /\ t.due = r.due
      /\ t.attached = r.attached
  BY <1>1, UpdInt
<1> HIDE DEF t
<1>3. SameOrder(r, t)
  BY <1>2, Zenon DEF SameOrder
<1>4. Elsewhere(r, t, u)
  BY <1>2, Zenon DEF Elsewhere
<1>5. Touches(r, t, u)
  BY <1>2, <1>3, <1>4 DEF Touches
<1> QED BY <1>5, TouchesOnly DEF t

\* An error.
LEMMA AnError ==
    ASSUME NEW c, NEW u, Sound(c)
    PROVE  LET r == Tc!WithError(c) IN
           /\ Touches(c, r, u) /\ r.erf /\ ~r.sa.go /\ r.sa.unit = c.sa.unit
           /\ r.state = c.state /\ r.pos = c.pos /\ r.due = c.due /\ r.attached = c.attached
<1> DEFINE r == Tc!WithError(c)
<1>1. r \in TcRecord /\ r.erf = TRUE /\ r.state = c.state /\ r.pos = c.pos /\ r.due = c.due
      /\ r.attached = c.attached /\ r.dirty = c.dirty /\ r.sa = [c.sa EXCEPT !.go = FALSE]
  <2>1. [c.sa EXCEPT !.go = FALSE] \in Controls
    BY Fields DEF Controls
  <2>2. c \in TcRecord
    BY DEF Sound
  <2> QED BY <2>1, <2>2 DEF TcRecord, Tc!WithError
<1>2. r.sa.unit = c.sa.unit /\ r.sa.go = FALSE /\ r.sa.dir = c.sa.dir /\ r.sa.fnc = c.sa.fnc
      /\ r.sa.mode = c.sa.mode /\ r.sa.enb = c.sa.enb
  BY <1>1, Fields DEF Controls
<1> HIDE DEF r
<1>3. SameOrder(c, r)
  BY <1>2, Zenon DEF SameOrder
<1>4. Elsewhere(c, r, u)
  BY <1>1, Zenon DEF Elsewhere
<1>5. Sound(r)
  BY <1>1 DEF Sound
<1>6. Touches(c, r, u)
  BY <1>3, <1>4, <1>5 DEF Touches
<1> QED BY <1>1, <1>2, <1>6 DEF r

\* A drive loses its tape.
LEMMA DetachUnit ==
    ASSUME NEW c, NEW u \in Units, Sound(c)
    PROVE  LET r == Tc!detach_unit(c, u) IN
           /\ Touches(c, r, u) /\ r.state[u] = <<>> /\ u \notin r.attached /\ r.due = c.due
           /\ r.sa = c.sa /\ r.erf = c.erf /\ r.dtf = c.dtf /\ r.int = c.int
<1> DEFINE r == Tc!detach_unit(c, u)
<1>1. c \in TcRecord /\ c.dirty \subseteq c.attached
  BY DEF Sound
<1>2. [c.state EXCEPT ![u] = <<>>] \in [Units -> Courses]
  BY Fields, Forms
<1>3. [c.pos EXCEPT ![u] = 0] \in [Units -> -1 .. LineTop + 1]
  BY Fields, LineSizes
<1>4. c.attached \ {u} \in SUBSET Tapes /\ c.dirty \ {u} \in SUBSET Tapes
  BY Fields
<1>5. r \in TcRecord
  BY <1>1, <1>2, <1>3, <1>4 DEF TcRecord, Tc!detach_unit
<1>6. /\ r.attached = c.attached \ {u} /\ r.dirty = c.dirty \ {u}
      /\ r.state = [c.state EXCEPT ![u] = <<>>] /\ r.pos = [c.pos EXCEPT ![u] = 0]
      /\ r.due = c.due /\ r.sa = c.sa /\ r.erf = c.erf /\ r.dtf = c.dtf /\ r.int = c.int
  BY <1>1 DEF TcRecord, Tc!detach_unit
<1> HIDE DEF r
<1>7. Sound(r)
  BY <1>1, <1>5, <1>6 DEF Sound
<1>8. SameOrder(c, r)
  BY <1>6, Zenon DEF SameOrder
<1>9. Elsewhere(c, r, u) /\ r.state[u] = <<>>
  BY <1>6, Fields DEF Elsewhere
<1> QED BY <1>6, <1>7, <1>8, <1>9 DEF r, Touches

\* A drive gets another place, time or course.
PlacedAt(c, u, p) == [c EXCEPT !.pos[u] = p]
TimedFor(c, u, n) == [c EXCEPT !.due[u] = n]
SentOn(c, u, s) == [c EXCEPT !.state[u] = s]
SentFor(c, u, s, n) == [c EXCEPT !.due[u] = n, !.state[u] = s]

LEMMA Placed ==
    ASSUME NEW c, NEW u \in Units, Sound(c), NEW p \in -1 .. LineTop + 1
    PROVE  LET r == PlacedAt(c, u, p) IN
           /\ Touches(c, r, u) /\ r.pos[u] = p
           /\ r.state = c.state /\ r.due = c.due /\ r.attached = c.attached /\ r.sa = c.sa /\ r.erf = c.erf
           /\ r.dtf = c.dtf /\ r.int = c.int /\ r.wc = c.wc /\ r.substate = c.substate
<1> DEFINE r == PlacedAt(c, u, p)
<1>1. c \in TcRecord /\ c.dirty \subseteq c.attached
  BY DEF Sound
<1>2. [c.pos EXCEPT ![u] = p] \in [Units -> -1 .. LineTop + 1]
  BY Fields
<1>3. r \in TcRecord
  BY <1>1, <1>2 DEF TcRecord, PlacedAt
<1>4. /\ r.pos = [c.pos EXCEPT ![u] = p] /\ r.dirty = c.dirty
      /\ r.state = c.state /\ r.due = c.due /\ r.attached = c.attached /\ r.sa = c.sa /\ r.erf = c.erf
         /\ r.dtf = c.dtf /\ r.int = c.int /\ r.wc = c.wc /\ r.substate = c.substate
  BY <1>1 DEF TcRecord, PlacedAt
<1> HIDE DEF r
<1>5. Sound(r)
  BY <1>1, <1>3, <1>4 DEF Sound
<1>6. SameOrder(c, r)
  BY <1>4, Zenon DEF SameOrder
<1>7. Elsewhere(c, r, u) /\ r.pos[u] = p
  BY <1>4, Fields DEF Elsewhere
<1> QED BY <1>4, <1>5, <1>6, <1>7 DEF r, Touches

LEMMA Timed ==
    ASSUME NEW c, NEW u \in Units, Sound(c), NEW n \in none .. LineTop + 2
    PROVE  LET r == TimedFor(c, u, n) IN
           /\ Touches(c, r, u) /\ r.due[u] = n
           /\ r.state = c.state /\ r.pos = c.pos /\ r.attached = c.attached /\ r.sa = c.sa /\ r.erf = c.erf
           /\ r.dtf = c.dtf /\ r.int = c.int /\ r.wc = c.wc /\ r.substate = c.substate
<1> DEFINE r == TimedFor(c, u, n)
<1>1. c \in TcRecord /\ c.dirty \subseteq c.attached
  BY DEF Sound
<1>2. [c.due EXCEPT ![u] = n] \in [Units -> none .. LineTop + 2]
  BY Fields
<1>3. r \in TcRecord
  BY <1>1, <1>2 DEF TcRecord, TimedFor
<1>4. /\ r.due = [c.due EXCEPT ![u] = n] /\ r.dirty = c.dirty
      /\ r.state = c.state /\ r.pos = c.pos /\ r.attached = c.attached /\ r.sa = c.sa /\ r.erf = c.erf
         /\ r.dtf = c.dtf /\ r.int = c.int /\ r.wc = c.wc /\ r.substate = c.substate
  BY <1>1 DEF TcRecord, TimedFor
<1> HIDE DEF r
<1>5. Sound(r)
  BY <1>1, <1>3, <1>4 DEF Sound
<1>6. SameOrder(c, r)
  BY <1>4, Zenon DEF SameOrder
<1>7. Elsewhere(c, r, u) /\ r.due[u] = n
  BY <1>4, Fields DEF Elsewhere
<1> QED BY <1>4, <1>5, <1>6, <1>7 DEF r, Touches

LEMMA Sent ==
    ASSUME NEW c, NEW u \in Units, Sound(c), NEW s \in Courses
    PROVE  LET r == SentOn(c, u, s) IN
           /\ Touches(c, r, u) /\ r.state[u] = s
           /\ r.pos = c.pos /\ r.due = c.due /\ r.attached = c.attached /\ r.sa = c.sa /\ r.erf = c.erf
           /\ r.dtf = c.dtf /\ r.int = c.int /\ r.wc = c.wc /\ r.substate = c.substate
<1> DEFINE r == SentOn(c, u, s)
<1>1. c \in TcRecord /\ c.dirty \subseteq c.attached
  BY DEF Sound
<1>2. [c.state EXCEPT ![u] = s] \in [Units -> Courses]
  BY Fields
<1>3. r \in TcRecord
  BY <1>1, <1>2 DEF TcRecord, SentOn
<1>4. /\ r.state = [c.state EXCEPT ![u] = s] /\ r.dirty = c.dirty
      /\ r.pos = c.pos /\ r.due = c.due /\ r.attached = c.attached /\ r.sa = c.sa /\ r.erf = c.erf
         /\ r.dtf = c.dtf /\ r.int = c.int /\ r.wc = c.wc /\ r.substate = c.substate
  BY <1>1 DEF TcRecord, SentOn
<1> HIDE DEF r
<1>5. Sound(r)
  BY <1>1, <1>3, <1>4 DEF Sound
<1>6. SameOrder(c, r)
  BY <1>4, Zenon DEF SameOrder
<1>7. Elsewhere(c, r, u) /\ r.state[u] = s
  BY <1>4, Fields DEF Elsewhere
<1> QED BY <1>4, <1>5, <1>6, <1>7 DEF r, Touches

LEMMA SentAt ==
    ASSUME NEW c, NEW u \in Units, Sound(c), NEW s \in Courses, NEW n \in none .. LineTop + 2
    PROVE  LET r == SentFor(c, u, s, n) IN
           /\ Touches(c, r, u) /\ r.state[u] = s /\ r.due[u] = n
           /\ r.pos = c.pos /\ r.attached = c.attached /\ r.sa = c.sa /\ r.erf = c.erf /\ r.dtf = c.dtf
           /\ r.int = c.int /\ r.wc = c.wc /\ r.substate = c.substate
<1> DEFINE r == SentFor(c, u, s, n)
<1>1. c \in TcRecord /\ c.dirty \subseteq c.attached
  BY DEF Sound
<1>2. [c.state EXCEPT ![u] = s] \in [Units -> Courses]
      /\ [c.due EXCEPT ![u] = n] \in [Units -> none .. LineTop + 2]
  BY Fields
<1>3. r \in TcRecord
  BY <1>1, <1>2 DEF TcRecord, SentFor
<1>4. /\ r.state = [c.state EXCEPT ![u] = s] /\ r.due = [c.due EXCEPT ![u] = n] /\ r.dirty = c.dirty
      /\ r.pos = c.pos /\ r.attached = c.attached /\ r.sa = c.sa /\ r.erf = c.erf /\ r.dtf = c.dtf
         /\ r.int = c.int /\ r.wc = c.wc /\ r.substate = c.substate
  BY <1>1 DEF TcRecord, SentFor
<1> HIDE DEF r
<1>5. Sound(r)
  BY <1>1, <1>3, <1>4 DEF Sound
<1>6. SameOrder(c, r)
  BY <1>4, Zenon DEF SameOrder
<1>7. Elsewhere(c, r, u) /\ r.state[u] = s /\ r.due[u] = n
  BY <1>4, Fields DEF Elsewhere
<1> QED BY <1>4, <1>5, <1>6, <1>7 DEF r, Touches

\* The position of a drive is brought up to date, or it is off the reel.
Place(c, u, d) == IF Tc!Stopped(c, u) THEN c.pos[u] ELSE Onwards(Tc!Dir(c, u), c.pos[u], d)

LEMMA Places ==
    ASSUME NEW c, NEW u \in Units, Sound(c), NEW d \in Nat
    PROVE  Place(c, u, d) \in Int
<1>1. c.pos[u] \in Int
  BY OfUnit, LineSizes
<1> QED BY <1>1 DEF Place, Onwards

LEMMA SetPosition ==
    ASSUME NEW c, NEW u \in Units, Sound(c), u \in c.attached, NEW d \in Nat, OnReel(Place(c, u, d))
    PROVE  LET r == Tc!dt_setpos(c, u, d) IN
           /\ Touches(c, r, u) /\ ~Tc!Gone(r, u) /\ r.pos[u] = Place(c, u, d) /\ OnReel(r.pos[u])
           /\ r.state = c.state /\ r.due = c.due /\ r.attached = c.attached /\ r.sa = c.sa
           /\ r.erf = c.erf /\ r.dtf = c.dtf /\ r.int = c.int /\ r.wc = c.wc /\ r.substate = c.substate
<1> DEFINE p == Place(c, u, d)
           r == Tc!dt_setpos(c, u, d)
           n == PlacedAt(c, u, p)
<1>1. p \in 0 .. Tc!FWDEZ + EZLIN /\ p \in -1 .. LineTop + 1
  BY LineSizes DEF OnReel
<1>2. r = n
  BY <1>1, Zenon DEF Tc!dt_setpos, Place, Onwards, PlacedAt
<1> HIDE DEF p, r
<1>3. /\ Touches(c, n, u) /\ n.pos[u] = p
      /\ n.state = c.state /\ n.due = c.due /\ n.attached = c.attached /\ n.sa = c.sa
      /\ n.erf = c.erf /\ n.dtf = c.dtf /\ n.int = c.int /\ n.wc = c.wc /\ n.substate = c.substate
  BY <1>1, Placed
<1> HIDE DEF n
<1> QED BY <1>2, <1>3 DEF p, r, Tc!Gone

LEMMA OffTheReel ==
    ASSUME NEW c, NEW u \in Units, Sound(c), u \in c.attached, NEW d \in Nat, ~OnReel(Place(c, u, d))
    PROVE  LET r == Tc!dt_setpos(c, u, d) IN
           /\ Touches(c, r, u) /\ Tc!Gone(r, u) /\ r.state[u] = <<>> /\ r.due = c.due
           /\ u = c.sa.unit => r.erf /\ Agrees(r)
           /\ u # c.sa.unit => r.sa = c.sa /\ r.erf = c.erf /\ r.dtf = c.dtf /\ r.int = c.int
<1> DEFINE p == Place(c, u, d)
           r == Tc!dt_setpos(c, u, d)
           n == Tc!detach_unit(c, u)
           w == Tc!WithError(n)
           t == Tc!DT_UPDINT(w)
<1>1. p \notin 0 .. Tc!FWDEZ + EZLIN
  BY LineSizes DEF OnReel
<1>2. r = IF u = c.sa.unit THEN t ELSE n
  BY <1>1, Zenon DEF Tc!dt_setpos, Place, Onwards
<1> HIDE DEF p, r
<1>3. /\ Touches(c, n, u) /\ n.state[u] = <<>> /\ u \notin n.attached /\ n.due = c.due
      /\ n.sa = c.sa /\ n.erf = c.erf /\ n.dtf = c.dtf /\ n.int = c.int
  BY DetachUnit
<1>4. Sound(n)
  BY <1>3 DEF Touches
<1> HIDE DEF n
<1>5. Touches(n, w, u) /\ w.erf /\ w.state = n.state /\ w.due = n.due /\ w.attached = n.attached
  BY <1>4, AnError
<1>6. Touches(c, w, u) /\ Sound(w)
  BY <1>3, <1>5, TouchesOnly DEF Touches
<1> HIDE DEF w
<1>7. Touches(c, t, u)
  BY <1>6, UpdIntTouches
<1>8. Agrees(t) /\ t.erf = w.erf /\ t.state = w.state /\ t.due = w.due /\ t.attached = w.attached
  BY <1>6, UpdInt
<1> HIDE DEF t
<1>9. CASE u = c.sa.unit
  BY <1>2, <1>3, <1>5, <1>7, <1>8, <1>9 DEF r, Tc!Gone
<1>10. CASE u # c.sa.unit
  BY <1>2, <1>3, <1>10 DEF r, Tc!Gone
<1> QED BY <1>9, <1>10

\* A drive at rest, or slowing down and served.
Slowed(c, u) ==
    \/ c.state[u] = <<>>
    \/ \E d \in BOOLEAN : SlowsDown(c.state[u], d) /\ c.due[u] # none /\ u \in c.attached

LEMMA SlowedServed ==
    ASSUME NEW c, NEW u, Slowed(c, u)
    PROVE  /\ Served(c, u) /\ LandsRight(c, u)
           /\ \A d \in BOOLEAN, e \in BOOLEAN : \A f : ~TurnsRound(c.state[u], d, e, f)
           /\ \A d \in BOOLEAN : \A f : ~SpeedsUp(c.state[u], d, f) /\ ~Runs(c.state[u], d, f)
<1>1. ASSUME NEW d, NEW e, NEW f, TurnsRound(c.state[u], d, e, f) PROVE FALSE
  <2>1. c.state[u] # <<>> /\ Len(c.state[u]) = 3
    BY <1>1, Turning
  <2> QED BY <2>1, Slowing DEF Slowed
<1>2. ASSUME NEW d, NEW f, SpeedsUp(c.state[u], d, f) PROVE FALSE
  <2>1. c.state[u] # <<>> /\ Len(c.state[u]) = 2
    BY <1>2, Speeding
  <2> QED BY <2>1, Slowing DEF Slowed
<1>3. ASSUME NEW d, NEW f, Runs(c.state[u], d, f) PROVE FALSE
  <2>1. c.state[u] # <<>> /\ Head(c.state[u]) = Tc!Stage("ats", d, f)
    BY <1>3, Running
  <2>2. PICK e \in BOOLEAN : SlowsDown(c.state[u], e)
    BY <2>1 DEF Slowed
  <2>3. Head(c.state[u]) = Tc!Stage("dec", e, "MOVE")
    BY <2>2, Slowing
  <2>4. Tc!Stage("dec", e, "MOVE").phase = "dec" /\ Tc!Stage("ats", d, f).phase = "ats"
    BY StageFields
  <2> QED BY <2>1, <2>3, <2>4
<1>4. Served(c, u)
  BY <1>2, Zenon DEF Served, Slowed
<1>5. LandsRight(c, u)
  BY <1>3, Zenon DEF LandsRight
<1> QED BY <1>1, <1>2, <1>3, <1>4, <1>5, Zenon

LEMMA SlowCourse ==
    ASSUME NEW d \in BOOLEAN
    PROVE  <<Tc!Stage("dec", d, "MOVE")>> \in Courses /\ SlowsDown(<<Tc!Stage("dec", d, "MOVE")>>, d)
BY Forms DEF SlowsDown

LEMMA SameCourse ==
    ASSUME NEW c, NEW r, NEW u, r.state[u] = c.state[u]
    PROVE  Tc!Phase(r, u) = Tc!Phase(c, u) /\ Tc!Dir(r, u) = Tc!Dir(c, u)
           /\ Tc!Stopped(r, u) = Tc!Stopped(c, u)
BY Zenon DEF Tc!Phase, Tc!Dir, Tc!Stopped

\* An error stops the drive that it is about, whatever that did.
LEMMA SetError ==
    ASSUME NEW c, NEW u \in Units, Sound(c), NEW d \in Nat,
           Tc!Phase(c, u) \in {"acc", "ats"} => u \in c.attached,
           Tc!Phase(c, u) = "dec" => c.due[u] # none /\ u \in c.attached
    PROVE  LET r == Tc!dt_seterr(c, u, d) IN
           /\ Touches(c, r, u) /\ Slowed(r, u) /\ r.erf /\ ~r.sa.go
           /\ (Tc!Phase(c, u) \in {"acc", "ats"} => OnReel(Place(c, u, d)) \/ u = c.sa.unit) => Agrees(r)
<1> DEFINE r == Tc!dt_seterr(c, u, d)
           w == Tc!WithError(c)
<1>1. Touches(c, w, u) /\ Sound(w) /\ w.erf /\ ~w.sa.go /\ w.sa.unit = c.sa.unit
      /\ w.state = c.state /\ w.pos = c.pos /\ w.due = c.due /\ w.attached = c.attached
  BY AnError DEF Touches
<1>2. CASE Tc!Phase(c, u) \in {"acc", "ats"}
  <2> DEFINE m == TimedFor(w, u, none)
             p == Tc!dt_setpos(m, u, d)
             s == <<Tc!Stage("dec", Tc!Dir(c, u), "MOVE")>>
             n == SentFor(p, u, s, Decel)
  <2>1. r = IF Tc!Gone(p, u) THEN p ELSE Tc!DT_UPDINT(n)
    BY <1>2, Zenon DEF Tc!dt_seterr, Tc!none, none, TimedFor, SentFor
  <2> HIDE DEF r, w
  <2>2. /\ Touches(w, m, u) /\ Sound(m) /\ m.state = w.state /\ m.pos = w.pos
        /\ m.attached = w.attached /\ m.sa = w.sa /\ m.erf = w.erf
    <3>1. none \in none .. LineTop + 2
      BY LineSizes DEF none
    <3>2. Touches(w, m, u) /\ m.state = w.state /\ m.pos = w.pos
          /\ m.attached = w.attached /\ m.sa = w.sa /\ m.erf = w.erf
      <4>1. Sound(w)
        BY <1>1
      <4> QED BY <3>1, <4>1, Timed
    <3> QED BY <3>2 DEF Touches
  <2> HIDE DEF m
  <2>3. Place(m, u, d) = Place(c, u, d)
    <3>1. m.state[u] = c.state[u] /\ m.pos[u] = c.pos[u]
      BY <1>1, <2>2
    <3>2. Tc!Dir(m, u) = Tc!Dir(c, u) /\ Tc!Stopped(m, u) = Tc!Stopped(c, u)
      BY <3>1, SameCourse
    <3> QED BY <3>1, <3>2, Zenon DEF Place
  <2>4. u \in m.attached /\ m.sa.unit = c.sa.unit /\ ~m.sa.go
    BY <1>1, <1>2, <2>2
  <2>5. Touches(c, m, u)
    BY <1>1, <2>2, TouchesOnly
  <2>6. CASE OnReel(Place(c, u, d))
    <3>1. Touches(m, p, u) /\ ~Tc!Gone(p, u) /\ p.attached = m.attached /\ p.sa = m.sa /\ p.erf = m.erf
      BY <2>2, <2>3, <2>4, <2>6, SetPosition
    <3>2. Sound(p) /\ Touches(c, p, u)
      BY <2>5, <3>1, TouchesOnly DEF Touches
    <3> HIDE DEF p
    <3>3. Tc!Dir(c, u) \in BOOLEAN
      BY Doing, OfUnit
    <3>4. s \in Courses /\ SlowsDown(s, Tc!Dir(c, u))
      BY <3>3, SlowCourse
    <3> HIDE DEF s
    <3>5. Decel \in none .. LineTop + 2 /\ Decel # none
      BY LineSizes DEF none
    <3>6. /\ Touches(p, n, u) /\ n.state[u] = s /\ n.due[u] = Decel
          /\ n.attached = p.attached /\ n.sa = p.sa /\ n.erf = p.erf
      <4>1. Sound(p) /\ s \in Courses
        BY <3>2, <3>4
      <4>2. Decel \in none .. LineTop + 2
        BY <3>5
      <4> QED BY <4>1, <4>2, SentAt
    <3>7. Touches(c, n, u) /\ Sound(n)
      BY <3>2, <3>6, TouchesOnly DEF Touches
    <3> HIDE DEF n
    <3>8. Touches(c, Tc!DT_UPDINT(n), u)
      BY <3>7, UpdIntTouches
    <3> DEFINE t == Tc!DT_UPDINT(n)
    <3>9. /\ Agrees(t) /\ t.state = n.state /\ t.due = n.due /\ t.attached = n.attached
          /\ t.sa = n.sa /\ t.erf = n.erf
      BY <3>7, UpdInt
    <3>10. r = t
      BY <2>1, <3>1
    <3> HIDE DEF t
    <3>11. Slowed(t, u)
      <4>1. t.state[u] = s /\ t.due[u] # none /\ u \in t.attached
        BY <2>4, <3>1, <3>5, <3>6, <3>9
      <4> QED BY <3>3, <3>4, <4>1, Zenon DEF Slowed
    <3>12. t.erf /\ ~t.sa.go
      BY <1>1, <2>2, <2>4, <3>1, <3>6, <3>9
    <3>13. Touches(c, t, u)
      BY <3>8 DEF t
    <3> QED BY <3>9, <3>10, <3>11, <3>12, <3>13, Zenon DEF r
  <2>7. CASE ~OnReel(Place(c, u, d))
    <3>1. /\ Touches(m, p, u) /\ Tc!Gone(p, u) /\ p.state[u] = <<>>
          /\ u = m.sa.unit => p.erf /\ Agrees(p)
          /\ u # m.sa.unit => p.sa = m.sa /\ p.erf = m.erf
      BY <2>2, <2>3, <2>4, <2>7, OffTheReel
    <3>2. Touches(c, p, u) /\ p.erf /\ ~p.sa.go
      BY <1>1, <2>2, <2>4, <2>5, <3>1, TouchesOnly DEF Touches, SameOrder
    <3>3. Slowed(p, u)
      BY <3>1 DEF Slowed
    <3> HIDE DEF p
    <3>4. r = p
      BY <2>1, <3>1
    <3>5. (Tc!Phase(c, u) \in {"acc", "ats"} => OnReel(Place(c, u, d)) \/ u = c.sa.unit) => Agrees(p)
      BY <1>2, <2>4, <2>7, <3>1
    <3> QED BY <3>2, <3>3, <3>4, <3>5 DEF r
  <2> QED BY <2>6, <2>7
<1>3. CASE Tc!Phase(c, u) \notin {"acc", "ats"}
  <2> DEFINE s == IF c.state[u] = <<>> THEN c.state[u] ELSE <<Head(c.state[u])>>
             n == SentOn(w, u, s)
  <2>1. r = Tc!DT_UPDINT(n)
    <3>1. [w EXCEPT !.state[u] = IF @ = <<>> THEN @ ELSE <<Head(@)>>] = n
      BY <1>1 DEF SentOn
    <3> QED BY <1>3, <3>1, Zenon DEF Tc!dt_seterr
  <2> HIDE DEF r, w
  <2>2. s \in Courses /\ (s = <<>> \/ \E e \in BOOLEAN : SlowsDown(s, e) /\ Tc!Phase(c, u) = "dec")
    <3>1. CASE c.state[u] = <<>>
      BY <3>1, OfUnit
    <3>2. CASE c.state[u] # <<>>
      <4>1. Tc!Phase(c, u) = "dec" /\ Tc!Dir(c, u) \in BOOLEAN
        BY <1>3, <3>2, OfUnit, Doing
      <4>2. \/ SlowsDown(c.state[u], Tc!Dir(c, u))
            \/ \E e \in BOOLEAN, f \in TcStaged : TurnsRound(c.state[u], Tc!Dir(c, u), e, f)
        BY <4>1, OfUnit, Doing
      <4>3. Head(c.state[u]) = Tc!Stage("dec", Tc!Dir(c, u), "MOVE")
        BY <4>2, Slowing, Turning, Zenon
      <4>4. s = <<Tc!Stage("dec", Tc!Dir(c, u), "MOVE")>>
        BY <3>2, <4>3
      <4> HIDE DEF s
      <4> QED BY <4>1, <4>4, SlowCourse, Zenon
    <3> QED BY <3>1, <3>2
  <2> HIDE DEF s
  <2>3. Touches(w, n, u) /\ n.state[u] = s /\ n.due = w.due /\ n.attached = w.attached /\ n.sa = w.sa
        /\ n.erf = w.erf
    <3>1. Sound(w) /\ s \in Courses
      BY <1>1, <2>2
    <3> QED BY <3>1, Sent
  <2> HIDE DEF n
  <2>4. Touches(c, n, u) /\ Sound(n)
    BY <1>1, <2>3, TouchesOnly DEF Touches
  <2> DEFINE t == Tc!DT_UPDINT(n)
  <2>5. /\ Agrees(t) /\ t.state = n.state /\ t.due = n.due /\ t.attached = n.attached
        /\ t.sa = n.sa /\ t.erf = n.erf
    BY <2>4, UpdInt
  <2>6. Touches(c, t, u)
    BY <2>4, UpdIntTouches
  <2> HIDE DEF t
  <2>7. Slowed(t, u)
    <3>1. t.state[u] = s /\ t.due[u] = c.due[u] /\ t.attached = c.attached
      BY <1>1, <2>3, <2>5
    <3> QED BY <2>2, <3>1 DEF Slowed
  <2>8. t.erf /\ ~t.sa.go
    BY <1>1, <2>3, <2>5
  <2> QED BY <2>1, <2>5, <2>6, <2>7, <2>8 DEF r, t
<1> QED BY <1>2, <1>3

SentFrom(c, u, p, s) == [c EXCEPT !.pos[u] = p, !.state[u] = s]
TimedAnew(c, u, n) == [c EXCEPT !.due[u] = n, !.substate = {"SOB"}]
Anew(c) == [c EXCEPT !.substate = {"SOB"}]

LEMMA SentThere ==
    ASSUME NEW c, NEW u \in Units, Sound(c), NEW p \in -1 .. LineTop + 1, NEW s \in Courses
    PROVE  LET r == SentFrom(c, u, p, s) IN
           /\ Touches(c, r, u) /\ r.pos[u] = p /\ r.state[u] = s
           /\ r.due = c.due /\ r.attached = c.attached /\ r.sa = c.sa /\ r.erf = c.erf /\ r.dtf = c.dtf
           /\ r.int = c.int /\ r.wc = c.wc /\ r.substate = c.substate
<1> DEFINE r == SentFrom(c, u, p, s)
<1>1. c \in TcRecord /\ c.dirty \subseteq c.attached
  BY DEF Sound
<1>2. [c.pos EXCEPT ![u] = p] \in [Units -> -1 .. LineTop + 1]
      /\ [c.state EXCEPT ![u] = s] \in [Units -> Courses]
  BY Fields
<1>3. r \in TcRecord
  BY <1>1, <1>2 DEF TcRecord, SentFrom
<1>4. /\ r.pos = [c.pos EXCEPT ![u] = p] /\ r.state = [c.state EXCEPT ![u] = s] /\ r.dirty = c.dirty
      /\ r.due = c.due /\ r.attached = c.attached /\ r.sa = c.sa /\ r.erf = c.erf /\ r.dtf = c.dtf
         /\ r.int = c.int /\ r.wc = c.wc /\ r.substate = c.substate
  BY <1>1 DEF TcRecord, SentFrom
<1> HIDE DEF r
<1>5. Sound(r)
  BY <1>1, <1>3, <1>4 DEF Sound
<1>6. SameOrder(c, r)
  BY <1>4, Zenon DEF SameOrder
<1>7. Elsewhere(c, r, u) /\ r.pos[u] = p /\ r.state[u] = s
  BY <1>4, Fields DEF Elsewhere
<1> QED BY <1>4, <1>5, <1>6, <1>7 DEF r, Touches

LEMMA TimedThen ==
    ASSUME NEW c, NEW u \in Units, Sound(c), NEW n \in none .. LineTop + 2
    PROVE  LET r == TimedAnew(c, u, n) IN
           /\ Touches(c, r, u) /\ r.due[u] = n /\ r.substate = {"SOB"}
           /\ r.state = c.state /\ r.pos = c.pos /\ r.attached = c.attached /\ r.sa = c.sa /\ r.erf = c.erf
           /\ r.dtf = c.dtf /\ r.int = c.int /\ r.wc = c.wc
<1> DEFINE r == TimedAnew(c, u, n)
<1>1. c \in TcRecord /\ c.dirty \subseteq c.attached
  BY DEF Sound
<1>2. [c.due EXCEPT ![u] = n] \in [Units -> none .. LineTop + 2]
  BY Fields
<1>3. r \in TcRecord
  BY <1>1, <1>2 DEF TcRecord, TimedAnew
<1>4. /\ r.due = [c.due EXCEPT ![u] = n] /\ r.substate = {"SOB"} /\ r.dirty = c.dirty
      /\ r.state = c.state /\ r.pos = c.pos /\ r.attached = c.attached /\ r.sa = c.sa /\ r.erf = c.erf
         /\ r.dtf = c.dtf /\ r.int = c.int /\ r.wc = c.wc
  BY <1>1 DEF TcRecord, TimedAnew
<1> HIDE DEF r
<1>5. Sound(r)
  BY <1>1, <1>3, <1>4 DEF Sound
<1>6. SameOrder(c, r)
  BY <1>4, Zenon DEF SameOrder
<1>7. Elsewhere(c, r, u) /\ r.due[u] = n /\ r.substate = {"SOB"}
  BY <1>4, Fields DEF Elsewhere
<1> QED BY <1>4, <1>5, <1>6, <1>7 DEF r, Touches

LEMMA AtStart ==
    ASSUME NEW c, NEW u \in Units, Sound(c)
    PROVE  LET r == Anew(c) IN
           /\ Touches(c, r, u) /\ r.substate = {"SOB"}
           /\ r.state = c.state /\ r.pos = c.pos /\ r.due = c.due /\ r.attached = c.attached /\ r.sa = c.sa
           /\ r.erf = c.erf /\ r.dtf = c.dtf /\ r.int = c.int /\ r.wc = c.wc
<1> DEFINE r == Anew(c)
<1>1. c \in TcRecord /\ c.dirty \subseteq c.attached
  BY DEF Sound
<1>2. {"SOB"} \in SUBSET {"WCO", "SOB"}
  BY Fields
<1>3. r \in TcRecord
  BY <1>1, <1>2 DEF TcRecord, Anew
<1>4. /\ r.substate = {"SOB"} /\ r.dirty = c.dirty
      /\ r.state = c.state /\ r.pos = c.pos /\ r.due = c.due /\ r.attached = c.attached /\ r.sa = c.sa
         /\ r.erf = c.erf /\ r.dtf = c.dtf /\ r.int = c.int /\ r.wc = c.wc
  BY <1>1 DEF TcRecord, Anew
<1> HIDE DEF r
<1>5. Sound(r)
  BY <1>1, <1>3, <1>4 DEF Sound
<1>6. SameOrder(c, r)
  BY <1>4, Zenon DEF SameOrder
<1>7. Elsewhere(c, r, u) /\ r.substate = {"SOB"}
  BY <1>4, Fields DEF Elsewhere
<1> QED BY <1>4, <1>5, <1>6, <1>7 DEF r, Touches

LEMMA RunsOnce ==
    ASSUME NEW s, NEW d, NEW f, NEW e, NEW g, Runs(s, d, f), Runs(s, e, g)
    PROVE  d = e /\ f = g
<1>1. Head(s) = Tc!Stage("ats", d, f) /\ Head(s) = Tc!Stage("ats", e, g)
  BY Running, Zenon
<1>2. Head(s).dir = d /\ Head(s).fnc = f /\ Head(s).dir = e /\ Head(s).fnc = g
  <2>1. Head(s).dir = d /\ Head(s).fnc = f
    BY <1>1 DEF Tc!Stage
  <2>2. Head(s).dir = e /\ Head(s).fnc = g
    BY <1>1 DEF Tc!Stage
  <2> QED BY <2>1, <2>2, Zenon
<1> QED BY <1>2, Zenon

LEMMA RunCourse ==
    ASSUME NEW d \in BOOLEAN, NEW f \in TcStaged
    PROVE  <<Tc!Stage("ats", d, f)>> \in Courses /\ Runs(<<Tc!Stage("ats", d, f)>>, d, f)
BY Forms DEF Runs

LEMMA SameAgree ==
    ASSUME NEW c, NEW r, r.sa = c.sa, r.erf = c.erf, r.dtf = c.dtf, r.int = c.int, Agrees(c)
    PROVE  Agrees(r)
BY Zenon DEF Agrees

\* A drive on its way gets another function.
RunsWell(c, u, dir, f) ==
    Runs(c.state[u], dir, f) /\ c.due[u] # none /\ u \in c.attached /\ LandsRight(c, u)

LEMMA SetsOut ==
    ASSUME NEW c, NEW u \in Units, Sound(c), u \in c.attached, NEW dir \in BOOLEAN, NEW f \in TcStaged,
           Runs(c.state[u], dir, f), NEW g \in 0 .. LineTop + 2,
           LET q == Onwards(dir, c.pos[u], g) IN
           /\ f = "OFR" => ~OnReel(q)
           /\ f = "SRCH" => ~OnReel(q) \/ Tc!LIN2OF(q) = NumberLine(dir)
    PROVE  LET r == TimedAnew(c, u, g) IN
           /\ Touches(c, r, u) /\ RunsWell(r, u, dir, f) /\ (Agrees(c) => Agrees(r))
           /\ r.pos[u] = c.pos[u] /\ r.due[u] = g
<1> DEFINE r == TimedAnew(c, u, g)
<1>1. g \in none .. LineTop + 2 /\ g # none
  BY LineSizes DEF none
<1>2. /\ Touches(c, r, u) /\ r.due[u] = g /\ r.pos = c.pos /\ r.state = c.state /\ r.attached = c.attached
      /\ r.sa = c.sa /\ r.erf = c.erf /\ r.dtf = c.dtf /\ r.int = c.int
  <2>1. g \in none .. LineTop + 2
    BY <1>1
  <2> QED BY <2>1, TimedThen
<1> HIDE DEF r
<1>3. Agrees(c) => Agrees(r)
  BY <1>2, SameAgree, Zenon
<1>4. Tc!Phase(r, u) = "ats" /\ Tc!Dir(r, u) = dir
  <2>1. r.state[u] \in Courses /\ Runs(r.state[u], dir, f)
    BY <1>2, OfUnit, Zenon
  <2>2. r.state[u] # <<>> /\ Head(r.state[u]) = Tc!Stage("ats", dir, f)
    BY <2>1, Running
  <2>3. Tc!Phase(r, u) = "ats"
    BY <2>2, StageFields DEF Tc!Phase, Tc!Stopped
  <2>4. Runs(r.state[u], Tc!Dir(r, u), f) \/ \E h \in TcStaged : Runs(r.state[u], Tc!Dir(r, u), h)
    BY <2>1, <2>3, Doing, Zenon
  <2>5. Tc!Dir(r, u) = dir
    BY <2>1, <2>4, RunsOnce, Zenon
  <2> QED BY <2>3, <2>5
<1>5. Lands(r, u) = Onwards(dir, c.pos[u], g)
  BY <1>2, <1>4, Zenon DEF Lands
<1>6. LandsRight(r, u)
  <2> SUFFICES ASSUME NEW e \in BOOLEAN, NEW h \in TcStaged, Runs(r.state[u], e, h)
               PROVE  /\ h = "OFR" => ~OnReel(Lands(r, u))
                      /\ h = "SRCH" => ~OnReel(Lands(r, u)) \/ Tc!LIN2OF(Lands(r, u)) = NumberLine(e)
    BY Zenon DEF LandsRight
  <2>1. e = dir /\ h = f
    BY <1>2, RunsOnce, Zenon
  <2> QED BY <1>5, <2>1, Zenon
<1>7. Runs(r.state[u], dir, f) /\ r.due[u] # none /\ u \in r.attached
  BY <1>1, <1>2
<1>8. RunsWell(r, u, dir, f)
  BY <1>6, <1>7 DEF RunsWell
<1> QED BY <1>2, <1>3, <1>8 DEF r

\* The line from which a drive that has travelled d of them goes on.
OnFrom(c, u, d) == Onwards(Tc!Dir(c, u), c.pos[u], IF d = 0 THEN 1 ELSE d)

LEMMA LineFrom ==
    ASSUME NEW dir \in BOOLEAN, NEW x \in Int, NEW d \in Nat, OnReel(Onwards(dir, x, d))
    PROVE  LET y == Onwards(dir, x, d)
               z == Onwards(dir, x, IF d = 0 THEN 1 ELSE d)
           IN  /\ z = IF y # x THEN y ELSE IF dir THEN y - 1 ELSE y + 1
               /\ z \in -1 .. LineTop + 1 /\ (d > 0 => OnReel(z)) /\ y \in 0 .. LineTop
<1>1. CASE dir
  BY <1>1, LineSizes DEF Onwards, OnReel
<1>2. CASE ~dir
  BY <1>2, LineSizes DEF Onwards, OnReel
<1> QED BY <1>1, <1>2

LEMMA NewFunction ==
    ASSUME NEW c, NEW u \in Units, Sound(c), u \in c.attached, NEW d \in Nat,
           Tc!Phase(c, u) # "stop", NEW f \in TcStaged
    PROVE  LET dir == Tc!Dir(c, u)
               r == Tc!dt_newfnc(c, u, Tc!Stage("ats", dir, f), d)
               p == OnFrom(c, u, d)
           IN  /\ Touches(c, r, u)
               /\ Slowed(r, u) \/ RunsWell(r, u, dir, f)
               /\ d > 0 /\ Agrees(c) => Agrees(r)
               /\ ~r.erf /\ u = c.sa.unit /\ ~Tc!QEZ(p) /\ f \in {"READ", "WRIT"} =>
                     /\ ~Tc!InData(p) /\ Runs(r.state[u], dir, f) /\ r.pos[u] = p
                     /\ r.due[u] = Tc!Distance(Tc!WordAhead(p, dir), p)
<1> DEFINE dir == Tc!Dir(c, u)
           stage == Tc!Stage("ats", dir, f)
           r == Tc!dt_newfnc(c, u, stage, d)
           s == Tc!dt_setpos(c, u, d)
           p == IF s.pos[u] # c.pos[u] THEN s.pos[u]
                ELSE IF stage.dir THEN s.pos[u] - 1 ELSE s.pos[u] + 1
           n == SentFrom(s, u, p, <<stage>>)
           To(q) == TimedAnew(n, u, Tc!Distance(q, p))
<1>1. dir \in BOOLEAN /\ c.state[u] # <<>> /\ ~Tc!Stopped(c, u) /\ c.pos[u] \in Int
  <2>1. dir \in BOOLEAN /\ c.state[u] # <<>>
    BY OfUnit, Doing
  <2>2. c.pos[u] \in Int
    BY OfUnit, LineSizes
  <2> QED BY <2>1, <2>2 DEF Tc!Stopped
<1>2. Place(c, u, d) = Onwards(dir, c.pos[u], d)
  BY <1>1, Zenon DEF Place
<1>3. stage.dir = dir /\ stage.fnc = f
  BY DEF Tc!Stage
<1>4. CASE ~OnReel(Place(c, u, d))
  <2>1. /\ Touches(c, s, u) /\ Tc!Gone(s, u) /\ s.state[u] = <<>>
        /\ u = c.sa.unit => s.erf /\ Agrees(s)
        /\ u # c.sa.unit => s.sa = c.sa /\ s.erf = c.erf /\ s.dtf = c.dtf /\ s.int = c.int
    BY <1>4, OffTheReel
  <2>2. r = s
    BY <2>1 DEF Tc!dt_newfnc
  <2> HIDE DEF r, s, p, stage
  <2>3. Slowed(s, u)
    BY <2>1, Zenon DEF Slowed
  <2>4. Agrees(c) => Agrees(s)
    BY <2>1, SameAgree, Zenon
  <2>5. u = c.sa.unit => s.erf
    BY <2>1, Zenon
  <2> QED BY <2>1, <2>2, <2>3, <2>4, <2>5, Zenon DEF r, p, stage
<1>5. CASE OnReel(Place(c, u, d))
  <2>1. /\ Touches(c, s, u) /\ ~Tc!Gone(s, u) /\ s.pos[u] = Place(c, u, d)
        /\ s.state = c.state /\ s.due = c.due /\ s.attached = c.attached /\ s.sa = c.sa
        /\ s.erf = c.erf /\ s.dtf = c.dtf /\ s.int = c.int
    BY <1>5, SetPosition
  <2>2. Sound(s)
    BY <2>1 DEF Touches
  <2>3. s.pos[u] = Onwards(dir, c.pos[u], d) /\ OnReel(Onwards(dir, c.pos[u], d))
    BY <1>2, <1>5, <2>1
  <2>4. r = CASE Tc!Gone(s, u) -> s
              [] ~Tc!Gone(s, u) /\ (IF stage.dir THEN Tc!QREZ(p) ELSE Tc!QFEZ(p)) -> Tc!dt_seterr(n, u, 0)
              [] OTHER ->
                 CASE stage.fnc = "OFR" -> To(IF stage.dir THEN -1 ELSE Tc!FWDEZ + EZLIN + 1)
                   [] stage.fnc = "MOVE" -> To(Tc!EndZoneAhead(stage.dir))
                   [] stage.fnc = "SRCH" -> To(Tc!NumberAhead(p, stage.dir))
                   [] stage.fnc \notin {"OFR", "MOVE", "SRCH"} ->
                         IF ~Tc!QEZ(p) /\ Tc!InData(p)
                         THEN Tc!dt_seterr(Anew(n), u, 0)
                         ELSE To(Tc!WordAhead(p, stage.dir))
    <3> HIDE DEF stage
    <3> QED BY Zenon DEF Tc!dt_newfnc, SentFrom, TimedAnew, Anew
  <2>5. p = OnFrom(c, u, d) /\ p \in -1 .. LineTop + 1 /\ (d > 0 => OnReel(p)) /\ s.pos[u] \in 0 .. LineTop
        /\ p \in {s.pos[u], IF stage.dir THEN s.pos[u] - 1 ELSE s.pos[u] + 1}
    <3> DEFINE x == c.pos[u]
               y == s.pos[u]
               z == OnFrom(c, u, d)
    <3>1. /\ z = IF y # x THEN y ELSE IF dir THEN y - 1 ELSE y + 1
          /\ z \in -1 .. LineTop + 1 /\ (d > 0 => OnReel(z)) /\ y \in 0 .. LineTop
      <4> HIDE DEF dir, s
      <4> QED BY <1>1, <2>3, LineFrom DEF OnFrom, dir
    <3>2. p = IF y # x THEN y ELSE IF dir THEN y - 1 ELSE y + 1
      BY <1>3
    <3>3. p \in {y, IF stage.dir THEN y - 1 ELSE y + 1}
      OBVIOUS
    <3> HIDE DEF p, y, z
    <3> QED BY <3>1, <3>2, <3>3 DEF y, z
  <2> HIDE DEF r, s, p
  <2>16. SUFFICES /\ Touches(c, r, u)
                  /\ Slowed(r, u) \/ RunsWell(r, u, dir, f)
                  /\ d > 0 /\ Agrees(c) => Agrees(r)
                  /\ ~r.erf /\ u = c.sa.unit /\ ~Tc!QEZ(p) /\ f \in {"READ", "WRIT"} =>
                        /\ ~Tc!InData(p) /\ Runs(r.state[u], dir, f) /\ r.pos[u] = p
                        /\ r.due[u] = Tc!Distance(Tc!WordAhead(p, dir), p)
    BY <2>5, Zenon DEF r
  <2> DEFINE ss == <<stage>>
  <2>6. ss \in Courses /\ Runs(ss, dir, f)
    BY <1>1, RunCourse
  <2> HIDE DEF ss, stage
  <2>7. n = SentFrom(s, u, p, ss)
    BY DEF ss
  <2>8. /\ Touches(s, n, u) /\ n.pos[u] = p /\ n.state[u] = ss
        /\ n.due = s.due /\ n.attached = s.attached /\ n.sa = s.sa
        /\ n.erf = s.erf /\ n.dtf = s.dtf /\ n.int = s.int
    BY <2>2, <2>5, <2>6, <2>7, SentThere
  <2> HIDE DEF n
  <2>9. Touches(c, n, u) /\ Sound(n) /\ u \in n.attached /\ (Agrees(c) => Agrees(n))
    <3>1. Touches(c, n, u) /\ Sound(n) /\ u \in n.attached
      BY <2>1, <2>8, TouchesOnly DEF Touches
    <3>2. Agrees(c) => Agrees(n)
      BY <2>1, <2>8, SameAgree, Zenon
    <3> QED BY <3>1, <3>2
  <2>10. n.sa.unit = c.sa.unit
    BY <2>1, <2>8
  <2>11. Runs(n.state[u], dir, f) /\ n.state[u] \in Courses
    BY <2>6, <2>8
  <2>12. Tc!Phase(n, u) = "ats" /\ Tc!Dir(n, u) = dir
    <3>1. Tc!Phase(n, u) = "ats"
      <4>1. Head(n.state[u]) = Tc!Stage("ats", dir, f) /\ n.state[u] # <<>>
        BY <2>11, Running
      <4> QED BY <4>1, StageFields DEF Tc!Phase, Tc!Stopped
    <3>2. \E h \in TcStaged : Runs(n.state[u], Tc!Dir(n, u), h)
      BY <2>11, <3>1, Doing, Zenon
    <3> QED BY <2>11, <3>1, <3>2, RunsOnce, Zenon
  <2> HIDE DEF dir
  <2>13. ASSUME NEW m, Touches(n, m, u), m.state = n.state, m.pos = n.pos, m.attached = n.attached,
                m.sa = n.sa, m.erf = n.erf, m.dtf = n.dtf, m.int = n.int
         PROVE  LET t == Tc!dt_seterr(m, u, 0) IN
                /\ Touches(c, t, u) /\ Slowed(t, u) /\ t.erf
                /\ d > 0 /\ Agrees(c) => Agrees(t)
    <3> DEFINE t == Tc!dt_seterr(m, u, 0)
    <3>1. Sound(m) /\ Touches(c, m, u)
      BY <2>9, <2>13, TouchesOnly DEF Touches
    <3>2. Tc!Phase(m, u) = "ats" /\ Place(m, u, 0) = p
      <4>1. Tc!Phase(m, u) = "ats" /\ Tc!Dir(m, u) = dir /\ ~Tc!Stopped(m, u)
        <5>1. m.state[u] = n.state[u] /\ n.state[u] # <<>>
          BY <2>11, <2>13, Running
        <5>2. Tc!Phase(m, u) = "ats" /\ Tc!Dir(m, u) = dir
          BY <2>12, <5>1, SameCourse, Zenon
        <5> QED BY <5>1, <5>2 DEF Tc!Stopped
      <4>2. m.pos[u] = p /\ p \in Int
        BY <2>5, <2>8, <2>13, LineSizes
      <4>3. p - 0 = p /\ p + 0 = p
        BY <4>2
      <4> QED BY <4>1, <4>2, <4>3, Zenon DEF Place, Onwards
    <3>3. u \in m.attached /\ Tc!Phase(m, u) # "dec"
      BY <2>9, <2>13, <3>2
    <3>4. /\ Touches(m, t, u) /\ Slowed(t, u) /\ t.erf
          /\ (OnReel(p) => Agrees(t))
      <4>1. 0 \in Nat
        OBVIOUS
      <4>2. Tc!Phase(m, u) \in {"acc", "ats"} => u \in m.attached
        BY <3>3
      <4>3. Tc!Phase(m, u) = "dec" => m.due[u] # none /\ u \in m.attached
        BY <3>3
      <4>4. /\ Touches(m, t, u) /\ Slowed(t, u) /\ t.erf
            /\ (Tc!Phase(m, u) \in {"acc", "ats"} => OnReel(Place(m, u, 0)) \/ u = m.sa.unit) => Agrees(t)
        BY <3>1, <4>1, <4>2, <4>3, SetError
      <4> QED BY <3>2, <4>4
    <3> HIDE DEF t
    <3>5. Touches(c, t, u)
      BY <3>1, <3>4, TouchesOnly
    <3> QED BY <2>5, <3>4, <3>5 DEF t
  <2>14. CASE IF stage.dir THEN Tc!QREZ(p) ELSE Tc!QFEZ(p)
    <3> DEFINE t == Tc!dt_seterr(n, u, 0)
    <3>1. r = t
      BY <2>1, <2>4, <2>14
    <3>2. Touches(n, n, u)
      BY <2>9, Itself
    <3>3. /\ Touches(c, t, u) /\ Slowed(t, u) /\ t.erf
          /\ d > 0 /\ Agrees(c) => Agrees(t)
      BY <2>13, <3>2
    <3> HIDE DEF t
    <3> QED BY <3>1, <3>3
  <2>15. CASE ~(IF stage.dir THEN Tc!QREZ(p) ELSE Tc!QFEZ(p))
    <3>1. r = CASE f = "OFR" -> To(IF dir THEN -1 ELSE Tc!FWDEZ + EZLIN + 1)
                [] f = "MOVE" -> To(Tc!EndZoneAhead(dir))
                [] f = "SRCH" -> To(Tc!NumberAhead(p, dir))
                [] f \notin {"OFR", "MOVE", "SRCH"} ->
                      IF ~Tc!QEZ(p) /\ Tc!InData(p)
                      THEN Tc!dt_seterr(Anew(n), u, 0)
                      ELSE To(Tc!WordAhead(p, dir))
      BY <1>3, <2>1, <2>4, <2>15
    <3>2. p \in Int /\ OnItsWay(p, dir)
      <4>1. p \in Int
        BY <2>5, LineSizes
      <4>2. CASE dir
        BY <1>3, <2>5, <2>15, <4>2, LineSizes DEF OnItsWay, Tc!QREZ
      <4>3. CASE ~dir
        BY <1>3, <2>5, <2>15, <4>3, LineSizes DEF OnItsWay, Tc!QFEZ
      <4> QED BY <4>1, <4>2, <4>3
    <3>3. ASSUME NEW q, Tc!Distance(q, p) \in 0 .. LineTop + 2,
                 LET w == Onwards(dir, p, Tc!Distance(q, p)) IN
                 /\ f = "OFR" => ~OnReel(w)
                 /\ f = "SRCH" => ~OnReel(w) \/ Tc!LIN2OF(w) = NumberLine(dir)
          PROVE  /\ Touches(c, To(q), u) /\ RunsWell(To(q), u, dir, f) /\ (Agrees(c) => Agrees(To(q)))
                 /\ To(q).pos[u] = p /\ To(q).due[u] = Tc!Distance(q, p)
      <4> DEFINE g == Tc!Distance(q, p)
                 t == TimedAnew(n, u, g)
      <4>1. g \in 0 .. LineTop + 2 /\ n.pos[u] = p
        BY <2>8, <3>3
      <4>2. LET w == Onwards(dir, n.pos[u], g) IN
            /\ f = "OFR" => ~OnReel(w)
            /\ f = "SRCH" => ~OnReel(w) \/ Tc!LIN2OF(w) = NumberLine(dir)
        BY <3>3, <4>1
      <4> HIDE DEF g
      <4>3. /\ Touches(n, t, u) /\ RunsWell(t, u, dir, f) /\ (Agrees(n) => Agrees(t))
            /\ t.pos[u] = n.pos[u] /\ t.due[u] = g
        BY <1>1, <2>9, <2>11, <4>1, <4>2, SetsOut
      <4> HIDE DEF t
      <4>4. Touches(c, t, u)
        BY <2>9, <4>3, TouchesOnly
      <4>5. To(q) = t
        BY DEF t, g
      <4> HIDE DEF To
      <4> QED BY <2>9, <4>1, <4>3, <4>4, <4>5 DEF g
    <3>4. CASE f = "OFR"
      <4> DEFINE q == IF dir THEN -1 ELSE Tc!FWDEZ + EZLIN + 1
      <4>1. r = To(q)
        BY <3>1, <3>4
      <4>2. Tc!Distance(q, p) \in 0 .. LineTop + 2 /\ ~OnReel(Onwards(dir, p, Tc!Distance(q, p)))
        BY <1>1, <2>5, EndAhead
      <4> HIDE DEF q, To
      <4>3. /\ Touches(c, To(q), u) /\ RunsWell(To(q), u, dir, f) /\ (Agrees(c) => Agrees(To(q)))
        BY <3>3, <3>4, <4>2
      <4>4. f \notin {"READ", "WRIT"}
        BY <3>4
      <4> QED BY <4>1, <4>3, <4>4, Zenon
    <3>5. CASE f = "MOVE"
      <4> DEFINE q == Tc!EndZoneAhead(dir)
      <4>1. r = To(q)
        BY <3>1, <3>5
      <4>2. Tc!Distance(q, p) \in 0 .. LineTop + 2
        BY <1>1, <2>5, ZoneAhead
      <4> HIDE DEF q, To
      <4>3. /\ Touches(c, To(q), u) /\ RunsWell(To(q), u, dir, f) /\ (Agrees(c) => Agrees(To(q)))
        BY <3>3, <3>5, <4>2
      <4>4. f \notin {"READ", "WRIT"}
        BY <3>5
      <4> QED BY <4>1, <4>3, <4>4, Zenon
    <3>6. CASE f = "SRCH"
      <4> DEFINE q == Tc!NumberAhead(p, dir)
      <4>1. r = To(q)
        BY <3>1, <3>6
      <4>2. Tc!Distance(q, p) \in 0 .. LineTop + 2
            /\ (~OnReel(Onwards(dir, p, Tc!Distance(q, p)))
                \/ Tc!LIN2OF(Onwards(dir, p, Tc!Distance(q, p))) = NumberLine(dir))
        BY <1>1, <3>2, NumbersAhead
      <4> HIDE DEF q, To
      <4>3. /\ Touches(c, To(q), u) /\ RunsWell(To(q), u, dir, f) /\ (Agrees(c) => Agrees(To(q)))
        BY <3>3, <3>6, <4>2
      <4>4. f \notin {"READ", "WRIT"}
        BY <3>6
      <4> QED BY <4>1, <4>3, <4>4, Zenon
    <3>7. CASE f \notin {"OFR", "MOVE", "SRCH"} /\ ~Tc!QEZ(p) /\ Tc!InData(p)
      <4> DEFINE m == Anew(n)
                 t == Tc!dt_seterr(m, u, 0)
      <4>1. r = t
        BY <3>1, <3>7
      <4>2. /\ Touches(n, m, u) /\ m.state = n.state /\ m.pos = n.pos /\ m.attached = n.attached
            /\ m.sa = n.sa /\ m.erf = n.erf /\ m.dtf = n.dtf /\ m.int = n.int
        BY <2>9, AtStart
      <4> HIDE DEF m
      <4>3. /\ Touches(c, t, u) /\ Slowed(t, u) /\ t.erf
            /\ d > 0 /\ Agrees(c) => Agrees(t)
        BY <2>13, <4>2
      <4> HIDE DEF t
      <4> QED BY <4>1, <4>3
    <3>8. CASE f \notin {"OFR", "MOVE", "SRCH"} /\ ~(~Tc!QEZ(p) /\ Tc!InData(p))
      <4> DEFINE q == Tc!WordAhead(p, dir)
      <4>1. r = To(q)
        BY <3>1, <3>8
      <4>2. Tc!Distance(q, p) \in 0 .. LineTop + 2
        BY <1>1, <3>2, <3>8, WordsAhead
      <4> HIDE DEF To
      <4>3. /\ Touches(c, To(q), u) /\ RunsWell(To(q), u, dir, f) /\ (Agrees(c) => Agrees(To(q)))
            /\ To(q).pos[u] = p /\ To(q).due[u] = Tc!Distance(q, p)
        BY <3>3, <3>8, <4>2
      <4>4. ~Tc!QEZ(p) => ~Tc!InData(p)
        BY <3>8
      <4>5. Runs(To(q).state[u], dir, f)
        BY <4>3 DEF RunsWell
      <4> QED BY <4>1, <4>3, <4>4, <4>5, Zenon
    <3> QED BY <3>4, <3>5, <3>6, <3>7, <3>8
  <2> QED BY <2>14, <2>15
<1> QED BY <1>4, <1>5

LEMMA SpeedCourse ==
    ASSUME NEW d \in BOOLEAN, NEW f \in TcStaged
    PROVE  LET s == <<Tc!Stage("acc", d, "MOVE"), Tc!Stage("ats", d, f)>> IN
           s \in Courses /\ SpeedsUp(s, d, f)
BY Forms DEF SpeedsUp

LEMMA TurnCourse ==
    ASSUME NEW d \in BOOLEAN, NEW e \in BOOLEAN, d # e, NEW f \in TcStaged
    PROVE  LET s == <<Tc!Stage("dec", d, "MOVE"), Tc!Stage("acc", e, "MOVE"), Tc!Stage("ats", e, f)>> IN
           s \in Courses /\ TurnsRound(s, d, e, f)
<1> DEFINE s == <<Tc!Stage("dec", d, "MOVE"), Tc!Stage("acc", e, "MOVE"), Tc!Stage("ats", e, f)>>
<1>1. TurnsRound(s, d, e, f)
  BY Zenon DEF TurnsRound
<1> HIDE DEF s
<1>2. TurnsRound(s, TRUE, FALSE, f) \/ TurnsRound(s, FALSE, TRUE, f)
  <2>1. (d = TRUE \/ d = FALSE) /\ (e = TRUE \/ e = FALSE)
    OBVIOUS
  <2>2. CASE d = TRUE
    BY <1>1, <2>1, <2>2, Zenon
  <2>3. CASE d = FALSE
    BY <1>1, <2>1, <2>3, Zenon
  <2> QED BY <2>1, <2>2, <2>3, Zenon
<1>3. s \in Courses
  BY <1>2, Forms, Zenon
<1> QED BY <1>1, <1>3 DEF s

LEMMA StagesDiffer ==
    ASSUME NEW d, NEW f, NEW e, NEW g
    PROVE  /\ Tc!Stage("dec", d, f) # Tc!Stage("acc", e, g)
           /\ Tc!Stage("dec", d, f) # Tc!Stage("ats", e, g)
           /\ Tc!Stage("acc", d, f) # Tc!Stage("ats", e, g)
<1>1. ASSUME NEW x, NEW y, NEW a, NEW b, NEW h, NEW i, Tc!Stage(x, a, h) = Tc!Stage(y, b, i)
      PROVE  x = y
  <2>1. Tc!Stage(x, a, h).phase = x /\ Tc!Stage(y, b, i).phase = y
    BY StageFields
  <2> QED BY <1>1, <2>1, Zenon
<1>2. "dec" # "acc" /\ "dec" # "ats" /\ "acc" # "ats"
  OBVIOUS
<1> QED BY <1>1, <1>2, Zenon

\* A drive that slows down, or does or is going to do a function.
Does(c, u, dir, f) ==
    \/ Slowed(c, u)
    \/ RunsWell(c, u, dir, f)
    \/ SpeedsUp(c.state[u], dir, f) /\ c.due[u] > 0 /\ u \in c.attached
    \/ \E d \in BOOLEAN : TurnsRound(c.state[u], d, dir, f) /\ c.due[u] # none /\ u \in c.attached

IsToDo(s, dir, f) ==
    \A e \in BOOLEAN, d \in BOOLEAN, h \in TcStaged :
        TurnsRound(s, e, d, h) \/ SpeedsUp(s, d, h) \/ Runs(s, d, h) => h = f /\ d = dir

LEMMA SpeedsOnce ==
    ASSUME NEW s, NEW d, NEW f, NEW e, NEW g, SpeedsUp(s, d, f), SpeedsUp(s, e, g)
    PROVE  d = e /\ f = g
<1>1. s[2] = Tc!Stage("ats", d, f) /\ s[2] = Tc!Stage("ats", e, g)
  BY Speeding
<1>2. s[2].dir = d /\ s[2].fnc = f
  BY <1>1 DEF Tc!Stage
<1>3. s[2].dir = e /\ s[2].fnc = g
  BY <1>1 DEF Tc!Stage
<1> QED BY <1>2, <1>3, Zenon

LEMMA TurnsOnce ==
    ASSUME NEW s, NEW c, NEW d, NEW f, NEW b, NEW e, NEW g, TurnsRound(s, c, d, f), TurnsRound(s, b, e, g)
    PROVE  d = e /\ f = g
<1>1. s[3] = Tc!Stage("ats", d, f) /\ s[3] = Tc!Stage("ats", e, g)
  BY Turning
<1>2. s[3].dir = d /\ s[3].fnc = f
  BY <1>1 DEF Tc!Stage
<1>3. s[3].dir = e /\ s[3].fnc = g
  BY <1>1 DEF Tc!Stage
<1> QED BY <1>2, <1>3, Zenon

LEMMA DoesIt ==
    ASSUME NEW c, NEW u \in Units, Sound(c), NEW dir \in BOOLEAN, NEW f \in TcStaged, Does(c, u, dir, f)
    PROVE  Served(c, u) /\ LandsRight(c, u) /\ IsToDo(c.state[u], dir, f)
<1> DEFINE s == c.state[u]
<1>1. CASE Slowed(c, u)
  BY <1>1, SlowedServed, Zenon DEF IsToDo
<1>2. CASE RunsWell(c, u, dir, f)
  <2>1. Runs(s, dir, f) /\ c.due[u] # none /\ u \in c.attached /\ LandsRight(c, u)
    BY <1>2 DEF RunsWell
  <2>2. Head(s) = Tc!Stage("ats", dir, f) /\ Len(s) = 1
    BY <2>1, Running
  <2> HIDE DEF s
  <2>3. ASSUME NEW d, NEW h, SpeedsUp(s, d, h) PROVE FALSE
    BY <2>2, <2>3, Speeding
  <2>4. ASSUME NEW e, NEW d, NEW h, TurnsRound(s, e, d, h) PROVE FALSE
    BY <2>2, <2>4, Turning
  <2>5. IsToDo(s, dir, f)
    BY <2>1, <2>3, <2>4, RunsOnce, Zenon DEF IsToDo
  <2>6. Served(c, u)
    BY <2>1, <2>3, Zenon DEF Served, s
  <2> QED BY <2>1, <2>5, <2>6 DEF s
<1>3. CASE SpeedsUp(s, dir, f) /\ c.due[u] > 0 /\ u \in c.attached
  <2>1. Head(s) = Tc!Stage("acc", dir, "MOVE") /\ Len(s) = 2
    BY <1>3, Speeding
  <2> HIDE DEF s
  <2>2. ASSUME NEW d, NEW h, Runs(s, d, h) PROVE FALSE
    BY <2>1, <2>2, Running
  <2>3. ASSUME NEW e, NEW d, NEW h, TurnsRound(s, e, d, h) PROVE FALSE
    BY <2>1, <2>3, Turning
  <2>4. IsToDo(s, dir, f)
    BY <1>3, <2>2, <2>3, SpeedsOnce, Zenon DEF IsToDo
  <2>5. c.due[u] # none
    <3>1. c.due[u] \in none .. LineTop + 2
      BY OfUnit
    <3> QED BY <1>3, <3>1, LineSizes DEF none
  <2>6. Served(c, u)
    BY <1>3, <2>5, Zenon DEF Served, s
  <2>7. LandsRight(c, u)
    BY <2>2, Zenon DEF LandsRight, s
  <2> QED BY <2>4, <2>6, <2>7 DEF s
<1>4. ASSUME NEW d \in BOOLEAN, TurnsRound(s, d, dir, f), c.due[u] # none, u \in c.attached
      PROVE  Served(c, u) /\ LandsRight(c, u) /\ IsToDo(s, dir, f)
  <2>1. Head(s) = Tc!Stage("dec", d, "MOVE") /\ Len(s) = 3
    BY <1>4, Turning
  <2> HIDE DEF s
  <2>2. ASSUME NEW e, NEW h, Runs(s, e, h) PROVE FALSE
    BY <2>1, <2>2, Running
  <2>3. ASSUME NEW e, NEW h, SpeedsUp(s, e, h) PROVE FALSE
    BY <2>1, <2>3, Speeding
  <2>4. IsToDo(s, dir, f)
    BY <1>4, <2>2, <2>3, TurnsOnce, Zenon DEF IsToDo
  <2>5. Served(c, u)
    BY <1>4, <2>3, Zenon DEF Served, s
  <2>6. LandsRight(c, u)
    BY <2>2, Zenon DEF LandsRight, s
  <2> QED BY <2>4, <2>5, <2>6 DEF s
<1> QED BY <1>1, <1>2, <1>3, <1>4, Zenon DEF Does

\* The drive that is no longer selected runs on to the end of the reel.
LEMMA Deselect ==
    ASSUME NEW c, NEW u \in Units, Sound(c), Served(c, u), LandsRight(c, u), NEW d \in Nat
    PROVE  LET r == Tc!dt_deselect(c, u, d) IN
           Touches(c, r, u) /\ Served(r, u) /\ LandsRight(r, u)
<1> DEFINE dir == Tc!Dir(c, u)
           r == Tc!dt_deselect(c, u, d)
<1>1. dir \in BOOLEAN /\ "OFR" \in TcStaged
  <2>1. "OFR" \in TcStaged
    BY DEF TcStaged
  <2> QED BY <2>1, OfUnit, Doing
<1>2. CASE Tc!Phase(c, u) = "ats"
  <2> DEFINE t == Tc!dt_newfnc(c, u, Tc!Stage("ats", dir, "OFR"), d)
  <2>1. r = t
    BY <1>2 DEF Tc!dt_deselect
  <2>2. u \in c.attached
    BY <1>2, OfUnit, Doing, Zenon DEF Served
  <2>3. Tc!Phase(c, u) # "stop"
    BY <1>2
  <2>4. Touches(c, t, u) /\ (Slowed(t, u) \/ RunsWell(t, u, dir, "OFR"))
    BY <1>1, <2>2, <2>3, NewFunction
  <2> HIDE DEF t, r, dir
  <2>5. Sound(t) /\ Does(t, u, dir, "OFR")
    BY <2>4 DEF Touches, Does
  <2> QED BY <1>1, <2>1, <2>4, <2>5, DoesIt, Zenon DEF r
<1>3. CASE Tc!Phase(c, u) = "acc"
  <2> DEFINE s == <<Tc!Stage("acc", dir, "MOVE"), Tc!Stage("ats", dir, "OFR")>>
             t == SentOn(c, u, s)
  <2>1. PICK f \in TcStaged : SpeedsUp(c.state[u], dir, f)
    BY <1>3, OfUnit, Doing, Zenon
  <2>2. Head(c.state[u]) = Tc!Stage("acc", dir, "MOVE") /\ c.state[u] # <<>>
    BY <2>1, Speeding
  <2>3. r = t
    <3>1. r = [c EXCEPT !.state[u] = <<Head(@), Tc!Stage("ats", dir, "OFR")>>]
      BY <1>3 DEF Tc!dt_deselect
    <3>2. [c EXCEPT !.state[u] = <<Head(@), Tc!Stage("ats", dir, "OFR")>>] = t
      <4> HIDE DEF dir
      <4> QED BY <2>2, Zenon DEF SentOn
    <3> QED BY <3>1, <3>2, Zenon
  <2>4. s \in Courses /\ SpeedsUp(s, dir, "OFR")
    BY <1>1, SpeedCourse
  <2> HIDE DEF s, r, dir
  <2>5. Touches(c, t, u) /\ t.state[u] = s /\ t.due = c.due /\ t.attached = c.attached
    BY <2>4, Sent
  <2> HIDE DEF t
  <2>6. c.due[u] > 0 /\ u \in c.attached
    BY <1>1, <2>1, <2>2, Zenon DEF Served
  <2>7. Sound(t) /\ Does(t, u, dir, "OFR")
    BY <2>4, <2>5, <2>6 DEF Touches, Does
  <2> QED BY <1>1, <2>3, <2>5, <2>7, DoesIt, Zenon DEF r
<1>4. CASE Tc!Phase(c, u) \notin {"acc", "ats"}
  <2>1. r = c
    BY <1>4 DEF Tc!dt_deselect
  <2> QED BY <2>1, Itself
<1> QED BY <1>2, <1>3, <1>4

\* The drive selected starts, ...
LEMMA Starts ==
    ASSUME NEW c, NEW u \in Units, Sound(c), u \in c.attached, c.sa.fnc \in TcStaged, NEW d \in Nat
    PROVE  LET r == Tc!Start(c, u, d) IN
           Touches(c, r, u) /\ Does(r, u, c.sa.dir, c.sa.fnc)
<1> DEFINE r == Tc!Start(c, u, d)
           p == Tc!dt_setpos(c, u, d)
           s == <<Tc!Stage("acc", c.sa.dir, "MOVE"), Tc!Stage("ats", c.sa.dir, c.sa.fnc)>>
           n == SentFor(p, u, s, Accel)
<1>1. r = IF Tc!Gone(p, u) THEN p ELSE n
  BY Zenon DEF Tc!Start, SentFor
<1> HIDE DEF r
<1>2. CASE ~OnReel(Place(c, u, d))
  <2>1. Touches(c, p, u) /\ Tc!Gone(p, u) /\ p.state[u] = <<>>
    BY <1>2, OffTheReel
  <2> HIDE DEF p
  <2>2. Does(p, u, c.sa.dir, c.sa.fnc)
    BY <2>1 DEF Does, Slowed
  <2> QED BY <1>1, <2>1, <2>2 DEF r
<1>3. CASE OnReel(Place(c, u, d))
  <2>1. Touches(c, p, u) /\ ~Tc!Gone(p, u) /\ p.attached = c.attached
    BY <1>3, SetPosition
  <2> HIDE DEF p
  <2>2. Sound(p)
    BY <2>1 DEF Touches
  <2>3. s \in Courses /\ SpeedsUp(s, c.sa.dir, c.sa.fnc)
    <3>1. c.sa.dir \in BOOLEAN
      BY Orders
    <3> QED BY <3>1, SpeedCourse
  <2> HIDE DEF s
  <2>4. Accel \in none .. LineTop + 2
    BY LineSizes DEF none
  <2>5. Touches(p, n, u) /\ n.state[u] = s /\ n.due[u] = Accel /\ n.attached = p.attached
    BY <2>2, <2>3, <2>4, SentAt
  <2> HIDE DEF n
  <2>6. Touches(c, n, u)
    BY <2>1, <2>5, TouchesOnly
  <2>7. n.due[u] > 0 /\ u \in n.attached /\ SpeedsUp(n.state[u], c.sa.dir, c.sa.fnc)
    BY <2>1, <2>3, <2>5, LineSizes
  <2>8. Does(n, u, c.sa.dir, c.sa.fnc)
    BY <2>7 DEF Does
  <2> QED BY <1>1, <2>1, <2>6, <2>8 DEF r
<1> QED BY <1>2, <1>3

\* ... or slows down, ...
LEMMA SlowsDownTo ==
    ASSUME NEW c, NEW u \in Units, Sound(c), Served(c, u), Tc!Phase(c, u) # "stop", NEW d \in Nat,
           NEW e \in BOOLEAN, NEW f \in TcStaged, NEW stages,
           \/ stages = <<>>
           \/ stages = <<Tc!Stage("acc", e, "MOVE"), Tc!Stage("ats", e, f)>> /\ Tc!Dir(c, u) # e
    PROVE  LET r == Tc!SlowDown(c, u, d, stages) IN
           Touches(c, r, u) /\ Does(r, u, e, f)
<1> DEFINE r == Tc!SlowDown(c, u, d, stages)
           dir == Tc!Dir(c, u)
           s == <<Tc!Stage("dec", dir, "MOVE")>> \o stages
           m == TimedFor(c, u, none)
           q == Tc!dt_setpos(m, u, d)
           o == Tc!dt_setpos(c, u, d)
           n == SentFor(q, u, s, Decel)
           l == SentOn(c, u, s)
<1>1. dir \in BOOLEAN /\ c.state[u] # <<>> /\ u \in c.attached /\ c.due[u] # none
  <2>1. dir \in BOOLEAN /\ c.state[u] # <<>>
    BY OfUnit, Doing
  <2> QED BY <2>1, Zenon DEF Served
<1>2. s \in Courses /\ (SlowsDown(s, dir) \/ TurnsRound(s, dir, e, f))
  <2>1. CASE stages = <<>>
    <3>1. s = <<Tc!Stage("dec", dir, "MOVE")>>
      BY <2>1
    <3> HIDE DEF s
    <3> QED BY <1>1, <3>1, SlowCourse
  <2>2. CASE stages = <<Tc!Stage("acc", e, "MOVE"), Tc!Stage("ats", e, f)>> /\ dir # e
    <3> DEFINE t == <<Tc!Stage("dec", dir, "MOVE"), Tc!Stage("acc", e, "MOVE"), Tc!Stage("ats", e, f)>>
    <3>1. s = t
      <4>1. ASSUME NEW x, NEW y, NEW z PROVE <<x>> \o <<y, z>> = <<x, y, z>>
        <5> DEFINE S == {x, y, z}
                   a == <<x>>
                   b == <<y, z>>
                   k == <<x, y, z>>
        <5>1. a \in Seq(S) /\ b \in Seq(S) /\ k \in Seq(S) /\ Len(a) = 1 /\ Len(b) = 2 /\ Len(k) = 3
              /\ a[1] = x /\ b[1] = y /\ b[2] = z /\ k[1] = x /\ k[2] = y /\ k[3] = z
          OBVIOUS
        <5> HIDE DEF a, b, k, S
        <5>2. a \o b \in Seq(S) /\ Len(a \o b) = Len(a) + Len(b)
              /\ \A i \in 1 .. Len(a) + Len(b) : (a \o b)[i] = IF i <= Len(a) THEN a[i] ELSE b[i - Len(a)]
          BY <5>1, ConcatProperties
        <5>3. Len(a \o b) = 3 /\ (a \o b)[1] = x /\ (a \o b)[2] = y /\ (a \o b)[3] = z
          BY <5>1, <5>2
        <5>4. \A i \in 1 .. 3 : (a \o b)[i] = k[i]
          BY <5>1, <5>3
        <5>5. a \o b = k
          BY <5>1, <5>2, <5>3, <5>4, SeqEqual
        <5> QED BY <5>5 DEF a, b, k
      <4> QED BY <2>2, <4>1, Zenon
    <3>2. t \in Courses /\ TurnsRound(t, dir, e, f)
      <4> HIDE DEF dir
      <4> QED BY <1>1, <2>2, TurnCourse
    <3> QED BY <3>1, <3>2, Zenon
  <2> QED BY <2>1, <2>2
<1>3. ASSUME NEW t, t.state[u] = s, t.due[u] # none, u \in t.attached
      PROVE  Does(t, u, e, f)
  <2> HIDE DEF s, dir
  <2>1. SlowsDown(t.state[u], dir) \/ TurnsRound(t.state[u], dir, e, f)
    BY <1>2, <1>3, Zenon
  <2> QED BY <1>1, <1>3, <2>1, Zenon DEF Does, Slowed
<1>4. CASE Tc!Phase(c, u) = "dec"
  <2>1. r = l
    <3>1. [c EXCEPT !.due[u] = @, !.state[u] = s] = l
      <4>1. [c EXCEPT !.due[u] = @] = c
        <5>1. c \in TcRecord /\ [c.due EXCEPT ![u] = @] = c.due
          BY Fields DEF Sound
        <5> QED BY <5>1 DEF TcRecord
      <4> QED BY <4>1 DEF SentOn
    <3>2. ~Tc!Gone(c, u)
      BY <1>1 DEF Tc!Gone
    <3>3. r = [c EXCEPT !.due[u] = @, !.state[u] = s]
      BY <1>4, <3>2 DEF Tc!SlowDown
    <3> QED BY <3>1, <3>3, Zenon
  <2> HIDE DEF s, r
  <2>2. Touches(c, l, u) /\ l.state[u] = s /\ l.due = c.due /\ l.attached = c.attached
    BY <1>2, Sent
  <2> HIDE DEF l
  <2> QED BY <1>1, <1>3, <2>1, <2>2 DEF r
<1>5. CASE Tc!Phase(c, u) # "dec"
  <2>1. r = IF Tc!Gone(q, u) THEN o ELSE n
    BY <1>5, Zenon DEF Tc!SlowDown, TimedFor, SentFor, Tc!none, none
  <2>2. /\ Touches(c, m, u) /\ m.state = c.state /\ m.pos = c.pos /\ m.attached = c.attached
    <3>1. none \in none .. LineTop + 2
      BY LineSizes DEF none
    <3> QED BY <3>1, Timed
  <2> HIDE DEF r, m, s
  <2>3. Sound(m) /\ u \in m.attached
    BY <1>1, <2>2 DEF Touches
  <2>4. Place(m, u, d) = Place(c, u, d)
    <3>1. m.state[u] = c.state[u] /\ m.pos[u] = c.pos[u]
      BY <2>2
    <3>2. Tc!Dir(m, u) = Tc!Dir(c, u) /\ Tc!Stopped(m, u) = Tc!Stopped(c, u)
      BY <3>1, SameCourse
    <3> QED BY <3>1, <3>2, Zenon DEF Place
  <2>5. CASE ~OnReel(Place(c, u, d))
    <3>1. Tc!Gone(q, u)
      BY <2>3, <2>4, <2>5, OffTheReel
    <3>2. Touches(c, o, u) /\ o.state[u] = <<>>
      BY <1>1, <2>5, OffTheReel
    <3> HIDE DEF q, o
    <3>3. Does(o, u, e, f)
      BY <3>2 DEF Does, Slowed
    <3> QED BY <2>1, <3>1, <3>2, <3>3 DEF r
  <2>6. CASE OnReel(Place(c, u, d))
    <3>1. Touches(m, q, u) /\ ~Tc!Gone(q, u) /\ q.attached = m.attached
      BY <2>3, <2>4, <2>6, SetPosition
    <3> HIDE DEF q
    <3>2. Sound(q)
      BY <3>1 DEF Touches
    <3>3. Decel \in none .. LineTop + 2 /\ Decel # none
      BY LineSizes DEF none
    <3>4. Touches(q, n, u) /\ n.state[u] = s /\ n.due[u] = Decel /\ n.attached = q.attached
      <4>1. Decel \in none .. LineTop + 2
        BY <3>3
      <4> QED BY <1>2, <3>2, <4>1, SentAt
    <3> HIDE DEF n
    <3>5. Touches(c, n, u)
      BY <2>2, <3>1, <3>4, TouchesOnly
    <3>6. Does(n, u, e, f)
      BY <1>3, <2>3, <3>1, <3>3, <3>4
    <3> QED BY <2>1, <3>1, <3>5, <3>6 DEF r
  <2> QED BY <2>5, <2>6
<1> QED BY <1>4, <1>5

\* ... so that it does what status A asks for.
LEMMA NewStatus ==
    ASSUME NEW c, Sound(c), Served(c, c.sa.unit), c.sa.fnc \in TcStaged, NEW d \in Nat
    PROVE  LET r == Tc!dt_newsa(c, d) IN
           Touches(c, r, c.sa.unit) /\ Does(r, c.sa.unit, c.sa.dir, c.sa.fnc)
<1> DEFINE u == c.sa.unit
           dir == Tc!Dir(c, u)
           atspeed == Tc!Stage("ats", c.sa.dir, c.sa.fnc)
           r == Tc!dt_newsa(c, d)
           turn == <<Tc!Stage("acc", c.sa.dir, "MOVE"), atspeed>>
<1>1. u \in Units /\ c.sa.dir \in BOOLEAN /\ c.sa.fnc \in TcStaged
  BY Orders
<1>2. c.state[u] \in Courses /\ Tc!Phase(c, u) \in {"stop", "dec", "acc", "ats"} /\ dir \in BOOLEAN
  <2>1. c.state[u] \in Courses
    BY <1>1, OfUnit
  <2> QED BY <2>1, Doing
<1>3. CASE u \notin c.attached
  <2>1. r = Tc!dt_seterr(c, u, d)
    BY <1>3 DEF Tc!dt_newsa
  <2>2. Tc!Phase(c, u) = "stop"
    <3>1. c.state[u] = <<>>
      BY <1>3, Zenon DEF Served
    <3> QED BY <1>2, <3>1, Doing
  <2> DEFINE t == Tc!dt_seterr(c, u, d)
  <2>3. Touches(c, t, u) /\ Slowed(t, u)
    <3>1. (Tc!Phase(c, u) \in {"acc", "ats"} => u \in c.attached)
          /\ (Tc!Phase(c, u) = "dec" => c.due[u] # none /\ u \in c.attached)
      BY <2>2
    <3> HIDE DEF u
    <3> QED BY <1>1, <3>1, SetError
  <2> HIDE DEF t, r
  <2>4. r = t
    BY <2>1 DEF t
  <2> QED BY <2>3, <2>4 DEF Does, r
<1>4. CASE u \in c.attached /\ Tc!Phase(c, u) = "stop" /\ c.sa.go
  <2> DEFINE t == Tc!Start(c, u, d)
  <2>1. r = t
    BY <1>4 DEF Tc!dt_newsa
  <2>2. Touches(c, t, u) /\ Does(t, u, c.sa.dir, c.sa.fnc)
    BY <1>1, <1>4, Starts
  <2> QED BY <2>1, <2>2, Zenon
<1>5. CASE u \in c.attached /\ Tc!Phase(c, u) = "stop" /\ ~c.sa.go
  <2>1. r = c
    BY <1>5 DEF Tc!dt_newsa
  <2>2. c.state[u] = <<>>
    BY <1>2, <1>5, Doing
  <2>3. Touches(c, c, u) /\ Does(c, u, c.sa.dir, c.sa.fnc)
    BY <2>2, Itself DEF Does, Slowed
  <2> QED BY <2>1, <2>3, Zenon
<1>6. CASE u \in c.attached /\ Tc!Phase(c, u) # "stop" /\ ~c.sa.go
  <2> DEFINE t == Tc!SlowDown(c, u, d, <<>>)
  <2>1. r = t
    BY <1>6 DEF Tc!dt_newsa
  <2>2. Touches(c, t, u) /\ Does(t, u, c.sa.dir, c.sa.fnc)
    <3>1. Tc!Phase(c, u) # "stop"
      BY <1>6
    <3> HIDE DEF u
    <3> QED BY <1>1, <3>1, SlowsDownTo DEF u
  <2> QED BY <2>1, <2>2, Zenon
<1>7. CASE u \in c.attached /\ Tc!Phase(c, u) # "stop" /\ c.sa.go /\ dir # c.sa.dir
  <2> DEFINE t == Tc!SlowDown(c, u, d, turn)
  <2>1. r = t
    BY <1>7 DEF Tc!dt_newsa
  <2>2. Touches(c, t, u) /\ Does(t, u, c.sa.dir, c.sa.fnc)
    <3>1. Tc!Phase(c, u) # "stop"
      BY <1>7
    <3>2. turn = <<Tc!Stage("acc", c.sa.dir, "MOVE"), Tc!Stage("ats", c.sa.dir, c.sa.fnc)>>
          /\ Tc!Dir(c, u) # c.sa.dir
      BY <1>7
    <3> HIDE DEF turn, u
    <3> QED BY <1>1, <3>1, <3>2, SlowsDownTo DEF u
  <2> QED BY <2>1, <2>2, Zenon
<1>8. CASE u \in c.attached /\ Tc!Phase(c, u) = "dec" /\ c.sa.go /\ dir = c.sa.dir
  <2> DEFINE t == Tc!Start(c, u, d)
  <2>1. r = t
    BY <1>8 DEF Tc!dt_newsa
  <2>2. Touches(c, t, u) /\ Does(t, u, c.sa.dir, c.sa.fnc)
    BY <1>1, <1>8, Starts
  <2> QED BY <2>1, <2>2, Zenon
<1>9. CASE u \in c.attached /\ Tc!Phase(c, u) = "acc" /\ c.sa.go /\ dir = c.sa.dir
  <2> DEFINE t == SentOn(c, u, turn)
  <2>1. PICK f \in TcStaged : SpeedsUp(c.state[u], dir, f)
    BY <1>2, <1>9, Doing, Zenon
  <2>2. Head(c.state[u]) = Tc!Stage("acc", dir, "MOVE") /\ c.state[u] # <<>>
    BY <2>1, Speeding
  <2>3. r = t
    <3>1. r = [c EXCEPT !.state[u] = <<Head(@), atspeed>>]
      BY <1>9 DEF Tc!dt_newsa
    <3>2. Head(c.state[u]) = Tc!Stage("acc", c.sa.dir, "MOVE")
      BY <1>9, <2>2
    <3>3. [c EXCEPT !.state[u] = <<Head(@), atspeed>>] = t
      <4> HIDE DEF dir, u
      <4> QED BY <3>2, Zenon DEF SentOn
    <3> QED BY <3>1, <3>3, Zenon
  <2>4. turn \in Courses /\ SpeedsUp(turn, c.sa.dir, c.sa.fnc)
    BY <1>1, SpeedCourse
  <2> HIDE DEF turn, r, dir, u
  <2>5. Touches(c, t, u) /\ t.state[u] = turn /\ t.due = c.due /\ t.attached = c.attached
    BY <1>1, <2>4, Sent
  <2> HIDE DEF t
  <2>6. c.due[u] > 0
    <3>1. Served(c, u)
      BY DEF u
    <3> QED BY <1>2, <2>1, <2>2, <3>1, Zenon DEF Served
  <2>7. t.due[u] > 0 /\ u \in t.attached /\ SpeedsUp(t.state[u], c.sa.dir, c.sa.fnc)
    BY <1>9, <2>4, <2>5, <2>6
  <2>8. Does(t, u, c.sa.dir, c.sa.fnc)
    BY <2>7 DEF Does
  <2> QED BY <2>3, <2>5, <2>8 DEF r, u
<1>10. CASE u \in c.attached /\ Tc!Phase(c, u) = "ats" /\ c.sa.go /\ dir = c.sa.dir
  <2> DEFINE t == Tc!dt_newfnc(c, u, Tc!Stage("ats", dir, c.sa.fnc), d)
  <2>1. r = t
    <3>1. r = Tc!dt_newfnc(c, u, atspeed, d)
      BY <1>10 DEF Tc!dt_newsa
    <3>2. atspeed = Tc!Stage("ats", dir, c.sa.fnc)
      BY <1>10
    <3> HIDE DEF dir, atspeed
    <3> QED BY <3>1, <3>2, Zenon
  <2>2. Tc!Phase(c, u) # "stop"
    BY <1>10
  <2>3. Touches(c, t, u) /\ (Slowed(t, u) \/ RunsWell(t, u, dir, c.sa.fnc))
    <3> HIDE DEF u
    <3> QED BY <1>1, <1>10, <2>2, NewFunction
  <2> HIDE DEF t, r
  <2>4. Slowed(t, u) \/ RunsWell(t, u, c.sa.dir, c.sa.fnc)
    <3>1. dir = c.sa.dir
      BY <1>10
    <3> HIDE DEF dir, u
    <3> QED BY <2>3, <3>1, Zenon
  <2> QED BY <2>1, <2>3, <2>4, Zenon DEF Does, r
<1>11. c.sa.go \in BOOLEAN
  BY Orders
<1> HIDE DEF r, dir, u
<1> QED BY <1>2, <1>3, <1>4, <1>5, <1>6, <1>7, <1>8, <1>9, <1>10, <1>11 DEF r, u

----------------------------------------------------------------------------
\* The drive at speed goes on for n lines and the controller does the rest.
GoesOn(c, r, u, n) ==
    /\ Touches(c, r, u) /\ r.due[u] = n
    /\ r.state = c.state /\ r.pos = c.pos /\ r.attached = c.attached /\ r.sa = c.sa

Searched(c, u, n, w, b) == [c EXCEPT !.due[u] = n, !.wc = w, !.dtf = b]
Transferred(c, u, n, w, ss) == [c EXCEPT !.due[u] = n, !.wc = w, !.substate = ss]
TransferredAll(c, u, n, w, ss, y) ==
    [c EXCEPT !.due[u] = n, !.wc = w, !.substate = ss, !.dirty = y]

LEMMA HasSearched ==
    ASSUME NEW c, NEW u \in Units, Sound(c), NEW n \in none .. LineTop + 2, NEW w \in 0 .. MaxCount + 1, NEW b \in BOOLEAN
    PROVE  LET r == Searched(c, u, n, w, b) IN GoesOn(c, r, u, n)
<1> DEFINE r == Searched(c, u, n, w, b)
<1>1. c \in TcRecord /\ c.dirty \subseteq c.attached /\ c.attached \in SUBSET Tapes
  BY Fields DEF Sound
<1>2. [c.due EXCEPT ![u] = n] \in [Units -> none .. LineTop + 2] /\ [c.due EXCEPT ![u] = n][u] = n
      /\ \A v \in Units : v # u => [c.due EXCEPT ![u] = n][v] = c.due[v]
  BY Fields
<1>3. r \in TcRecord
  BY <1>1, <1>2 DEF TcRecord, Searched
<1>4. r.due = [c.due EXCEPT ![u] = n] /\ r.dirty = c.dirty /\ r.state = c.state /\ r.pos = c.pos
      /\ r.attached = c.attached /\ r.sa = c.sa
  BY <1>1 DEF TcRecord, Searched
<1> HIDE DEF r
<1>5. Sound(r)
  BY <1>1, <1>3, <1>4 DEF Sound
<1>6. SameOrder(c, r)
  BY <1>4, Zenon DEF SameOrder
<1>7. Elsewhere(c, r, u) /\ r.due[u] = n
  BY <1>2, <1>4, Zenon DEF Elsewhere
<1> QED BY <1>4, <1>5, <1>6, <1>7 DEF r, Touches, GoesOn

LEMMA HasTransferred ==
    ASSUME NEW c, NEW u \in Units, Sound(c), NEW n \in none .. LineTop + 2, NEW w \in 0 .. MaxCount + 1, NEW ss \in SUBSET {"WCO", "SOB"}
    PROVE  LET r == Transferred(c, u, n, w, ss) IN GoesOn(c, r, u, n)
<1> DEFINE r == Transferred(c, u, n, w, ss)
<1>1. c \in TcRecord /\ c.dirty \subseteq c.attached /\ c.attached \in SUBSET Tapes
  BY Fields DEF Sound
<1>2. [c.due EXCEPT ![u] = n] \in [Units -> none .. LineTop + 2] /\ [c.due EXCEPT ![u] = n][u] = n
      /\ \A v \in Units : v # u => [c.due EXCEPT ![u] = n][v] = c.due[v]
  BY Fields
<1>3. r \in TcRecord
  BY <1>1, <1>2 DEF TcRecord, Transferred
<1>4. r.due = [c.due EXCEPT ![u] = n] /\ r.dirty = c.dirty /\ r.state = c.state /\ r.pos = c.pos
      /\ r.attached = c.attached /\ r.sa = c.sa
  BY <1>1 DEF TcRecord, Transferred
<1> HIDE DEF r
<1>5. Sound(r)
  BY <1>1, <1>3, <1>4 DEF Sound
<1>6. SameOrder(c, r)
  BY <1>4, Zenon DEF SameOrder
<1>7. Elsewhere(c, r, u) /\ r.due[u] = n
  BY <1>2, <1>4, Zenon DEF Elsewhere
<1> QED BY <1>4, <1>5, <1>6, <1>7 DEF r, Touches, GoesOn

LEMMA HasTransferredAll ==
    ASSUME NEW c, NEW u \in Units, Sound(c), NEW n \in none .. LineTop + 2, NEW w \in 0 .. MaxCount + 1, NEW ss \in SUBSET {"WCO", "SOB"}, NEW y \in SUBSET c.attached
    PROVE  LET r == TransferredAll(c, u, n, w, ss, y) IN GoesOn(c, r, u, n)
<1> DEFINE r == TransferredAll(c, u, n, w, ss, y)
<1>1. c \in TcRecord /\ c.dirty \subseteq c.attached /\ c.attached \in SUBSET Tapes
  BY Fields DEF Sound
<1>2. [c.due EXCEPT ![u] = n] \in [Units -> none .. LineTop + 2] /\ [c.due EXCEPT ![u] = n][u] = n
      /\ \A v \in Units : v # u => [c.due EXCEPT ![u] = n][v] = c.due[v]
  BY Fields
<1>3. r \in TcRecord
  BY <1>1, <1>2 DEF TcRecord, TransferredAll
<1>4. r.due = [c.due EXCEPT ![u] = n] /\ r.dirty = y /\ r.state = c.state /\ r.pos = c.pos
      /\ r.attached = c.attached /\ r.sa = c.sa
  BY <1>1 DEF TcRecord, TransferredAll
<1> HIDE DEF r
<1>5. Sound(r)
  BY <1>1, <1>3, <1>4 DEF Sound
<1>6. SameOrder(c, r)
  BY <1>4, Zenon DEF SameOrder
<1>7. Elsewhere(c, r, u) /\ r.due[u] = n
  BY <1>2, <1>4, Zenon DEF Elsewhere
<1> QED BY <1>4, <1>5, <1>6, <1>7 DEF r, Touches, GoesOn

LEMMA HasWaited ==
    ASSUME NEW c, NEW u \in Units, Sound(c), NEW n \in none .. LineTop + 2
    PROVE  GoesOn(c, TimedFor(c, u, n), u, n)
BY Timed DEF GoesOn

LEMMA HasFlagged ==
    ASSUME NEW c, NEW r, NEW u, NEW n, GoesOn(c, r, u, n), NEW now \in BOOLEAN
    PROVE  GoesOn(c, Tc!Flagged(r, now), u, n)
<1> DEFINE b == r.dtf \/ now
           t == [r EXCEPT !.dtf = b]
<1>1. Sound(r) /\ r \in TcRecord /\ r.dirty \subseteq r.attached
  BY DEF GoesOn, Touches, Sound
<1>2. b \in BOOLEAN
  OBVIOUS
<1>3. Tc!Flagged(r, now) = t
  BY Zenon DEF Tc!Flagged
<1> HIDE DEF b
<1>4. t \in TcRecord
  BY <1>1, <1>2 DEF TcRecord
<1>5. t.due = r.due /\ t.dirty = r.dirty /\ t.state = r.state /\ t.pos = r.pos
      /\ t.attached = r.attached /\ t.sa = r.sa
  BY <1>1 DEF TcRecord
<1> HIDE DEF t
<1>6. Sound(t) /\ SameOrder(r, t) /\ Elsewhere(r, t, u)
  <2>1. Sound(t)
    BY <1>1, <1>4, <1>5 DEF Sound
  <2>2. SameOrder(r, t) /\ Elsewhere(r, t, u)
    BY <1>5, Zenon DEF SameOrder, Elsewhere
  <2> QED BY <2>1, <2>2
<1>7. Touches(c, t, u)
  <2>1. Touches(r, t, u)
    BY <1>6 DEF Touches
  <2>2. Touches(c, r, u)
    BY DEF GoesOn
  <2> QED BY <2>1, <2>2, TouchesOnly
<1>8. GoesOn(c, t, u, n)
  BY <1>5, <1>7, Zenon DEF GoesOn
<1> QED BY <1>3, <1>8

LEMMA HasWritten ==
    ASSUME NEW c, NEW u \in Units, Sound(c), u \in c.attached
    PROVE  LET r == Tc!Written(c, u) IN
           /\ Touches(c, r, u)
           /\ r.state = c.state /\ r.pos = c.pos /\ r.due = c.due /\ r.attached = c.attached /\ r.sa = c.sa
<1> DEFINE r == Tc!Written(c, u)
<1>1. c \in TcRecord /\ c.dirty \subseteq c.attached /\ c.attached \in SUBSET Tapes
  BY Fields DEF Sound
<1>2. c.dirty \union {u} \in SUBSET Tapes /\ c.written \union {u} \in SUBSET Tapes
  BY <1>1, Fields
<1>3. r \in TcRecord
  BY <1>1, <1>2 DEF TcRecord, Tc!Written
<1>4. r.due = c.due /\ r.dirty = c.dirty \union {u} /\ r.state = c.state /\ r.pos = c.pos
      /\ r.attached = c.attached /\ r.sa = c.sa
  BY <1>1 DEF TcRecord, Tc!Written
<1> HIDE DEF r
<1>5. Sound(r)
  BY <1>1, <1>3, <1>4 DEF Sound
<1>6. SameOrder(c, r) /\ Elsewhere(c, r, u)
  BY <1>4, Zenon DEF SameOrder, Elsewhere
<1> QED BY <1>4, <1>5, <1>6 DEF r, Touches

LEMMA GoesOnWell ==
    ASSUME NEW c, NEW u \in Units, Sound(c), u \in c.attached, NEW dir \in BOOLEAN, NEW f \in TcStaged,
           Runs(c.state[u], dir, f), NEW n \in 0 .. LineTop + 2, f # "OFR",
           f = "SRCH" => Tc!LIN2OF(Onwards(dir, c.pos[u], n)) = NumberLine(dir),
           NEW r, GoesOn(c, r, u, n)
    PROVE  Touches(c, r, u) /\ RunsWell(r, u, dir, f) /\ r.pos[u] = c.pos[u]
<1>1. Touches(c, r, u) /\ r.due[u] = n /\ r.state = c.state /\ r.pos = c.pos /\ r.attached = c.attached
  BY DEF GoesOn
<1>2. n # none
  BY LineSizes DEF none
<1>3. Tc!Dir(r, u) = dir
  <2>1. r.state[u] \in Courses /\ Runs(r.state[u], dir, f)
    BY <1>1, OfUnit, Zenon
  <2>2. r.state[u] # <<>> /\ Head(r.state[u]) = Tc!Stage("ats", dir, f)
    BY <2>1, Running
  <2>3. Tc!Phase(r, u) = "ats"
    BY <2>2, StageFields DEF Tc!Phase, Tc!Stopped
  <2>4. \E h \in TcStaged : Runs(r.state[u], Tc!Dir(r, u), h)
    BY <2>1, <2>3, Doing, Zenon
  <2> QED BY <2>1, <2>4, RunsOnce, Zenon
<1>4. Lands(r, u) = Onwards(dir, c.pos[u], n)
  BY <1>1, <1>3, Zenon DEF Lands
<1>5. LandsRight(r, u)
  <2> SUFFICES ASSUME NEW e \in BOOLEAN, NEW h \in TcStaged, Runs(r.state[u], e, h)
               PROVE  /\ h = "OFR" => ~OnReel(Lands(r, u))
                      /\ h = "SRCH" => ~OnReel(Lands(r, u)) \/ Tc!LIN2OF(Lands(r, u)) = NumberLine(e)
    BY Zenon DEF LandsRight
  <2>1. e = dir /\ h = f
    BY <1>1, RunsOnce, Zenon
  <2> QED BY <1>4, <2>1, Zenon
<1>6. RunsWell(r, u, dir, f)
  BY <1>1, <1>2, <1>5, Zenon DEF RunsWell
<1> QED BY <1>1, <1>6

AtWork(c, u, dir, f) ==
    /\ Sound(c) /\ u \in c.attached /\ Runs(c.state[u], dir, f) /\ OnReel(c.pos[u])
    /\ f # "OFR" /\ (f = "SRCH" => Tc!LIN2OF(c.pos[u]) = NumberLine(dir))
Serves(c, r, u, dir, f) ==
    /\ Touches(c, r, u)
    /\ (Slowed(r, u) /\ r.erf) \/ (RunsWell(r, u, dir, f) /\ r.pos[u] = c.pos[u])

LEMMA Counts ==
    ASSUME NEW w \in 0 .. MaxCount + 1
    PROVE  Tc!Count(w) \in 0 .. MaxCount + 1
BY LineSizes DEF Tc!Count

LEMMA AtWorkFacts ==
    ASSUME NEW c, NEW u \in Units, NEW dir \in BOOLEAN, NEW f \in TcStaged, AtWork(c, u, dir, f)
    PROVE  /\ Tc!Phase(c, u) = "ats" /\ Tc!Dir(c, u) = dir /\ Head(c.state[u]).fnc = f
           /\ Tc!LPERB \in 0 .. LineTop + 2 /\ 2 * HTLIN + 1 \in 0 .. LineTop + 2 /\ 1 \in 0 .. LineTop + 2
           /\ Tc!Distance(Tc!EndZoneAhead(dir), c.pos[u]) \in 0 .. LineTop + 2
           /\ \A n \in 0 .. LineTop + 2 : n \in none .. LineTop + 2
<1>1. c.state[u] \in Courses /\ Runs(c.state[u], dir, f) /\ c.pos[u] \in -1 .. LineTop + 1
  BY OfUnit, Zenon DEF AtWork
<1>2. c.state[u] # <<>> /\ Head(c.state[u]) = Tc!Stage("ats", dir, f)
  BY <1>1, Running
<1>3. Tc!Phase(c, u) = "ats"
  BY <1>2, StageFields DEF Tc!Phase, Tc!Stopped
<1>4. \E h \in TcStaged : Runs(c.state[u], Tc!Dir(c, u), h)
  BY <1>1, <1>3, Doing, Zenon
<1>5. Tc!Dir(c, u) = dir
  BY <1>1, <1>4, RunsOnce, Zenon
<1>6. Head(c.state[u]).fnc = f
  BY <1>2 DEF Tc!Stage
<1>7. Tc!LPERB \in 0 .. LineTop + 2 /\ 2 * HTLIN + 1 \in 0 .. LineTop + 2 /\ 1 \in 0 .. LineTop + 2
      /\ \A n \in 0 .. LineTop + 2 : n \in none .. LineTop + 2
  BY LineSizes DEF none
<1>8. Tc!Distance(Tc!EndZoneAhead(dir), c.pos[u]) \in 0 .. LineTop + 2
  BY <1>1, ZoneAhead
<1> QED BY <1>3, <1>5, <1>6, <1>7, <1>8

LEMMA ServesAnError ==
    ASSUME NEW c, NEW u \in Units, NEW dir \in BOOLEAN, NEW f \in TcStaged, AtWork(c, u, dir, f)
    PROVE  Serves(c, Tc!dt_seterr(c, u, 0), u, dir, f) /\ Tc!dt_seterr(c, u, 0).erf
<1>1. Tc!Phase(c, u) = "ats" /\ u \in c.attached /\ Sound(c)
  BY AtWorkFacts DEF AtWork
<1>2. (Tc!Phase(c, u) \in {"acc", "ats"} => u \in c.attached)
      /\ (Tc!Phase(c, u) = "dec" => c.due[u] # none /\ u \in c.attached) /\ 0 \in Nat
  BY <1>1
<1> DEFINE r == Tc!dt_seterr(c, u, 0)
<1>3. Touches(c, r, u) /\ Slowed(r, u) /\ r.erf
  BY <1>1, <1>2, SetError
<1> HIDE DEF r
<1> QED BY <1>3 DEF Serves, r

LEMMA ServesOn ==
    ASSUME NEW c, NEW u \in Units, NEW dir \in BOOLEAN, NEW f \in TcStaged, AtWork(c, u, dir, f),
           NEW r, NEW n \in 0 .. LineTop + 2, GoesOn(c, r, u, n), f = "SRCH" => n = Tc!LPERB
    PROVE  Serves(c, r, u, dir, f)
<1>1. Sound(c) /\ u \in c.attached /\ Runs(c.state[u], dir, f) /\ f # "OFR"
  BY Zenon DEF AtWork
<1>2. f = "SRCH" => Tc!LIN2OF(Onwards(dir, c.pos[u], n)) = NumberLine(dir)
  <2> SUFFICES ASSUME f = "SRCH" PROVE Tc!LIN2OF(Onwards(dir, c.pos[u], n)) = NumberLine(dir)
    OBVIOUS
  <2>1. c.pos[u] \in Int
    BY <1>1, OfUnit, LineSizes
  <2>2. Tc!LIN2OF(c.pos[u]) = NumberLine(dir)
    BY Zenon DEF AtWork
  <2>3. /\ Tc!LIN2OF(c.pos[u] + Tc!LPERB) = Tc!LIN2OF(c.pos[u])
        /\ Tc!LIN2OF(c.pos[u] - Tc!LPERB) = Tc!LIN2OF(c.pos[u])
    BY <2>1, NextNumber
  <2>4. n = Tc!LPERB
    OBVIOUS
  <2> QED BY <2>2, <2>3, <2>4, Zenon DEF Onwards
<1>3. Touches(c, r, u) /\ RunsWell(r, u, dir, f) /\ r.pos[u] = c.pos[u]
  BY <1>1, <1>2, GoesOnWell
<1> QED BY <1>3 DEF Serves

LEMMA ServesASearch ==
    ASSUME NEW c, NEW u \in Units, NEW dir \in BOOLEAN, NEW f \in TcStaged, AtWork(c, u, dir, f)
    PROVE  Serves(c, Tc!Search(c, u), u, dir, f)
<1> DEFINE w == Tc!Count(c.wc)
           b == ~c.sa.mode \/ w = 0
           r == Searched(c, u, Tc!LPERB, w, b)
<1>1. CASE c.dtf
  <2>1. Tc!Search(c, u) = Tc!dt_seterr(c, u, 0)
    BY <1>1 DEF Tc!Search
  <2> QED BY <2>1, ServesAnError
<1>2. CASE ~c.dtf
  <2>1. Tc!Search(c, u) = r
    BY <1>2, Zenon DEF Tc!Search, Searched
  <2>2. Sound(c) /\ w \in 0 .. MaxCount + 1 /\ b \in BOOLEAN
    <3>1. Sound(c)
      BY DEF AtWork
    <3> QED BY <3>1, Fields, Counts
  <2>3. Tc!LPERB \in 0 .. LineTop + 2 /\ Tc!LPERB \in none .. LineTop + 2
    BY AtWorkFacts
  <2> HIDE DEF w, b
  <2>4. GoesOn(c, r, u, Tc!LPERB)
    BY <2>2, <2>3, HasSearched
  <2> HIDE DEF r
  <2>5. Serves(c, r, u, dir, f)
    BY <2>3, <2>4, ServesOn
  <2> QED BY <2>1, <2>5
<1> QED BY <1>1, <1>2

LEMMA Afterwards ==
    ASSUME NEW c, NEW u \in Units, NEW dir \in BOOLEAN, NEW f \in TcStaged, AtWork(c, u, dir, f),
           NEW ss \in SUBSET {"WCO"}
    PROVE  /\ Tc!AfterWord(c, u, ss) \in SUBSET {"WCO", "SOB"}
           /\ Tc!NextDue(c, u) \in 0 .. LineTop + 2 /\ Tc!NextDue(c, u) \in none .. LineTop + 2
<1>1. Tc!AfterWord(c, u, ss) \in {ss, ss \union {"SOB"}}
  BY Zenon DEF Tc!AfterWord
<1>2. Tc!NextDue(c, u) \in {1, 2 * HTLIN + 1}
  BY DEF Tc!NextDue
<1>3. Tc!NextDue(c, u) \in 0 .. LineTop + 2 /\ Tc!NextDue(c, u) \in none .. LineTop + 2
  BY <1>2, AtWorkFacts
<1> QED BY <1>1, <1>3

LEMMA ServesARead ==
    ASSUME NEW c, NEW u \in Units, NEW dir \in BOOLEAN, NEW f \in TcStaged, AtWork(c, u, dir, f), f # "SRCH"
    PROVE  Serves(c, Tc!Read(c, u), u, dir, f)
<1> DEFINE over == c.substate = {"WCO"}
           w == IF over THEN c.wc ELSE Tc!Count(c.wc)
           x == IF over \/ w = 0 THEN {"WCO"} ELSE {}
           ss == Tc!AfterWord(c, u, x)
           ended == Tc!Word(c.pos[u]) = Tc!LastWord(Tc!Dir(c, u))
           now == ended /\ (~c.sa.mode \/ ss = {"WCO"})
           n == Tc!NextDue(c, u)
           r == Transferred(c, u, n, w, ss)
           one == TimedFor(c, u, 1)
<1>1. Sound(c)
  BY DEF AtWork
<1>2. Tc!Read(c, u) \in {Tc!dt_seterr(c, u, 0), one, Tc!Flagged(r, now)}
  <2>1. CASE c.substate = {"SOB"} /\ c.dtf
    BY <2>1, Zenon DEF Tc!Read
  <2>2. CASE ~(c.substate = {"SOB"} /\ c.dtf) /\ c.substate = {"WCO", "SOB"}
    BY <2>2, Zenon DEF Tc!Read, TimedFor
  <2>3. CASE ~(c.substate = {"SOB"} /\ c.dtf) /\ c.substate # {"WCO", "SOB"}
    BY <2>3, Zenon DEF Tc!Read, Transferred
  <2> QED BY <2>1, <2>2, <2>3
<1>3. Serves(c, Tc!dt_seterr(c, u, 0), u, dir, f)
  BY ServesAnError
<1>4. Serves(c, one, u, dir, f)
  <2>1. 1 \in 0 .. LineTop + 2 /\ 1 \in none .. LineTop + 2
    BY AtWorkFacts
  <2>2. GoesOn(c, one, u, 1)
    BY <1>1, <2>1, HasWaited
  <2> HIDE DEF one
  <2> QED BY <2>1, <2>2, ServesOn
<1>5. Serves(c, Tc!Flagged(r, now), u, dir, f)
  <2>1. w \in 0 .. MaxCount + 1
    <3>1. c.wc \in 0 .. MaxCount + 1
      BY <1>1, Fields
    <3> QED BY <3>1, Counts
  <2>2. x \in SUBSET {"WCO"} /\ now \in BOOLEAN
    OBVIOUS
  <2> HIDE DEF w, x, now
  <2>3. ss \in SUBSET {"WCO", "SOB"} /\ n \in 0 .. LineTop + 2 /\ n \in none .. LineTop + 2
    BY <2>2, Afterwards
  <2> HIDE DEF ss, n
  <2>4. GoesOn(c, r, u, n)
    BY <1>1, <2>1, <2>3, HasTransferred
  <2> HIDE DEF r
  <2>5. GoesOn(c, Tc!Flagged(r, now), u, n)
    BY <2>2, <2>4, HasFlagged
  <2> QED BY <2>3, <2>5, ServesOn
<1> HIDE DEF one, r, now
<1> QED BY <1>2, <1>3, <1>4, <1>5

LEMMA ServesAWrite ==
    ASSUME NEW c, NEW u \in Units, NEW dir \in BOOLEAN, NEW f \in TcStaged, AtWork(c, u, dir, f), f # "SRCH"
    PROVE  Serves(c, Tc!Write(c, u), u, dir, f)
<1> DEFINE over == c.substate = {"WCO"}
           w == IF over THEN c.wc ELSE Tc!Count(c.wc)
           x == IF over \/ w = 0 THEN {"WCO"} ELSE {}
           ss == Tc!AfterWord(c, u, x)
           ended == Tc!Word(c.pos[u]) = Tc!LastWord(Tc!Dir(c, u))
           now == ended /\ (~c.sa.mode \/ w = 0)
           n == Tc!NextDue(c, u)
           v == Tc!Written(c, u)
           r == Transferred(v, u, n, w, ss)
           ez == Tc!Distance(Tc!EndZoneAhead(Tc!Dir(c, u)), c.pos[u])
           one == TimedFor(c, u, ez)
<1>1. Sound(c) /\ u \in c.attached
  BY DEF AtWork
<1>2. Tc!Write(c, u) \in {Tc!dt_seterr(c, u, 0), one, Tc!Flagged(r, now)}
  <2>1. CASE c.substate = {"SOB"} /\ c.dtf
    BY <2>1, Zenon DEF Tc!Write
  <2>2. CASE ~(c.substate = {"SOB"} /\ c.dtf) /\ c.substate = {"WCO", "SOB"}
    BY <2>2, Zenon DEF Tc!Write, TimedFor, Tc!dt_schedez
  <2>3. CASE ~(c.substate = {"SOB"} /\ c.dtf) /\ c.substate # {"WCO", "SOB"}
    BY <2>3, Zenon DEF Tc!Write, Transferred
  <2> QED BY <2>1, <2>2, <2>3
<1>3. Serves(c, Tc!dt_seterr(c, u, 0), u, dir, f)
  BY ServesAnError
<1>4. Serves(c, one, u, dir, f)
  <2>1. ez \in 0 .. LineTop + 2 /\ ez \in none .. LineTop + 2
    <3>1. Tc!Dir(c, u) = dir
      BY AtWorkFacts
    <3>2. Tc!Distance(Tc!EndZoneAhead(dir), c.pos[u]) \in 0 .. LineTop + 2
      BY AtWorkFacts
    <3>3. ez = Tc!Distance(Tc!EndZoneAhead(dir), c.pos[u])
      BY <3>1, Zenon
    <3> HIDE DEF ez
    <3>4. ez \in 0 .. LineTop + 2
      BY <3>2, <3>3, Zenon
    <3> QED BY <3>4, AtWorkFacts
  <2> HIDE DEF ez
  <2>2. GoesOn(c, one, u, ez)
    BY <1>1, <2>1, HasWaited
  <2> HIDE DEF one
  <2> QED BY <2>1, <2>2, ServesOn
<1>5. Serves(c, Tc!Flagged(r, now), u, dir, f)
  <2>1. w \in 0 .. MaxCount + 1
    <3>1. c.wc \in 0 .. MaxCount + 1
      BY <1>1, Fields
    <3> QED BY <3>1, Counts
  <2>2. x \in SUBSET {"WCO"} /\ now \in BOOLEAN
    OBVIOUS
  <2> HIDE DEF w, x, now
  <2>3. ss \in SUBSET {"WCO", "SOB"} /\ n \in 0 .. LineTop + 2 /\ n \in none .. LineTop + 2
    BY <2>2, Afterwards
  <2> HIDE DEF ss, n
  <2>4. /\ Touches(c, v, u) /\ Sound(v)
        /\ v.state = c.state /\ v.pos = c.pos /\ v.attached = c.attached /\ v.sa = c.sa
    BY <1>1, HasWritten DEF Touches
  <2> HIDE DEF v
  <2>5. GoesOn(v, r, u, n)
    BY <2>1, <2>3, <2>4, HasTransferred
  <2> HIDE DEF r
  <2>6. GoesOn(c, r, u, n)
    <3>1. Touches(c, r, u)
      BY <2>4, <2>5, TouchesOnly DEF GoesOn
    <3> QED BY <2>4, <2>5, <3>1, Zenon DEF GoesOn
  <2>7. GoesOn(c, Tc!Flagged(r, now), u, n)
    BY <2>2, <2>6, HasFlagged
  <2> QED BY <2>3, <2>7, ServesOn
<1> HIDE DEF one, r, now
<1> QED BY <1>2, <1>3, <1>4, <1>5

LEMMA ServesAll ==
    ASSUME NEW c, NEW u \in Units, NEW dir \in BOOLEAN, NEW f \in TcStaged, AtWork(c, u, dir, f), f # "SRCH"
    PROVE  Serves(c, Tc!All(c, u), u, dir, f)
<1> DEFINE w == Tc!Count(c.wc)
           ss == IF w = 0 THEN {"WCO"} ELSE c.substate
           y == IF Head(c.state[u]).fnc = "WALL" /\ Tc!InData(c.pos[u]) THEN c.dirty \union {u} ELSE c.dirty
           now == ~c.sa.mode \/ w = 0
           r == TransferredAll(c, u, 1, w, ss, y)
           ez == Tc!Distance(Tc!EndZoneAhead(Tc!Dir(c, u)), c.pos[u])
           one == TimedFor(c, u, ez)
<1>1. Sound(c) /\ u \in c.attached
  BY DEF AtWork
<1>2. Tc!All(c, u) \in {Tc!dt_seterr(c, u, 0), one, Tc!Flagged(r, now)}
  <2>1. CASE "WCO" \in c.substate
    BY <2>1, Zenon DEF Tc!All, TimedFor, Tc!dt_schedez
  <2>2. CASE "WCO" \notin c.substate /\ c.dtf
    BY <2>2, Zenon DEF Tc!All
  <2>3. CASE "WCO" \notin c.substate /\ ~c.dtf
    BY <2>3, Zenon DEF Tc!All, TransferredAll
  <2> QED BY <2>1, <2>2, <2>3
<1>3. Serves(c, Tc!dt_seterr(c, u, 0), u, dir, f)
  BY ServesAnError
<1>4. Serves(c, one, u, dir, f)
  <2>1. ez \in 0 .. LineTop + 2 /\ ez \in none .. LineTop + 2
    <3>1. Tc!Dir(c, u) = dir
      BY AtWorkFacts
    <3>2. Tc!Distance(Tc!EndZoneAhead(dir), c.pos[u]) \in 0 .. LineTop + 2
      BY AtWorkFacts
    <3>3. ez = Tc!Distance(Tc!EndZoneAhead(dir), c.pos[u])
      BY <3>1, Zenon
    <3> HIDE DEF ez
    <3>4. ez \in 0 .. LineTop + 2
      BY <3>2, <3>3, Zenon
    <3> QED BY <3>4, AtWorkFacts
  <2> HIDE DEF ez
  <2>2. GoesOn(c, one, u, ez)
    BY <1>1, <2>1, HasWaited
  <2> HIDE DEF one
  <2> QED BY <2>1, <2>2, ServesOn
<1>5. Serves(c, Tc!Flagged(r, now), u, dir, f)
  <2>1. w \in 0 .. MaxCount + 1
    <3>1. c.wc \in 0 .. MaxCount + 1
      BY <1>1, Fields
    <3> QED BY <3>1, Counts
  <2>2. ss \in SUBSET {"WCO", "SOB"} /\ now \in BOOLEAN /\ y \in SUBSET c.attached
    BY <1>1, Fields
  <2>3. 1 \in 0 .. LineTop + 2 /\ 1 \in none .. LineTop + 2
    BY AtWorkFacts
  <2> HIDE DEF w, ss, y, now
  <2>4. GoesOn(c, r, u, 1)
    BY <1>1, <2>1, <2>2, <2>3, HasTransferredAll
  <2> HIDE DEF r
  <2>5. GoesOn(c, Tc!Flagged(r, now), u, 1)
    BY <2>2, <2>4, HasFlagged
  <2> QED BY <2>3, <2>5, ServesOn
<1> HIDE DEF one, r, now
<1> QED BY <1>2, <1>3, <1>4, <1>5

LEMMA ServesAtSpeed ==
    ASSUME program \in Programs, NEW c, NEW u \in Units, NEW dir \in BOOLEAN, NEW f \in TcStaged,
           AtWork(c, u, dir, f)
    PROVE  LET r == Tc!AtSpeed(c, u) IN
           /\ Serves(c, r, u, dir, f)
           /\ Tc!QEZ(c.pos[u]) => r.erf
<1> DEFINE r == Tc!AtSpeed(c, u)
           e == Tc!dt_seterr(c, u, 0)
<1>1. Head(c.state[u]).fnc = f
  BY AtWorkFacts
<1>2. f \in {"MOVE", "SRCH", "READ", "WRIT", "RALL", "WALL"}
  <2>1. f # "OFR"
    BY DEF AtWork
  <2>2. program.fncs \subseteq {"MOVE", "SRCH", "READ", "RALL", "WRIT", "WALL", "WMRK"}
    BY TcSizes DEF Tc!SizesAssumption
  <2> QED BY <2>1, <2>2 DEF TcStaged
<1>3. CASE Tc!QEZ(c.pos[u]) \/ f = "MOVE"
  <2>1. r = e
    BY <1>1, <1>3, Zenon DEF Tc!AtSpeed
  <2>2. Serves(c, e, u, dir, f) /\ e.erf
    BY ServesAnError
  <2> QED BY <2>1, <2>2
<1>4. CASE ~Tc!QEZ(c.pos[u]) /\ f = "SRCH"
  <2>1. r = Tc!Search(c, u)
    BY <1>1, <1>4 DEF Tc!AtSpeed
  <2> QED BY <1>4, <2>1, ServesASearch
<1>5. CASE ~Tc!QEZ(c.pos[u]) /\ f = "READ"
  <2>1. r = Tc!Read(c, u)
    BY <1>1, <1>5 DEF Tc!AtSpeed
  <2> QED BY <1>5, <2>1, ServesARead
<1>6. CASE ~Tc!QEZ(c.pos[u]) /\ f = "WRIT"
  <2>1. r = Tc!Write(c, u)
    BY <1>1, <1>6 DEF Tc!AtSpeed
  <2> QED BY <1>6, <2>1, ServesAWrite
<1>7. CASE ~Tc!QEZ(c.pos[u]) /\ f \in {"RALL", "WALL"}
  <2>1. r = Tc!All(c, u)
    BY <1>1, <1>7 DEF Tc!AtSpeed
  <2> QED BY <1>7, <2>1, ServesAll
<1> QED BY <1>2, <1>3, <1>4, <1>5, <1>6, <1>7

SentThen(c, u, s, n) == [c EXCEPT !.state[u] = s, !.due[u] = n]

LEMMA SentNext ==
    ASSUME NEW c, NEW u \in Units, Sound(c), NEW s \in Courses, NEW n \in none .. LineTop + 2
    PROVE  LET r == SentThen(c, u, s, n) IN
           /\ Touches(c, r, u) /\ r.state[u] = s /\ r.due[u] = n
           /\ r.pos = c.pos /\ r.attached = c.attached /\ r.sa = c.sa /\ r.erf = c.erf /\ r.dtf = c.dtf
           /\ r.int = c.int /\ r.wc = c.wc /\ r.substate = c.substate
<1> DEFINE r == SentThen(c, u, s, n)
<1>1. c \in TcRecord /\ c.dirty \subseteq c.attached
  BY DEF Sound
<1>2. [c.state EXCEPT ![u] = s] \in [Units -> Courses]
      /\ [c.due EXCEPT ![u] = n] \in [Units -> none .. LineTop + 2]
  BY Fields
<1>3. r \in TcRecord
  BY <1>1, <1>2 DEF TcRecord, SentThen
<1>4. /\ r.state = [c.state EXCEPT ![u] = s] /\ r.due = [c.due EXCEPT ![u] = n] /\ r.dirty = c.dirty
      /\ r.pos = c.pos /\ r.attached = c.attached /\ r.sa = c.sa /\ r.erf = c.erf /\ r.dtf = c.dtf
         /\ r.int = c.int /\ r.wc = c.wc /\ r.substate = c.substate
  BY <1>1 DEF TcRecord, SentThen
<1> HIDE DEF r
<1>5. Sound(r)
  BY <1>1, <1>3, <1>4 DEF Sound
<1>6. SameOrder(c, r)
  BY <1>4, Zenon DEF SameOrder
<1>7. Elsewhere(c, r, u) /\ r.state[u] = s /\ r.due[u] = n
  BY <1>4, Fields DEF Elsewhere
<1> QED BY <1>4, <1>5, <1>6, <1>7 DEF r, Touches

\* What an event of a drive leaves.
Carried(c, r, u) ==
    /\ Touches(c, r, u) /\ Served(r, u) /\ LandsRight(r, u) /\ Agrees(r)
    /\ \A dir \in BOOLEAN : \A f : IsToDo(c.state[u], dir, f) => IsToDo(r.state[u], dir, f)

LEMMA CarriedToRest ==
    ASSUME NEW c, NEW r, NEW u, Touches(c, r, u), Slowed(r, u), Agrees(r)
    PROVE  Carried(c, r, u)
<1>1. Served(r, u) /\ LandsRight(r, u)
  BY SlowedServed
<1>2. /\ \A d \in BOOLEAN, e \in BOOLEAN : \A f : ~TurnsRound(r.state[u], d, e, f)
      /\ \A d \in BOOLEAN : \A f : ~SpeedsUp(r.state[u], d, f) /\ ~Runs(r.state[u], d, f)
  BY SlowedServed
<1>3. \A dir \in BOOLEAN : \A f : IsToDo(r.state[u], dir, f)
  BY <1>2, Zenon DEF IsToDo
<1> QED BY <1>1, <1>3, Zenon DEF Carried

LEMMA CarriedOn ==
    ASSUME NEW c, NEW r, NEW u \in Units, Touches(c, r, u), Agrees(r),
           NEW d \in BOOLEAN, NEW f \in TcStaged, Does(r, u, d, f),
           \/ SpeedsUp(c.state[u], d, f) \/ Runs(c.state[u], d, f)
           \/ \E e \in BOOLEAN : TurnsRound(c.state[u], e, d, f)
    PROVE  Carried(c, r, u)
<1>1. Sound(r)
  BY DEF Touches
<1>2. Served(r, u) /\ LandsRight(r, u) /\ IsToDo(r.state[u], d, f)
  BY <1>1, DoesIt
<1>3. ASSUME NEW dir \in BOOLEAN, NEW h, IsToDo(c.state[u], dir, h)
      PROVE  d = dir /\ f = h
  BY <1>3, Zenon DEF IsToDo
<1> QED BY <1>2, <1>3, Zenon DEF Carried

LEMMA ServeKeeps ==
    ASSUME program \in Programs, NEW c, NEW u \in Units, Sound(c), Served(c, u), LandsRight(c, u), Agrees(c),
           c.due[u] # none
    PROVE  LET r == Tc!Serve(c, u) IN
           /\ Carried(c, r, u)
           /\ Tc!Phase(c, u) = "ats" /\ u = c.sa.unit /\ ~r.erf =>
                 /\ \E f \in TcStaged : Runs(c.state[u], Tc!Dir(c, u), f)
                    /\ Runs(r.state[u], Tc!Dir(c, u), f)
                                         /\ (f = "SRCH" => Tc!LIN2OF(r.pos[u]) = NumberLine(Tc!Dir(c, u)))
                 /\ r.pos[u] = Lands(c, u) /\ ~Tc!QEZ(r.pos[u])
<1> DEFINE r == Tc!Serve(c, u)
           e == [c EXCEPT !.due[u] = Tc!none]
           m == TimedFor(c, u, none)
           d == c.due[u]
           p == Tc!dt_setpos(m, u, d)
           dir == Tc!Dir(c, u)
<1>1. d \in Nat /\ c.state[u] \in Courses
  <2>1. d \in none .. LineTop + 2 /\ d # none /\ c.state[u] \in Courses
    BY OfUnit
  <2> QED BY <2>1, LineSizes DEF none
<1>2. e = m
  BY Zenon DEF TimedFor, none, Tc!none
<1>3. /\ Touches(c, m, u) /\ m.state = c.state /\ m.pos = c.pos /\ m.attached = c.attached /\ m.sa = c.sa
      /\ m.erf = c.erf /\ m.dtf = c.dtf /\ m.int = c.int
  <2>1. none \in none .. LineTop + 2
    BY LineSizes DEF none
  <2> QED BY <2>1, Timed
<1>4. /\ Tc!Phase(c, u) = "stop" => r = Tc!dt_seterr(m, u, 0)
      /\ Tc!Phase(c, u) = "acc" => r = Tc!dt_newfnc(m, u, c.state[u][2], d)
      /\ Tc!Phase(c, u) \in {"dec", "ats"} /\ Tc!Gone(p, u) => r = p
      /\ Tc!Phase(c, u) = "dec" /\ ~Tc!Gone(p, u) =>
            r = SentThen(p, u, Tail(p.state[u]), Tc!Onward(p.state[u]))
      /\ Tc!Phase(c, u) = "ats" /\ ~Tc!Gone(p, u) => r = Tc!DT_UPDINT(Tc!AtSpeed(p, u))
  <2>1. r = CASE Tc!Phase(c, u) = "stop" -> Tc!dt_seterr(m, u, 0)
              [] Tc!Phase(c, u) = "acc" -> Tc!dt_newfnc(m, u, c.state[u][2], d)
              [] Tc!Phase(c, u) \in {"dec", "ats"} /\ Tc!Gone(p, u) -> p
              [] Tc!Phase(c, u) = "dec" /\ ~Tc!Gone(p, u) ->
                    SentThen(p, u, Tail(p.state[u]), Tc!Onward(p.state[u]))
              [] Tc!Phase(c, u) = "ats" /\ ~Tc!Gone(p, u) -> Tc!DT_UPDINT(Tc!AtSpeed(p, u))
    <3>1. ASSUME NEW q PROVE [q EXCEPT !.state[u] = Tail(@), !.due[u] = Tc!Onward(q.state[u])]
                             = SentThen(q, u, Tail(q.state[u]), Tc!Onward(q.state[u]))
      BY Zenon DEF SentThen
    <3> QED BY <1>2, Zenon DEF Tc!Serve, SentThen, TimedFor, none, Tc!none
  <2> HIDE DEF r, m, p, d
  <2> QED BY <2>1
<1> HIDE DEF r, e, m
<1>5. Sound(m) /\ m.sa.unit = c.sa.unit
  BY <1>3 DEF Touches
<1>6. Agrees(m)
  BY <1>3, SameAgree, Zenon
<1>7. /\ Tc!Phase(m, u) = Tc!Phase(c, u) /\ Tc!Dir(m, u) = dir /\ Tc!Stopped(m, u) = Tc!Stopped(c, u)
      /\ m.state[u] = c.state[u] /\ m.pos[u] = c.pos[u]
  <2>1. m.state[u] = c.state[u] /\ m.pos[u] = c.pos[u]
    BY <1>3
  <2> QED BY <2>1, SameCourse, Zenon
<1>8. dir \in BOOLEAN /\ Tc!Phase(c, u) \in {"stop", "dec", "acc", "ats"}
  BY <1>1, Doing
<1>9. Tc!Phase(c, u) # "stop" => u \in m.attached /\ Place(m, u, d) = Lands(c, u)
  <2> SUFFICES ASSUME Tc!Phase(c, u) # "stop" PROVE u \in m.attached /\ Place(m, u, d) = Lands(c, u)
    OBVIOUS
  <2>1. c.state[u] # <<>>
    BY <1>1, Doing
  <2>2. u \in c.attached
    BY <2>1, Zenon DEF Served
  <2>3. ~Tc!Stopped(m, u)
    BY <1>7, <2>1 DEF Tc!Stopped
  <2> HIDE DEF dir
  <2>4. Place(m, u, d) = Onwards(dir, c.pos[u], d)
    BY <1>7, <2>3, Zenon DEF Place
  <2>5. u \in m.attached
    BY <1>3, <2>2
  <2> QED BY <2>4, <2>5, Zenon DEF Lands, dir
<1>10. CASE Tc!Phase(c, u) = "stop"
  <2> DEFINE t == Tc!dt_seterr(m, u, 0)
  <2>1. r = t
    BY <1>4, <1>10
  <2>2. Touches(m, t, u) /\ Slowed(t, u) /\ Agrees(t)
    <3>1. (Tc!Phase(m, u) \in {"acc", "ats"} => u \in m.attached)
          /\ (Tc!Phase(m, u) = "dec" => m.due[u] # none /\ u \in m.attached)
          /\ Tc!Phase(m, u) \notin {"acc", "ats"} /\ 0 \in Nat
      BY <1>7, <1>10
    <3> QED BY <1>5, <3>1, SetError
  <2> HIDE DEF t
  <2>3. Touches(c, t, u)
    BY <1>3, <2>2, TouchesOnly
  <2>4. Carried(c, t, u)
    BY <2>2, <2>3, CarriedToRest
  <2> QED BY <1>10, <2>1, <2>4 DEF r
<1>11. CASE Tc!Phase(c, u) = "acc"
  <2>1. PICK f \in TcStaged : SpeedsUp(c.state[u], dir, f)
    BY <1>1, <1>11, Doing, Zenon
  <2>2. c.state[u][2] = Tc!Stage("ats", dir, f) /\ c.state[u] # <<>>
    BY <2>1, Speeding
  <2> DEFINE t == Tc!dt_newfnc(m, u, Tc!Stage("ats", Tc!Dir(m, u), f), d)
  <2>3. r = t
    <3>1. r = Tc!dt_newfnc(m, u, c.state[u][2], d)
      BY <1>4, <1>11
    <3> HIDE DEF dir, d
    <3> QED BY <1>7, <2>2, <3>1, Zenon
  <2>4. d > 0
    BY <1>8, <2>1, <2>2, Zenon DEF Served
  <2>5. Touches(m, t, u) /\ (Slowed(t, u) \/ RunsWell(t, u, Tc!Dir(m, u), f))
        /\ (d > 0 /\ Agrees(m) => Agrees(t))
    <3>1. Tc!Phase(m, u) # "stop" /\ u \in m.attached
      BY <1>7, <1>9, <1>11
    <3> HIDE DEF d
    <3> QED BY <1>1, <1>5, <3>1, NewFunction
  <2> HIDE DEF t, d
  <2>6. Touches(c, t, u) /\ Agrees(t)
    BY <1>3, <1>6, <2>4, <2>5, TouchesOnly
  <2>7. Does(t, u, dir, f)
    <3> HIDE DEF dir
    <3> QED BY <1>7, <2>5, Zenon DEF Does
  <2>8. Carried(c, t, u)
    BY <1>8, <2>1, <2>6, <2>7, CarriedOn
  <2> QED BY <1>11, <2>3, <2>8 DEF r
<1>12. CASE Tc!Phase(c, u) \in {"dec", "ats"} /\ ~OnReel(Lands(c, u))
  <2>1. u \in m.attached /\ ~OnReel(Place(m, u, d))
    BY <1>9, <1>12
  <2>2. /\ Touches(m, p, u) /\ Tc!Gone(p, u) /\ p.state[u] = <<>>
        /\ u = m.sa.unit => p.erf /\ Agrees(p)
        /\ u # m.sa.unit => p.sa = m.sa /\ p.erf = m.erf /\ p.dtf = m.dtf /\ p.int = m.int
    <3> HIDE DEF d
    <3> QED BY <1>1, <1>5, <2>1, OffTheReel
  <2>3. r = p
    BY <1>4, <1>12, <2>2
  <2> HIDE DEF p
  <2>4. Agrees(p)
    BY <1>6, <2>2, SameAgree, Zenon
  <2>5. Touches(c, p, u)
    BY <1>3, <2>2, TouchesOnly
  <2>6. Slowed(p, u)
    BY <2>2 DEF Slowed
  <2>7. Carried(c, p, u)
    BY <2>4, <2>5, <2>6, CarriedToRest
  <2>8. u = c.sa.unit => p.erf
    BY <1>5, <2>2
  <2> QED BY <2>3, <2>7, <2>8 DEF r
<1>13. CASE Tc!Phase(c, u) \in {"dec", "ats"} /\ OnReel(Lands(c, u))
  <2>1. u \in m.attached /\ OnReel(Place(m, u, d))
    BY <1>9, <1>13
  <2>2. /\ Touches(m, p, u) /\ ~Tc!Gone(p, u) /\ p.pos[u] = Lands(c, u) /\ OnReel(p.pos[u])
        /\ p.state = c.state /\ p.attached = c.attached
    <3>1. /\ Touches(m, p, u) /\ ~Tc!Gone(p, u) /\ p.pos[u] = Place(m, u, d) /\ OnReel(p.pos[u])
          /\ p.state = m.state /\ p.attached = m.attached
      <4> HIDE DEF d
      <4> QED BY <1>1, <1>5, <2>1, SetPosition
    <3> HIDE DEF p, d
    <3> QED BY <1>3, <1>9, <1>13, <3>1
  <2>3. p.sa = m.sa /\ p.erf = m.erf /\ p.dtf = m.dtf /\ p.int = m.int
    <3> HIDE DEF d
    <3> QED BY <1>1, <1>5, <2>1, SetPosition
  <2>4. Touches(c, p, u) /\ Sound(p) /\ u \in p.attached
    <3> HIDE DEF p
    <3>1. u \in c.attached
      BY <1>3, <2>1
    <3> QED BY <1>3, <2>2, <3>1, TouchesOnly DEF Touches
  <2>5. Agrees(p) /\ p.sa.unit = c.sa.unit
    <3> HIDE DEF p
    <3>1. Agrees(p)
      BY <1>6, <2>3, SameAgree, Zenon
    <3> QED BY <1>5, <2>3, <3>1
  <2>6. CASE Tc!Phase(c, u) = "dec"
    <3> DEFINE s == Tail(p.state[u])
               n == Tc!Onward(p.state[u])
               t == SentThen(p, u, s, n)
    <3>1. r = t
      BY <1>4, <2>2, <2>6
    <3> HIDE DEF p
    <3>2. p.state[u] = c.state[u]
      BY <2>2
    <3>3. SlowsDown(c.state[u], dir) \/ \E b \in BOOLEAN, f \in TcStaged : TurnsRound(c.state[u], dir, b, f)
      BY <1>1, <2>6, Doing
    <3>4. ASSUME SlowsDown(c.state[u], dir) PROVE Carried(c, t, u)
      <4>1. s = <<>> /\ Len(p.state[u]) = 1
        BY <3>2, <3>4, Slowing
      <4>2. n = none
        BY <4>1 DEF Tc!Onward, Tc!none, none
      <4>3. s \in Courses /\ n \in none .. LineTop + 2
        <5>1. s \in Courses
          BY <4>1, Forms
        <5> QED BY <4>2, <5>1, LineSizes DEF none
      <4> HIDE DEF s, n
      <4>4. Touches(p, t, u) /\ t.state[u] = s /\ t.sa = p.sa /\ t.erf = p.erf /\ t.dtf = p.dtf
            /\ t.int = p.int
        BY <2>4, <4>3, SentNext
      <4> HIDE DEF t
      <4>5. Touches(c, t, u) /\ Slowed(t, u)
        BY <2>4, <4>1, <4>4, TouchesOnly DEF Slowed
      <4>6. Agrees(t)
        BY <2>5, <4>4, SameAgree, Zenon
      <4> QED BY <4>5, <4>6, CarriedToRest
    <3>5. ASSUME NEW b \in BOOLEAN, NEW f \in TcStaged, TurnsRound(c.state[u], dir, b, f)
          PROVE  Carried(c, t, u)
      <4>1. SpeedsUp(s, b, f) /\ Len(p.state[u]) = 3
        BY <3>2, <3>5, Turning
      <4>2. n = Accel
        BY <4>1 DEF Tc!Onward
      <4>3. s \in Courses /\ n \in none .. LineTop + 2
        <5>1. s \in Courses
          <6> HIDE DEF s
          <6> QED BY <4>1, Forms
        <5>2. Accel \in none .. LineTop + 2
          BY LineSizes DEF none
        <5> QED BY <4>2, <5>1, <5>2
      <4> HIDE DEF s, n
      <4>4. Touches(p, t, u) /\ t.state[u] = s /\ t.due[u] = n /\ t.attached = p.attached
        BY <2>4, <4>3, SentNext
      <4>5. t.sa = p.sa /\ t.erf = p.erf /\ t.dtf = p.dtf /\ t.int = p.int
        BY <2>4, <4>3, SentNext
      <4> HIDE DEF t
      <4>6. Touches(c, t, u)
        BY <2>4, <4>4, TouchesOnly
      <4>7. t.due[u] > 0 /\ u \in t.attached /\ SpeedsUp(t.state[u], b, f)
        BY <2>4, <4>1, <4>2, <4>4, LineSizes
      <4>8. Does(t, u, b, f)
        BY <4>7 DEF Does
      <4>9. Agrees(t)
        BY <2>5, <4>5, SameAgree, Zenon
      <4> HIDE DEF dir
      <4>10. \E a \in BOOLEAN : TurnsRound(c.state[u], a, b, f)
        BY <1>8, <3>5
      <4> QED BY <4>6, <4>8, <4>9, <4>10, CarriedOn
    <3> HIDE DEF t
    <3> HIDE DEF dir
    <3>6. Carried(c, t, u) /\ r = t
      BY <3>1, <3>3, <3>4, <3>5, Zenon
    <3> QED BY <2>6, <3>6 DEF r
  <2>7. CASE Tc!Phase(c, u) = "ats"
    <3> DEFINE a == Tc!AtSpeed(p, u)
               t == Tc!DT_UPDINT(a)
    <3>1. r = t
      BY <1>4, <2>2, <2>7
    <3>2. PICK f \in TcStaged : Runs(c.state[u], dir, f)
      BY <1>1, <2>7, Doing, Zenon
    <3> HIDE DEF p
    <3>3. Runs(p.state[u], dir, f)
      BY <2>2, <3>2
    <3>4. f # "OFR" /\ (f = "SRCH" => Tc!LIN2OF(p.pos[u]) = NumberLine(dir))
      <4> HIDE DEF dir
      <4>1. (f = "OFR" => ~OnReel(Lands(c, u)))
            /\ (f = "SRCH" => ~OnReel(Lands(c, u)) \/ Tc!LIN2OF(Lands(c, u)) = NumberLine(dir))
        BY <1>8, <3>2, Zenon DEF LandsRight
      <4> QED BY <1>13, <2>2, <4>1
    <3>5. AtWork(p, u, dir, f)
      BY <2>2, <2>4, <3>3, <3>4 DEF AtWork
    <3>6. Serves(p, a, u, dir, f) /\ (Tc!QEZ(p.pos[u]) => a.erf)
      <4> HIDE DEF dir
      <4> QED BY <1>8, <3>5, ServesAtSpeed
    <3> HIDE DEF a
    <3>7. Touches(c, a, u) /\ Sound(a)
      BY <2>4, <3>6, TouchesOnly DEF Serves, Touches
    <3>8. /\ Agrees(t) /\ t.erf = a.erf /\ t.state = a.state /\ t.pos = a.pos /\ t.due = a.due
          /\ t.attached = a.attached
      BY <3>7, UpdInt
    <3>9. Touches(c, t, u)
      BY <3>7, UpdIntTouches
    <3> HIDE DEF t
    <3>10. CASE Slowed(a, u) /\ a.erf
      <4>1. Slowed(t, u)
        BY <3>8, <3>10, Zenon DEF Slowed
      <4>2. Carried(c, t, u)
        BY <3>8, <3>9, <4>1, CarriedToRest
      <4>3. t.erf
        BY <3>8, <3>10
      <4> QED BY <3>1, <4>2, <4>3 DEF r
    <3>11. CASE RunsWell(a, u, dir, f) /\ a.pos[u] = p.pos[u]
      <4>1. RunsWell(t, u, dir, f)
        <5>1. t.state[u] = a.state[u] /\ t.due[u] = a.due[u] /\ t.pos[u] = a.pos[u]
              /\ t.attached = a.attached
          BY <3>8
        <5>2. Lands(t, u) = Lands(a, u)
          <6>1. Tc!Dir(t, u) = Tc!Dir(a, u)
            BY <5>1, SameCourse, Zenon
          <6> QED BY <5>1, <6>1, Zenon DEF Lands
        <5> QED BY <3>11, <5>1, <5>2, Zenon DEF RunsWell, LandsRight
      <4> HIDE DEF dir
      <4>2. Does(t, u, dir, f)
        BY <4>1 DEF Does
      <4>3. Carried(c, t, u)
        BY <1>8, <3>2, <3>8, <3>9, <4>2, CarriedOn
      <4>4. t.pos[u] = Lands(c, u)
        BY <2>2, <3>8, <3>11
      <4>5. ~t.erf => ~Tc!QEZ(t.pos[u])
        BY <3>6, <3>8, <3>11
      <4>6. Runs(t.state[u], dir, f) /\ (f = "SRCH" => Tc!LIN2OF(t.pos[u]) = NumberLine(dir))
        BY <2>2, <3>4, <4>1, <4>4 DEF RunsWell
      <4> QED BY <3>1, <3>2, <4>3, <4>4, <4>5, <4>6 DEF r, dir
    <3> QED BY <3>6, <3>10, <3>11, Zenon DEF Serves
  <2> QED BY <1>13, <2>6, <2>7
<1> HIDE DEF dir, d, p
<1> QED BY <1>8, <1>10, <1>11, <1>12, <1>13

\* A tape in the header before the first word of a block stays in the block up to that
\* word.
LEMMA HeaderToWord ==
    ASSUME NEW dir \in BOOLEAN, NEW p \in Int, ~Tc!QEZ(p), NEW w \in Nat,
           Onwards(dir, Tc!LIN2OF(p), w) = FirstWordAt(dir), NEW g \in 0 .. w
    PROVE  LET q == Onwards(dir, p, g) IN
           /\ q \in Int /\ Tc!LIN2BL(q) = Tc!LIN2BL(p) /\ ~Tc!QEZ(q)
           /\ Onwards(dir, Tc!LIN2OF(q), w - g) = FirstWordAt(dir)
           /\ g < w \/ ~Tc!InData(q) =>
                Onwards(dir, Tc!LIN2OF(q), Tc!Distance(Tc!WordAhead(q, dir), q)) = FirstWordAt(dir)
<1> DEFINE b == Tc!LIN2BL(p)
           o == Tc!LIN2OF(p)
           k == Onwards(dir, o, g)
           q == Onwards(dir, p, g)
           L(i) == Tc!BLK2LN(i)
<1>1. b \in Int /\ o \in 0 .. Tc!LPERB - 1 /\ p = L(b) + o /\ L(b) \in Int
      /\ L(b + 1) = L(b) + Tc!LPERB /\ b \in 0 .. TSIZE - 1
  BY LineOfBlock, BlocksInOrder, LineInBlocks
<1>2. EZLIN \in Nat \ {0} /\ Tc!LPERB \in Nat /\ Tc!LPERB = 2 * HTLIN + BSIZE /\ HTLIN \in Nat \ {0}
      /\ BSIZE \in Nat \ {0} /\ Tc!FWDEZ \in Nat /\ TSIZE \in Nat
  BY LineSizes
<1>3. L(b) \in EZLIN .. Tc!FWDEZ /\ L(b + 1) \in EZLIN .. Tc!FWDEZ
  <2> HIDE DEF b
  <2>1. b \in 0 .. TSIZE /\ b + 1 \in 0 .. TSIZE /\ b + 1 \in Int
    BY <1>1, <1>2
  <2> QED BY <2>1, BlocksInOrder
<1> HIDE DEF b, o, L
<1>4. k \in 0 .. Tc!LPERB - 1 /\ q = L(b) + k /\ Onwards(dir, k, w - g) = FirstWordAt(dir)
  <2>1. Onwards(dir, o, w) = FirstWordAt(dir)
    BY DEF o
  <2>2. CASE dir
    BY <1>1, <1>2, <2>1, <2>2 DEF Onwards, FirstWordAt
  <2>3. CASE ~dir
    BY <1>1, <1>2, <2>1, <2>3 DEF Onwards, FirstWordAt
  <2> QED BY <2>2, <2>3
<1> HIDE DEF q, k
<1>5. Tc!LIN2BL(q) = b /\ Tc!LIN2OF(q) = k /\ q \in Int
  <2>1. Tc!LIN2BL(L(b) + k) = b /\ Tc!LIN2OF(L(b) + k) = k
    BY <1>1, <1>4, BlockOfLine DEF L
  <2> QED BY <1>1, <1>2, <1>4, <2>1
<1>6. ~Tc!QEZ(q)
  BY <1>1, <1>2, <1>3, <1>4 DEF Tc!QEZ, Tc!QREZ, Tc!QFEZ
<1>7. ASSUME g < w \/ ~Tc!InData(q)
      PROVE  Onwards(dir, k, Tc!Distance(Tc!WordAhead(q, dir), q)) = FirstWordAt(dir)
  <2>1. g < w \/ ~(k \in HTLIN .. Tc!LPERB - HTLIN - 1)
    BY <1>5, <1>7 DEF Tc!InData
  <2>2. CASE dir
    <3>1. k > Tc!LPERB - HTLIN - 1
      BY <1>1, <1>2, <1>4, <2>1, <2>2 DEF Onwards, FirstWordAt
    <3>2. Tc!WordAhead(q, dir) = L(b + 1) - HTLIN - 1
      <4>1. ~(k < HTLIN)
        BY <1>2, <1>4, <3>1
      <4> QED BY <1>2, <1>4, <1>5, <1>6, <2>2, <4>1 DEF Tc!WordAhead, L
    <3>3. Tc!Distance(Tc!WordAhead(q, dir), q) = k - (Tc!LPERB - HTLIN - 1)
      BY <1>1, <1>2, <1>4, <3>1, <3>2 DEF Tc!Distance
    <3>4. k \in Int /\ Tc!LPERB \in Int /\ HTLIN \in Int
      BY <1>2, <1>4
    <3>5. Onwards(dir, k, k - (Tc!LPERB - HTLIN - 1)) = FirstWordAt(dir)
      BY <2>2, <3>4 DEF Onwards, FirstWordAt
    <3> QED BY <3>3, <3>5, Zenon
  <2>3. CASE ~dir
    <3>1. k < HTLIN
      BY <1>1, <1>2, <1>4, <2>1, <2>3 DEF Onwards, FirstWordAt
    <3>2. Tc!WordAhead(q, dir) = L(b) + HTLIN
      BY <1>2, <1>1, <1>5, <1>6, <2>3, <3>1 DEF Tc!WordAhead, L
    <3> QED BY <1>1, <1>2, <1>4, <2>3, <3>1, <3>2 DEF Onwards, FirstWordAt, Tc!Distance
  <2> QED BY <2>2, <2>3
<1> QED BY <1>4, <1>5, <1>6, <1>7 DEF q, b

LEMMA HeadsStill ==
    ASSUME NEW c, NEW r, NEW fd, c.sa.unit = r.sa.unit, c.sa.dir = r.sa.dir, c.sa.fnc = r.sa.fnc,
           LET u == fd.unit IN c.state[u] = r.state[u] /\ c.pos[u] = r.pos[u] /\ c.due[u] = r.due[u],
           HeadsFor(c, fd)
    PROVE  HeadsFor(r, fd)
BY Zenon DEF HeadsFor, WayToGo

\* The drive of a search that the program follows up comes to the first word of the
\* block.
LEMMA Followed ==
    ASSUME NEW c, NEW fd, Sound(c), NEW u \in Units, u = c.sa.unit, u \in c.attached,
           NEW dir \in BOOLEAN, Tc!Phase(c, u) = "ats", Tc!Dir(c, u) = dir,
           ~Tc!QEZ(c.pos[u]), NEW w \in Nat, Onwards(dir, Tc!LIN2OF(c.pos[u]), w) = FirstWordAt(dir),
           NEW f \in TcStaged, f \in {"READ", "WRIT"}, NEW d \in Nat, d < w,
           LET n == Tc!dt_newfnc(c, u, Tc!Stage("ats", dir, f), d) IN ~n.erf
    PROVE  LET n == Tc!dt_newfnc(c, u, Tc!Stage("ats", dir, f), d)
               p == n.pos[u]
           IN  /\ Runs(n.state[u], dir, f) /\ ~Tc!QEZ(p) /\ Tc!LIN2BL(p) = Tc!LIN2BL(c.pos[u])
               /\ Onwards(dir, Tc!LIN2OF(p), n.due[u]) = FirstWordAt(dir)
<1> DEFINE n == Tc!dt_newfnc(c, u, Tc!Stage("ats", dir, f), d)
           g == IF d = 0 THEN 1 ELSE d
           p == Onwards(dir, c.pos[u], g)
<1>1. OnFrom(c, u, d) = p
  BY Zenon DEF OnFrom
<1>2. g \in 0 .. w /\ c.pos[u] \in Int
  <2>1. c.pos[u] \in Int
    BY OfUnit, LineSizes
  <2> QED BY <2>1
<1> HIDE DEF g
<1>3. /\ p \in Int /\ Tc!LIN2BL(p) = Tc!LIN2BL(c.pos[u]) /\ ~Tc!QEZ(p)
      /\ ~Tc!InData(p) =>
           Onwards(dir, Tc!LIN2OF(p), Tc!Distance(Tc!WordAhead(p, dir), p)) = FirstWordAt(dir)
  BY <1>2, HeaderToWord
<1> HIDE DEF p, n
<1>4. ~Tc!InData(p) /\ Runs(n.state[u], dir, f) /\ n.pos[u] = p
      /\ n.due[u] = Tc!Distance(Tc!WordAhead(p, dir), p)
  <2> DEFINE e == Tc!Dir(c, u)
             m == Tc!dt_newfnc(c, u, Tc!Stage("ats", e, f), d)
             q == OnFrom(c, u, d)
  <2>1. ~m.erf /\ u = c.sa.unit /\ ~Tc!QEZ(q) /\ f \in {"READ", "WRIT"} =>
           /\ ~Tc!InData(q) /\ Runs(m.state[u], e, f) /\ m.pos[u] = q
           /\ m.due[u] = Tc!Distance(Tc!WordAhead(q, e), q)
    <3>1. Tc!Phase(c, u) # "stop"
      OBVIOUS
    <3> QED BY <3>1, NewFunction
  <2>2. m = n /\ q = p
    BY <1>1, Zenon DEF n
  <2> HIDE DEF m, q
  <2> QED BY <1>3, <2>1, <2>2, Zenon DEF n
<1> QED BY <1>3, <1>4 DEF n

----------------------------------------------------------------------------
\* The operations.
LEMMA SameDrive ==
    ASSUME NEW c, NEW r, NEW v, r.state[v] = c.state[v], r.pos[v] = c.pos[v], r.due[v] = c.due[v],
           v \in c.attached => v \in r.attached
    PROVE  (Served(c, v) => Served(r, v)) /\ (LandsRight(c, v) => LandsRight(r, v))
<1>1. Tc!Dir(r, v) = Tc!Dir(c, v)
  BY SameCourse
<1>2. Lands(r, v) = Lands(c, v)
  BY <1>1, Zenon DEF Lands
<1>3. Served(c, v) => Served(r, v)
  BY Zenon DEF Served
<1>4. LandsRight(c, v) => LandsRight(r, v)
  BY <1>2, Zenon DEF LandsRight
<1> QED BY <1>3, <1>4

LEMMA DrivesKept ==
    ASSUME NEW c, NEW r, NEW u \in Units, DrivesServed(c), Touches(c, r, u), Served(r, u), LandsRight(r, u)
    PROVE  DrivesServed(r)
<1> SUFFICES ASSUME NEW v \in Units, v # u PROVE Served(r, v) /\ LandsRight(r, v)
  BY Zenon DEF DrivesServed
<1>1. /\ r.state[v] = c.state[v] /\ r.pos[v] = c.pos[v] /\ r.due[v] = c.due[v]
      /\ v \in c.attached => v \in r.attached
  BY Zenon DEF Touches, Elsewhere
<1>2. Served(c, v) /\ LandsRight(c, v)
  BY DEF DrivesServed
<1> QED BY <1>1, <1>2, SameDrive, Zenon

LEMMA DrivesSame ==
    ASSUME NEW c, NEW r, DrivesServed(c), r.state = c.state, r.pos = c.pos, r.due = c.due,
           c.attached \subseteq r.attached
    PROVE  DrivesServed(r)
<1> SUFFICES ASSUME NEW v \in Units PROVE Served(r, v) /\ LandsRight(r, v)
  BY Zenon DEF DrivesServed
<1>1. /\ r.state[v] = c.state[v] /\ r.pos[v] = c.pos[v] /\ r.due[v] = c.due[v]
      /\ v \in c.attached => v \in r.attached
  OBVIOUS
<1>2. Served(c, v) /\ LandsRight(c, v)
  BY DEF DrivesServed
<1> QED BY <1>1, <1>2, SameDrive, Zenon

LEMMA AsToDo ==
    ASSUME NEW c, c.sa.fnc # "MOVE" => IsToDo(c.state[c.sa.unit], c.sa.dir, c.sa.fnc)
    PROVE  AsAsked(c)
BY Zenon DEF AsAsked, IsToDo

LEMMA ToDoAsked ==
    ASSUME NEW c, AsAsked(c), c.sa.fnc # "MOVE"
    PROVE  IsToDo(c.state[c.sa.unit], c.sa.dir, c.sa.fnc)
BY Zenon DEF AsAsked, IsToDo

LEMMA Moves ==
    ASSUME NEW c, NEW u \in Units, Sound(c), Served(c, u)
    PROVE  Tc!Phase(c, u) # "stop" => c.due[u] # none /\ u \in c.attached
<1>1. c.state[u] \in Courses
  BY OfUnit
<1>2. Tc!Phase(c, u) # "stop" => c.state[u] # <<>>
  BY <1>1, Doing
<1> QED BY <1>2, Zenon DEF Served

LEMMA Travels ==
    ASSUME NEW c, NEW u \in Units, Sound(c), NEW d \in Tc!Travelled(c, u)
    PROVE  d \in Nat /\ (Tc!Phase(c, u) = "ats" /\ c.due[u] # none => d < c.due[u])
<1>1. c.due[u] \in Int /\ c.due[u] \in none .. LineTop + 2
  BY OfUnit, LineSizes DEF none
<1> QED BY <1>1, LineSizes DEF Tc!Travelled, none, Tc!none

\* A command.
Ordered(sa, clear) == [dt EXCEPT !.sa = sa, !.erf = @ /\ ~clear, !.dtf = @ /\ ~clear]
LEMMA NewOrder ==
    ASSUME Sound(dt), DrivesServed(dt), NEW sa \in Controls, NEW clear \in BOOLEAN
    PROVE  LET c == Ordered(sa, clear) IN
           /\ Sound(c) /\ DrivesServed(c) /\ c.sa = sa
           /\ c.state = dt.state /\ c.pos = dt.pos /\ c.due = dt.due /\ c.attached = dt.attached
<1> DEFINE x == dt.erf /\ ~clear
           y == dt.dtf /\ ~clear
           c == [dt EXCEPT !.sa = sa, !.erf = x, !.dtf = y]
<1>1. dt \in TcRecord /\ dt.dirty \subseteq dt.attached
  BY DEF Sound
<1>2. x \in BOOLEAN /\ y \in BOOLEAN
  BY Fields
<1>3. Ordered(sa, clear) = c
  BY Zenon DEF Ordered
<1> HIDE DEF x, y
<1>4. c \in TcRecord
  BY <1>1, <1>2 DEF TcRecord
<1>5. /\ c.sa = sa /\ c.state = dt.state /\ c.pos = dt.pos /\ c.due = dt.due /\ c.attached = dt.attached
      /\ c.dirty = dt.dirty
  BY <1>1 DEF TcRecord
<1> HIDE DEF c
<1>6. Sound(c)
  BY <1>1, <1>4, <1>5 DEF Sound
<1>7. DrivesServed(c)
  BY <1>5, DrivesSame
<1> QED BY <1>3, <1>5, <1>6, <1>7

\* The drive selected before is left.
Left(c, old, d) == IF c.sa.unit = old THEN c ELSE Tc!dt_deselect(c, old, d)
LEMMA OldLeft ==
    ASSUME NEW c, Sound(c), DrivesServed(c), NEW old \in Units, NEW d \in Nat
    PROVE  LET s == Left(c, old, d) IN Touches(c, s, old) /\ DrivesServed(s)
<1> DEFINE s == Tc!dt_deselect(c, old, d)
<1>1. Touches(c, s, old) /\ Served(s, old) /\ LandsRight(s, old)
  <2>1. Served(c, old) /\ LandsRight(c, old)
    BY DEF DrivesServed
  <2> QED BY <2>1, Deselect
<1> HIDE DEF s
<1>2. DrivesServed(s)
  BY <1>1, DrivesKept
<1>3. Touches(c, c, old)
  BY Itself
<1> QED BY <1>1, <1>2, <1>3 DEF Left, s

Told(s, f) == IF Tc!Refused(s) THEN Tc!dt_seterr(s, s.sa.unit, f) ELSE Tc!dt_newsa(s, f)
LEMMA NewTold ==
    ASSUME NEW s, Sound(s), DrivesServed(s), NEW f \in Nat
    PROVE  LET m == Told(s, f)
               n == Tc!DT_UPDINT(m)
           IN  /\ Touches(s, n, s.sa.unit) /\ Agrees(n) /\ DrivesServed(n) /\ AsAsked(n)
               /\ Tc!Refused(s) => n.erf
<1> DEFINE u == s.sa.unit
           m == Told(s, f)
           n == Tc!DT_UPDINT(m)
<1>1. u \in Units /\ s.sa.dir \in BOOLEAN /\ s.sa.fnc \in TcAsked
  BY Orders
<1>2. Served(s, u) /\ (Tc!Phase(s, u) # "stop" => s.due[u] # none /\ u \in s.attached)
  BY <1>1, Moves DEF DrivesServed
<1>3. /\ Touches(s, m, u) /\ Served(m, u) /\ LandsRight(m, u) /\ IsToDo(m.state[u], s.sa.dir, s.sa.fnc)
      /\ Tc!Refused(s) => m.erf
  <2>1. CASE Tc!Refused(s)
    <3> DEFINE t == Tc!dt_seterr(s, u, f)
    <3>1. m = t
      BY <2>1, Zenon DEF Told
    <3>2. Touches(s, t, u) /\ Slowed(t, u) /\ t.erf
      <4>1. (Tc!Phase(s, u) \in {"acc", "ats"} => u \in s.attached)
            /\ (Tc!Phase(s, u) = "dec" => s.due[u] # none /\ u \in s.attached)
        BY <1>2
      <4> HIDE DEF u
      <4> QED BY <1>1, <4>1, SetError
    <3> HIDE DEF t, m, u
    <3>3. Served(t, u) /\ LandsRight(t, u)
      BY <3>2, SlowedServed
    <3>4. /\ \A d \in BOOLEAN, e \in BOOLEAN : \A h : ~TurnsRound(t.state[u], d, e, h)
          /\ \A d \in BOOLEAN : \A h : ~SpeedsUp(t.state[u], d, h) /\ ~Runs(t.state[u], d, h)
      BY <3>2, SlowedServed
    <3>5. IsToDo(t.state[u], s.sa.dir, s.sa.fnc)
      BY <3>4, Zenon DEF IsToDo
    <3> QED BY <3>1, <3>2, <3>3, <3>5, Zenon
  <2>2. CASE ~Tc!Refused(s)
    <3> DEFINE t == Tc!dt_newsa(s, f)
    <3>1. m = t
      BY <2>2, Zenon DEF Told
    <3>2. s.sa.fnc \in TcStaged
      BY <1>1, <2>2 DEF Tc!Refused, TcStaged, TcAsked
    <3>3. Touches(s, t, u) /\ Does(t, u, s.sa.dir, s.sa.fnc)
      BY <1>2, <3>2, NewStatus
    <3> HIDE DEF t, m, u
    <3>4. Sound(t)
      BY <3>3 DEF Touches
    <3>5. Served(t, u) /\ LandsRight(t, u) /\ IsToDo(t.state[u], s.sa.dir, s.sa.fnc)
      BY <1>1, <3>2, <3>3, <3>4, DoesIt
    <3> QED BY <2>2, <3>1, <3>3, <3>5, Zenon
  <2> QED BY <2>1, <2>2
<1> HIDE DEF m
<1>4. Sound(m)
  BY <1>3 DEF Touches
<1>5. /\ Sound(n) /\ Agrees(n) /\ n.sa = m.sa /\ n.erf = m.erf /\ n.state = m.state /\ n.pos = m.pos
      /\ n.due = m.due /\ n.attached = m.attached
  BY <1>4, UpdInt
<1>6. Touches(s, n, u)
  BY <1>3, UpdIntTouches
<1>7. DrivesServed(n)
  <2> HIDE DEF n, u
  <2>1. DrivesServed(m)
    BY <1>1, <1>3, DrivesKept
  <2> QED BY <1>5, <2>1, DrivesSame
<1> HIDE DEF n
<1>8. AsAsked(n)
  <2>1. n.sa.unit = u /\ n.sa.dir = s.sa.dir /\ n.sa.fnc = s.sa.fnc
    BY <1>6, Zenon DEF Touches, SameOrder
  <2> HIDE DEF u
  <2>2. IsToDo(n.state[n.sa.unit], n.sa.dir, n.sa.fnc)
    BY <1>3, <1>5, <2>1, Zenon
  <2> QED BY <2>2, AsToDo, Zenon
<1>9. Tc!Refused(s) => n.erf
  BY <1>3, <1>5
<1> QED BY <1>5, <1>6, <1>7, <1>8, <1>9 DEF n, m, u

LEMMA Ahead ==
    ASSUME NEW c, NEW u, c.state[u] \in Courses, NEW dir \in BOOLEAN, NEW f \in TcStaged,
           Runs(c.state[u], dir, f)
    PROVE  Tc!Phase(c, u) = "ats" /\ Tc!Dir(c, u) = dir /\ c.state[u] # <<>>
<1>1. c.state[u] # <<>> /\ Head(c.state[u]) = Tc!Stage("ats", dir, f)
  BY Running
<1>2. Tc!Phase(c, u) = "ats"
  BY <1>1, StageFields DEF Tc!Phase, Tc!Stopped
<1>3. \E h \in TcStaged : Runs(c.state[u], Tc!Dir(c, u), h)
  BY <1>2, Doing, Zenon
<1>4. Tc!Dir(c, u) = dir
  BY <1>3, RunsOnce, Zenon
<1> QED BY <1>1, <1>2, <1>4

\* The program has been quick to follow up a search.
LEMMA FollowedUp ==
    ASSUME Sound(dt), DrivesServed(dt), NEW sa \in Controls, NEW clear \in BOOLEAN,
           HeadsFor(dt, found), NEW u \in Units, u = sa.unit, u = dt.sa.unit,
           found.unit = u, dt.sa.dir = sa.dir,
           NEW f \in Tc!Travelled(dt, u), f < HTLIN - 1,
           LET n == Tc!DT_UPDINT(Told(Ordered(sa, clear), f)) IN
           n.sa.go /\ ~n.erf /\ n.sa.fnc \in {"READ", "WRIT"}
    PROVE  HeadsFor(Tc!DT_UPDINT(Told(Ordered(sa, clear), f)), found)
<1> DEFINE c == Ordered(sa, clear)
           m == Told(c, f)
           n == Tc!DT_UPDINT(m)
           w == WayToGo(dt, u)
           dir == sa.dir
           fnc == sa.fnc
           t == Tc!dt_newfnc(c, u, Tc!Stage("ats", dir, fnc), f)
<1>1. /\ Sound(c) /\ DrivesServed(c) /\ c.sa = sa
      /\ c.state = dt.state /\ c.pos = dt.pos /\ c.due = dt.due /\ c.attached = dt.attached
  BY NewOrder
<1>2. dir \in BOOLEAN /\ fnc \in TcAsked /\ f \in Nat
  BY Travels DEF Controls
<1>3. PICK g \in TcStaged : Runs(dt.state[u], dir, g)
  BY Zenon DEF HeadsFor
<1>4. ~Tc!QEZ(dt.pos[u]) /\ Tc!LIN2BL(dt.pos[u]) = found.blk
  BY Zenon DEF HeadsFor
<1>5. Onwards(dir, Tc!LIN2OF(dt.pos[u]), w) = FirstWordAt(dir)
  BY Zenon DEF HeadsFor
<1>6. /\ Tc!Phase(dt, u) = "ats" /\ Tc!Phase(c, u) = "ats" /\ Tc!Dir(c, u) = dir
      /\ dt.due[u] # none /\ u \in dt.attached
  <2>1. dt.state[u] \in Courses /\ c.state[u] = dt.state[u]
    BY <1>1, OfUnit
  <2> HIDE DEF dir, c
  <2>2. Tc!Phase(dt, u) = "ats" /\ Tc!Phase(c, u) = "ats" /\ Tc!Dir(c, u) = dir
    BY <1>2, <1>3, <2>1, Ahead
  <2>3. Served(dt, u)
    BY DEF DrivesServed
  <2> QED BY <2>2, <2>3, Moves
<1>7. w \in Nat /\ f < w
  <2>1. f < dt.due[u] /\ dt.due[u] \in Int
    <3>1. dt.due[u] \in none .. LineTop + 2
      BY OfUnit
    <3> QED BY <1>6, <3>1, Travels, LineSizes DEF none
  <2> QED BY <1>2, <2>1, LineSizes DEF WayToGo
<1> HIDE DEF c, m, n, t, w
<1>8. /\ Touches(c, n, c.sa.unit) /\ ~Tc!Refused(c)
  <2>1. ~n.erf
    BY DEF n, m, c
  <2>2. Touches(c, n, c.sa.unit) /\ (Tc!Refused(c) => n.erf)
    BY <1>1, <1>2, NewTold DEF n, m
  <2> QED BY <2>1, <2>2
<1>9. n.sa.unit = u /\ n.sa.dir = dir /\ n.sa.fnc = fnc /\ c.sa.go
  <2>1. n.sa.go
    BY DEF n, m, c
  <2> QED BY <1>1, <1>8, <2>1, Zenon DEF Touches, SameOrder
<1>10. fnc \in {"READ", "WRIT"} /\ fnc \in TcStaged
  <2>1. fnc \in {"READ", "WRIT"}
    <3>1. n.sa.fnc \in {"READ", "WRIT"}
      BY DEF n, m, c
    <3> QED BY <1>9, <3>1
  <2> QED BY <1>2, <2>1 DEF TcStaged, TcAsked
<1>11. m = t
  <2>1. m = Tc!dt_newsa(c, f)
    BY <1>8, Zenon DEF m, Told
  <2>2. c.sa.unit = u /\ c.sa.dir = dir /\ c.sa.fnc = fnc /\ u \in c.attached
    BY <1>1, <1>6
  <2> HIDE DEF dir, fnc
  <2>3. Tc!dt_newsa(c, f) = t
    BY <1>6, <1>9, <2>2 DEF Tc!dt_newsa, t
  <2> QED BY <2>1, <2>3
<1>12. Sound(m) /\ ~m.erf /\ n.state = m.state /\ n.pos = m.pos /\ n.due = m.due
  <2>1. Sound(t)
    <3>1. c.sa.unit = u /\ u \in c.attached /\ Tc!Phase(c, u) # "stop"
      BY <1>1, <1>6
    <3> HIDE DEF fnc
    <3>2. Touches(c, t, u)
      <4> DEFINE e == Tc!Dir(c, u)
                 y == Tc!dt_newfnc(c, u, Tc!Stage("ats", e, fnc), f)
      <4>1. Touches(c, y, u)
        BY <1>1, <1>2, <1>10, <3>1, NewFunction
      <4>2. y = t
        BY <1>6, Zenon DEF t
      <4> QED BY <4>1, <4>2
    <3> QED BY <3>2 DEF Touches
  <2>2. /\ Sound(m) => n.erf = m.erf /\ n.state = m.state /\ n.pos = m.pos /\ n.due = m.due
    BY UpdInt DEF n
  <2>3. ~n.erf
    BY DEF n, m, c
  <2> QED BY <1>11, <2>1, <2>2, <2>3
<1>13. /\ Runs(m.state[u], dir, fnc) /\ ~Tc!QEZ(m.pos[u]) /\ Tc!LIN2BL(m.pos[u]) = Tc!LIN2BL(c.pos[u])
       /\ Onwards(dir, Tc!LIN2OF(m.pos[u]), m.due[u]) = FirstWordAt(dir)
  <2>1. ~t.erf
    BY <1>11, <1>12
  <2>2. u = c.sa.unit /\ u \in c.attached /\ ~Tc!QEZ(c.pos[u])
        /\ Onwards(dir, Tc!LIN2OF(c.pos[u]), w) = FirstWordAt(dir)
    BY <1>1, <1>4, <1>5, <1>6
  <2> HIDE DEF dir, fnc
  <2>3. /\ Runs(t.state[u], dir, fnc) /\ ~Tc!QEZ(t.pos[u]) /\ Tc!LIN2BL(t.pos[u]) = Tc!LIN2BL(c.pos[u])
        /\ Onwards(dir, Tc!LIN2OF(t.pos[u]), t.due[u]) = FirstWordAt(dir)
    BY <1>1, <1>2, <1>6, <1>7, <1>10, <2>1, <2>2, Followed DEF t
  <2> QED BY <1>11, <2>3
<1>14. WayToGo(n, u) = m.due[u]
  BY <1>9, <1>10, <1>12 DEF WayToGo
<1>15. Tc!LIN2BL(m.pos[u]) = found.blk
  BY <1>1, <1>4, <1>13
<1>16. n.sa.fnc \in {"SRCH", "READ", "WRIT"}
  BY <1>9, <1>10
<1> HIDE DEF dir, fnc
<1>17. HeadsFor(n, found)
  BY <1>9, <1>10, <1>12, <1>13, <1>14, <1>15, <1>16, Zenon DEF HeadsFor
<1> QED BY <1>17, Zenon DEF n, m, c

\* Status A asks for it still.
LEMMA AskedStill ==
    ASSUME NEW c, NEW r, NEW u \in Units, Sound(c), AsAsked(c), Touches(c, r, u),
           \A dir \in BOOLEAN : \A f : IsToDo(c.state[u], dir, f) => IsToDo(r.state[u], dir, f)
    PROVE  AsAsked(r)
<1>1. r.sa.unit = c.sa.unit /\ r.sa.dir = c.sa.dir /\ r.sa.fnc = c.sa.fnc
  BY Zenon DEF Touches, SameOrder
<1>2. c.sa.unit \in Units /\ c.sa.dir \in BOOLEAN
  BY Orders
<1> SUFFICES ASSUME r.sa.fnc # "MOVE" PROVE IsToDo(r.state[r.sa.unit], r.sa.dir, r.sa.fnc)
  BY AsToDo
<1>3. IsToDo(c.state[c.sa.unit], c.sa.dir, c.sa.fnc)
  BY <1>1, ToDoAsked
<1>4. CASE c.sa.unit = u
  BY <1>1, <1>2, <1>3, <1>4, Zenon
<1>5. CASE c.sa.unit # u
  <2>1. r.state[c.sa.unit] = c.state[c.sa.unit]
    BY <1>2, <1>5, Zenon DEF Touches, Elsewhere
  <2> QED BY <1>1, <1>3, <2>1, Zenon
<1> QED BY <1>4, <1>5

LEMMA AskedSame ==
    ASSUME NEW c, NEW r, AsAsked(c), r.state = c.state, r.sa = c.sa
    PROVE  AsAsked(r)
BY Zenon DEF AsAsked

LEMMA FoundStill ==
    ASSUME NEW c, NEW r, NEW fd, FoundOf(c, fd), r.sa.unit = c.sa.unit, r.sa.dir = c.sa.dir,
           r.sa.fnc = c.sa.fnc,
           HeadsFor(c, fd) => LET u == fd.unit IN
               c.state[u] = r.state[u] /\ c.pos[u] = r.pos[u] /\ c.due[u] = r.due[u]
    PROVE  FoundOf(r, fd)
BY HeadsStill, Zenon DEF FoundOf

LEMMA Commands ==
    ASSUME program \in Programs, NEW sa \in Tc!StatusA, NEW clear \in {FALSE, dt.erf \/ dt.dtf}, Sound(dt)
    PROVE  sa \in Controls /\ clear \in BOOLEAN
<1>1. /\ program.mode \in BOOLEAN /\ program.enb \in BOOLEAN /\ Tapes \subseteq Units
  BY TcSizes DEF Tc!SizesAssumption
<1>2. clear \in BOOLEAN
  BY Fields
<1>3. sa \in Controls
  BY <1>1 DEF Tc!StatusA, Tc!Select, Controls, TcAsked, Tc!Reverse
<1> QED BY <1>2, <1>3

LEMMA TcCommandKept ==
    ASSUME program \in Programs, TcHolds(dt), FoundOf(dt, found),
           NEW sa \in Tc!StatusA, NEW clear \in {FALSE, dt.erf \/ dt.dtf}, Tc!dt76(sa, clear)
    PROVE  TcHolds(dt') /\ FoundOf(dt', found')
<1> DEFINE c == Ordered(sa, clear)
           old == dt.sa.unit
<1>1. Sound(dt) /\ DrivesServed(dt) /\ sa \in Controls /\ clear \in BOOLEAN
  BY Commands DEF TcHolds
<1>2. old \in Units /\ sa.unit \in Units
  BY <1>1, Orders DEF Controls
<1>3. PICK d \in Tc!Travelled(dt, old), e \in Tc!Travelled(dt, sa.unit) :
         LET s == IF sa.unit = old THEN c ELSE Tc!dt_deselect(c, old, d)
             f == IF sa.unit = old THEN d ELSE e
             n == Tc!DT_UPDINT(IF Tc!Refused(s) THEN Tc!dt_seterr(s, sa.unit, f) ELSE Tc!dt_newsa(s, f))
         IN  dt' = n /\ found' = IF Tc!FollowsUp(n, f) THEN found ELSE Tc!Nowhere
  BY Zenon DEF Tc!dt76, Ordered
<1> DEFINE s == Left(c, old, d)
           f == IF sa.unit = old THEN d ELSE e
           n == Tc!DT_UPDINT(Told(s, f))
<1>4. d \in Nat /\ e \in Nat /\ f \in Nat
  BY <1>1, <1>2, Travels
<1>5. Sound(c) /\ DrivesServed(c) /\ c.sa = sa
  BY <1>1, NewOrder
<1> HIDE DEF c, f
<1>6. Touches(c, s, old) /\ DrivesServed(s) /\ s.sa.unit = sa.unit /\ Sound(s)
  <2>1. Touches(c, s, old) /\ DrivesServed(s)
    BY <1>2, <1>4, <1>5, OldLeft
  <2> QED BY <1>5, <2>1, Zenon DEF Touches, SameOrder
<1>7. dt' = n /\ found' = IF Tc!FollowsUp(n, f) THEN found ELSE Tc!Nowhere
  <2>1. s = IF sa.unit = old THEN c ELSE Tc!dt_deselect(c, old, d)
    BY <1>5, Zenon DEF Left
  <2> HIDE DEF s
  <2>2. Told(s, f) = IF Tc!Refused(s) THEN Tc!dt_seterr(s, sa.unit, f) ELSE Tc!dt_newsa(s, f)
    BY <1>6, Zenon DEF Told
  <2> QED BY <1>3, <2>1, <2>2, Zenon DEF f
<1> HIDE DEF s
<1>8. Touches(s, n, s.sa.unit) /\ Agrees(n) /\ DrivesServed(n) /\ AsAsked(n)
  BY <1>4, <1>6, NewTold
<1>9. Sound(n)
  BY <1>8 DEF Touches
<1> HIDE DEF n
<1>10. TcHolds(dt')
  BY <1>7, <1>8, <1>9 DEF TcHolds
<1>11. CASE ~Tc!FollowsUp(n, f)
  BY <1>7, <1>10, <1>11 DEF FoundOf
<1>12. CASE Tc!FollowsUp(n, f)
  <2>1. n.sa.unit = sa.unit /\ n.sa.dir = sa.dir
    <3>1. n.sa.unit = s.sa.unit /\ n.sa.dir = s.sa.dir
      BY <1>8, Zenon DEF Touches, SameOrder
    <3>2. s.sa.unit = c.sa.unit /\ s.sa.dir = c.sa.dir
      BY <1>6, Zenon DEF Touches, SameOrder
    <3> QED BY <1>5, <3>1, <3>2, Zenon
  <2>2. /\ found.unit = sa.unit /\ found.blk # none /\ found.at = none /\ old = sa.unit
           /\ dt.sa.dir = sa.dir
        /\ n.sa.go /\ ~n.erf /\ n.sa.fnc \in {"READ", "WRIT"} /\ f < HTLIN - 1
    BY <1>12, <2>1, Zenon DEF Tc!FollowsUp, none, Tc!none
  <2>3. HeadsFor(dt, found)
    BY <2>2 DEF FoundOf, Tc!Nowhere, none, Tc!none
  <2>4. s = c /\ f = d
    BY <1>5, <2>2, Zenon DEF s, f, Left
  <2>5. HeadsFor(n, found)
    <3> DEFINE m == Tc!DT_UPDINT(Told(Ordered(sa, clear), d))
    <3>1. n = m
      BY <2>4, Zenon DEF n, c
    <3>2. m.sa.go /\ ~m.erf /\ m.sa.fnc \in {"READ", "WRIT"} /\ d < HTLIN - 1
      BY <2>2, <2>4, <3>1, Zenon
    <3> HIDE DEF old
    <3>3. HeadsFor(m, found)
      <4> DEFINE u == sa.unit
      <4>1. u \in Units /\ u = sa.unit /\ u = dt.sa.unit /\ found.unit = u /\ d \in Tc!Travelled(dt, u)
        BY <1>2, <2>2 DEF old
      <4> HIDE DEF u
      <4> QED BY <1>1, <2>2, <2>3, <3>2, <4>1, FollowedUp
    <3> QED BY <3>1, <3>3
  <2>6. FoundOf(n, found)
    BY <2>2, <2>3, <2>5 DEF FoundOf
  <2> QED BY <1>7, <1>10, <1>12, <2>6, Zenon
<1> QED BY <1>11, <1>12

LEMMA TcCountKept ==
    ASSUME TcHolds(dt), FoundOf(dt, found), Tc!StoreCount
    PROVE  TcHolds(dt') /\ FoundOf(dt', found')
<1>1. PICK w \in 1 .. MaxCount : dt' = [dt EXCEPT !.wc = w]
  BY Zenon DEF Tc!StoreCount
<1>2. found' = found
  BY Zenon DEF Tc!StoreCount
<1> DEFINE r == [dt EXCEPT !.wc = w]
<1>3. dt \in TcRecord /\ dt.dirty \subseteq dt.attached
  BY DEF TcHolds, Sound
<1>4. r \in TcRecord
  <2>1. w \in 0 .. MaxCount + 1
    BY LineSizes
  <2> QED BY <1>3, <2>1 DEF TcRecord
<1>5. /\ r.state = dt.state /\ r.pos = dt.pos /\ r.due = dt.due /\ r.attached = dt.attached
         /\ r.dirty = dt.dirty
      /\ r.sa = dt.sa /\ r.erf = dt.erf /\ r.dtf = dt.dtf /\ r.int = dt.int
  BY <1>3 DEF TcRecord
<1> HIDE DEF r
<1>6. Sound(r)
  BY <1>3, <1>4, <1>5 DEF Sound
<1>7. DrivesServed(r)
  BY <1>5, DrivesSame DEF TcHolds
<1>8. Agrees(r)
  BY <1>5, SameAgree DEF TcHolds
<1>9. AsAsked(r)
  BY <1>5, AskedSame DEF TcHolds
<1>10. FoundOf(r, found)
  BY <1>5, FoundStill
<1> QED BY <1>1, <1>2, <1>6, <1>7, <1>8, <1>9, <1>10 DEF TcHolds, r

LEMMA TcAttachKept ==
    ASSUME TcHolds(dt), FoundOf(dt, found), NEW u \in Tapes, Tc!dt_attach(u)
    PROVE  TcHolds(dt') /\ FoundOf(dt', found')
<1> DEFINE r == [dt EXCEPT !.attached = @ \union {u}, !.pos[u] = EZLIN]
<1>1. dt' = r /\ found' = found /\ u \notin dt.attached
  BY Zenon DEF Tc!dt_attach
<1>2. Sound(dt) /\ dt \in TcRecord /\ dt.dirty \subseteq dt.attached /\ u \in Units
  BY LineSizes DEF TcHolds, Sound
<1>3. dt.state[u] = <<>>
  BY <1>1, <1>2, Zenon DEF TcHolds, DrivesServed, Served
<1>4. /\ r.state = dt.state /\ r.pos = [dt.pos EXCEPT ![u] = EZLIN] /\ r.due = dt.due
      /\ r.attached = dt.attached \union {u} /\ r.dirty = dt.dirty
      /\ r.sa = dt.sa /\ r.erf = dt.erf /\ r.dtf = dt.dtf /\ r.int = dt.int
  BY <1>2 DEF TcRecord
<1>5. r \in TcRecord
  <2>1. [dt.pos EXCEPT ![u] = EZLIN] \in [Units -> -1 .. LineTop + 1]
    <3>1. EZLIN \in -1 .. LineTop + 1
      BY LineSizes
    <3> QED BY <1>2, <3>1, Fields
  <2> QED BY <1>2, <2>1 DEF TcRecord
<1> HIDE DEF r
<1>6. Sound(r)
  BY <1>2, <1>4, <1>5 DEF Sound
<1>7. \A v \in Units : v # u => r.state[v] = dt.state[v] /\ r.pos[v] = dt.pos[v] /\ r.due[v] = dt.due[v]
                               /\ (v \in dt.attached => v \in r.attached)
  BY <1>4, <1>2, Fields
<1>8. DrivesServed(r)
  <2> SUFFICES ASSUME NEW v \in Units PROVE Served(r, v) /\ LandsRight(r, v)
    BY Zenon DEF DrivesServed
  <2>1. CASE v = u
    <3>1. r.state[v] = <<>>
      BY <1>3, <1>4, <2>1
    <3> QED BY <3>1, SlowedServed DEF Slowed
  <2>2. CASE v # u
    <3>1. Served(dt, v) /\ LandsRight(dt, v)
      BY DEF TcHolds, DrivesServed
    <3> QED BY <1>7, <2>2, <3>1, SameDrive
  <2> QED BY <2>1, <2>2
<1>9. Agrees(r)
  BY <1>4, SameAgree DEF TcHolds
<1>10. AsAsked(r)
  BY <1>4, AskedSame DEF TcHolds
<1>11. FoundOf(r, found)
  <2>1. HeadsFor(dt, found) => found.unit \in Units /\ found.unit # u
    <3> SUFFICES ASSUME HeadsFor(dt, found) PROVE found.unit \in Units /\ found.unit # u
      OBVIOUS
    <3>1. found.unit = dt.sa.unit /\ \E f \in TcStaged : Runs(dt.state[found.unit], dt.sa.dir, f)
      BY Zenon DEF HeadsFor
    <3>2. dt.sa.unit \in Units /\ dt.state[found.unit] # <<>>
      BY <1>2, <3>1, Orders, Running
    <3> QED BY <1>3, <3>1, <3>2
  <2>2. HeadsFor(dt, found) => LET v == found.unit IN
            dt.state[v] = r.state[v] /\ dt.pos[v] = r.pos[v] /\ dt.due[v] = r.due[v]
    BY <1>7, <2>1
  <2> QED BY <1>4, <2>2, FoundStill
<1> QED BY <1>1, <1>6, <1>8, <1>9, <1>10, <1>11 DEF TcHolds, r

LEMMA Flushes ==
    ASSUME NEW c, Sound(c), NEW units
    PROVE  LET r == Tc!Flushed(c, units) IN
           /\ Sound(r) /\ r.state = c.state /\ r.pos = c.pos /\ r.due = c.due /\ r.attached = c.attached
           /\ r.sa = c.sa /\ r.erf = c.erf /\ r.dtf = c.dtf /\ r.int = c.int
<1> DEFINE x == c.dirty \ (units \intersect c.written)
           y == c.written \ units
           r == [c EXCEPT !.dirty = x, !.written = y]
<1>1. c \in TcRecord /\ c.dirty \subseteq c.attached
  BY DEF Sound
<1>2. Tc!Flushed(c, units) = r
  BY Zenon DEF Tc!Flushed
<1>3. x \in SUBSET Tapes /\ y \in SUBSET Tapes /\ x \subseteq c.attached
  BY Fields
<1> HIDE DEF x, y
<1>4. r \in TcRecord
  BY <1>1, <1>3 DEF TcRecord
<1>5. /\ r.state = c.state /\ r.pos = c.pos /\ r.due = c.due /\ r.attached = c.attached /\ r.dirty = x
      /\ r.sa = c.sa /\ r.erf = c.erf /\ r.dtf = c.dtf /\ r.int = c.int
  BY <1>1 DEF TcRecord
<1> HIDE DEF r
<1>6. Sound(r)
  BY <1>3, <1>4, <1>5 DEF Sound
<1> QED BY <1>2, <1>5, <1>6

LEMMA TcFlushKept ==
    ASSUME TcHolds(dt), FoundOf(dt, found), Tc!dt_flush
    PROVE  TcHolds(dt') /\ FoundOf(dt', found')
<1> DEFINE r == Tc!Flushed(dt, dt.attached)
<1>1. dt' = r /\ found' = found
  BY Zenon DEF Tc!dt_flush
<1>2. /\ Sound(r) /\ r.state = dt.state /\ r.pos = dt.pos /\ r.due = dt.due /\ r.attached = dt.attached
      /\ r.sa = dt.sa /\ r.erf = dt.erf /\ r.dtf = dt.dtf /\ r.int = dt.int
  BY Flushes DEF TcHolds
<1> HIDE DEF r
<1>3. DrivesServed(r)
  BY <1>2, DrivesSame DEF TcHolds
<1>4. Agrees(r)
  BY <1>2, SameAgree DEF TcHolds
<1>5. AsAsked(r)
  BY <1>2, AskedSame DEF TcHolds
<1>6. FoundOf(r, found)
  BY <1>2, FoundStill
<1> QED BY <1>1, <1>2, <1>3, <1>4, <1>5, <1>6 DEF TcHolds

LEMMA AtRest ==
    ASSUME NEW c, NEW u, c.state[u] = <<>>
    PROVE  /\ Served(c, u) /\ LandsRight(c, u) /\ \A dir \in BOOLEAN : \A f : IsToDo(c.state[u], dir, f)
<1>1. Slowed(c, u)
  BY DEF Slowed
<1>2. /\ \A d \in BOOLEAN, e \in BOOLEAN : \A f : ~TurnsRound(c.state[u], d, e, f)
      /\ \A d \in BOOLEAN : \A f : ~SpeedsUp(c.state[u], d, f) /\ ~Runs(c.state[u], d, f)
  BY <1>1, SlowedServed
<1>3. \A dir \in BOOLEAN : \A f : IsToDo(c.state[u], dir, f)
  BY <1>2, Zenon DEF IsToDo
<1> QED BY <1>1, <1>3, SlowedServed

LEMMA TcResetKept ==
    ASSUME TcHolds(dt), Tc!dt_reset
    PROVE  TcHolds(dt') /\ FoundOf(dt', found')
<1> DEFINE r == [dt EXCEPT !.due = [u \in Units |-> none], !.state = [u \in Units |-> <<>>],
                           !.sa = Tc!Cleared, !.erf = FALSE, !.dtf = FALSE, !.int = FALSE]
<1>1. dt' = r /\ found' = Tc!Nowhere
  BY Zenon DEF Tc!dt_reset, none, Tc!none
<1>2. dt \in TcRecord /\ dt.dirty \subseteq dt.attached
  BY DEF TcHolds, Sound
<1>3. [u \in Units |-> none] \in [Units -> none .. LineTop + 2]
      /\ [u \in Units |-> <<>>] \in [Units -> Courses]
      /\ Tc!Cleared \in Controls /\ Tc!Cleared.enb = FALSE /\ Tc!Cleared.fnc = "MOVE"
  <2>1. none \in none .. LineTop + 2 /\ 0 \in Units
    BY LineSizes DEF none
  <2>2. <<>> \in Courses
    BY Forms
  <2>3. Tc!Cleared \in Controls /\ Tc!Cleared.enb = FALSE /\ Tc!Cleared.fnc = "MOVE"
    BY <2>1 DEF Tc!Cleared, Controls, TcAsked
  <2> QED BY <2>1, <2>2, <2>3
<1>4. r \in TcRecord
  BY <1>2, <1>3 DEF TcRecord
<1>5. /\ r.state = [u \in Units |-> <<>>] /\ r.sa = Tc!Cleared /\ r.int = FALSE /\ r.dirty = dt.dirty
      /\ r.attached = dt.attached
  BY <1>2 DEF TcRecord
<1> HIDE DEF r
<1>6. Sound(r)
  BY <1>2, <1>4, <1>5 DEF Sound
<1>7. Agrees(r)
  BY <1>3, <1>5 DEF Agrees
<1>8. AsAsked(r)
  <2>1. r.sa.fnc = "MOVE"
    BY <1>3, <1>5
  <2> QED BY <2>1, Zenon DEF AsAsked
<1>9. DrivesServed(r)
  <2> SUFFICES ASSUME NEW v \in Units PROVE Served(r, v) /\ LandsRight(r, v)
    BY Zenon DEF DrivesServed
  <2>1. r.state[v] = <<>>
    BY <1>5
  <2> QED BY <2>1, AtRest
<1> QED BY <1>1, <1>6, <1>7, <1>8, <1>9 DEF TcHolds, FoundOf

LEMMA TcDetachKept ==
    ASSUME TcHolds(dt), NEW u \in Tapes, Tc!dt_detach(u)
    PROVE  TcHolds(dt') /\ FoundOf(dt', found')
<1> DEFINE selected == dt.due[u] # Tc!none /\ u = dt.sa.unit /\ dt.sa.go
           f == Tc!Flushed(dt, {u})
           x == f.erf \/ selected
           y == f.dtf \/ selected
           c == [f EXCEPT !.erf = x, !.dtf = y]
           s == IF selected THEN Tc!DT_UPDINT(c) ELSE c
           r == [s EXCEPT !.attached = @ \ {u}, !.dirty = @ \ {u}]
           g == Tc!detach_unit(s, u)
           t == TimedFor(g, u, none)
<1>1. /\ dt' = IF dt.due[u] = Tc!none THEN r ELSE t
      /\ found' = Tc!Nowhere
  BY Zenon DEF Tc!dt_detach, TimedFor, none, Tc!none
<1>2. Sound(dt) /\ u \in Units /\ selected \in BOOLEAN
  <2>1. Sound(dt) /\ u \in Units
    BY LineSizes DEF TcHolds
  <2> QED BY <2>1, Orders
<1>3. /\ Sound(f) /\ f.state = dt.state /\ f.pos = dt.pos /\ f.due = dt.due /\ f.attached = dt.attached
      /\ f.sa = dt.sa /\ f.erf = dt.erf /\ f.dtf = dt.dtf /\ f.int = dt.int
  BY <1>2, Flushes
<1> HIDE DEF f, selected
<1>4. f \in TcRecord /\ f.dirty \subseteq f.attached /\ x \in BOOLEAN /\ y \in BOOLEAN
  <2>1. f.erf \in BOOLEAN /\ f.dtf \in BOOLEAN
    BY <1>3, Fields
  <2> QED BY <1>2, <1>3, <2>1 DEF Sound
<1> HIDE DEF x, y
<1>5. /\ Sound(c) /\ c.state = dt.state /\ c.pos = dt.pos /\ c.due = dt.due /\ c.attached = dt.attached
      /\ c.sa = dt.sa /\ c.erf = x /\ c.dtf = y /\ c.int = dt.int
  <2>1. c \in TcRecord /\ c.dirty = f.dirty /\ c.attached = f.attached
    BY <1>4 DEF TcRecord
  <2>2. /\ c.state = f.state /\ c.pos = f.pos /\ c.due = f.due /\ c.sa = f.sa /\ c.erf = x /\ c.dtf = y
        /\ c.int = f.int
    BY <1>4 DEF TcRecord
  <2> HIDE DEF c
  <2> QED BY <1>3, <1>4, <2>1, <2>2 DEF Sound
<1> HIDE DEF c
<1>6. /\ Sound(s) /\ Agrees(s) /\ s.state = dt.state /\ s.pos = dt.pos /\ s.due = dt.due
      /\ s.attached = dt.attached /\ s.sa = dt.sa
  <2>1. CASE selected
    BY <1>5, <2>1, UpdInt
  <2>2. CASE ~selected
    <3>1. (x <=> dt.erf) /\ (y <=> dt.dtf)
      BY <1>3, <2>2, Zenon DEF x, y
    <3>2. Agrees(dt)
      BY DEF TcHolds
    <3>3. Agrees(c)
      BY <1>5, <3>1, <3>2, Zenon DEF Agrees
    <3> QED BY <1>5, <2>2, <3>3
  <2> QED BY <2>1, <2>2
<1> HIDE DEF s
<1>7. DrivesServed(s) /\ AsAsked(s)
  <2>1. DrivesServed(s)
    BY <1>6, DrivesSame DEF TcHolds
  <2> QED BY <1>6, <2>1, AskedSame DEF TcHolds
<1>8. ASSUME NEW n, Touches(s, n, u), n.state[u] = <<>>, Agrees(n) PROVE TcHolds(n)
  <2>1. /\ Served(n, u) /\ LandsRight(n, u)
        /\ \A dir \in BOOLEAN : \A h : IsToDo(n.state[u], dir, h)
    BY <1>8, AtRest
  <2>2. DrivesServed(n)
    BY <1>2, <1>7, <1>8, <2>1, DrivesKept
  <2>3. AsAsked(n)
    BY <1>2, <1>6, <1>7, <1>8, <2>1, AskedStill
  <2> QED BY <1>8, <2>2, <2>3 DEF TcHolds, Touches
<1>9. CASE dt.due[u] = Tc!none
  <2>1. s \in TcRecord /\ s.dirty \subseteq s.attached
    BY <1>6 DEF Sound
  <2>2. r \in TcRecord /\ r.state = s.state /\ r.pos = s.pos /\ r.due = s.due /\ r.sa = s.sa
        /\ r.attached = s.attached \ {u} /\ r.dirty = s.dirty \ {u}
        /\ r.erf = s.erf /\ r.dtf = s.dtf /\ r.int = s.int
    BY <2>1 DEF TcRecord
  <2> HIDE DEF r
  <2>3. Sound(r)
    BY <2>1, <2>2 DEF Sound
  <2>4. Elsewhere(s, r, u)
    BY <2>2 DEF Elsewhere
  <2>5. SameOrder(s, r)
    BY <2>2, Zenon DEF SameOrder
  <2>6. r.state[u] = <<>>
    <3>1. Served(dt, u)
      BY <1>2 DEF TcHolds, DrivesServed
    <3>2. dt.state[u] = <<>>
      BY <1>9, <3>1, Zenon DEF Served, none, Tc!none
    <3> QED BY <1>6, <2>2, <3>2
  <2>7. Agrees(r)
    BY <1>6, <2>2, SameAgree
  <2>8. TcHolds(r)
    BY <1>8, <2>3, <2>4, <2>5, <2>6, <2>7 DEF Touches
  <2> QED BY <1>1, <1>9, <2>8 DEF FoundOf
<1>10. CASE dt.due[u] # Tc!none
  <2>1. /\ Touches(s, g, u) /\ g.state[u] = <<>> /\ u \notin g.attached /\ g.due = s.due
        /\ g.sa = s.sa /\ g.erf = s.erf /\ g.dtf = s.dtf /\ g.int = s.int
    BY <1>2, <1>6, DetachUnit
  <2> HIDE DEF g
  <2>2. Sound(g) /\ none \in none .. LineTop + 2
    BY <2>1, LineSizes DEF Touches, none
  <2>3. /\ Touches(g, t, u) /\ t.state = g.state /\ t.sa = g.sa /\ t.erf = g.erf /\ t.dtf = g.dtf
           /\ t.int = g.int
    BY <1>2, <2>2, Timed
  <2> HIDE DEF t
  <2>4. Touches(s, t, u) /\ t.state[u] = <<>>
    BY <2>1, <2>3, TouchesOnly
  <2>5. Agrees(t)
    <3>1. t.sa = s.sa /\ t.erf = s.erf /\ t.dtf = s.dtf /\ t.int = s.int
      BY <2>1, <2>3
    <3> QED BY <1>6, <3>1, SameAgree
  <2>6. TcHolds(t)
    BY <1>8, <2>4, <2>5
  <2> QED BY <1>1, <1>10, <2>6 DEF FoundOf
<1> QED BY <1>9, <1>10

\* The event of a drive.
LEMMA FoundItsNumber ==
    ASSUME NEW c, NEW r, NEW u \in Units, Sound(c), Sound(r), AsAsked(c), u = c.sa.unit, c.sa.fnc = "SRCH",
           SameOrder(c, r),
           NEW f \in TcStaged, NEW dir \in BOOLEAN, Runs(c.state[u], dir, f), Runs(r.state[u], dir, f),
           f = "SRCH" => Tc!LIN2OF(r.pos[u]) = NumberLine(dir), ~Tc!QEZ(r.pos[u])
    PROVE  FoundOf(r, [unit |-> u, blk |-> Tc!LIN2BL(r.pos[u]), at |-> none])
<1> DEFINE fd == [unit |-> u, blk |-> Tc!LIN2BL(r.pos[u]), at |-> none]
<1>1. f = "SRCH" /\ dir = c.sa.dir
  <2>1. IsToDo(c.state[u], c.sa.dir, c.sa.fnc)
    BY ToDoAsked
  <2> QED BY <2>1, Zenon DEF IsToDo
<1>2. r.sa.unit = u /\ r.sa.dir = dir /\ r.sa.fnc = "SRCH"
  BY <1>1, Zenon DEF SameOrder
<1>3. fd.unit = u /\ fd.blk = Tc!LIN2BL(r.pos[u]) /\ fd.at = none
  OBVIOUS
<1>4. fd \in [unit : Units, blk : Nat, at : Int]
  <2>1. r.pos[u] \in Int
    BY OfUnit, LineSizes
  <2>2. Tc!LIN2BL(r.pos[u]) \in Nat
    BY <2>1, LineInBlocks, LineSizes
  <2> QED BY <2>2 DEF none
<1> HIDE DEF fd
<1>5. Onwards(dir, Tc!LIN2OF(r.pos[u]), HTLIN - 1) = FirstWordAt(dir)
  <2>1. Tc!LIN2OF(r.pos[u]) = NumberLine(dir)
    BY <1>1
  <2>2. Onwards(dir, NumberLine(dir), HTLIN - 1) = FirstWordAt(dir)
    BY LineSizes DEF Onwards, NumberLine, FirstWordAt
  <2> QED BY <2>1, <2>2
<1>6. WayToGo(r, u) = HTLIN - 1
  BY <1>2, Zenon DEF WayToGo
<1>7. r.sa.fnc \in {"SRCH", "READ", "WRIT"}
  BY <1>2
<1>8. HeadsFor(r, fd)
  BY <1>2, <1>3, <1>5, <1>6, <1>7, Zenon DEF HeadsFor
<1> QED BY <1>3, <1>4, <1>8 DEF FoundOf, fd

\* The first word that is transferred is of the block found.
LEMMA FoundItsWord ==
    ASSUME NEW c, NEW fd, NEW u \in Units, Sound(c), HeadsFor(c, fd), fd.unit = u, c.due[u] # none,
           c.sa.fnc \in {"READ", "WRIT"}
    PROVE  /\ Tc!Phase(c, u) = "ats" /\ u = c.sa.unit /\ Tc!LIN2BL(Lands(c, u)) = fd.blk
           /\ Tc!LIN2OF(Lands(c, u)) = FirstWordAt(Tc!Dir(c, u))
<1> DEFINE dir == c.sa.dir
           w == c.due[u]
           q == Lands(c, u)
<1>1. dir \in BOOLEAN /\ c.state[u] \in Courses /\ c.pos[u] \in Int /\ w \in Nat
  <2>1. c.due[u] \in none .. LineTop + 2 /\ c.state[u] \in Courses /\ c.pos[u] \in Int /\ dir \in BOOLEAN
    BY OfUnit, Orders, LineSizes
  <2> QED BY <2>1, LineSizes DEF none
<1>2. PICK g \in TcStaged : Runs(c.state[u], dir, g)
  BY Zenon DEF HeadsFor
<1>3. u = c.sa.unit /\ ~Tc!QEZ(c.pos[u]) /\ Tc!LIN2BL(c.pos[u]) = fd.blk
  BY Zenon DEF HeadsFor
<1>4. Onwards(dir, Tc!LIN2OF(c.pos[u]), WayToGo(c, u)) = FirstWordAt(dir)
  BY Zenon DEF HeadsFor
<1>5. WayToGo(c, u) = w
  BY DEF WayToGo
<1>6. Tc!Phase(c, u) = "ats" /\ Tc!Dir(c, u) = dir
  <2> HIDE DEF dir
  <2> QED BY <1>1, <1>2, Ahead
<1> HIDE DEF dir, w
<1>7. q = Onwards(dir, c.pos[u], w)
  BY <1>6, Zenon DEF Lands, w
<1> HIDE DEF q
<1>8. q \in Int /\ Tc!LIN2BL(q) = fd.blk /\ Onwards(dir, Tc!LIN2OF(q), 0) = FirstWordAt(dir)
  <2>1. w \in 0 .. w /\ w - w = 0
    BY <1>1
  <2>2. /\ q \in Int /\ Tc!LIN2BL(q) = Tc!LIN2BL(c.pos[u])
        /\ Onwards(dir, Tc!LIN2OF(q), w - w) = FirstWordAt(dir)
    BY <1>1, <1>3, <1>4, <1>5, <1>7, <2>1, HeaderToWord
  <2> QED BY <1>3, <2>1, <2>2, Zenon
<1>9. Tc!LIN2OF(q) = FirstWordAt(dir)
  <2>1. Tc!LIN2OF(q) \in Int
    BY <1>8, LineOfBlock
  <2>2. Onwards(dir, Tc!LIN2OF(q), 0) = Tc!LIN2OF(q)
    BY <2>1 DEF Onwards
  <2> QED BY <1>8, <2>2
<1> QED BY <1>3, <1>6, <1>8, <1>9 DEF q

LEMMA TcServiceKept ==
    ASSUME program \in Programs, TcHolds(dt), FoundOf(dt, found), NEW u \in Units, Tc!dt_svc(u)
    PROVE  TcHolds(dt') /\ FoundOf(dt', found')
<1> DEFINE r == Tc!Serve(dt, u)
<1>1. dt' = r /\ dt.due[u] # none
  BY Zenon DEF Tc!dt_svc, none, Tc!none
<1>2. Sound(dt) /\ Served(dt, u) /\ LandsRight(dt, u) /\ Agrees(dt) /\ AsAsked(dt) /\ DrivesServed(dt)
  BY DEF TcHolds, DrivesServed
<1>3. /\ Carried(dt, r, u)
      /\ Tc!Phase(dt, u) = "ats" /\ u = dt.sa.unit /\ ~r.erf =>
            /\ \E f \in TcStaged : Runs(dt.state[u], Tc!Dir(dt, u), f) /\ Runs(r.state[u], Tc!Dir(dt, u), f)
                                    /\ (f = "SRCH" => Tc!LIN2OF(r.pos[u]) = NumberLine(Tc!Dir(dt, u)))
            /\ r.pos[u] = Lands(dt, u) /\ ~Tc!QEZ(r.pos[u])
  BY <1>1, <1>2, ServeKeeps
<1> HIDE DEF r
<1>4. Touches(dt, r, u) /\ Served(r, u) /\ LandsRight(r, u) /\ Agrees(r) /\ Sound(r)
      /\ SameOrder(dt, r) /\ Elsewhere(dt, r, u)
  BY <1>3, Zenon DEF Carried, Touches
<1>5. TcHolds(r)
  <2>1. DrivesServed(r)
    BY <1>2, <1>4, DrivesKept
  <2>2. \A dir \in BOOLEAN : \A f : IsToDo(dt.state[u], dir, f) => IsToDo(r.state[u], dir, f)
    BY <1>3, Zenon DEF Carried
  <2>3. AsAsked(r)
    BY <1>2, <1>4, <2>2, AskedStill
  <2> QED BY <1>4, <2>1, <2>3 DEF TcHolds
<1> DEFINE C == Tc!Phase(dt, u) = "ats" /\ dt.sa.unit = u /\ dt.sa.fnc = "SRCH" /\ dt'.dtf /\ ~dt'.erf
           D == found.unit = u /\ dt.sa.fnc \in {"READ", "WRIT"} /\ ~dt'.erf
<1>6. found' = CASE C -> [unit |-> u, blk |-> Tc!LIN2BL(dt'.pos[u]), at |-> Tc!none]
                 [] D -> IF found.at = Tc!none THEN [found EXCEPT !.at = Tc!FirstWord(u)] ELSE found
                 [] OTHER -> IF found.unit = u THEN Tc!Nowhere ELSE found
  BY Zenon DEF Tc!dt_svc
<1>7. ~(C /\ D)
  OBVIOUS
<1> HIDE DEF C, D
<1>8. CASE C
  <2>1. found' = [unit |-> u, blk |-> Tc!LIN2BL(r.pos[u]), at |-> none]
    BY <1>1, <1>6, <1>7, <1>8 DEF none, Tc!none
  <2>2. Tc!Phase(dt, u) = "ats" /\ dt.sa.unit = u /\ dt.sa.fnc = "SRCH" /\ ~r.erf
    BY <1>1, <1>8, Zenon DEF C
  <2> DEFINE dir == Tc!Dir(dt, u)
  <2>3. dir \in BOOLEAN
    BY <1>2, OfUnit, Doing
  <2>4. ~Tc!QEZ(r.pos[u]) /\
        \E f \in TcStaged : Runs(dt.state[u], dir, f) /\ Runs(r.state[u], dir, f)
                                    /\ (f = "SRCH" => Tc!LIN2OF(r.pos[u]) = NumberLine(dir))
    BY <1>3, <2>2, Zenon
  <2> HIDE DEF dir
  <2>5. FoundOf(r, [unit |-> u, blk |-> Tc!LIN2BL(r.pos[u]), at |-> none])
    BY <1>2, <1>4, <2>2, <2>3, <2>4, FoundItsNumber
  <2> QED BY <1>1, <1>5, <2>1, <2>5
<1>9. CASE D /\ found.at = Tc!none
  <2>1. found' = [found EXCEPT !.at = Tc!FirstWord(u)]
    BY <1>6, <1>7, <1>9
  <2>2. found.unit = u /\ dt.sa.fnc \in {"READ", "WRIT"} /\ ~r.erf
    BY <1>1, <1>9, Zenon DEF D
  <2>3. found # Tc!Nowhere
    BY <1>2, <2>2, LineSizes DEF Tc!Nowhere, Tc!none
  <2>4. found \in [unit : Units, blk : Nat, at : Int] /\ HeadsFor(dt, found)
    BY <1>9, <2>3 DEF FoundOf, none, Tc!none
  <2>5. /\ Tc!Phase(dt, u) = "ats" /\ u = dt.sa.unit /\ Tc!LIN2BL(Lands(dt, u)) = found.blk
        /\ Tc!LIN2OF(Lands(dt, u)) = FirstWordAt(Tc!Dir(dt, u))
    BY <1>1, <1>2, <2>2, <2>4, FoundItsWord
  <2>6. r.pos[u] = Lands(dt, u)
    BY <1>3, <2>2, <2>5
  <2>7. Tc!FirstWord(u) = found.blk
    <3>1. Tc!Word(r.pos[u]) = IF Tc!Dir(dt, u) THEN BSIZE - 1 ELSE 0
      <4>1. FirstWordAt(Tc!Dir(dt, u)) - HTLIN = IF Tc!Dir(dt, u) THEN BSIZE - 1 ELSE 0
        BY LineSizes DEF FirstWordAt
      <4> QED BY <2>5, <2>6, <4>1 DEF Tc!Word
    <3> QED BY <1>1, <2>5, <2>6, <3>1, Zenon DEF Tc!FirstWord
  <2>8. found'.at = found.blk /\ found'.blk = found.blk /\ found' \in [unit : Units, blk : Nat, at : Int]
    BY <2>1, <2>4, <2>7
  <2>9. found'.at # none
    BY <2>4, <2>8 DEF none
  <2> QED BY <1>1, <1>5, <2>8, <2>9 DEF FoundOf
<1>10. CASE ~C /\ (D => found.at # Tc!none)
  <2>1. (found' = found /\ (D \/ found.unit # u)) \/ found' = Tc!Nowhere
    BY <1>6, <1>10
  <2>2. CASE found' = Tc!Nowhere
    BY <1>1, <1>5, <2>2 DEF FoundOf
  <2>3. CASE found' = found /\ found.at # none
    <3>1. FoundOf(r, found)
      BY <2>3, Zenon DEF FoundOf
    <3> QED BY <1>1, <1>5, <2>3, <3>1
  <2>4. CASE found' = found /\ found.unit # u
    <3>1. HeadsFor(dt, found) => LET v == found.unit IN
              dt.state[v] = r.state[v] /\ dt.pos[v] = r.pos[v] /\ dt.due[v] = r.due[v]
      <4>1. HeadsFor(dt, found) => found.unit \in Units
        <5>1. dt.sa.unit \in Units
          BY <1>2, Orders
        <5> QED BY <5>1, Zenon DEF HeadsFor
      <4> QED BY <1>4, <2>4, <4>1, Zenon DEF Elsewhere
    <3>2. r.sa.unit = dt.sa.unit /\ r.sa.dir = dt.sa.dir /\ r.sa.fnc = dt.sa.fnc
      BY <1>4, Zenon DEF SameOrder
    <3>3. FoundOf(r, found)
      BY <3>1, <3>2, FoundStill
    <3> QED BY <1>1, <1>5, <2>4, <3>3
  <2> QED BY <1>10, <2>1, <2>2, <2>3, <2>4 DEF none, Tc!none
<1> QED BY <1>8, <1>9, <1>10

\* Cleared, what moves slows down, if it does not run off its reel.
LEMMA TcClearKept ==
    ASSUME TcHolds(dt), Tc!ClearAllFlags
    PROVE  TcHolds(dt') /\ FoundOf(dt', found')
<1> DEFINE moving == {u \in Units : Tc!Phase(dt, u) \in {"acc", "ats"}}
<1>1. PICK d \in [moving -> UNION {Tc!Travelled(dt, u) : u \in moving}] :
         LET c(u) == Tc!dt_setpos(dt, u, d[u])
             gone == {u \in moving : Tc!Gone(c(u), u)}
             slow == moving \ gone
         IN  /\ dt' = [dt EXCEPT
                        !.attached = @ \ gone,
                        !.dirty = @ \ gone,
                        !.pos = [u \in Units |-> IF u \in moving THEN c(u).pos[u] ELSE @[u]],
                        !.due = [u \in Units |-> IF u \in slow THEN Decel ELSE @[u]],
                        !.state = [u \in Units |->
                            IF u \in slow THEN <<Tc!Stage("dec", Tc!Dir(dt, u), "MOVE")>>
                            ELSE IF u \in gone THEN <<>> ELSE @[u]],
                        !.sa = Tc!Cleared, !.erf = FALSE, !.dtf = FALSE, !.int = FALSE]
             /\ \A u \in moving : d[u] \in Tc!Travelled(dt, u)
  BY Zenon DEF Tc!ClearAllFlags
<1>2. found' = Tc!Nowhere
  BY Zenon DEF Tc!ClearAllFlags
<1> DEFINE c(u) == Tc!dt_setpos(dt, u, d[u])
           gone == {u \in moving : Tc!Gone(c(u), u)}
           slow == moving \ gone
           pos2 == [u \in Units |-> IF u \in moving THEN c(u).pos[u] ELSE dt.pos[u]]
           due2 == [u \in Units |-> IF u \in slow THEN Decel ELSE dt.due[u]]
           state2 == [u \in Units |-> IF u \in slow THEN <<Tc!Stage("dec", Tc!Dir(dt, u), "MOVE")>>
                                     ELSE IF u \in gone THEN <<>> ELSE dt.state[u]]
           att2 == dt.attached \ gone
           dirty2 == dt.dirty \ gone
           r == [dt EXCEPT !.attached = att2, !.dirty = dirty2, !.pos = pos2, !.due = due2, !.state = state2,
                           !.sa = Tc!Cleared, !.erf = FALSE, !.dtf = FALSE, !.int = FALSE]
<1>3. dt' = r
  BY <1>1, Zenon
<1>4. Sound(dt) /\ DrivesServed(dt) /\ dt \in TcRecord /\ dt.dirty \subseteq dt.attached
  BY DEF TcHolds, Sound
<1>5. ASSUME NEW u \in moving
      PROVE  /\ u \in Units /\ u \in dt.attached /\ c(u).pos[u] \in -1 .. LineTop + 1
                /\ Tc!Dir(dt, u) \in BOOLEAN
  <2>1. u \in Units /\ Tc!Phase(dt, u) # "stop" /\ d[u] \in Tc!Travelled(dt, u)
    BY <1>1, <1>5
  <2>2. Served(dt, u) /\ d[u] \in Nat /\ dt.state[u] \in Courses
    BY <1>4, <2>1, Travels, OfUnit DEF DrivesServed
  <2>3. u \in dt.attached
    BY <1>4, <2>1, <2>2, Moves
  <2>4. Touches(dt, c(u), u)
    <3>1. CASE OnReel(Place(dt, u, d[u]))
      BY <1>4, <2>1, <2>2, <2>3, <3>1, SetPosition
    <3>2. CASE ~OnReel(Place(dt, u, d[u]))
      BY <1>4, <2>1, <2>2, <2>3, <3>2, OffTheReel
    <3> QED BY <3>1, <3>2
  <2>5. Sound(c(u))
    BY <2>4 DEF Touches
  <2> HIDE DEF c
  <2>6. c(u).pos[u] \in -1 .. LineTop + 1
    BY <2>1, <2>5, OfUnit
  <2> QED BY <2>1, <2>2, <2>3, <2>6, Doing
<1> HIDE DEF c, moving
<1>6. gone \subseteq moving /\ slow \subseteq moving /\ \A u \in slow : u \notin gone
  OBVIOUS
<1> HIDE DEF gone, slow
<1>7. pos2 \in [Units -> -1 .. LineTop + 1]
  <2> SUFFICES ASSUME NEW u \in Units PROVE (IF u \in moving THEN c(u).pos[u] ELSE dt.pos[u]) \in -1 .. LineTop + 1
    OBVIOUS
  <2>1. dt.pos[u] \in -1 .. LineTop + 1
    BY <1>4, OfUnit
  <2> QED BY <1>5, <2>1
<1>8. due2 \in [Units -> none .. LineTop + 2]
  <2> SUFFICES ASSUME NEW u \in Units PROVE (IF u \in slow THEN Decel ELSE dt.due[u]) \in none .. LineTop + 2
    OBVIOUS
  <2>1. dt.due[u] \in none .. LineTop + 2
    BY <1>4, OfUnit
  <2> QED BY <2>1, LineSizes DEF none
<1>9. state2 \in [Units -> Courses]
  <2> SUFFICES ASSUME NEW u \in Units
               PROVE (IF u \in slow THEN <<Tc!Stage("dec", Tc!Dir(dt, u), "MOVE")>>
                      ELSE IF u \in gone THEN <<>> ELSE dt.state[u]) \in Courses
    OBVIOUS
  <2>1. dt.state[u] \in Courses
    BY <1>4, OfUnit
  <2>2. <<>> \in Courses
    BY Forms
  <2>3. u \in slow => <<Tc!Stage("dec", Tc!Dir(dt, u), "MOVE")>> \in Courses
    BY <1>5, <1>6, SlowCourse
  <2> QED BY <2>1, <2>2, <2>3, Zenon
<1>10. /\ att2 \in SUBSET Tapes /\ dirty2 \in SUBSET Tapes /\ dirty2 \subseteq att2
  BY <1>4, Fields
<1>11. Tc!Cleared \in Controls /\ Tc!Cleared.enb = FALSE /\ Tc!Cleared.fnc = "MOVE"
  <2>1. 0 \in Units
    BY LineSizes
  <2> QED BY <2>1 DEF Tc!Cleared, Controls, TcAsked
<1>12. \A u \in Units : /\ u \in slow => /\ state2[u] = <<Tc!Stage("dec", Tc!Dir(dt, u), "MOVE")>>
                                          /\ due2[u] = Decel /\ u \in att2
                        /\ u \in gone => state2[u] = <<>>
                        /\ u \notin moving => /\ state2[u] = dt.state[u] /\ pos2[u] = dt.pos[u]
                                              /\ due2[u] = dt.due[u] /\ (u \in dt.attached => u \in att2)
                        /\ u \in moving => u \in slow \/ u \in gone
  <2> SUFFICES ASSUME NEW u \in Units
               PROVE  /\ u \in slow => /\ state2[u] = <<Tc!Stage("dec", Tc!Dir(dt, u), "MOVE")>>
                                       /\ due2[u] = Decel /\ u \in att2
                      /\ u \in gone => state2[u] = <<>>
                      /\ u \notin moving => /\ state2[u] = dt.state[u] /\ pos2[u] = dt.pos[u]
                                            /\ due2[u] = dt.due[u] /\ (u \in dt.attached => u \in att2)
                      /\ u \in moving => u \in slow \/ u \in gone
    OBVIOUS
  <2>1. u \in slow => u \in dt.attached /\ u \notin gone
    BY <1>5, <1>6
  <2>2. u \in moving => u \in slow \/ u \in gone
    BY DEF slow
  <2>3. u \in gone => u \notin slow
    BY <1>6
  <2>4. u \notin moving => u \notin slow /\ u \notin gone
    BY <1>6
  <2>5. /\ state2[u] = IF u \in slow THEN <<Tc!Stage("dec", Tc!Dir(dt, u), "MOVE")>>
                       ELSE IF u \in gone THEN <<>> ELSE dt.state[u]
        /\ pos2[u] = IF u \in moving THEN c(u).pos[u] ELSE dt.pos[u]
        /\ due2[u] = IF u \in slow THEN Decel ELSE dt.due[u]
    OBVIOUS
  <2>6. u \in att2 <=> u \in dt.attached /\ u \notin gone
    OBVIOUS
  <2> HIDE DEF state2, pos2, due2, att2
  <2> QED BY <2>1, <2>2, <2>3, <2>4, <2>5, <2>6, Zenon
<1> HIDE DEF att2, dirty2, pos2, due2, state2
<1>13. r \in TcRecord
  BY <1>4, <1>7, <1>8, <1>9, <1>10, <1>11 DEF TcRecord
<1>14. /\ r.state = state2 /\ r.pos = pos2 /\ r.due = due2 /\ r.attached = att2 /\ r.dirty = dirty2
       /\ r.sa = Tc!Cleared /\ r.erf = FALSE /\ r.dtf = FALSE /\ r.int = FALSE
  BY <1>4 DEF TcRecord
<1> HIDE DEF r
<1>15. Sound(r)
  BY <1>10, <1>13, <1>14 DEF Sound
<1>16. Agrees(r)
  BY <1>11, <1>14 DEF Agrees
<1>17. AsAsked(r)
  <2>1. r.sa.fnc = "MOVE"
    BY <1>11, <1>14
  <2> QED BY <2>1, Zenon DEF AsAsked
<1>18. DrivesServed(r)
  <2> SUFFICES ASSUME NEW u \in Units PROVE Served(r, u) /\ LandsRight(r, u)
    BY Zenon DEF DrivesServed
  <2>1. CASE u \in slow
    <3>1. r.state[u] = <<Tc!Stage("dec", Tc!Dir(dt, u), "MOVE")>> /\ r.due[u] = Decel /\ u \in r.attached
      BY <1>12, <1>14, <2>1
    <3>2. Tc!Dir(dt, u) \in BOOLEAN /\ Decel # none
      BY <1>5, <1>6, <2>1, LineSizes DEF none
    <3>3. Slowed(r, u)
      BY <3>1, <3>2, SlowCourse, Zenon DEF Slowed
    <3> QED BY <3>3, SlowedServed
  <2>2. CASE u \in gone
    <3>1. r.state[u] = <<>>
      BY <1>12, <1>14, <2>2
    <3> QED BY <3>1, AtRest
  <2>3. CASE u \notin moving
    <3>1. /\ r.state[u] = dt.state[u] /\ r.pos[u] = dt.pos[u] /\ r.due[u] = dt.due[u]
          /\ u \in dt.attached => u \in r.attached
      BY <1>12, <1>14, <2>3
    <3>2. Served(dt, u) /\ LandsRight(dt, u)
      BY <1>4, Zenon DEF DrivesServed
    <3> QED BY <3>1, <3>2, SameDrive
  <2> QED BY <1>12, <2>1, <2>2, <2>3
<1> QED BY <1>2, <1>3, <1>15, <1>16, <1>17, <1>18 DEF TcHolds, FoundOf

LEMMA TcInitHolds ==
    ASSUME Tc!Init
    PROVE  TcInv
<1>1. program \in Programs /\ found = Tc!Nowhere
  BY Zenon DEF Tc!Init
<1>2. dt = [sa |-> Tc!Cleared, erf |-> FALSE, dtf |-> FALSE, int |-> FALSE, wc |-> 0,
             substate |-> {}, state |-> [u \in Units |-> <<>>],
             pos |-> [u \in Units |-> 0], due |-> [u \in Units |-> Tc!none],
             attached |-> {}, dirty |-> {}, written |-> {}]
  BY Zenon DEF Tc!Init
<1>3. Tc!Cleared \in Controls /\ Tc!Cleared.enb = FALSE /\ Tc!Cleared.fnc = "MOVE"
  <2>1. 0 \in Units
    BY LineSizes
  <2> QED BY <2>1 DEF Tc!Cleared, Controls, TcAsked
<1>4. [u \in Units |-> Tc!none] \in [Units -> none .. LineTop + 2]
      /\ [u \in Units |-> <<>>] \in [Units -> Courses]
      /\ [u \in Units |-> 0] \in [Units -> -1 .. LineTop + 1]
  <2>1. Tc!none \in none .. LineTop + 2 /\ 0 \in -1 .. LineTop + 1
    BY LineSizes DEF none, Tc!none
  <2>2. <<>> \in Courses
    BY Forms
  <2> QED BY <2>1, <2>2
<1>5. 0 \in 0 .. MaxCount + 1
  BY LineSizes
<1>6. Sound(dt)
  BY <1>2, <1>3, <1>4, <1>5 DEF Sound, TcRecord
<1>7. Agrees(dt)
  BY <1>2, <1>3 DEF Agrees
<1>8. AsAsked(dt)
  <2>1. dt.sa.fnc = "MOVE"
    BY <1>2, <1>3
  <2> QED BY <2>1, Zenon DEF AsAsked
<1>9. DrivesServed(dt)
  <2> SUFFICES ASSUME NEW v \in Units PROVE Served(dt, v) /\ LandsRight(dt, v)
    BY Zenon DEF DrivesServed
  <2>1. dt.state[v] = <<>>
    BY <1>2
  <2> QED BY <2>1, AtRest
<1> QED BY <1>1, <1>6, <1>7, <1>8, <1>9 DEF TcInv, TcHolds, FoundOf

\* The program keeps to its functions.
LEMMA SameProgram ==
    ASSUME program' = program, program \in Programs, TcHolds(dt'), FoundOf(dt', found')
    PROVE  TcInv'
<1>1. TcStaged' = TcStaged /\ TcAsked' = TcAsked
  BY DEF TcStaged, TcAsked
<1>2. Courses' = Courses
  <2>1. Slows' = Slows
    BY DEF Slows
  <2>2. Speeds' = Speeds /\ AtSpeeds' = AtSpeeds
    BY <1>1 DEF Speeds, AtSpeeds
  <2>3. Turns(TRUE, FALSE)' = Turns(TRUE, FALSE) /\ Turns(FALSE, TRUE)' = Turns(FALSE, TRUE)
    BY <1>1 DEF Turns
  <2> QED BY <2>1, <2>2, <2>3 DEF Courses
<1>3. Controls' = Controls
  BY <1>1 DEF Controls
<1>4. Sound(dt)'
  <2>1. TcRecord' = TcRecord
    BY <1>2, <1>3 DEF TcRecord
  <2> QED BY <2>1 DEF TcHolds, Sound
<1>5. Agrees(dt)'
  BY Zenon DEF TcHolds, Agrees
<1>6. DrivesServed(dt)'
  <2>1. \A u : Served(dt, u)' <=> Served(dt', u)
    BY <1>1, Zenon DEF Served, SpeedsUp, Tc!Stage
  <2>2. \A u : LandsRight(dt, u)' <=> LandsRight(dt', u)
    BY <1>1, Zenon DEF LandsRight, Runs, Lands, OnReel, Onwards, NumberLine
  <2> QED BY <2>1, <2>2, Zenon DEF TcHolds, DrivesServed
<1>7. AsAsked(dt)'
  <2>1. AsAsked(dt)' <=> AsAsked(dt')
    BY <1>1, Zenon DEF AsAsked, TurnsRound, SpeedsUp, Runs
  <2> QED BY <2>1, Zenon DEF TcHolds
<1>8. FoundOf(dt, found)'
  <2>1. HeadsFor(dt, found)' <=> HeadsFor(dt', found')
    BY <1>1, Zenon DEF HeadsFor, Runs, Onwards, WayToGo
  <2> QED BY <2>1, Zenon DEF FoundOf
<1> QED BY <1>4, <1>5, <1>6, <1>7, <1>8 DEF TcInv, TcHolds

LEMMA TcStepKept ==
    ASSUME TcInv, Tc!Next
    PROVE  TcInv'
<1>1. program \in Programs /\ TcHolds(dt) /\ FoundOf(dt, found)
  BY DEF TcInv
<1>2. program' = program
  BY Zenon DEF Tc!Next
<1>3. TcHolds(dt') /\ FoundOf(dt', found')
  <2>1. ASSUME NEW sa \in Tc!StatusA, NEW clear \in {FALSE, dt.erf \/ dt.dtf}, Tc!dt76(sa, clear)
        PROVE  TcHolds(dt') /\ FoundOf(dt', found')
    BY <1>1, <2>1, TcCommandKept
  <2>2. CASE Tc!StoreCount
    BY <1>1, <2>2, TcCountKept
  <2>3. CASE Tc!ClearAllFlags
    BY <1>1, <2>3, TcClearKept
  <2>4. CASE Tc!dt_reset
    BY <1>1, <2>4, TcResetKept
  <2>5. CASE Tc!dt_flush
    BY <1>1, <2>5, TcFlushKept
  <2>6. ASSUME NEW u \in Units, Tc!dt_svc(u) PROVE TcHolds(dt') /\ FoundOf(dt', found')
    BY <1>1, <2>6, TcServiceKept
  <2>7. ASSUME NEW u \in Tapes, Tc!dt_attach(u) PROVE TcHolds(dt') /\ FoundOf(dt', found')
    BY <1>1, <2>7, TcAttachKept
  <2>8. ASSUME NEW u \in Tapes, Tc!dt_detach(u) PROVE TcHolds(dt') /\ FoundOf(dt', found')
    BY <1>1, <2>8, TcDetachKept
  <2> QED BY <2>1, <2>2, <2>3, <2>4, <2>5, <2>6, <2>7, <2>8, Zenon DEF Tc!Next
<1> QED BY <1>1, <1>2, <1>3, SameProgram

\* What the runs check of the TC08.
LEMMA TcShows ==
    ASSUME TcInv
    PROVE  Tc!TypeOK /\ Tc!IntAgrees /\ Tc!MotionServed /\ Tc!FoundIsRead
<1>1. program \in Programs /\ Sound(dt) /\ Agrees(dt) /\ DrivesServed(dt) /\ FoundOf(dt, found)
  BY DEF TcInv, TcHolds
<1>2. ASSUME NEW u \in Units, NEW i \in DOMAIN dt.state[u]
      PROVE  dt.state[u][i] \in Tc!Stages
  <2> DEFINE s == dt.state[u]
  <2>1. s \in Courses
    BY <1>1, OfUnit
  <2>2. \A d \in BOOLEAN, f \in TcStaged, x \in {"dec", "acc", "ats"} : Tc!Stage(x, d, f) \in Tc!Stages
    BY DEF Tc!Stage, Tc!Stages, Tc!Phases, Tc!Reverse, TcStaged
  <2>3. "MOVE" \in TcStaged
    BY DEF TcStaged
  <2> HIDE DEF s
  <2>4. i \in DOMAIN s
    BY DEF s
  <2>5. s # <<>>
    BY <2>4
  <2>6. ASSUME NEW d \in BOOLEAN, SlowsDown(s, d) PROVE s[i] \in Tc!Stages
    <3>1. i = 1 /\ s[1] = Tc!Stage("dec", d, "MOVE")
      BY <2>4, <2>6, Slowing
    <3> QED BY <2>2, <2>3, <3>1
  <2>7. ASSUME NEW d \in BOOLEAN, NEW f \in TcStaged, SpeedsUp(s, d, f) PROVE s[i] \in Tc!Stages
    <3>1. i \in {1, 2} /\ s[1] = Tc!Stage("acc", d, "MOVE") /\ s[2] = Tc!Stage("ats", d, f)
      BY <2>4, <2>7, Speeding
    <3> QED BY <2>2, <2>3, <3>1
  <2>8. ASSUME NEW d \in BOOLEAN, NEW f \in TcStaged, Runs(s, d, f) PROVE s[i] \in Tc!Stages
    <3>1. i = 1 /\ s[1] = Tc!Stage("ats", d, f)
      BY <2>4, <2>8, Running
    <3> QED BY <2>2, <2>3, <3>1
  <2>9. ASSUME NEW d \in BOOLEAN, NEW e \in BOOLEAN, NEW f \in TcStaged, TurnsRound(s, d, e, f) PROVE s[i] \in Tc!Stages
    <3>1. /\ i \in {1, 2, 3} /\ s[1] = Tc!Stage("dec", d, "MOVE") /\ s[2] = Tc!Stage("acc", e, "MOVE")
          /\ s[3] = Tc!Stage("ats", e, f)
      BY <2>4, <2>9, Turning
    <3> QED BY <2>2, <2>3, <3>1
  <2>10. s[i] \in Tc!Stages
    BY <2>1, <2>5, <2>6, <2>7, <2>8, <2>9, Forms
  <2> QED BY <2>10 DEF s
<1>3. Tc!TypeOK
  <2>1. \A u \in Units : /\ \A i \in DOMAIN dt.state[u] : dt.state[u][i] \in Tc!Stages
                         /\ dt.pos[u] \in -1 .. Tc!FWDEZ + EZLIN + 1
                         /\ dt.due[u] \in Tc!none .. Tc!FWDEZ + EZLIN + 2
    BY <1>1, <1>2, OfUnit DEF LineTop, none, Tc!none
  <2>2. /\ dt.sa.unit \in Units /\ dt.sa.fnc \in program.fncs \union {"MOVE"}
        /\ {dt.erf, dt.dtf, dt.int} \subseteq BOOLEAN
        /\ dt.wc \in 0 .. MaxCount + 1 /\ dt.substate \subseteq {"WCO", "SOB"}
        /\ dt.attached \subseteq Tapes /\ dt.dirty \subseteq dt.attached /\ dt.written \subseteq Tapes
    BY <1>1, Orders, Fields DEF TcAsked
  <2> QED BY <1>1, <2>1, <2>2, Zenon DEF Tc!TypeOK
<1>4. Tc!IntAgrees
  <2>1. dt.int \in BOOLEAN /\ (dt.int <=> (dt.sa.enb /\ (dt.erf \/ dt.dtf)))
    BY <1>1, Fields DEF Agrees
  <2> QED BY <2>1 DEF Tc!IntAgrees
<1>5. ASSUME NEW u \in Units, dt.state[u] # <<>>
      PROVE  LET s == dt.state[u] IN
             /\ dt.due[u] # none /\ u \in dt.attached
             /\ CASE s[1].phase = "dec" -> \/ Len(s) = 1
                                           \/ /\ Len(s) = 3 /\ s[2].phase = "acc" /\ s[3].phase = "ats"
                                              /\ s[2].dir # s[1].dir /\ s[3].dir = s[2].dir
                  [] s[1].phase = "acc" -> Len(s) = 2 /\ s[2].phase = "ats" /\ s[2].dir = s[1].dir
                  [] s[1].phase = "ats" -> Len(s) = 1
  <2> DEFINE s == dt.state[u]
             Q == CASE s[1].phase = "dec" -> \/ Len(s) = 1
                                           \/ /\ Len(s) = 3 /\ s[2].phase = "acc" /\ s[3].phase = "ats"
                                              /\ s[2].dir # s[1].dir /\ s[3].dir = s[2].dir
                  [] s[1].phase = "acc" -> Len(s) = 2 /\ s[2].phase = "ats" /\ s[2].dir = s[1].dir
                  [] s[1].phase = "ats" -> Len(s) = 1
  <2>1. s \in Courses /\ s # <<>>
    BY <1>1, <1>5, OfUnit
  <2>2. dt.due[u] # none /\ u \in dt.attached
    BY <1>1, <1>5, Zenon DEF DrivesServed, Served
  <2> HIDE DEF s
  <2>3. ASSUME NEW d \in BOOLEAN, SlowsDown(s, d) PROVE Q
    <3>1. Len(s) = 1 /\ s[1].phase = "dec"
      BY <2>3, Slowing, StageFields
    <3> QED BY <3>1
  <2>4. ASSUME NEW d \in BOOLEAN, NEW f \in TcStaged, SpeedsUp(s, d, f) PROVE Q
    <3>1. Len(s) = 2 /\ s[1].phase = "acc" /\ s[2].phase = "ats" /\ s[1].dir = d /\ s[2].dir = d
      BY <2>4, Speeding, StageFields
    <3> QED BY <3>1
  <2>5. ASSUME NEW d \in BOOLEAN, NEW f \in TcStaged, Runs(s, d, f) PROVE Q
    <3>1. Len(s) = 1 /\ s[1].phase = "ats"
      BY <2>5, Running, StageFields
    <3> QED BY <3>1
  <2>6. ASSUME NEW d \in BOOLEAN, NEW e \in BOOLEAN, NEW f \in TcStaged, TurnsRound(s, d, e, f) PROVE Q
    <3>1. Len(s) = 3 /\ s[1].phase = "dec" /\ s[2].phase = "acc" /\ s[3].phase = "ats"
      BY <2>6, Turning, StageFields
    <3>2. s[1].dir = d /\ s[2].dir = e /\ s[3].dir = e
      BY <2>6, Turning, StageFields
    <3>3. d # e
      BY <2>6 DEF TurnsRound
    <3> QED BY <3>1, <3>2, <3>3
  <2> HIDE DEF Q
  <2>7. Q
    BY <2>1, <2>3, <2>4, <2>5, <2>6, Forms
  <2> QED BY <2>2, <2>7 DEF Q, s
<1>6. Tc!MotionServed
  BY <1>5, Zenon DEF Tc!MotionServed, none, Tc!none
<1>7. Tc!FoundIsRead
  BY <1>1 DEF FoundOf, Tc!FoundIsRead, Tc!Nowhere, none, Tc!none
<1> QED BY <1>3, <1>4, <1>6, <1>7

----------------------------------------------------------------------------
(* The controllers together.                                               *)
TapesInv ==
    /\ controller \in Controllers
    /\ controller = "tc" => TcInv
    /\ controller = "mt" => TmInv
    /\ controller = "td" => TdInv
    /\ controller = "ct" => CtInv

LEMMA TapesInitHolds == TapesInit => TapesInv
BY ControllersAssumption, TcInitHolds, TmInitHolds, TdInitHolds, CtInitHolds DEF TapesInit, TapesInv

LEMMA RestsKept ==
    ASSUME TapesInv, UNCHANGED allvars
    PROVE  TapesInv'
<1>1. controller' = controller
  BY DEF allvars, ownvars
<1>2. CASE controller = "tc"
  <2>1. dt' = dt /\ program' = program /\ found' = found
    BY DEF allvars, tcvars
  <2>2. program \in Programs /\ TcHolds(dt) /\ FoundOf(dt, found)
    BY <1>2 DEF TapesInv, TcInv
  <2>3. TcInv'
    BY <2>1, <2>2, SameProgram
  <2> QED BY <1>1, <1>2, <2>3 DEF TapesInv
<1>3. CASE controller = "mt"
  <2>1. UNCHANGED <<mt_cu, mt_fn, mt_sta, mt_done, int_mt, USTAT, pos, active, attached, locks, polite, ordered>>
    BY DEF allvars, tmvars, ownvars
  <2>2. TmInv
    BY <1>3 DEF TapesInv
  <2>3. TmInv'
    BY <2>1, <2>2
    DEF TmInv, Tm!TypeOK, Tm!IntAgrees, Tm!Calls, Tm!StatusTrue, Tm!OrderStands, Tm!mt_busy,
        LeftTheBeginning, OrderTyped
  <2> QED BY <1>1, <1>3, <2>3 DEF TapesInv
<1>4. CASE controller = "td"
  <2>1. UNCHANGED <<td_cmd, td_flags, td_tme, motion, obeys, active, attached, locks>>
    BY DEF allvars, tdvars, ownvars
  <2>2. TdInv
    BY <1>4 DEF TapesInv
  <2>3. TdInv'
    BY <2>1, <2>2 DEF TdInv, Td!TypeOK, Td!CommandObeyed, Td!ErrorEndsWriting, Td!Fast
  <2> QED BY <1>1, <1>4, <2>3 DEF TapesInv
<1>5. CASE controller = "ct"
  <2>1. UNCHANGED <<ct_sra, ct_srb, ct_df, int_ct, ct_write, ct_bptr, ct_blnt, FNC, UST, tape, at, attached,
                    active, locks, polite, chars, said, before>>
    BY DEF allvars, ctvars, ownvars
  <2>2. CtInv
    BY <1>5 DEF TapesInv
  <2>3. CtInv'
    BY <2>1, <2>2
    DEF CtInv, CtRegisters, CtMedia, CtHistory, WorkUnderWay, Ct!IntAgrees, Ct!Calls, Ct!CharsKept,
        Ct!OnItsWay, CtGaps, AtTheGap, GapBehind, OneAtWork
  <2> QED BY <1>1, <1>5, <2>3 DEF TapesInv
<1> QED BY <1>1, <1>2, <1>3, <1>4, <1>5, ControllersAssumption DEF TapesInv

LEMMA TapesInvKept == TapesInv /\ [TapesNext]_allvars => TapesInv'
<1> SUFFICES ASSUME TapesInv, [TapesNext]_allvars PROVE TapesInv'
  OBVIOUS
<1>1. ASSUME controller = "tc", Tc!Next, controller' = controller PROVE TapesInv'
  <2>1. TcInv'
    BY <1>1, TcStepKept DEF TapesInv
  <2> QED BY <1>1, <2>1 DEF TapesInv
<1>2. ASSUME controller = "mt", Tm!Next, controller' = controller PROVE TapesInv'
  <2>1. TmInv'
    BY <1>2, TmStepKept DEF TapesInv
  <2> QED BY <1>2, <2>1 DEF TapesInv
<1>3. ASSUME controller = "td", Td!Next, controller' = controller PROVE TapesInv'
  <2>1. TdInv'
    BY <1>3, TdStepKept DEF TapesInv
  <2> QED BY <1>3, <2>1 DEF TapesInv
<1>4. ASSUME controller = "ct", Ct!Next, controller' = controller PROVE TapesInv'
  <2>1. CtInv'
    BY <1>4, CtStepKept DEF TapesInv
  <2> QED BY <1>4, <2>1 DEF TapesInv
<1>5. TcStep(Tc!Next) => controller = "tc" /\ Tc!Next /\ controller' = controller
  BY Zenon DEF TcStep, ownvars
<1>6. TmStep(Tm!Next) => controller = "mt" /\ Tm!Next /\ controller' = controller
  BY Zenon DEF TmStep
<1>7. TdStep(Td!Next) => controller = "td" /\ Td!Next /\ controller' = controller
  BY Zenon DEF TdStep
<1>8. CtStep(Ct!Next) => controller = "ct" /\ Ct!Next /\ controller' = controller
  BY Zenon DEF CtStep
<1> QED BY <1>1, <1>2, <1>3, <1>4, <1>5, <1>6, <1>7, <1>8, RestsKept, Zenon DEF TapesNext

LEMMA TapesInvHolds == TapesSpec => []TapesInv
<1>1. TapesInit => TapesInv
  BY TapesInitHolds
<1>2. TapesInv /\ [TapesNext]_allvars => TapesInv'
  BY TapesInvKept
<1> QED BY <1>1, <1>2, PTL DEF TapesSpec

\* Every command, service and reset of pdp8_dt.c, pdp8_mt.c, pdp8_td.c and pdp8_ct.c
\* leaves int_req what the flags and their enable call for, and all their state within
\* its types, however large the tapes and the programs are.
THEOREM RequestsAlwaysAgree == TapesSpec => []RequestsAgree
<1>1. TapesInv => RequestsAgree
  <2> SUFFICES ASSUME TapesInv PROVE RequestsAgree
    OBVIOUS
  <2>1. CASE controller = "tc"
    <3>1. Tc!TypeOK /\ Tc!IntAgrees
      BY <2>1, TcShows DEF TapesInv
    <3> QED BY <2>1, <3>1 DEF RequestsAgree
  <2>2. CASE controller = "mt"
    <3>1. Tm!TypeOK /\ Tm!IntAgrees
      BY <2>2, Zenon DEF TapesInv, TmInv
    <3> QED BY <2>2, <3>1 DEF RequestsAgree
  <2>3. CASE controller = "td"
    <3>1. Td!TypeOK
      BY <2>3, Zenon DEF TapesInv, TdInv
    <3> QED BY <2>3, <3>1 DEF RequestsAgree
  <2>4. CASE controller = "ct"
    <3>1. CtRegisters /\ CtMedia /\ CtHistory /\ Ct!IntAgrees
      BY <2>4, Zenon DEF TapesInv, CtInv
    <3>2. Ct!TypeOK
      <4>1. \A u \in Units : Len(tape[u]) <= Capacity /\ at[u] \in 0 .. Len(tape[u])
        <5>1. \A u \in Units : Len(tape[u]) \in Nat
          BY <3>1, LenProperties DEF CtMedia
        <5> QED BY <3>1, <5>1 DEF CtMedia
      <4> QED BY <3>1, <4>1 DEF Ct!TypeOK, CtRegisters, CtMedia, CtHistory
    <3> QED BY <2>4, <3>1, <3>2 DEF RequestsAgree
  <2> QED BY <2>1, <2>2, <2>3, <2>4, ControllersAssumption DEF TapesInv
<1> QED BY <1>1, TapesInvHolds, PTL

\* Every motion of a DECtape has the event that ends it or sends it on, and is followed
\* by what dt_svc and td_svc have follow it; a drive of pdp8_mt.c carries out the
\* command it was given; pdp8_ct.c loses no character unseen and tells no gap twice.
THEOREM EventsAlwaysMatch == TapesSpec => []EventsMatch
<1>1. TapesInv => EventsMatch
  <2> SUFFICES ASSUME TapesInv PROVE EventsMatch
    OBVIOUS
  <2>1. controller = "tc" => Tc!MotionServed
    BY TcShows DEF TapesInv
  <2>2. controller = "mt" => Tm!StatusTrue /\ Tm!OrderStands
    BY Zenon DEF TapesInv, TmInv
  <2>3. controller = "td" => Td!CommandObeyed /\ Td!ErrorEndsWriting
    BY Zenon DEF TapesInv, TdInv
  <2>4. controller = "ct" => Ct!CharsKept /\ Ct!OneGapOnce
    <3> SUFFICES ASSUME controller = "ct" PROVE Ct!CharsKept /\ Ct!OneGapOnce
      OBVIOUS
    <3>1. Ct!CharsKept /\ CtGaps
      BY Zenon DEF TapesInv, CtInv
    <3>2. Ct!OneGapOnce
      BY <3>1 DEF CtGaps, AtTheGap, GapBehind, OneAtWork, Ct!OneGapOnce
    <3> QED BY <3>1, <3>2
  <2> QED BY <2>1, <2>2, <2>3, <2>4, Zenon DEF EventsMatch
<1> QED BY <1>1, TapesInvHolds, PTL

\* When the program reads or writes the block that a search of dt_svc has found, and is
\* quick enough, dt_newfnc has it come to the first word of that block, in either
\* direction.
THEOREM FoundIsAlwaysRead == TapesSpec => []FoundIsRead
<1>1. TapesInv => FoundIsRead
  BY TcShows DEF TapesInv, FoundIsRead
<1> QED BY <1>1, TapesInvHolds, PTL

=============================================================================
