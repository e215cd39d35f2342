----------------------------- MODULE DisksProofs -----------------------------
(***************************************************************************)
(* Proofs about the controllers of MCDisks, for every size of buffer,      *)
(* track, sector, memory and disk, any drives and any program.  A          *)
(* behaviour is about one controller, so that each has an invariant of its *)
(* own.                                                                    *)
(***************************************************************************)
EXTENDS MCDisks, Integers, TLAPS

-----------------------------------------------------------------------------
(* RX8E and RX28.                                                          *)

\* The buffer has room for the word that the next event brings.
RxRoom == /\ rx_state = "FILL" => rx_bptr < Words
          /\ rx_state = "CMD8" => rx_bptr = 0

\* The words of a fill that the program has handed over and the controller has
\* not stored yet: none while the flag is up or has just been seen, else the one
\* that the event waits for.
WordUnderWay ==
    0 \notin unloads /\ polite =>
        /\ rx_state = "CMD8" => active = {} /\ given = 0
        /\ rx_state = "FILL" =>
              \/ active = {} /\ given = rx_bptr /\ ~(rx_tr /\ saw)
              \/ ~rx_tr /\ ~saw /\ given = rx_bptr + 1 /\ rx_dbr = given

RxInv ==
    /\ Rx!TypeOK /\ Rx!DiskDrives \ unloads \subseteq attached
    /\ Rx!IntAgrees /\ RxRoom /\ Rx!EventsMatch /\ WordUnderWay /\ Rx!FillInOrder

-----------------------------------------------------------------------------
(* RL8A: each part is inductive, given the types.                          *)

RlInv == Rl!TypeOK /\ Rl!IntAgrees /\ Rl!OrderStands

-----------------------------------------------------------------------------
(* RF08 and DF32.                                                          *)

\* What is remembered of an order is an order of a polite program.
RfOrdered == ordered # <<>> => polite /\ ordered \in [da : 0 .. Rf!Last - 1, wc : 0 .. MaxWords - 1]
DfOrdered == ordered # <<>> => polite /\ ordered \in [da : 0 .. Df!Last - 1, wc : 0 .. MaxWords - 1]

RfInv == Rf!TypeOK /\ RfOrdered /\ Rf!IntAgrees /\ Rf!PhotocellRuns /\ Rf!CountedWords
DfInv == Df!TypeOK /\ DfOrdered /\ Df!IntAgrees /\ Df!CountedWords

DisksInv ==
    /\ controller \in Controllers
    /\ controller = "rx" => RxInv
    /\ controller = "rl" => RlInv
    /\ controller = "rf" => RfInv
    /\ controller = "df" => DfInv

-----------------------------------------------------------------------------
(* RX8E and RX28: the steps.                                               *)

LEMMA RxBegins == Rx!Init => RxInv
<1> SUFFICES ASSUME Rx!Init PROVE RxInv
  OBVIOUS
<1>1. {rx_28, rx_tr, rx_err, done, enable, int_rx, polite, saw} \subseteq BOOLEAN
  BY DEF Rx!Init
<1>2. {rx_dbr, rx_bptr, given} \subseteq 0 .. Words /\ rx_buf \in [1 .. Words -> 0 .. Words] /\ rx_bptr < Words
  BY RxSizes DEF Rx!SizesAssumption, Rx!Init
<1>3. rx_state = "IDLE" /\ active = {} /\ Rx!DiskDrives \ unloads \subseteq attached /\ rx_csr \in Rx!Commands
      /\ attached \subseteq Rx!DiskDrives /\ unloads \subseteq Rx!DiskDrives
  BY DEF Rx!Init, Rx!Commands, Rx!DiskDrives, Rx!Functions
<1>4. Rx!IntAgrees
  BY DEF Rx!IntAgrees, Rx!Init
<1> QED
  BY <1>1, <1>2, <1>3, <1>4
  DEF RxInv, Rx!TypeOK, Rx!States, RxRoom, Rx!EventsMatch, WordUnderWay, Rx!FillInOrder

\* The flags and the request.
LEMMA RxDone ==
    ASSUME RxInv, NEW error, Rx!rx_done(error)
    PROVE  /\ rx_state' = "IDLE"
           /\ error \in BOOLEAN => rx_err' \in BOOLEAN
           /\ done' \in BOOLEAN /\ enable' \in BOOLEAN /\ int_rx' \in BOOLEAN
<1>1. rx_err \in BOOLEAN /\ done \in BOOLEAN /\ enable \in BOOLEAN /\ int_rx \in BOOLEAN
  BY DEF RxInv, Rx!TypeOK
<1> QED BY <1>1 DEF Rx!rx_done, Rx!INT_UPDATE

LEMMA RxFlagsTyped ==
    ASSUME RxInv, Rx!Next
    PROVE  ({rx_28, rx_tr, rx_err, done, enable, int_rx, polite, saw} \subseteq BOOLEAN)'
<1>0. /\ rx_28 \in BOOLEAN /\ rx_tr \in BOOLEAN /\ rx_err \in BOOLEAN /\ done \in BOOLEAN
      /\ enable \in BOOLEAN /\ int_rx \in BOOLEAN /\ polite \in BOOLEAN /\ saw \in BOOLEAN
  BY DEF RxInv, Rx!TypeOK
<1> USE <1>0 DEF Rx!intvars, Rx!ctlvars, Rx!drivevars, Rx!progvars
<1>1. CASE Rx!rx
  <2>1. ASSUME NEW csr \in Rx!Commands, NEW bytes \in BOOLEAN, Rx!LCD(csr, bytes)
        PROVE  ({rx_28, rx_tr, rx_err, done, enable, int_rx, polite, saw} \subseteq BOOLEAN)'
    <3>1. rx_tr' \in BOOLEAN
      BY <2>1 DEF Rx!LCD, Rx!rx_cmd
    <3> QED BY <2>1, <3>1 DEF Rx!LCD, Rx!ClearDone
  <2>2. CASE Rx!XDRCommand
    <3>1. rx_tr' \in BOOLEAN
      BY <2>2 DEF Rx!XDRCommand, Rx!rx_cmd
    <3> QED BY <2>2, <3>1 DEF Rx!XDRCommand
  <2>3. ASSUME NEW word \in 0 .. Words, Rx!XDRGive(word)
        PROVE  ({rx_28, rx_tr, rx_err, done, enable, int_rx, polite, saw} \subseteq BOOLEAN)'
    BY <2>3 DEF Rx!XDRGive
  <2>4. CASE Rx!XDRTake \/ Rx!STR \/ Rx!SER \/ Rx!SDN
    BY <2>4 DEF Rx!XDRTake, Rx!STR, Rx!SER, Rx!SDN, Rx!Seen, Rx!ClearDone
  <2>5. ASSUME NEW on \in BOOLEAN, Rx!INTR(on)
        PROVE  ({rx_28, rx_tr, rx_err, done, enable, int_rx, polite, saw} \subseteq BOOLEAN)'
    <3>1. int_rx' \in BOOLEAN
      BY <2>5 DEF Rx!INTR, Rx!INT_UPDATE
    <3> QED BY <2>5, <3>1 DEF Rx!INTR
  <2> QED BY <1>1, <2>1, <2>2, <2>3, <2>4, <2>5 DEF Rx!rx
<1>2. CASE Rx!rx_reset
  BY <1>2 DEF Rx!rx_reset
<1>3. ASSUME NEW u \in Rx!DiskDrives, Rx!rx_svc(u)
      PROVE  ({rx_28, rx_tr, rx_err, done, enable, int_rx, polite, saw} \subseteq BOOLEAN)'
  <2>1. /\ rx_28' = rx_28 /\ polite' = polite /\ saw' = saw /\ rx_tr' \in BOOLEAN
        /\ \/ UNCHANGED <<rx_err, done, enable, int_rx>>
           \/ \E error \in BOOLEAN : Rx!rx_done(error)
    BY <1>3 DEF Rx!rx_svc, Rx!EmptyBuffer, Rx!FillBuffer, Rx!TakeSector, Rx!TakeTrack, Rx!TransferSector,
                Rx!ConfirmDensity, Rx!SetDensity, Rx!CompleteCommand, Rx!CompleteInit, Rx!IdleService
  <2>2. CASE \E error \in BOOLEAN : Rx!rx_done(error)
    BY <2>1, <2>2, RxDone
  <2>3. CASE UNCHANGED <<rx_err, done, enable, int_rx>>
    BY <2>1, <2>3
  <2> QED BY <2>1, <2>2, <2>3
<1>4. ASSUME NEW u \in Rx!DiskDrives, Rx!Attach(u) \/ Rx!Detach(u)
      PROVE  ({rx_28, rx_tr, rx_err, done, enable, int_rx, polite, saw} \subseteq BOOLEAN)'
  BY <1>4 DEF Rx!Attach, Rx!Detach
<1> QED BY <1>1, <1>2, <1>3, <1>4 DEF Rx!Next

LEMMA RxRequests == ASSUME RxInv, Rx!Next PROVE Rx!IntAgrees'
<1>0. done \in BOOLEAN /\ enable \in BOOLEAN /\ int_rx \in BOOLEAN /\ Rx!IntAgrees
  BY DEF RxInv, Rx!TypeOK
<1>1. \/ UNCHANGED <<done, enable, int_rx>>
      \/ done' = FALSE /\ int_rx' = FALSE
      \/ \E error : Rx!rx_done(error)
      \/ \E on \in BOOLEAN : Rx!INTR(on)
      \/ Rx!rx_reset
  <2>1. CASE Rx!rx
    BY <2>1 DEF Rx!rx, Rx!LCD, Rx!XDRCommand, Rx!XDRGive, Rx!XDRTake, Rx!STR, Rx!SER, Rx!SDN, Rx!ClearDone,
                Rx!intvars
  <2>2. ASSUME NEW u \in Rx!DiskDrives, Rx!rx_svc(u)
        PROVE  UNCHANGED <<done, enable, int_rx>> \/ \E error : Rx!rx_done(error)
    BY <2>2 DEF Rx!rx_svc, Rx!EmptyBuffer, Rx!FillBuffer, Rx!TakeSector, Rx!TakeTrack, Rx!TransferSector,
                Rx!ConfirmDensity, Rx!SetDensity, Rx!CompleteCommand, Rx!CompleteInit, Rx!IdleService, Rx!intvars
  <2>3. ASSUME NEW u \in Rx!DiskDrives, Rx!Attach(u) \/ Rx!Detach(u)
        PROVE  UNCHANGED <<done, enable, int_rx>>
    BY <2>3 DEF Rx!Attach, Rx!Detach, Rx!intvars
  <2> QED BY <2>1, <2>2, <2>3 DEF Rx!Next
<1>2. ASSUME NEW error, Rx!rx_done(error) PROVE Rx!IntAgrees'
  BY <1>0, <1>2 DEF Rx!rx_done, Rx!INT_UPDATE, Rx!IntAgrees
<1>3. ASSUME NEW on \in BOOLEAN, Rx!INTR(on) PROVE Rx!IntAgrees'
  BY <1>0, <1>3 DEF Rx!INTR, Rx!INT_UPDATE, Rx!IntAgrees
<1>4. CASE Rx!rx_reset
  BY <1>4 DEF Rx!rx_reset, Rx!IntAgrees
<1> QED BY <1>0, <1>1, <1>2, <1>3, <1>4 DEF Rx!IntAgrees

\* The words of the buffer.
LEMMA RxWords ==
    ASSUME RxInv, Rx!Next
    PROVE  /\ ({rx_dbr, rx_bptr, given} \subseteq 0 .. Words)'
           /\ rx_buf' \in [1 .. Words -> 0 .. Words]
           /\ RxRoom'
<1> USE RxSizes DEF RxInv, Rx!TypeOK, RxRoom, Rx!SizesAssumption, Rx!ctlvars, Rx!progvars
<1> DEFINE Q == /\ ({rx_dbr, rx_bptr, given} \subseteq 0 .. Words)'
                /\ rx_buf' \in [1 .. Words -> 0 .. Words]
                /\ RxRoom'
<1>1. ASSUME NEW csr \in Rx!Commands, NEW bytes \in BOOLEAN, Rx!LCD(csr, bytes) PROVE Q
  BY <1>1 DEF Rx!LCD, Rx!rx_cmd
<1>2. CASE Rx!XDRCommand
  BY <1>2 DEF Rx!XDRCommand
<1>3. ASSUME NEW word \in 0 .. Words, Rx!XDRGive(word) PROVE Q
  BY <1>3 DEF Rx!XDRGive
<1>4. CASE Rx!XDRTake \/ Rx!STR \/ Rx!SER \/ Rx!SDN \/ \E on \in BOOLEAN : Rx!INTR(on)
  BY <1>4 DEF Rx!XDRTake, Rx!STR, Rx!SER, Rx!SDN, Rx!INTR
<1>5. CASE Rx!rx_reset
  BY <1>5 DEF Rx!rx_reset
<1>6. ASSUME NEW u \in Rx!DiskDrives, Rx!rx_svc(u) PROVE Q
  <2>1. \A e : Rx!rx_done(e) => rx_state' = "IDLE"
    BY DEF Rx!rx_done
  <2>2. CASE Rx!EmptyBuffer(u)
    <3>1. /\ UNCHANGED <<rx_buf, given>> /\ rx_dbr' = 0 /\ rx_state = "EMPTY"
          /\ \/ rx_bptr' = rx_bptr /\ rx_state' = "IDLE"
             \/ rx_bptr < Words /\ rx_bptr' = rx_bptr + 1 /\ rx_state' = rx_state
      BY <2>1, <2>2 DEF Rx!EmptyBuffer
    <3> QED BY <3>1
  <2>3. CASE Rx!FillBuffer(u)
    <3>1. /\ rx_state = "FILL" /\ rx_buf' = [rx_buf EXCEPT ![rx_bptr + 1] = rx_dbr] /\ rx_bptr' = rx_bptr + 1
          /\ given' = given
          /\ \/ rx_state' = "IDLE" /\ rx_dbr' = 0
             \/ ~(rx_bptr' >= Words) /\ rx_state' = rx_state /\ rx_dbr' = rx_dbr
      BY <2>1, <2>3 DEF Rx!FillBuffer, Rx!FilledUp
    <3> QED BY <3>1
  <2>4. CASE Rx!TakeSector(u) \/ Rx!TakeTrack(u) \/ Rx!ConfirmDensity(u) \/ Rx!SetDensity(u)
    <3>1. /\ UNCHANGED <<rx_bptr, rx_buf, given>> /\ rx_dbr' \in {rx_dbr, 0}
          /\ rx_state' \in {"RWDT", "RWXFR", "SDXFR", "IDLE"}
      BY <2>1, <2>4 DEF Rx!TakeSector, Rx!TakeTrack, Rx!ConfirmDensity, Rx!SetDensity
    <3> QED BY <3>1
  <2>5. CASE Rx!TransferSector(u) \/ Rx!CompleteCommand(u) \/ Rx!CompleteInit(u) \/ Rx!IdleService(u)
    BY <2>1, <2>5 DEF Rx!TransferSector, Rx!CompleteCommand, Rx!CompleteInit, Rx!IdleService
  <2> QED BY <1>6, <2>2, <2>3, <2>4, <2>5 DEF Rx!rx_svc
<1>7. ASSUME NEW u \in Rx!DiskDrives, Rx!Attach(u) \/ Rx!Detach(u) PROVE Q
  BY <1>7 DEF Rx!Attach, Rx!Detach
<1> QED BY <1>1, <1>2, <1>3, <1>4, <1>5, <1>6, <1>7 DEF Rx!Next, Rx!rx

\* The state, the command and the drives.
LEMMA RxStateTyped ==
    ASSUME RxInv, Rx!Next
    PROVE  /\ rx_state' \in Rx!States /\ rx_csr' \in Rx!Commands
           /\ (active \subseteq Rx!DiskDrives /\ attached \subseteq Rx!DiskDrives /\ unloads \subseteq Rx!DiskDrives)'
           /\ Rx!DiskDrives \ unloads' \subseteq attached'
<1> USE DEF RxInv, Rx!TypeOK, Rx!States, Rx!Commands, Rx!DiskDrives, Rx!Functions, Rx!ctlvars, Rx!drivevars
<1>1. CASE Rx!rx
  BY <1>1 DEF Rx!rx, Rx!LCD, Rx!XDRCommand, Rx!XDRGive, Rx!XDRTake, Rx!STR, Rx!SER, Rx!SDN, Rx!INTR,
              Rx!rx_cmd, Rx!NextState
<1>2. CASE Rx!rx_reset
  BY <1>2 DEF Rx!rx_reset, Rx!Cancel1
<1>3. ASSUME NEW u \in Rx!DiskDrives, Rx!rx_svc(u)
      PROVE  /\ rx_state' \in Rx!States
             /\ UNCHANGED <<rx_csr, attached, unloads>> /\ active' \subseteq active
  BY <1>3 DEF Rx!rx_svc, Rx!EmptyBuffer, Rx!FillBuffer, Rx!TakeSector, Rx!TakeTrack, Rx!TransferSector,
              Rx!ConfirmDensity, Rx!SetDensity, Rx!CompleteCommand, Rx!CompleteInit, Rx!IdleService, Rx!rx_done,
              Rx!Fires
<1>4. ASSUME NEW u \in Rx!DiskDrives, Rx!Attach(u) \/ Rx!Detach(u)
      PROVE  /\ UNCHANGED <<rx_state, rx_csr, active, unloads>>
             /\ attached' \subseteq Rx!DiskDrives /\ Rx!DiskDrives \ unloads' \subseteq attached'
  BY <1>4 DEF Rx!Attach, Rx!Detach
<1> QED BY <1>1, <1>2, <1>3, <1>4 DEF Rx!Next

\* The event and the words of a fill.
LEMMA RxEvents == ASSUME RxInv, Rx!Next PROVE Rx!EventsMatch'
<1> USE DEF RxInv, Rx!TypeOK, Rx!EventsMatch, Rx!ctlvars, Rx!drivevars, Rx!DiskDrives, Rx!States, Rx!Commands
<1>1. ASSUME NEW csr \in Rx!Commands, NEW bytes \in BOOLEAN, Rx!LCD(csr, bytes) PROVE Rx!EventsMatch'
  BY <1>1 DEF Rx!LCD, Rx!rx_cmd, Rx!NextState
<1>2. CASE Rx!XDRCommand
  BY <1>2 DEF Rx!XDRCommand, Rx!rx_cmd, Rx!NextState
<1>3. ASSUME NEW word \in 0 .. Words, Rx!XDRGive(word) PROVE Rx!EventsMatch'
  BY <1>3 DEF Rx!XDRGive
<1>4. CASE Rx!XDRTake \/ Rx!STR \/ Rx!SER \/ Rx!SDN \/ \E on \in BOOLEAN : Rx!INTR(on)
  BY <1>4 DEF Rx!XDRTake, Rx!STR, Rx!SER, Rx!SDN, Rx!INTR
<1>5. CASE Rx!rx_reset
  BY <1>5 DEF Rx!rx_reset, Rx!Cancel1
<1>6. ASSUME NEW u \in Rx!DiskDrives, Rx!rx_svc(u) PROVE Rx!EventsMatch'
  BY <1>6 DEF Rx!rx_svc, Rx!EmptyBuffer, Rx!FillBuffer, Rx!TakeSector, Rx!TakeTrack, Rx!TransferSector,
              Rx!ConfirmDensity, Rx!SetDensity, Rx!CompleteCommand, Rx!CompleteInit, Rx!IdleService, Rx!rx_done,
              Rx!Fires
<1>7. ASSUME NEW u \in Rx!DiskDrives, Rx!Attach(u) \/ Rx!Detach(u) PROVE Rx!EventsMatch'
  BY <1>7 DEF Rx!Attach, Rx!Detach
<1> QED BY <1>1, <1>2, <1>3, <1>4, <1>5, <1>6, <1>7 DEF Rx!Next, Rx!rx

LEMMA RxFills == ASSUME RxInv, Rx!Next PROVE WordUnderWay' /\ Rx!FillInOrder'
<1> USE DEF RxInv, Rx!ctlvars, Rx!drivevars, Rx!progvars
<1>0. ASSUME rx_state' \notin {"CMD8", "FILL"} PROVE WordUnderWay' /\ Rx!FillInOrder'
  BY <1>0 DEF WordUnderWay, Rx!FillInOrder
<1>1. ASSUME NEW csr \in Rx!Commands, NEW bytes \in BOOLEAN, Rx!LCD(csr, bytes)
      PROVE  WordUnderWay' /\ Rx!FillInOrder'
  BY <1>1 DEF Rx!LCD, Rx!rx_cmd, Rx!NextState, WordUnderWay, Rx!FillInOrder, Rx!EventsMatch
<1>2. CASE Rx!XDRCommand
  BY <1>2 DEF Rx!XDRCommand, Rx!rx_cmd, Rx!NextState, WordUnderWay, Rx!FillInOrder, Rx!EventsMatch, RxRoom
<1>3. ASSUME NEW word \in 0 .. Words, Rx!XDRGive(word) PROVE WordUnderWay' /\ Rx!FillInOrder'
  BY <1>3 DEF Rx!XDRGive, WordUnderWay, Rx!FillInOrder, Rx!TypeOK
<1>4. CASE Rx!XDRTake \/ Rx!SER \/ Rx!SDN \/ \E on \in BOOLEAN : Rx!INTR(on)
  BY <1>4 DEF Rx!XDRTake, Rx!SER, Rx!SDN, Rx!INTR, WordUnderWay, Rx!FillInOrder
<1>5. CASE Rx!STR
  BY <1>5 DEF Rx!STR, Rx!Seen, WordUnderWay, Rx!FillInOrder
<1>6. CASE Rx!rx_reset
  BY <1>6, <1>0 DEF Rx!rx_reset
<1>7. ASSUME NEW u \in Rx!DiskDrives, Rx!FillBuffer(u) PROVE WordUnderWay' /\ Rx!FillInOrder'
  <2>1. CASE rx_state' = "IDLE"
    BY <2>1, <1>0
  <2>2. CASE rx_state' # "IDLE" /\ 0 \notin unloads /\ polite
    <3>1. /\ rx_buf' = [rx_buf EXCEPT ![rx_bptr + 1] = rx_dbr] /\ rx_bptr' = rx_bptr + 1
          /\ rx_tr' = TRUE /\ UNCHANGED <<saw, given, rx_dbr, rx_state>>
          /\ u \in active /\ active' = active \ {u} /\ rx_state = "FILL"
      BY <1>7, <2>2 DEF Rx!FillBuffer, Rx!rx_done, Rx!Fires
    <3>2. ~saw /\ given = rx_bptr + 1 /\ rx_dbr = given
      BY <2>2, <3>1 DEF WordUnderWay
    <3>3. active' = {}
      BY <2>2, <3>1 DEF Rx!EventsMatch
    <3>4. rx_bptr \in Nat /\ rx_bptr + 1 \in 1 .. Words /\ rx_buf \in [1 .. Words -> 0 .. Words]
      BY <3>1, RxSizes DEF Rx!TypeOK, RxRoom, Rx!SizesAssumption
    <3>5. \A i \in 1 .. rx_bptr' : rx_buf'[i] = i
      BY <2>2, <3>1, <3>2, <3>4 DEF Rx!FillInOrder
    <3> QED BY <3>1, <3>2, <3>3, <3>5 DEF WordUnderWay, Rx!FillInOrder
  <2> QED BY <1>7, <2>1, <2>2 DEF Rx!FillBuffer, WordUnderWay, Rx!FillInOrder
<1>8. ASSUME NEW u \in Rx!DiskDrives, Rx!rx_svc(u), ~Rx!FillBuffer(u) PROVE rx_state' \notin {"CMD8", "FILL"}
  BY <1>8 DEF Rx!rx_svc, Rx!EmptyBuffer, Rx!TakeSector, Rx!TakeTrack, Rx!TransferSector, Rx!ConfirmDensity,
              Rx!SetDensity, Rx!CompleteCommand, Rx!CompleteInit, Rx!IdleService, Rx!rx_done
<1>9. ASSUME NEW u \in Rx!DiskDrives, Rx!Attach(u) \/ Rx!Detach(u) PROVE WordUnderWay' /\ Rx!FillInOrder'
  BY <1>9 DEF Rx!Attach, Rx!Detach, WordUnderWay, Rx!FillInOrder
<1> QED BY <1>0, <1>1, <1>2, <1>3, <1>4, <1>5, <1>6, <1>7, <1>8, <1>9 DEF Rx!Next, Rx!rx

LEMMA RxSteps == RxInv /\ Rx!Next => RxInv'
BY RxFlagsTyped, RxRequests, RxWords, RxStateTyped, RxEvents, RxFills DEF RxInv, Rx!TypeOK

-----------------------------------------------------------------------------
(* RL8A: the steps.                                                        *)

LEMMA RlNumbers ==
    /\ 0 \in Drives /\ Cylinders \in Nat \ {0} /\ RL_NUMSC \in Nat \ {0}
    /\ RL_NUMBY \in Nat \ {0} /\ MaxWords \in Nat \ {0}
    /\ Orders \subseteq Rl!Controls /\ Seeks \subseteq Rl!Addresses /\ WordCounts \subseteq 0 .. MaxWords - 1
BY RlSizes DEF Rl!SizesAssumption

\* The sectors that a number of bytes takes.
LEMMA SectorsTaken ==
    ASSUME NEW bytes \in Nat, NEW size \in Nat \ {0}, NEW n \in Nat, bytes <= n * size
    PROVE  (bytes + size - 1) \div size \in 0 .. n
OBVIOUS

LEMMA RlBegins == Rl!Init => RlInv
<1> SUFFICES ASSUME Rl!Init PROVE RlInv
  OBVIOUS
<1>1. rlsa \in 0 .. RL_NUMSC /\ rlwc \in 0 .. MaxWords - 1 /\ rlcsa \in Rl!Addresses
      /\ TRK \in [Drives -> 0 .. Cylinders - 1]
  BY RlNumbers DEF Rl!Init, Rl!Addresses
<1>2. rlcsb \in Rl!Controls
  BY RlNumbers DEF Rl!Init, Rl!Cleared, Rl!Controls, Rl!Functions
<1>3. {rl_done, rl_erf, int_rl, polite} \subseteq BOOLEAN
  BY DEF Rl!Init
<1> QED BY <1>1, <1>2, <1>3 DEF Rl!Init, RlInv, Rl!TypeOK, Rl!IntAgrees, Rl!OrderStands

\* What a step may do to the flags, the drives and the order when it does not end or
\* begin a command.
LEMMA RlCleared ==
    ASSUME RlInv, Rl!rl_reset, TRK' \in [Drives -> 0 .. Cylinders - 1]
    PROVE  RlInv'
<1>1. rlsa' \in 0 .. RL_NUMSC /\ rlwc' \in 0 .. MaxWords - 1 /\ rlcsa' \in Rl!Addresses
  BY RlNumbers DEF Rl!rl_reset, Rl!Addresses
<1>2. rlcsb' \in Rl!Controls
  BY RlNumbers DEF Rl!rl_reset, Rl!Cleared, Rl!Controls, Rl!Functions
<1> QED
  BY <1>1, <1>2
  DEF RlInv, Rl!TypeOK, Rl!IntAgrees, Rl!OrderStands, Rl!rl_reset, Rl!Cancel, Rl!Cleared

LEMMA RlCommanded ==
    ASSUME RlInv, NEW c \in Orders, Rl!Command(c)
    PROVE  RlInv'
<1>1. c \in Rl!Controls /\ c.ie \in BOOLEAN /\ c.drive \in Drives /\ c \in Rl!Controls
  BY RlNumbers DEF Rl!Controls
<1>2. TRK' \in [Drives -> 0 .. Cylinders - 1]
  <2>1. TRK \in [Drives -> 0 .. Cylinders - 1] /\ rlcsa \in Rl!Addresses
    BY DEF RlInv, Rl!TypeOK
  <2>2. \A cyl \in 0 .. Cylinders - 1 : Rl!SeekTo(cyl) \in 0 .. Cylinders - 1
    BY <2>1, RlNumbers DEF Rl!SeekTo, Rl!Addresses
  <2> QED BY <1>1, <2>1, <2>2 DEF Rl!Command
<1>3. CASE c.func \in {"MNT", "CLRD"}
  BY <1>1, <1>2, <1>3 DEF Rl!Command, RlInv, Rl!TypeOK, Rl!IntAgrees, Rl!OrderStands, Rl!Ready
<1>4. CASE c.func \notin {"MNT", "CLRD"}
  <2>1. Rl!TypeOK'
    BY <1>1, <1>2, <1>4 DEF Rl!Command, RlInv, Rl!TypeOK
  <2>2. Rl!IntAgrees'
    BY <1>4 DEF Rl!Command, Rl!IntAgrees
  <2>3. polite => active = {}
    BY DEF Rl!Command, Rl!Ready, RlInv, Rl!OrderStands
  <2>4. polite => ordered' = Rl!Registers' /\ ordered' # <<>> /\ active' = {rlcsb'.drive}
    BY <1>4, <2>3 DEF Rl!Command, Rl!Registers
  <2>5. polite' = polite /\ ~rl_done' /\ rler' = {} /\ ~rl_erf'
    BY <1>4 DEF Rl!Command
  <2> QED BY <2>1, <2>2, <2>4, <2>5 DEF RlInv, Rl!OrderStands
<1> QED BY <1>3, <1>4

\* A command that has come to its end, whatever it has moved.
LEMMA RlFinished ==
    ASSUME RlInv, NEW u \in active, NEW errors \in SUBSET {"DRDY", "DRE", "HDE", "INCMP"}, Rl!Finish(u, errors),
           rlsa' \in 0 .. RL_NUMSC, rlwc' \in 0 .. MaxWords - 1
    PROVE  RlInv'
<1>1. rl_erf' \in BOOLEAN
  BY DEF Rl!Finish, Rl!rl_set_done
<1>2. int_rl' = rlcsb.ie /\ rl_done' = TRUE /\ rlcsb.ie \in BOOLEAN /\ rlcsb' = rlcsb
  BY DEF Rl!Finish, Rl!rl_set_done, RlInv, Rl!TypeOK, Rl!Controls
<1>3. Rl!TypeOK'
  BY <1>1, <1>2 DEF Rl!Finish, Rl!rl_set_done, RlInv, Rl!TypeOK
<1>4. Rl!IntAgrees'
  BY <1>2 DEF Rl!IntAgrees
<1>5. Rl!OrderStands'
  BY DEF Rl!Finish, RlInv, Rl!OrderStands
<1> QED BY <1>3, <1>4, <1>5 DEF RlInv

LEMMA RlServed ==
    ASSUME RlInv, NEW u \in Drives, Rl!rl_svc(u)
    PROVE  RlInv'
<1>1. CASE Rl!CommandEnds(u)
  <2>1. rler \union Rl!Fails(u) \in SUBSET {"DRDY", "DRE", "HDE", "INCMP"}
        /\ Rl!Fails(u) \in SUBSET {"DRDY", "DRE", "HDE", "INCMP"}
    BY DEF Rl!Fails, RlInv, Rl!TypeOK
  <2>2. Rl!Finish(u, Rl!Fails(u)) /\ rlsa' = rlsa /\ rlwc' = rlwc /\ u \in active
    BY <1>1 DEF Rl!rl_svc, Rl!CommandEnds
  <2>3. rlsa' \in 0 .. RL_NUMSC /\ rlwc' \in 0 .. MaxWords - 1
    BY <2>2 DEF RlInv, Rl!TypeOK
  <2> QED BY <2>1, <2>2, <2>3, RlFinished
<1>2. CASE Rl!Transfer(u)
  <2>1. /\ Rl!Moves(u) /\ rlwc' = (rlwc + Rl!Amount[1]) % MaxWords
        /\ rlsa' = rlsa + ((Rl!Amount[2] + RL_NUMBY - 1) \div RL_NUMBY)
        /\ Rl!Finish(u, IF rlwc' # 0 THEN {"INCMP"} ELSE {}) /\ u \in active
    BY <1>2 DEF Rl!rl_svc, Rl!Transfer, Rl!Fails, Rl!Plain
  <2>2. rlsa \in 0 .. RL_NUMSC - 1 /\ rlwc \in 0 .. MaxWords - 1
    BY <2>1, RlNumbers DEF Rl!Moves, RlInv, Rl!TypeOK
  <2> DEFINE n == MaxWords - rlwc
             room == (RL_NUMSC - rlsa) * RL_NUMBY
             b == (n * 3 + 1) \div 2
  <2>3. n \in Nat /\ room \in Nat /\ b \in Nat /\ RL_NUMBY <= room
    BY <2>2, RlNumbers
  <2>4. Rl!Amount[1] \in Nat /\ Rl!Amount[2] \in Nat /\ Rl!Amount[2] <= room
    <3>1. CASE rlcsb.bytes
      BY <2>3, <3>1 DEF Rl!Amount, Rl!Lesser
    <3>2. CASE ~rlcsb.bytes
      BY <2>3, <3>2, RlNumbers DEF Rl!Amount
    <3> QED BY <3>1, <3>2
  <2>5. rlwc' \in 0 .. MaxWords - 1
    BY <2>1, <2>2, <2>4, RlNumbers
  <2>6. (Rl!Amount[2] + RL_NUMBY - 1) \div RL_NUMBY \in 0 .. RL_NUMSC - rlsa
    BY <2>2, <2>4, RlNumbers, SectorsTaken
  <2>7. rlsa' \in 0 .. RL_NUMSC
    BY <2>1, <2>2, <2>6, RlNumbers
  <2>8. (IF rlwc' # 0 THEN {"INCMP"} ELSE {}) \in SUBSET {"DRDY", "DRE", "HDE", "INCMP"}
    OBVIOUS
  <2> QED BY <2>1, <2>5, <2>7, <2>8, RlFinished
<1> QED BY <1>1, <1>2 DEF Rl!rl_svc

LEMMA RlSteps == RlInv /\ Rl!Next => RlInv'
<1> SUFFICES ASSUME RlInv, Rl!Next PROVE RlInv'
  OBVIOUS
<1>1. CASE Rl!SkipOnDone
  BY <1>1 DEF Rl!SkipOnDone, Rl!ClearDone, RlInv, Rl!TypeOK, Rl!IntAgrees, Rl!OrderStands, Rl!Registers, Rl!drivevars
<1>2. ASSUME NEW a \in Seeks, Rl!LoadAddress(a) PROVE RlInv'
  <2>1. rlcsa' \in Rl!Addresses
    BY <1>2, RlNumbers DEF Rl!LoadAddress
  <2> QED BY <1>2, <2>1 DEF Rl!LoadAddress, Rl!Ready, RlInv, Rl!TypeOK, Rl!IntAgrees, Rl!OrderStands, Rl!flagvars,
                            Rl!drivevars
<1>3. ASSUME NEW s \in 0 .. RL_NUMSC, Rl!LoadSector(s) PROVE RlInv'
  <2>1. rlsa' \in 0 .. RL_NUMSC
    BY <1>3 DEF Rl!LoadSector
  <2> QED BY <1>3, <2>1 DEF Rl!LoadSector, Rl!Ready, RlInv, Rl!TypeOK, Rl!IntAgrees, Rl!OrderStands, Rl!flagvars,
                            Rl!drivevars
<1>4. ASSUME NEW n \in WordCounts, Rl!LoadCount(n) PROVE RlInv'
  <2>1. rlwc' \in 0 .. MaxWords - 1
    BY <1>4, RlNumbers DEF Rl!LoadCount
  <2> QED BY <1>4, <2>1 DEF Rl!LoadCount, Rl!Ready, RlInv, Rl!TypeOK, Rl!IntAgrees, Rl!OrderStands, Rl!flagvars,
                            Rl!drivevars
<1>5. CASE Rl!ReadErrors
  BY <1>5 DEF Rl!ReadErrors, Rl!DriveReady, RlInv, Rl!TypeOK, Rl!IntAgrees, Rl!OrderStands, Rl!Registers,
              Rl!drivevars
<1>6. CASE Rl!SkipOnError
  BY <1>6 DEF Rl!SkipOnError, RlInv, Rl!TypeOK, Rl!IntAgrees, Rl!OrderStands, Rl!Registers, Rl!drivevars
<1>7. ASSUME NEW u \in Drives, Rl!rl_attach(u) \/ Rl!Detach(u) PROVE RlInv'
  <2>1. attached' \subseteq Drives /\ locks' \subseteq Drives /\ TRK' \in [Drives -> 0 .. Cylinders - 1]
    BY <1>7, RlNumbers DEF Rl!rl_attach, Rl!Detach, RlInv, Rl!TypeOK
  <2>2. UNCHANGED <<rlcsb, rlcsa, rlsa, rlwc, rl_done, rler, rl_erf, int_rl, active, polite, ordered>>
    BY <1>7 DEF Rl!rl_attach, Rl!Detach, Rl!flagvars
  <2> QED BY <2>1, <2>2 DEF RlInv, Rl!TypeOK, Rl!IntAgrees, Rl!OrderStands, Rl!Registers
<1>8. CASE Rl!Clear
  BY <1>8, RlCleared DEF Rl!Clear, RlInv, Rl!TypeOK
<1>9. CASE Rl!rl_boot
  <2>1. TRK' \in [Drives -> 0 .. Cylinders - 1]
    BY <1>9, RlNumbers DEF Rl!rl_boot, RlInv, Rl!TypeOK
  <2> QED BY <1>9, <2>1, RlCleared DEF Rl!rl_boot
<1> QED BY <1>1, <1>2, <1>3, <1>4, <1>5, <1>6, <1>7, <1>8, <1>9, RlCommanded, RlServed
        DEF Rl!Next, Rl!rl60, Rl!rl61

-----------------------------------------------------------------------------
(* Addresses and counts that run in step, in rings of different sizes.     *)

LEMMA Remainder ==
    ASSUME NEW L \in Nat \ {0}, NEW q \in Int, NEW r \in 0 .. L - 1
    PROVE  (q * L + r) % L = r
OBVIOUS

LEMMA Divided ==
    ASSUME NEW L \in Nat \ {0}, NEW x \in Int
    PROVE  x = (x \div L) * L + (x % L) /\ x % L \in 0 .. L - 1 /\ x \div L \in Int
OBVIOUS

\* Numbers of a high and a low part.
LEMMA JoinedParts ==
    ASSUME NEW size \in Nat \ {0}, NEW count \in Nat \ {0}, NEW h \in 0 .. count - 1, NEW r \in 0 .. size - 1
    PROVE  (h * size) + r \in 0 .. (count * size) - 1
<1>1. PICK p \in Nat : count = h + 1 + p
  <2>1. count - 1 - h \in Nat /\ count = h + 1 + (count - 1 - h)
    OBVIOUS
  <2> QED BY <2>1
<1>2. h * size \in Nat /\ p * size \in Nat
  OBVIOUS
<1>3. count * size = (h * size) + size + (p * size)
  BY <1>1
<1> QED BY <1>2, <1>3

LEMMA SplitParts ==
    ASSUME NEW size \in Nat \ {0}, NEW count \in Nat \ {0}, NEW da \in 0 .. (count * size) - 1
    PROVE  /\ da \div size \in 0 .. count - 1 /\ da % size \in 0 .. size - 1
           /\ da = ((da \div size) * size) + (da % size)
<1>1. da = ((da \div size) * size) + (da % size) /\ da % size \in 0 .. size - 1 /\ da \div size \in Int
  BY Divided
<1>2. PICK q \in Int : q = da \div size
  BY <1>1
<1>3. da = (q * size) + (da % size) /\ count * size \in Int /\ q * size \in Int
  BY <1>1, <1>2
<1>4. CASE q < 0
  <2>1. PICK p \in Nat : q = 0 - 1 - p
    <3>1. 0 - 1 - q \in Nat /\ q = 0 - 1 - (0 - 1 - q)
      BY <1>4
    <3> QED BY <3>1
  <2>2. p * size \in Nat /\ q * size = (0 - size) - (p * size)
    BY <2>1
  <2> QED BY <1>1, <1>3, <2>2
<1>5. CASE q >= count
  <2>1. PICK p \in Nat : q = count + p
    <3>1. q - count \in Nat /\ q = count + (q - count)
      BY <1>5
    <3> QED BY <3>1
  <2>2. p * size \in Nat /\ q * size = (count * size) + (p * size)
    BY <2>1
  <2> QED BY <1>1, <1>3, <2>2
<1> QED BY <1>1, <1>2, <1>4, <1>5

\* Numbers with the same remainder, sums, and numbers some rounds apart.
Alike(L, x, y) == x % L = y % L
IsSum(z, x, n) == z = x + n
Rounds(L, z, x, k) == z = x + k * L

LEMMA Turns ==
    ASSUME NEW L \in Nat \ {0}, NEW x \in Int, NEW k \in Int, NEW z \in Int, Rounds(L, z, x, k)
    PROVE  Alike(L, z, x)
<1> DEFINE q == x \div L
           r == x % L
<1>1. x = q * L + r /\ r \in 0 .. L - 1 /\ q \in Int
  BY Divided
<1> HIDE DEF q, r
<1>2. z = (q + k) * L + r
  BY <1>1 DEF Rounds
<1>3. ((q + k) * L + r) % L = r
  BY <1>1, Remainder
<1> QED BY <1>2, <1>3 DEF r, Alike

\* Two numbers that agree still agree when both are counted up.
LEMMA CountedUp ==
    ASSUME NEW L \in Nat \ {0}, NEW x \in Int, NEW y \in Int, NEW n \in Int, Alike(L, x, y),
           NEW v \in Int, NEW w \in Int, IsSum(v, x, n), IsSum(w, y, n)
    PROVE  Alike(L, v, w)
<1>1. x = (x \div L) * L + (x % L) /\ y = (y \div L) * L + (y % L)
      /\ x % L \in Int /\ x \div L \in Int /\ y \div L \in Int
  BY Divided
<1>2. PICK r \in Int, i \in Int, j \in Int : x = i * L + r /\ y = j * L + r
  BY <1>1 DEF Alike
<1>3. PICK s \in Int : s = r + n
  OBVIOUS
<1>4. Rounds(L, v, s, i) /\ Rounds(L, w, s, j)
  BY <1>2, <1>3 DEF Rounds, IsSum
<1>5. Alike(L, v, s) /\ Alike(L, w, s)
  BY <1>4, Turns
<1> QED BY <1>5 DEF Alike

\* A ring of a size that L divides turns like one of size L.
LEMMA RingTurns ==
    ASSUME NEW L \in Nat \ {0}, NEW size \in Nat \ {0}, size % L = 0, NEW x \in Int, NEW n \in Int,
           NEW v \in Int, NEW w \in Int, IsSum(v, x % size, n), IsSum(w, x, n)
    PROVE  Alike(L, v, w)
<1>1. size = (size \div L) * L + (size % L) /\ size \div L \in Int
  BY Divided
<1>2. PICK k \in Int : size = k * L
  BY <1>1
<1>3. x = (x \div size) * size + (x % size) /\ x \div size \in Int /\ x % size \in Int
  BY Divided
<1>4. PICK i \in Int : x = i * size + (x % size)
  BY <1>3
<1>5. PICK m \in Int : m = i * k
  OBVIOUS
<1>6. i * size = m * L
  BY <1>2, <1>5
<1>7. Rounds(L, w, v, m)
  BY <1>3, <1>4, <1>6 DEF Rounds, IsSum
<1>8. Alike(L, w, v)
  BY <1>7, Turns
<1> QED BY <1>8 DEF Alike

LEMMA InStep ==
    ASSUME NEW L \in Nat \ {0}, NEW da \in Int, NEW size \in Nat \ {0}, size % L = 0, NEW from \in Int,
           NEW wc0 \in Int, NEW words \in Nat \ {0}, words % L = 0, NEW asked \in Int, NEW n \in Int,
           Alike(L, da + size - from, wc0 + words - asked)
    PROVE  Alike(L, ((da + n) % size) + size - from, ((wc0 + n) % words) + words - asked)
<1>1. PICK a1 \in Int, a2 \in Int, b1 \in Int, b2 \in Int :
         /\ a1 = da + n /\ a2 = size - from
         /\ b1 = wc0 + n /\ b2 = words - asked
  OBVIOUS
<1>2. a1 % size \in Int /\ b1 % words \in Int
  BY Divided
<1>3. PICK c \in Int, d \in Int : IsSum(c, a1 % size, a2) /\ IsSum(d, b1 % words, b2)
  BY <1>2 DEF IsSum
<1>4. PICK e \in Int, f \in Int : IsSum(e, a1, a2) /\ IsSum(f, b1, b2)
  BY DEF IsSum
<1>5. PICK x \in Int, y \in Int : x = da + size - from /\ y = wc0 + words - asked
  OBVIOUS
<1>6. Alike(L, c, e) /\ Alike(L, d, f)
  BY <1>3, <1>4, RingTurns
<1>7. IsSum(e, x, n) /\ IsSum(f, y, n) /\ Alike(L, x, y)
  BY <1>1, <1>4, <1>5 DEF IsSum
<1>8. Alike(L, e, f)
  BY <1>7, CountedUp
<1>9. /\ ((da + n) % size) + size - from = c
      /\ ((wc0 + n) % words) + words - asked = d
  BY <1>1, <1>2, <1>3 DEF IsSum
<1> QED BY <1>6, <1>8, <1>9 DEF Alike

-----------------------------------------------------------------------------
(* RF08: the steps.                                                        *)

RfRing == Rf!Lesser(Rf!Last, MaxWords)

LEMMA RfNumbers ==
    /\ Low \in Nat \ {0} /\ High \in Nat \ {0} /\ MaxWords \in Nat \ {0}
    /\ Rf!Last \in Nat \ {0} /\ RfRing \in Nat \ {0}
    /\ Rf!Last % RfRing = 0 /\ MaxWords % RfRing = 0
    /\ Sizes \subseteq 1 .. Rf!Last /\ Counts \subseteq 0 .. MaxWords - 1
<1>1. Low \in Nat \ {0} /\ High \in Nat \ {0} /\ MaxWords \in Nat \ {0}
  BY RfSizes DEF Rf!SizesAssumption
<1>2. Rf!Last \in Nat \ {0}
  BY <1>1 DEF Rf!Last
<1>3. RfRing \in Nat \ {0}
  BY <1>1, <1>2 DEF RfRing, Rf!Lesser
<1> QED BY <1>1, <1>2, <1>3, RfSizes DEF Rf!SizesAssumption, RfRing

LEMMA OrInBits ==
    ASSUME NEW m \in 0 .. Low - 1, NEW n \in 0 .. Low - 1
    PROVE  Rf!Or(Low, m, n) \in 0 .. Low - 1
<1>1. \E k \in 0 .. Low - 1 : Rf!IsOr(Low, k, m, n)
  BY RfSizes DEF Rf!SizesAssumption, Rf!Closed
<1> QED BY <1>1 DEF Rf!Or

\* An address of a high and a low part.
LEMMA Joined ==
    ASSUME NEW high \in 0 .. High - 1, NEW low \in 0 .. Low - 1
    PROVE  (high * Low) + low \in 0 .. Rf!Last - 1
BY RfNumbers, JoinedParts DEF Rf!Last

LEMMA Split ==
    ASSUME NEW da \in 0 .. Rf!Last - 1
    PROVE  /\ da \div Low \in 0 .. High - 1 /\ da % Low \in 0 .. Low - 1
           /\ da = ((da \div Low) * Low) + (da % Low)
BY RfNumbers, SplitParts DEF Rf!Last

LEMMA RfBegins == Rf!Init => RfInv
<1> SUFFICES ASSUME Rf!Init PROVE RfInv
  OBVIOUS
<1>1. rf_da \in 0 .. Rf!Last - 1 /\ wc \in 0 .. MaxWords - 1
  BY RfNumbers DEF Rf!Init
<1>2. {rf_done, int_rf, rf_burst, rf_active, pcell_active, polite} \subseteq BOOLEAN
  BY DEF Rf!Init
<1>3. disk \in [capac : Sizes, attached : BOOLEAN] /\ rf_sta = {} /\ rf_wlk = {} /\ FUNC = "READ" /\ ordered = <<>>
  BY DEF Rf!Init
<1>4. Rf!TypeOK
  BY <1>1, <1>2, <1>3 DEF Rf!TypeOK
<1>5. Rf!IntAgrees
  BY DEF Rf!Init, Rf!IntAgrees, Rf!Calls, Rf!RFS_ERR
<1>6. Rf!PhotocellRuns
  BY DEF Rf!Init, Rf!PhotocellRuns
<1> QED
  BY <1>3, <1>4, <1>5, <1>6 DEF RfInv, RfOrdered, Rf!CountedWords

\* The address and the count, of every step.
LEMMA RfAddresses ==
    ASSUME RfInv, Rf!Next
    PROVE  rf_da' \in 0 .. Rf!Last - 1 /\ wc' \in 0 .. MaxWords - 1
<1>0. rf_da \in 0 .. Rf!Last - 1 /\ wc \in 0 .. MaxWords - 1
  BY DEF RfInv, Rf!TypeOK
<1>a. 0 \in 0 .. Low - 1
  BY RfNumbers
<1>1. CASE Rf!DCMA
  <2>1. rf_da' = ((rf_da \div Low) * Low) + 0 /\ wc' = wc
    <3>1. (rf_da \div Low) * Low \in Int
      BY <1>0, Split, RfNumbers
    <3> QED BY <1>1, <3>1 DEF Rf!DCMA
  <2> QED BY <1>0, <1>a, <2>1, Split, Joined
<1>2. ASSUME NEW func, NEW addr \in 0 .. Low - 1, NEW clear \in BOOLEAN, Rf!Order(func, addr, clear)
      PROVE  rf_da' \in 0 .. Rf!Last - 1 /\ wc' = wc
  <2>1. PICK m \in 0 .. Low - 1 : rf_da' = ((rf_da \div Low) * Low) + Rf!Or(Low, m, addr)
    BY <1>0, <1>2, <1>a, Split DEF Rf!Order
  <2>2. Rf!Or(Low, m, addr) \in 0 .. Low - 1
    BY OrInBits, RfNumbers
  <2> QED BY <1>0, <1>2, <2>1, <2>2, Split, Joined DEF Rf!Order
<1>3. ASSUME NEW high \in 0 .. High - 1, Rf!SetHigh(high)
      PROVE  rf_da' \in 0 .. Rf!Last - 1 /\ wc' = wc
  <2>1. rf_da' = (high * Low) + (rf_da % Low) /\ wc' = wc
    BY <1>3 DEF Rf!SetHigh
  <2> QED BY <1>0, <2>1, Split, Joined
<1>4. CASE Rf!DCIM \/ Rf!Look \/ (\E e \in SUBSET Rf!Enables : Rf!DIML(e)) \/ Rf!pcell_svc
  BY <1>0, <1>4 DEF Rf!DCIM, Rf!Look, Rf!DIML, Rf!pcell_svc
<1>5. ASSUME NEW n \in Counts, Rf!SetCount(n)
      PROVE  rf_da' \in 0 .. Rf!Last - 1 /\ wc' \in 0 .. MaxWords - 1
  BY <1>0, <1>5, RfNumbers DEF Rf!SetCount
<1>6. CASE Rf!rf_svc
  <2>1. CASE Rf!NoDisk
    BY <1>0, <2>1 DEF Rf!NoDisk
  <2>2. ASSUME NEW m \in Rf!Moves, Rf!Move(m[1], m[2])
        PROVE  rf_da' \in 0 .. Rf!Last - 1 /\ wc' \in 0 .. MaxWords - 1
    <3>1. disk.capac \in Int
      <4>1. disk \in [capac : Sizes, attached : BOOLEAN]
        BY DEF RfInv, Rf!TypeOK
      <4>2. disk.capac \in Sizes
        BY <4>1
      <4>3. Sizes \subseteq 1 .. Rf!Last /\ Rf!Last \in Int
        BY RfNumbers
      <4>4. disk.capac \in 1 .. Rf!Last
        BY <4>2, <4>3
      <4> QED BY <4>3, <4>4
    <3>2. Rf!Room \in Int
      BY <1>0, <3>1, RfNumbers DEF Rf!Room
    <3>3. Rf!AsAsked[1] \in Int /\ Rf!AsAsked[2] \in 0 .. MaxWords - 1
      BY <1>0, <3>2, RfNumbers DEF Rf!AsAsked, Rf!Lesser
    <3>4. m[1] \in Int /\ m[2] \in 0 .. MaxWords - 1
      BY <3>3 DEF Rf!Moves, Rf!OverCount
    <3>5. rf_da' = (rf_da + m[1]) % Rf!Last /\ wc' = m[2]
      BY <2>2 DEF Rf!Move
    <3> QED BY <1>0, <3>4, <3>5, RfNumbers
  <2> QED BY <1>6, <2>1, <2>2 DEF Rf!rf_svc
<1>7. CASE Rf!rf_reset
  BY <1>0, <1>7, RfNumbers DEF Rf!rf_reset
<1>8. CASE Rf!Detach \/ Rf!Deposit \/ \E c \in Sizes : Rf!rf_attach(c) \/ Rf!rf_set_size(c)
  BY <1>0, <1>8 DEF Rf!Detach, Rf!Deposit, Rf!rf_attach, Rf!rf_set_size
<1> QED BY <1>0, <1>1, <1>2, <1>3, <1>4, <1>5, <1>6, <1>7, <1>8 DEF Rf!Next, Rf!rf

\* The flags, and what the operator has set.
LEMMA RfFlagsTyped ==
    ASSUME RfInv, Rf!Next
    PROVE  /\ ({rf_done, int_rf, rf_burst, rf_active, pcell_active, polite} \subseteq BOOLEAN)'
           /\ rf_sta' \subseteq {"PCA"} \union Rf!RFS_ERR \union Rf!Enables
           /\ rf_wlk' \subseteq {1} /\ FUNC' \in {"READ", "WRITE"}
           /\ disk' \in [capac : Sizes, attached : BOOLEAN]
<1> DEFINE Typed == /\ ({rf_done, int_rf, rf_burst, rf_active, pcell_active, polite} \subseteq BOOLEAN)'
                    /\ rf_sta' \subseteq {"PCA"} \union Rf!RFS_ERR \union Rf!Enables
                    /\ rf_wlk' \subseteq {1} /\ FUNC' \in {"READ", "WRITE"}
                    /\ disk' \in [capac : Sizes, attached : BOOLEAN]
<1>0. /\ rf_done \in BOOLEAN /\ int_rf \in BOOLEAN /\ rf_burst \in BOOLEAN /\ rf_active \in BOOLEAN
      /\ pcell_active \in BOOLEAN /\ polite \in BOOLEAN
      /\ rf_sta \subseteq {"PCA"} \union Rf!RFS_ERR \union Rf!Enables
      /\ rf_wlk \subseteq {1} /\ FUNC \in {"READ", "WRITE"}
      /\ disk \in [capac : Sizes, attached : BOOLEAN]
  BY DEF RfInv, Rf!TypeOK
<1>u. Rf!RF_INT_UPDATE => int_rf' \in BOOLEAN
  BY DEF Rf!RF_INT_UPDATE, Rf!Calls
<1>s. \A sta \in Rf!Seen : sta \subseteq {"PCA"} \union Rf!RFS_ERR \union Rf!Enables
  BY <1>0 DEF Rf!Seen
<1> USE <1>0, <1>u, <1>s
<1>1. CASE Rf!DCMA \/ Rf!DCIM \/ Rf!Look
  <2>1. /\ UNCHANGED <<rf_burst, polite, rf_wlk, FUNC, disk, rf_active>> /\ rf_done' \in BOOLEAN
        /\ pcell_active' \in BOOLEAN /\ int_rf' \in BOOLEAN
    BY <1>1 DEF Rf!DCMA, Rf!DCIM, Rf!Look, Rf!operator
  <2>2. rf_sta' \subseteq {"PCA"} \union Rf!RFS_ERR \union Rf!Enables
    BY <1>1 DEF Rf!DCMA, Rf!DCIM, Rf!Look
  <2> QED BY <2>1, <2>2
<1>2. ASSUME NEW func \in {"READ", "WRITE"}, NEW addr \in 0 .. Low - 1, NEW clear \in BOOLEAN,
             Rf!Order(func, addr, clear)
      PROVE  Typed
  <2>1. /\ UNCHANGED <<rf_burst, polite, rf_wlk, disk, pcell_active>> /\ rf_active' \in BOOLEAN /\ FUNC' = func
        /\ rf_done' \in BOOLEAN /\ int_rf' \in BOOLEAN
    BY <1>2 DEF Rf!Order, Rf!operator
  <2>2. rf_sta' \subseteq {"PCA"} \union Rf!RFS_ERR \union Rf!Enables
    BY <1>2 DEF Rf!Order
  <2> QED BY <2>1, <2>2
<1>3. ASSUME NEW enables \in SUBSET Rf!Enables, Rf!DIML(enables) PROVE Typed
  <2>1. /\ UNCHANGED <<rf_burst, polite, rf_wlk, disk, rf_active, FUNC, rf_done>> /\ int_rf' \in BOOLEAN
        /\ pcell_active' \in BOOLEAN
    BY <1>3 DEF Rf!DIML, Rf!operator, Rf!Photocell
  <2>2. rf_sta' \subseteq {"PCA"} \union Rf!RFS_ERR \union Rf!Enables
    BY <1>3 DEF Rf!DIML
  <2> QED BY <2>1, <2>2
<1>4. ASSUME NEW high \in 0 .. High - 1, Rf!SetHigh(high) PROVE Typed
  <2>1. UNCHANGED <<rf_burst, polite, rf_wlk, disk, rf_active, pcell_active, FUNC, rf_done>> /\ int_rf' \in BOOLEAN
    BY <1>4 DEF Rf!SetHigh, Rf!operator
  <2>2. rf_sta' \subseteq {"PCA"} \union Rf!RFS_ERR \union Rf!Enables
    BY <1>4 DEF Rf!SetHigh, Rf!RFS_ERR
  <2> QED BY <2>1, <2>2
<1>5. ASSUME NEW n \in Counts, Rf!SetCount(n) PROVE Typed
  BY <1>5 DEF Rf!SetCount, Rf!operator
<1>6. CASE Rf!rf_svc
  <2>1. /\ UNCHANGED <<rf_burst, polite, rf_wlk, disk, pcell_active, FUNC>>
        /\ rf_active' \in BOOLEAN /\ rf_done' \in BOOLEAN /\ int_rf' \in BOOLEAN
    BY <1>6 DEF Rf!rf_svc, Rf!NoDisk, Rf!Move, Rf!Done, Rf!operator
  <2>2. \E sta \in Rf!Seen : rf_sta' \subseteq sta \union {"WLS", "NXD"}
    BY <1>6 DEF Rf!rf_svc, Rf!NoDisk, Rf!Move
  <2>3. rf_sta' \subseteq {"PCA"} \union Rf!RFS_ERR \union Rf!Enables
    BY <2>2 DEF Rf!RFS_ERR
  <2> QED BY <2>1, <2>3
<1>7. CASE Rf!pcell_svc
  <2>1. /\ UNCHANGED <<rf_burst, polite, rf_wlk, disk, rf_active, FUNC, rf_done>>
        /\ pcell_active' \in BOOLEAN /\ int_rf' \in BOOLEAN
    BY <1>7 DEF Rf!pcell_svc, Rf!operator
  <2>2. rf_sta' \subseteq {"PCA"} \union Rf!RFS_ERR \union Rf!Enables
    BY <1>7 DEF Rf!pcell_svc
  <2> QED BY <2>1, <2>2
<1>8. CASE Rf!rf_reset
  BY <1>8 DEF Rf!rf_reset, Rf!operator
<1>9. CASE Rf!Detach \/ Rf!Deposit \/ \E c \in Sizes : Rf!rf_attach(c) \/ Rf!rf_set_size(c)
  <2>1. UNCHANGED <<rf_sta, rf_done, int_rf, rf_active, pcell_active, polite, FUNC>>
    BY <1>9 DEF Rf!Detach, Rf!Deposit, Rf!rf_attach, Rf!rf_set_size
  <2>2. disk' \in [capac : Sizes, attached : BOOLEAN]
    <3>1. CASE Rf!Detach
      BY <3>1 DEF Rf!Detach
    <3>2. CASE Rf!Deposit
      BY <3>2 DEF Rf!Deposit
    <3>3. ASSUME NEW c \in Sizes, Rf!rf_attach(c) \/ Rf!rf_set_size(c)
          PROVE  disk' \in [capac : Sizes, attached : BOOLEAN]
      <4>1. disk' = [capac |-> c, attached |-> TRUE] \/ disk' = [disk EXCEPT !.capac = c]
        BY <3>3 DEF Rf!rf_attach, Rf!rf_set_size
      <4>2. [capac |-> c, attached |-> TRUE] \in [capac : Sizes, attached : BOOLEAN]
        OBVIOUS
      <4>3. [disk EXCEPT !.capac = c] \in [capac : Sizes, attached : BOOLEAN]
        OBVIOUS
      <4> QED BY <4>1, <4>2, <4>3, Zenon
    <3> QED BY <1>9, <3>1, <3>2, <3>3
  <2>3. rf_wlk' = rf_wlk \/ rf_wlk' \in SUBSET {1}
    BY <1>9 DEF Rf!Detach, Rf!Deposit, Rf!rf_attach, Rf!rf_set_size
  <2>4. rf_burst' \in BOOLEAN
    <3>1. CASE Rf!Deposit
      BY <3>1 DEF Rf!Deposit
    <3>2. CASE ~Rf!Deposit
      BY <1>9, <3>2 DEF Rf!Detach, Rf!rf_attach, Rf!rf_set_size
    <3> QED BY <3>1, <3>2
  <2> QED BY <2>1, <2>2, <2>3, <2>4
<1> QED BY <1>1, <1>2, <1>3, <1>4, <1>5, <1>6, <1>7, <1>8, <1>9 DEF Rf!Next, Rf!rf

\* The request: an update makes it agree with the flags, and what happens without an
\* update leaves the flags as they were, but for the photocell.
LEMMA RfRequests == ASSUME RfInv, Rf!Next PROVE Rf!IntAgrees'
<1>0. Rf!IntAgrees /\ int_rf \in BOOLEAN
  BY DEF RfInv, Rf!TypeOK
<1>1. ASSUME Rf!RF_INT_UPDATE PROVE Rf!IntAgrees'
  <2>1. int_rf' <=> Rf!Calls(rf_done', rf_sta')
    BY <1>1 DEF Rf!RF_INT_UPDATE, Rf!Calls
  <2> QED BY <2>1 DEF Rf!IntAgrees, Rf!Calls, Rf!RFS_ERR
<1>2. ASSUME rf_sta' \in Rf!Seen, rf_done' = rf_done, int_rf' = int_rf PROVE Rf!IntAgrees'
  <2>1. rf_sta' \ {"PCA"} = rf_sta \ {"PCA"}
    BY <1>2 DEF Rf!Seen
  <2>2. rf_sta' \cap Rf!RFS_ERR = rf_sta \cap Rf!RFS_ERR
    BY <2>1 DEF Rf!RFS_ERR
  <2> QED BY <1>0, <1>2, <2>1, <2>2 DEF Rf!IntAgrees, Rf!Calls, Rf!RFS_ERR
<1>3. CASE Rf!DCMA \/ (\E e \in SUBSET Rf!Enables : Rf!DIML(e)) \/ (\E h \in 0 .. High - 1 : Rf!SetHigh(h))
  BY <1>1, <1>3 DEF Rf!DCMA, Rf!DIML, Rf!SetHigh
<1>4. CASE Rf!Look
  BY <1>2, <1>4 DEF Rf!Look
<1>5. ASSUME NEW func, NEW addr, NEW clear \in BOOLEAN, Rf!Order(func, addr, clear) PROVE Rf!IntAgrees'
  BY <1>1, <1>2, <1>5 DEF Rf!Order
<1>6. CASE Rf!rf_svc
  <2>1. CASE Rf!RF_INT_UPDATE
    BY <1>1, <2>1
  <2>2. CASE ~Rf!RF_INT_UPDATE
    <3>1. PICK m \in Rf!Moves : Rf!Move(m[1], m[2])
      BY <1>6, <2>2 DEF Rf!rf_svc, Rf!NoDisk, Rf!Done
    <3>2. UNCHANGED <<rf_done, int_rf>> /\ rf_sta' \cap Rf!RFS_ERR = {}
      BY <2>2, <3>1 DEF Rf!Move, Rf!Done
    <3>3. PICK sta \in Rf!Seen : sta \subseteq rf_sta' /\ rf_sta' \subseteq sta \union Rf!RFS_ERR
      BY <3>1 DEF Rf!Move, Rf!RFS_ERR
    <3>4. rf_sta' = sta
      BY <3>2, <3>3
    <3> QED BY <1>2, <3>2, <3>4
  <2> QED BY <2>1, <2>2
<1>7. CASE Rf!pcell_svc
  BY <1>0, <1>7 DEF Rf!pcell_svc, Rf!IntAgrees, Rf!Calls, Rf!RFS_ERR
<1>8. CASE Rf!DCIM
  BY <1>8 DEF Rf!DCIM, Rf!IntAgrees, Rf!Calls, Rf!Enables
<1>9. CASE Rf!rf_reset
  BY <1>9 DEF Rf!rf_reset, Rf!IntAgrees, Rf!Calls
<1>10. CASE \/ (\E n \in Counts : Rf!SetCount(n)) \/ Rf!Detach \/ Rf!Deposit
            \/ \E c \in Sizes : Rf!rf_attach(c) \/ Rf!rf_set_size(c)
  BY <1>0, <1>10 DEF Rf!SetCount, Rf!Detach, Rf!Deposit, Rf!rf_attach, Rf!rf_set_size, Rf!IntAgrees, Rf!Calls
<1> QED BY <1>3, <1>4, <1>5, <1>6, <1>7, <1>8, <1>9, <1>10 DEF Rf!Next, Rf!rf

LEMMA RfPhotocell == ASSUME RfInv, Rf!Next PROVE Rf!PhotocellRuns'
<1>0. Rf!PhotocellRuns
  BY DEF RfInv
<1>1. ASSUME pcell_active' = pcell_active, "PIE" \in rf_sta' <=> "PIE" \in rf_sta PROVE Rf!PhotocellRuns'
  BY <1>0, <1>1 DEF Rf!PhotocellRuns
<1>2. \A sta \in Rf!Seen : "PIE" \in sta <=> "PIE" \in rf_sta
  BY DEF Rf!Seen
<1> USE <1>1, <1>2
<1>3. CASE Rf!DCMA \/ Rf!Look
  BY <1>3 DEF Rf!DCMA, Rf!Look, Rf!RFS_ERR
<1>4. ASSUME NEW func, NEW addr, NEW clear, Rf!Order(func, addr, clear) PROVE Rf!PhotocellRuns'
  BY <1>4 DEF Rf!Order, Rf!RFS_ERR
<1>5. CASE Rf!DCIM
  BY <1>5 DEF Rf!DCIM, Rf!PhotocellRuns, Rf!Enables
<1>6. ASSUME NEW e \in SUBSET Rf!Enables, Rf!DIML(e) PROVE Rf!PhotocellRuns'
  <2>1. "PIE" \in rf_sta' <=> "PIE" \in e
    BY <1>6 DEF Rf!DIML, Rf!Enables
  <2>2. pcell_active' <=> "PIE" \in e
    BY <1>6 DEF Rf!DIML, Rf!Photocell
  <2> QED BY <2>1, <2>2 DEF Rf!PhotocellRuns
<1>7. ASSUME NEW h \in 0 .. High - 1, Rf!SetHigh(h) PROVE Rf!PhotocellRuns'
  BY <1>7 DEF Rf!SetHigh
<1>8. CASE Rf!rf_svc
  <2>1. PICK sta \in Rf!Seen : sta \subseteq rf_sta' /\ rf_sta' \subseteq sta \union {"WLS", "NXD"}
    BY <1>8 DEF Rf!rf_svc, Rf!NoDisk, Rf!Move
  <2> QED BY <1>8, <2>1 DEF Rf!rf_svc
<1>9. CASE Rf!pcell_svc
  BY <1>0, <1>9 DEF Rf!pcell_svc, Rf!PhotocellRuns
<1>10. CASE Rf!rf_reset
  BY <1>10 DEF Rf!rf_reset, Rf!PhotocellRuns
<1>11. CASE \/ (\E n \in Counts : Rf!SetCount(n)) \/ Rf!Detach \/ Rf!Deposit
            \/ \E c \in Sizes : Rf!rf_attach(c) \/ Rf!rf_set_size(c)
  BY <1>11 DEF Rf!SetCount, Rf!Detach, Rf!Deposit, Rf!rf_attach, Rf!rf_set_size
<1> QED BY <1>3, <1>4, <1>5, <1>6, <1>7, <1>8, <1>9, <1>10, <1>11 DEF Rf!Next, Rf!rf

LEMMA RfRemembered == ASSUME RfInv, Rf!Next PROVE RfOrdered'
<1>0. RfOrdered /\ rf_da' \in 0 .. Rf!Last - 1 /\ wc \in 0 .. MaxWords - 1
  BY RfAddresses DEF RfInv, Rf!TypeOK
<1>1. polite' = polite
  BY DEF Rf!Next, Rf!rf, Rf!DCMA, Rf!DCIM, Rf!Look, Rf!Order, Rf!DIML, Rf!SetHigh, Rf!SetCount, Rf!rf_svc,
         Rf!pcell_svc, Rf!rf_reset, Rf!Detach, Rf!Deposit, Rf!rf_attach, Rf!rf_set_size, Rf!operator
<1>2. \/ ordered' = <<>> \/ ordered' = ordered
      \/ polite /\ ordered' = [da |-> rf_da', wc |-> wc]
  BY DEF Rf!Next, Rf!rf, Rf!DCMA, Rf!DCIM, Rf!Look, Rf!Order, Rf!DIML, Rf!SetHigh, Rf!SetCount, Rf!rf_svc,
         Rf!pcell_svc, Rf!rf_reset, Rf!Detach, Rf!Deposit, Rf!rf_attach, Rf!rf_set_size
<1> QED BY <1>0, <1>1, <1>2 DEF RfOrdered

\* The words of a transfer under way, for every step that may keep them apart.
RfApart ==
    Alike(RfRing, rf_da + Rf!Last - ordered.da, wc + MaxWords - ordered.wc)
RfEnded == (rf_active <=> ~rf_done) /\ (rf_done => wc = 0 \/ rf_sta \cap Rf!RFS_ERR # {})

LEMMA RfCounted == Rf!CountedWords <=> (ordered # <<>> => RfApart /\ RfEnded)
BY DEF Rf!CountedWords, RfApart, RfEnded, Alike, RfRing

LEMMA RfMoved ==
    ASSUME RfInv, Rf!rf_svc, ordered # <<>>
    PROVE  RfApart' /\ RfEnded'
<1>1. polite /\ ordered \in [da : 0 .. Rf!Last - 1, wc : 0 .. MaxWords - 1] /\ ordered' = ordered
  BY DEF RfInv, RfOrdered, Rf!rf_svc
<1>2. RfApart /\ RfEnded
  BY RfCounted DEF RfInv
<1>3. CASE Rf!NoDisk
  <2>1. rf_da' = rf_da /\ wc' = wc /\ rf_done' /\ ~rf_active' /\ "NXD" \in rf_sta'
    BY <1>3 DEF Rf!NoDisk, Rf!Done
  <2> QED BY <1>1, <1>2, <2>1 DEF RfApart, RfEnded, Alike, Rf!RFS_ERR
<1>4. CASE ~Rf!NoDisk
  <2>1. Rf!Move(Rf!AsAsked[1], Rf!AsAsked[2])
    BY <1>1, <1>4 DEF Rf!rf_svc, Rf!Moves
  <2>2. PICK n \in Int : rf_da' = (rf_da + n) % Rf!Last /\ wc' = (wc + n) % MaxWords
    <3>1. Rf!Room \in Int
      <4>1. disk \in [capac : Sizes, attached : BOOLEAN] /\ rf_da \in Int
        BY DEF RfInv, Rf!TypeOK
      <4>2. disk.capac \in Sizes
        BY <4>1
      <4>3. Sizes \subseteq 1 .. Rf!Last /\ Rf!Last \in Int /\ MaxWords \in Int
        BY RfNumbers
      <4>4. disk.capac \in 1 .. Rf!Last
        BY <4>2, <4>3
      <4> QED BY <4>1, <4>3, <4>4 DEF Rf!Room
    <3>2. wc \in Int /\ MaxWords \in Int
      BY RfNumbers DEF RfInv, Rf!TypeOK
    <3>3. Rf!AsAsked[1] \in Int /\ Rf!AsAsked[2] = (wc + Rf!AsAsked[1]) % MaxWords
      BY <3>1, <3>2 DEF Rf!AsAsked, Rf!Lesser
    <3>4. rf_da' = (rf_da + Rf!AsAsked[1]) % Rf!Last /\ wc' = Rf!AsAsked[2]
      BY <2>1 DEF Rf!Move
    <3> QED BY <3>3, <3>4
  <2>3. RfApart'
    <3>1. rf_da \in Int /\ wc \in Int /\ ordered.da \in Int /\ ordered.wc \in Int
      BY <1>1 DEF RfInv, Rf!TypeOK
    <3>2. Alike(RfRing, rf_da + Rf!Last - ordered.da, wc + MaxWords - ordered.wc)
      BY <1>2 DEF RfApart
    <3>3. Alike(RfRing, ((rf_da + n) % Rf!Last) + Rf!Last - ordered.da, ((wc + n) % MaxWords) + MaxWords - ordered.wc)
      BY <3>1, <3>2, RfNumbers, InStep
    <3> QED BY <1>1, <2>2, <3>3 DEF RfApart
  <2>4. RfEnded'
    <3>1. rf_active /\ ~rf_done
      BY <1>2 DEF RfEnded, Rf!rf_svc
    <3>2. wc' = Rf!AsAsked[2]
      BY <2>1 DEF Rf!Move
    <3>3. \/ (rf_done' <=> rf_done) /\ (rf_active' <=> rf_active)
          \/ ~(wc' # 0 /\ rf_sta' \cap Rf!RFS_ERR = {}) /\ rf_done' /\ ~rf_active'
      BY <2>1, <3>2 DEF Rf!Move, Rf!Done
    <3> QED BY <3>1, <3>3 DEF RfEnded
  <2> QED BY <2>3, <2>4
<1> QED BY <1>3, <1>4

LEMMA RfTransfers == ASSUME RfInv, Rf!Next PROVE Rf!CountedWords'
<1> SUFFICES ASSUME ordered' # <<>> PROVE RfApart' /\ RfEnded'
  BY RfCounted DEF Rf!CountedWords, RfApart, RfEnded, Alike, RfRing
<1>0. ordered # <<>> => RfApart /\ RfEnded
  BY RfCounted DEF RfInv
<1>n. ASSUME ordered' = ordered, rf_da' = rf_da, wc' = wc, rf_active' = rf_active, rf_done' = rf_done,
             rf_sta' \cap Rf!RFS_ERR = rf_sta \cap Rf!RFS_ERR \/ ~rf_done
      PROVE  RfApart' /\ RfEnded'
  BY <1>0, <1>n DEF RfApart, RfEnded, Alike
<1>s. \A sta \in Rf!Seen : sta \cap Rf!RFS_ERR = rf_sta \cap Rf!RFS_ERR
  BY DEF Rf!Seen, Rf!RFS_ERR
<1>1. CASE Rf!DCMA \/ Rf!rf_reset \/ \E n \in Counts : Rf!SetCount(n)
  BY <1>1 DEF Rf!DCMA, Rf!rf_reset, Rf!SetCount
<1>2. ASSUME NEW func, NEW addr, NEW clear \in BOOLEAN, Rf!Order(func, addr, clear) PROVE RfApart' /\ RfEnded'
  <2>1. polite /\ ordered' = [da |-> rf_da', wc |-> wc] /\ wc' = wc /\ rf_active'
    BY <1>2 DEF Rf!Order
  <2>2. ~rf_done'
    BY <1>2, <2>1 DEF Rf!Order
  <2>3. rf_da' \in Int /\ wc' \in Int
    BY RfAddresses
  <2>4. rf_da' + Rf!Last - rf_da' = Rf!Last /\ wc' + MaxWords - wc' = MaxWords
    <3>1. \A x, y \in Int : x + y - x = y
      OBVIOUS
    <3>2. Rf!Last \in Int /\ MaxWords \in Int
      BY RfNumbers
    <3> QED BY <2>3, <3>1, <3>2
  <2>5. RfApart'
    BY <2>1, <2>4, RfNumbers DEF RfApart, Alike, RfRing
  <2> QED BY <2>1, <2>2, <2>5 DEF RfEnded
<1>3. CASE Rf!DCIM
  <2>1. rf_sta' \cap Rf!RFS_ERR = rf_sta \cap Rf!RFS_ERR
    BY <1>3, <1>s DEF Rf!DCIM, Rf!Enables, Rf!RFS_ERR
  <2> QED BY <1>3, <1>n, <2>1 DEF Rf!DCIM
<1>4. ASSUME NEW e \in SUBSET Rf!Enables, Rf!DIML(e) PROVE RfApart' /\ RfEnded'
  <2>1. rf_sta' \cap Rf!RFS_ERR = rf_sta \cap Rf!RFS_ERR
    BY <1>4, <1>s DEF Rf!DIML, Rf!Enables, Rf!RFS_ERR
  <2> QED BY <1>4, <1>n, <2>1 DEF Rf!DIML
<1>5. CASE Rf!Look
  BY <1>5, <1>n, <1>s DEF Rf!Look
<1>6. ASSUME NEW h \in 0 .. High - 1, Rf!SetHigh(h) PROVE RfApart' /\ RfEnded'
  <2>1. rf_active /\ h = rf_da \div Low /\ ordered' = ordered
    BY <1>6 DEF Rf!SetHigh
  <2>2. UNCHANGED <<wc, rf_active, rf_done>> /\ rf_da' = (h * Low) + (rf_da % Low)
    BY <1>6 DEF Rf!SetHigh
  <2>3. rf_da' = rf_da
    BY <2>1, <2>2, Split DEF RfInv, Rf!TypeOK
  <2>4. ~rf_done
    BY <1>0, <2>1 DEF RfEnded
  <2> QED BY <1>n, <2>1, <2>2, <2>3, <2>4
<1>7. CASE Rf!rf_svc
  BY <1>7, RfMoved DEF Rf!rf_svc
<1>8. CASE Rf!pcell_svc
  BY <1>8, <1>n DEF Rf!pcell_svc, Rf!RFS_ERR
<1>9. CASE Rf!Detach \/ Rf!Deposit \/ \E c \in Sizes : Rf!rf_attach(c) \/ Rf!rf_set_size(c)
  BY <1>9, <1>n DEF Rf!Detach, Rf!Deposit, Rf!rf_attach, Rf!rf_set_size
<1> QED BY <1>1, <1>2, <1>3, <1>4, <1>5, <1>6, <1>7, <1>8, <1>9 DEF Rf!Next, Rf!rf

LEMMA RfSteps == RfInv /\ Rf!Next => RfInv'
BY RfAddresses, RfFlagsTyped, RfRequests, RfPhotocell, RfRemembered, RfTransfers DEF RfInv, Rf!TypeOK

-----------------------------------------------------------------------------
(* DF32: the steps.                                                        *)

DfRing == Df!Lesser(Df!Last, MaxWords)

LEMMA DfNumbers ==
    /\ Low \in Nat \ {0} /\ High \in Nat \ {0} /\ MaxWords \in Nat \ {0}
    /\ Df!Last \in Nat \ {0} /\ DfRing \in Nat \ {0}
    /\ Df!Last % DfRing = 0 /\ MaxWords % DfRing = 0
    /\ Sizes \subseteq 1 .. Df!Last /\ Counts \subseteq 0 .. MaxWords - 1
<1>1. Low \in Nat \ {0} /\ High \in Nat \ {0} /\ MaxWords \in Nat \ {0}
  BY DfSizes DEF Df!SizesAssumption
<1>2. Df!Last \in Nat \ {0}
  BY <1>1 DEF Df!Last
<1>3. DfRing \in Nat \ {0}
  BY <1>1, <1>2 DEF DfRing, Df!Lesser
<1> QED BY <1>1, <1>2, <1>3, DfSizes DEF Df!SizesAssumption, DfRing, Df!Last

LEMMA DfOrInBits ==
    ASSUME NEW size \in {Low, High}, NEW m \in 0 .. size - 1, NEW n \in 0 .. size - 1
    PROVE  Df!Or(size, m, n) \in 0 .. size - 1
<1>1. \E k \in 0 .. size - 1 : Df!IsOr(size, k, m, n)
  BY DfSizes DEF Df!SizesAssumption, Df!Closed
<1> QED BY <1>1 DEF Df!Or

LEMMA DfJoined ==
    ASSUME NEW high \in 0 .. High - 1, NEW low \in 0 .. Low - 1
    PROVE  (high * Low) + low \in 0 .. Df!Last - 1
BY DfNumbers, JoinedParts DEF Df!Last

LEMMA DfSplit ==
    ASSUME NEW da \in 0 .. Df!Last - 1
    PROVE  /\ da \div Low \in 0 .. High - 1 /\ da % Low \in 0 .. Low - 1
           /\ da = ((da \div Low) * Low) + (da % Low)
BY DfNumbers, SplitParts DEF Df!Last

\* What becomes of the address.
LEMMA DfAddressSet ==
    ASSUME NEW da \in 0 .. Df!Last - 1, Df!SetAddress(da)
    PROVE  df_da' \in 0 .. Low - 1 /\ dex' \in 0 .. High - 1 /\ (Df!Address)' = da
<1>1. df_da' = da % Low /\ dex' = da \div Low
  BY DEF Df!SetAddress
<1> QED BY <1>1, DfSplit DEF Df!Address

LEMMA DfAddressTyped ==
    ASSUME Df!TypeOK
    PROVE  Df!Address \in 0 .. Df!Last - 1 /\ wc \in 0 .. MaxWords - 1 /\ disk.capac \in 1 .. Df!Last
<1>1. df_da \in 0 .. Low - 1 /\ dex \in 0 .. High - 1 /\ wc \in 0 .. MaxWords - 1
      /\ disk \in [capac : Sizes, attached : BOOLEAN]
  BY DEF Df!TypeOK
<1>2. disk.capac \in Sizes
  BY <1>1
<1>3. Sizes \subseteq 1 .. Df!Last
  BY DfNumbers
<1> QED BY <1>1, <1>2, <1>3, DfJoined DEF Df!Address

LEMMA DfHeld ==
    ASSUME NEW da \in 0 .. Df!Last - 1
    PROVE  Df!HeldAt(da) \in 0 .. Df!Last - 1
BY DfNumbers DEF Df!HeldAt

\* The words of one service, with the count that they leave.
LEMMA DfAmounts ==
    ASSUME Df!TypeOK, NEW m \in Df!Moves
    PROVE  /\ m[1] \in Int /\ m[2] \in 0 .. MaxWords - 1
           /\ polite => m[2] = (wc + m[1]) % MaxWords
<1>1. Df!Address \in Int /\ wc \in Int /\ disk.capac \in Int /\ MaxWords \in Nat \ {0}
  <2>1. Df!Address \in 0 .. Df!Last - 1 /\ wc \in 0 .. MaxWords - 1 /\ disk.capac \in 1 .. Df!Last
    BY DfAddressTyped
  <2> QED BY <2>1, DfNumbers
<1>2. Df!Room \in Int
  BY <1>1 DEF Df!Room
<1>3. Df!AsAsked[1] \in Int /\ Df!AsAsked[2] = (wc + Df!AsAsked[1]) % MaxWords
  BY <1>1, <1>2 DEF Df!AsAsked, Df!Lesser
<1>4. Df!AsAsked[2] \in 0 .. MaxWords - 1
  BY <1>1, <1>3
<1>5. CASE m = Df!AsAsked
  BY <1>3, <1>4, <1>5
<1>6. CASE m # Df!AsAsked
  <2>1. ~polite /\ m \in Df!OverCount
    BY <1>6 DEF Df!Moves
  <2> QED BY <2>1 DEF Df!OverCount
<1> QED BY <1>5, <1>6

\* Every service leaves an address of the disk.
LEMMA DfServiceAddress ==
    ASSUME Df!TypeOK, Df!df_svc
    PROVE  df_da' \in 0 .. Low - 1 /\ dex' \in 0 .. High - 1 /\ wc' \in 0 .. MaxWords - 1
<1>0. Df!Address \in 0 .. Df!Last - 1 /\ wc \in 0 .. MaxWords - 1
  BY DfAddressTyped
<1>1. CASE Df!NotAttached
  BY <1>1 DEF Df!NotAttached, Df!TypeOK
<1>2. CASE Df!BeyondDisk
  <2>1. Df!SetAddress(Df!HeldAt(Df!Address)) /\ wc' = wc
    BY <1>2 DEF Df!BeyondDisk, Df!Done
  <2> QED BY <1>0, <2>1, DfHeld, DfAddressSet
<1>3. ASSUME NEW m \in Df!Moves, Df!Move(m[1], m[2])
      PROVE  df_da' \in 0 .. Low - 1 /\ dex' \in 0 .. High - 1 /\ wc' \in 0 .. MaxWords - 1
  <2>1. PICK da : da = (Df!Address + m[1]) % Df!Last
    OBVIOUS
  <2>2. da \in 0 .. Df!Last - 1
    BY <1>0, <2>1, DfNumbers, DfAmounts
  <2>3. wc' = m[2] /\ (Df!SetAddress(da) \/ Df!SetAddress(Df!HeldAt(da)))
    BY <1>3, <2>1 DEF Df!Move, Df!Done
  <2> QED BY <2>2, <2>3, DfHeld, DfAddressSet, DfAmounts
<1> QED BY <1>1, <1>2, <1>3 DEF Df!df_svc

LEMMA DfAddresses ==
    ASSUME DfInv, Df!Next
    PROVE  df_da' \in 0 .. Low - 1 /\ dex' \in 0 .. High - 1 /\ wc' \in 0 .. MaxWords - 1
<1>0. df_da \in 0 .. Low - 1 /\ dex \in 0 .. High - 1 /\ wc \in 0 .. MaxWords - 1 /\ Df!TypeOK
  BY DEF DfInv, Df!TypeOK
<1>a. 0 \in 0 .. Low - 1 /\ 0 \in 0 .. High - 1
  BY DfNumbers
<1>1. CASE Df!DCMA \/ Df!df_reset
  BY <1>0, <1>a, <1>1 DEF Df!DCMA, Df!df_reset
<1>2. ASSUME NEW func, NEW addr \in 0 .. Low - 1, NEW clear \in BOOLEAN, Df!Order(func, addr, clear)
      PROVE  df_da' \in 0 .. Low - 1 /\ dex' = dex /\ wc' = wc
  <2>1. PICK m \in 0 .. Low - 1 : df_da' = Df!Or(Low, m, addr)
    BY <1>0, <1>2, <1>a DEF Df!Order
  <2> QED BY <1>2, <2>1, DfOrInBits, DfNumbers DEF Df!Order
<1>3. ASSUME NEW high \in 0 .. High - 1, NEW clear \in BOOLEAN, Df!SetHigh(high, clear)
      PROVE  dex' \in 0 .. High - 1 /\ df_da' = df_da /\ wc' = wc
  <2>1. PICK m \in 0 .. High - 1 : dex' = Df!Or(High, m, high)
    BY <1>0, <1>3, <1>a DEF Df!SetHigh
  <2> QED BY <1>3, <2>1, DfOrInBits, DfNumbers DEF Df!SetHigh
<1>4. ASSUME NEW n \in Counts, Df!SetCount(n)
      PROVE  UNCHANGED <<df_da, dex>> /\ wc' \in 0 .. MaxWords - 1
  BY <1>4, DfNumbers DEF Df!SetCount, Df!regvars
<1>5. CASE Df!df_svc
  BY <1>0, <1>5, DfServiceAddress
<1>6. CASE Df!Detach \/ Df!Deposit \/ \E c \in Sizes : Df!df_attach(c) \/ Df!df_set_size(c)
  BY <1>0, <1>6 DEF Df!Detach, Df!Deposit, Df!df_attach, Df!df_set_size, Df!regvars
<1> QED BY <1>0, <1>1, <1>2, <1>3, <1>4, <1>5, <1>6 DEF Df!Next, Df!df

LEMMA DfBegins == Df!Init => DfInv
<1> SUFFICES ASSUME Df!Init PROVE DfInv
  OBVIOUS
<1>1. df_da \in 0 .. Low - 1 /\ dex \in 0 .. High - 1 /\ wc \in 0 .. MaxWords - 1
  BY DfNumbers DEF Df!Init
<1>2. {df_err, df_done, int_df, df_burst, df_active, polite} \subseteq BOOLEAN
  BY DEF Df!Init
<1>3. disk \in [capac : Sizes, attached : BOOLEAN] /\ df_wlk = {} /\ FUNC = "READ" /\ ordered = <<>>
  BY DEF Df!Init
<1>4. Df!TypeOK
  BY <1>1, <1>2, <1>3 DEF Df!TypeOK
<1>5. Df!IntAgrees
  BY DEF Df!Init, Df!IntAgrees
<1> QED BY <1>3, <1>4, <1>5 DEF DfInv, DfOrdered, Df!CountedWords

\* The flags, and what the operator has set.
LEMMA DfFlagsTyped ==
    ASSUME DfInv, Df!Next
    PROVE  /\ ({df_err, df_done, int_df, df_burst, df_active, polite} \subseteq BOOLEAN)'
           /\ df_wlk' \subseteq {1} /\ FUNC' \in {"READ", "WRITE"}
           /\ disk' \in [capac : Sizes, attached : BOOLEAN]
<1> DEFINE Typed == /\ ({df_err, df_done, int_df, df_burst, df_active, polite} \subseteq BOOLEAN)'
                    /\ df_wlk' \subseteq {1} /\ FUNC' \in {"READ", "WRITE"}
                    /\ disk' \in [capac : Sizes, attached : BOOLEAN]
<1>0. /\ df_err \in BOOLEAN /\ df_done \in BOOLEAN /\ int_df \in BOOLEAN /\ df_burst \in BOOLEAN
      /\ df_active \in BOOLEAN /\ polite \in BOOLEAN
      /\ df_wlk \subseteq {1} /\ FUNC \in {"READ", "WRITE"}
      /\ disk \in [capac : Sizes, attached : BOOLEAN]
  BY DEF DfInv, Df!TypeOK
<1> USE <1>0
<1>1. CASE Df!DCMA
  BY <1>1 DEF Df!DCMA, Df!BeginAnew, Df!operator
<1>2. ASSUME NEW func \in {"READ", "WRITE"}, NEW addr \in 0 .. Low - 1, NEW clear \in BOOLEAN,
             Df!Order(func, addr, clear)
      PROVE  Typed
  <2>1. UNCHANGED <<df_burst, polite, df_wlk, disk>> /\ FUNC' = func /\ df_active' \in BOOLEAN
    BY <1>2 DEF Df!Order, Df!operator
  <2>2. df_err' \in BOOLEAN /\ df_done' \in BOOLEAN /\ int_df' \in BOOLEAN
    BY <1>2 DEF Df!Order, Df!BeginAnew
  <2> QED BY <2>1, <2>2
<1>3. CASE \/ \E high \in 0 .. High - 1, clear \in BOOLEAN : Df!SetHigh(high, clear)
           \/ \E n \in Counts : Df!SetCount(n)
  <2>1. UNCHANGED <<df_burst, polite, df_wlk, disk, FUNC, df_active, df_err, df_done, int_df>>
    BY <1>3 DEF Df!SetHigh, Df!SetCount, Df!operator, Df!regvars
  <2> QED BY <2>1
<1>4. CASE Df!df_svc
  <2>1. UNCHANGED <<df_burst, polite, df_wlk, disk, FUNC>>
    BY <1>4 DEF Df!df_svc, Df!operator
  <2>2. df_done' \in BOOLEAN /\ int_df' \in BOOLEAN /\ df_active' \in BOOLEAN
    BY <1>4 DEF Df!df_svc, Df!NotAttached, Df!BeyondDisk, Df!Move, Df!Done
  <2>3. df_err' \in BOOLEAN
    BY <1>4 DEF Df!df_svc, Df!NotAttached, Df!BeyondDisk, Df!Move
  <2> QED BY <2>1, <2>2, <2>3
<1>5. CASE Df!df_reset
  BY <1>5 DEF Df!df_reset, Df!operator
<1>6. CASE Df!Detach \/ Df!Deposit \/ \E c \in Sizes : Df!df_attach(c) \/ Df!df_set_size(c)
  <2>1. UNCHANGED <<df_err, df_done, int_df, df_active, polite, FUNC>>
    BY <1>6 DEF Df!Detach, Df!Deposit, Df!df_attach, Df!df_set_size, Df!regvars
  <2>2. disk' \in [capac : Sizes, attached : BOOLEAN]
    <3>1. CASE Df!Detach
      BY <3>1 DEF Df!Detach
    <3>2. CASE Df!Deposit
      BY <3>2 DEF Df!Deposit
    <3>3. ASSUME NEW c \in Sizes, Df!df_attach(c) \/ Df!df_set_size(c)
          PROVE  disk' \in [capac : Sizes, attached : BOOLEAN]
      <4>1. disk' = [capac |-> c, attached |-> TRUE] \/ disk' = [disk EXCEPT !.capac = c]
        BY <3>3 DEF Df!df_attach, Df!df_set_size
      <4>2. [capac |-> c, attached |-> TRUE] \in [capac : Sizes, attached : BOOLEAN]
        OBVIOUS
      <4>3. [disk EXCEPT !.capac = c] \in [capac : Sizes, attached : BOOLEAN]
        OBVIOUS
      <4> QED BY <4>1, <4>2, <4>3, Zenon
    <3> QED BY <1>6, <3>1, <3>2, <3>3
  <2>3. df_wlk' = df_wlk \/ df_wlk' \in SUBSET {1}
    BY <1>6 DEF Df!Detach, Df!Deposit, Df!df_attach, Df!df_set_size
  <2>4. df_burst' \in BOOLEAN
    <3>1. CASE Df!Deposit
      BY <3>1 DEF Df!Deposit
    <3>2. CASE ~Df!Deposit
      BY <1>6, <3>2 DEF Df!Detach, Df!df_attach, Df!df_set_size
    <3> QED BY <3>1, <3>2
  <2> QED BY <2>1, <2>2, <2>3, <2>4
<1> QED BY <1>1, <1>2, <1>3, <1>4, <1>5, <1>6 DEF Df!Next, Df!df

LEMMA DfRequests == ASSUME DfInv, Df!Next PROVE Df!IntAgrees'
<1>0. Df!IntAgrees
  BY DEF DfInv
<1>1. CASE Df!DCMA \/ Df!df_reset
  BY <1>1 DEF Df!DCMA, Df!BeginAnew, Df!df_reset, Df!IntAgrees
<1>2. ASSUME NEW func, NEW addr, NEW clear \in BOOLEAN, Df!Order(func, addr, clear) PROVE Df!IntAgrees'
  BY <1>0, <1>2 DEF Df!Order, Df!BeginAnew, Df!IntAgrees
<1>3. CASE Df!df_svc
  <2>1. (df_done' /\ int_df') \/ ((df_done' <=> df_done) /\ (int_df' <=> int_df) /\ ~df_err')
    BY <1>3 DEF Df!df_svc, Df!NotAttached, Df!BeyondDisk, Df!Move, Df!Done
  <2> QED BY <1>0, <2>1 DEF Df!IntAgrees
<1>4. CASE \/ \E high \in 0 .. High - 1, clear \in BOOLEAN : Df!SetHigh(high, clear)
           \/ \E n \in Counts : Df!SetCount(n)
           \/ Df!Detach \/ Df!Deposit \/ \E c \in Sizes : Df!df_attach(c) \/ Df!df_set_size(c)
  <2>1. UNCHANGED <<df_err, df_done, int_df>>
    BY <1>4 DEF Df!SetHigh, Df!SetCount, Df!Detach, Df!Deposit, Df!df_attach, Df!df_set_size, Df!regvars
  <2> QED BY <1>0, <2>1 DEF Df!IntAgrees
<1> QED BY <1>1, <1>2, <1>3, <1>4 DEF Df!Next, Df!df

LEMMA DfRemembered == ASSUME DfInv, Df!Next PROVE DfOrdered'
<1>0. DfOrdered /\ wc \in 0 .. MaxWords - 1 /\ dex \in 0 .. High - 1 /\ df_da' \in 0 .. Low - 1
  BY DfAddresses DEF DfInv, Df!TypeOK
<1>1. polite' = polite
  BY DEF Df!Next, Df!df, Df!DCMA, Df!Order, Df!SetHigh, Df!SetCount, Df!df_svc,
         Df!df_reset, Df!Detach, Df!Deposit, Df!df_attach, Df!df_set_size, Df!operator
<1>2. \/ ordered' = <<>> \/ ordered' = ordered
      \/ polite /\ ordered' = [da |-> (dex * Low) + df_da', wc |-> wc]
  BY DEF Df!Next, Df!df, Df!DCMA, Df!Order, Df!SetHigh, Df!SetCount, Df!df_svc, Df!NotAttached, Df!BeyondDisk,
         Df!Move, Df!df_reset, Df!Detach, Df!Deposit, Df!df_attach, Df!df_set_size
<1>3. (dex * Low) + df_da' \in 0 .. Df!Last - 1
  BY <1>0, DfJoined
<1> QED BY <1>0, <1>1, <1>2, <1>3 DEF DfOrdered

\* The words of a transfer: the address of the last one is one less.
Held == IF df_done /\ FUNC = "WRITE" THEN 1 ELSE 0
DfApart ==
    Alike(DfRing, Df!Address + Held + Df!Last - ordered.da, wc + MaxWords - ordered.wc)
DfEnded == (df_active <=> ~df_done) /\ (df_done => wc = 0 \/ df_err)

LEMMA DfCounted == Df!CountedWords <=> (ordered # <<>> => DfApart /\ DfEnded)
BY DEF Df!CountedWords, DfApart, DfEnded, Held, Alike, DfRing

\* One back in a ring, and one more than that, is the same place.
LEMMA BackAndForth ==
    ASSUME NEW L \in Nat \ {0}, NEW a \in Int, NEW size \in Nat \ {0}, size % L = 0, NEW from \in Int
    PROVE  Alike(L, ((a + size - 1) % size) + 1 + size - from, a + size - from)
<1>1. PICK x \in Int, n \in Int, w \in Int, z \in Int :
         x = a + size - 1 /\ n = 1 + size - from /\ w = x + n /\ z = a + size - from
  OBVIOUS
<1>2. x % size \in Int /\ size = (size \div L) * L + (size % L) /\ size \div L \in Int
  BY <1>1, Divided
<1>3. PICK v \in Int, k \in Int : v = (x % size) + n /\ k = size \div L /\ size = k * L
  BY <1>1, <1>2
<1>4. IsSum(v, x % size, n) /\ IsSum(w, x, n)
  BY <1>1, <1>3 DEF IsSum
<1>5. Alike(L, v, w)
  BY <1>4, RingTurns
<1>6. w = z + size
  BY <1>1
<1>7. Rounds(L, w, z, k)
  BY <1>3, <1>6 DEF Rounds
<1>8. Alike(L, w, z)
  BY <1>7, Turns
<1>9. v = ((a + size - 1) % size) + 1 + size - from
  BY <1>1, <1>2, <1>3
<1> QED BY <1>1, <1>5, <1>8, <1>9 DEF Alike

\* The end of a transfer that has come as far as the address da.
LEMMA DfDone ==
    ASSUME NEW da \in 0 .. Df!Last - 1, Df!Done(da), FUNC' = FUNC,
           FUNC \in {"READ", "WRITE"}, NEW from \in Int
    PROVE  Alike(DfRing, (Df!Address)' + Held' + Df!Last - from, da + Df!Last - from)
<1>1. (Df!Address)' = Df!HeldAt(da) /\ df_done'
  BY DfHeld, DfAddressSet DEF Df!Done
<1>2. CASE FUNC = "READ"
  <2>1. (Df!Address)' = da /\ Held' = 0
    BY <1>1, <1>2 DEF Df!HeldAt, Held
  <2>2. (Df!Address)' + Held' + Df!Last - from = da + Df!Last - from
    BY <2>1, DfNumbers
  <2> QED BY <2>2 DEF Alike
<1>3. CASE FUNC = "WRITE"
  <2>1. (Df!Address)' = (da + Df!Last - 1) % Df!Last /\ Held' = 1
    BY <1>1, <1>3 DEF Df!HeldAt, Held
  <2>2. Alike(DfRing, ((da + Df!Last - 1) % Df!Last) + 1 + Df!Last - from, da + Df!Last - from)
    <3>1. DfRing \in Nat \ {0} /\ da \in Int /\ Df!Last \in Nat \ {0} /\ Df!Last % DfRing = 0
      BY DfNumbers
    <3> QED BY <3>1, BackAndForth
  <2> QED BY <2>1, <2>2
<1> QED BY <1>2, <1>3

LEMMA DfMoved ==
    ASSUME DfInv, Df!df_svc, ordered' # <<>>
    PROVE  DfApart' /\ DfEnded'
<1>1. ordered' = ordered /\ ~Df!NotAttached /\ FUNC' = FUNC
  BY DEF Df!df_svc, Df!NotAttached, Df!BeyondDisk, Df!Move
<1>2. polite /\ ordered.da \in Int /\ ordered.wc \in Int
  BY <1>1 DEF DfInv, DfOrdered
<1>3. DfApart /\ DfEnded
  BY <1>1, DfCounted DEF DfInv
<1>4. df_active /\ ~df_done /\ Held = 0
  BY <1>3 DEF Df!df_svc, DfEnded, Held
<1>5. Df!Address \in 0 .. Df!Last - 1 /\ wc \in Int /\ FUNC \in {"READ", "WRITE"} /\ Df!Last \in Int
  BY DfAddressTyped, DfNumbers DEF DfInv, Df!TypeOK
<1>6. Alike(DfRing, Df!Address + Df!Last - ordered.da, wc + MaxWords - ordered.wc)
  <2>1. Df!Address + Held + Df!Last - ordered.da = Df!Address + Df!Last - ordered.da
    BY <1>2, <1>4, <1>5
  <2> QED BY <1>3, <2>1 DEF DfApart
<1>7. CASE Df!BeyondDisk
  <2>1. Df!Done(Df!Address) /\ df_err' /\ wc' = wc
    BY <1>7 DEF Df!BeyondDisk
  <2>2. Alike(DfRing, (Df!Address)' + Held' + Df!Last - ordered.da, Df!Address + Df!Last - ordered.da)
    BY <1>1, <1>2, <1>5, <2>1, DfDone
  <2>3. DfApart'
    BY <1>1, <1>6, <2>1, <2>2 DEF DfApart, Alike
  <2> QED BY <2>1, <2>3 DEF DfEnded, Df!Done
<1>8. CASE ~Df!BeyondDisk
  <2>1. PICK m \in Df!Moves : Df!Move(m[1], m[2])
    BY <1>1, <1>8 DEF Df!df_svc
  <2>2. m[1] \in Int /\ m[2] = (wc + m[1]) % MaxWords /\ wc' = m[2]
    BY <1>2, <2>1, DfAmounts DEF DfInv, Df!Move
  <2>3. PICK da : da = (Df!Address + m[1]) % Df!Last
    OBVIOUS
  <2>4. da \in 0 .. Df!Last - 1
    BY <1>5, <2>2, <2>3, DfNumbers
  <2>5. Alike(DfRing, ((Df!Address + m[1]) % Df!Last) + Df!Last - ordered.da,
              ((wc + m[1]) % MaxWords) + MaxWords - ordered.wc)
    <3>1. Df!Address \in Int /\ m[1] \in Int
      BY <1>5, <2>2
    <3>2. \A a \in Int, n \in Int :
             Alike(DfRing, a + Df!Last - ordered.da, wc + MaxWords - ordered.wc) =>
                Alike(DfRing, ((a + n) % Df!Last) + Df!Last - ordered.da,
                      ((wc + n) % MaxWords) + MaxWords - ordered.wc)
      BY <1>2, <1>5, DfNumbers, InStep
    <3> QED BY <1>6, <3>1, <3>2
  <2>6. Alike(DfRing, da + Df!Last - ordered.da, wc' + MaxWords - ordered.wc)
    BY <2>2, <2>3, <2>5
  <2>7. CASE wc' # 0 /\ ~df_err'
    <3>1. Df!SetAddress(da) /\ (df_done' <=> df_done) /\ (df_active' <=> df_active)
      BY <2>1, <2>2, <2>3, <2>7 DEF Df!Move
    <3>2. (Df!Address)' = da /\ Held' = 0
      BY <1>4, <2>4, <3>1, DfAddressSet DEF Held
    <3>3. (Df!Address)' + Held' + Df!Last - ordered.da = da + Df!Last - ordered.da
      BY <1>2, <1>5, <2>4, <3>2
    <3>4. DfApart'
      BY <1>1, <2>6, <3>3 DEF DfApart
    <3> QED BY <1>4, <3>1, <3>4 DEF DfEnded
  <2>8. CASE ~(wc' # 0 /\ ~df_err')
    <3>1. Df!Done(da)
      BY <2>1, <2>2, <2>3, <2>8 DEF Df!Move
    <3>2. Alike(DfRing, (Df!Address)' + Held' + Df!Last - ordered.da, da + Df!Last - ordered.da)
      BY <1>1, <1>2, <1>5, <2>4, <3>1, DfDone
    <3>3. DfApart'
      BY <1>1, <2>6, <3>2 DEF DfApart, Alike
    <3>4. df_done' /\ ~df_active'
      BY <3>1 DEF Df!Done
    <3> QED BY <2>8, <3>3, <3>4 DEF DfEnded
  <2> QED BY <2>7, <2>8
<1> QED BY <1>7, <1>8

LEMMA DfTransfers == ASSUME DfInv, Df!Next PROVE Df!CountedWords'
<1> SUFFICES ASSUME ordered' # <<>> PROVE DfApart' /\ DfEnded'
  BY DEF Df!CountedWords, DfApart, DfEnded, Held, Alike, DfRing
<1>0. ordered # <<>> => DfApart /\ DfEnded
  BY DfCounted DEF DfInv
<1>n. ASSUME UNCHANGED <<ordered, df_da, dex, wc, df_active, df_done, df_err, FUNC>> PROVE DfApart' /\ DfEnded'
  <2>1. Df!Address' = Df!Address /\ Held' = Held
    BY <1>n DEF Df!Address, Held
  <2> QED BY <1>0, <1>n, <2>1 DEF DfApart, DfEnded, Alike
<1>1. CASE Df!DCMA \/ Df!df_reset \/ \E n \in Counts : Df!SetCount(n)
  BY <1>1 DEF Df!DCMA, Df!df_reset, Df!SetCount
<1>2. ASSUME NEW func, NEW addr, NEW clear \in BOOLEAN, Df!Order(func, addr, clear) PROVE DfApart' /\ DfEnded'
  <2>1. polite /\ ordered' = [da |-> (dex * Low) + df_da', wc |-> wc] /\ wc' = wc /\ dex' = dex /\ df_active'
    BY <1>2 DEF Df!Order
  <2>2. ~df_done' /\ Held' = 0
    BY <1>2, <2>1 DEF Df!Order, Df!BeginAnew, Held
  <2>3. df_da' \in Int /\ dex' \in Int /\ wc' \in Int /\ Low \in Int /\ Df!Last \in Int /\ MaxWords \in Int
    BY DfAddresses, DfNumbers
  <2>4. PICK da \in Int : da = (dex * Low) + df_da'
    <3>1. \A h, l, d \in Int : (h * l) + d \in Int
      OBVIOUS
    <3> QED BY <2>1, <2>3, <3>1
  <2>5. (Df!Address)' = da /\ ordered' = [da |-> da, wc |-> wc']
    BY <2>1, <2>4 DEF Df!Address
  <2>6. da + 0 + Df!Last - da = Df!Last /\ wc' + MaxWords - wc' = MaxWords
    <3>1. \A x, y \in Int : x + y - x = y /\ x + 0 = x
      OBVIOUS
    <3> QED BY <2>3, <3>1
  <2>7. DfApart'
    BY <2>2, <2>5, <2>6, DfNumbers DEF DfApart, Alike, DfRing
  <2> QED BY <2>1, <2>2, <2>7 DEF DfEnded
<1>3. ASSUME NEW high, NEW clear, Df!SetHigh(high, clear) PROVE DfApart' /\ DfEnded'
  <2>1. UNCHANGED <<ordered, df_da, dex, wc, df_active, df_done, df_err, FUNC>>
    BY <1>3 DEF Df!SetHigh
  <2> QED BY <1>n, <2>1
<1>4. CASE Df!df_svc
  BY <1>4, DfMoved
<1>5. CASE Df!Detach \/ Df!Deposit \/ \E c \in Sizes : Df!df_attach(c) \/ Df!df_set_size(c)
  <2>1. UNCHANGED <<ordered, df_da, dex, wc, df_active, df_done, df_err, FUNC>>
    BY <1>5 DEF Df!Detach, Df!Deposit, Df!df_attach, Df!df_set_size, Df!regvars
  <2> QED BY <1>n, <2>1
<1> QED BY <1>1, <1>2, <1>3, <1>4, <1>5 DEF Df!Next, Df!df

LEMMA DfSteps == DfInv /\ Df!Next => DfInv'
BY DfAddresses, DfFlagsTyped, DfRequests, DfRemembered, DfTransfers DEF DfInv, Df!TypeOK

-----------------------------------------------------------------------------
(* A behaviour is about one of them.                                       *)

LEMMA DisksBegin == DisksInit => DisksInv
BY RxBegins, RlBegins, RfBegins, DfBegins DEF DisksInit, DisksInv

LEMMA DisksStay == DisksInv /\ UNCHANGED allvars => DisksInv'
<1> SUFFICES ASSUME DisksInv, UNCHANGED allvars PROVE DisksInv'
  OBVIOUS
<1> USE DEF allvars, rxvars, rlvars, rfvars, dfvars, diskvars
<1>1. RxInv => RxInv'
  BY DEF RxInv, Rx!TypeOK, Rx!IntAgrees, RxRoom, Rx!EventsMatch, WordUnderWay, Rx!FillInOrder
<1>2. RlInv => RlInv'
  BY DEF RlInv, Rl!TypeOK, Rl!IntAgrees, Rl!OrderStands, Rl!Registers
<1>3. RfInv => RfInv'
  BY DEF RfInv, RfOrdered, Rf!TypeOK, Rf!IntAgrees, Rf!Calls, Rf!PhotocellRuns, Rf!CountedWords
<1>4. DfInv => DfInv'
  BY DEF DfInv, DfOrdered, Df!TypeOK, Df!IntAgrees, Df!CountedWords, Df!Address
<1> QED BY <1>1, <1>2, <1>3, <1>4 DEF DisksInv

LEMMA DisksStep == DisksInv /\ DisksNext => DisksInv'
BY RxSteps, RlSteps, RfSteps, DfSteps DEF DisksNext, RxStep, RlStep, RfStep, DfStep, DisksInv

LEMMA DisksSafe == DisksSpec => []DisksInv
<1>1. DisksInv /\ [DisksNext]_allvars => DisksInv'
  BY DisksStay, DisksStep
<1> QED BY <1>1, DisksBegin, PTL DEF DisksSpec

\* The registers of every controller stay in their types, and though each IOT,
\* service and reset of pdp8_rx.c, pdp8_rl.c, pdp8_rf.c and pdp8_df.c updates int_req
\* by itself, the request stands just while the flags call for one.
THEOREM RequestsKept == DisksSpec => []RequestsAgree
<1>1. DisksInv => RequestsAgree
  BY ControllersAssumption DEF DisksInv, RequestsAgree, RxInv, RlInv, RfInv, DfInv
<1> QED BY <1>1, DisksSafe, PTL

\* No floppy command hangs between two events of rx_svc and its words are stored in
\* the order they were given in; a command of the RL8A is carried out as it was
\* ordered; and the transfers of rf_svc and df_svc, in bursts or word by word, on a
\* disk that begins again behind its end, move a word for each one they count.
THEOREM EventsKept == DisksSpec => []EventsMatch
<1>1. DisksInv => EventsMatch
  BY DEF DisksInv, EventsMatch, RxInv, RlInv, RfInv, DfInv
<1> QED BY <1>1, DisksSafe, PTL
=============================================================================
