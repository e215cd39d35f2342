----------------------------- MODULE HostProofs -----------------------------
(***************************************************************************)
(* What is around the simulated machine, for any number of switches and    *)
(* slots, any file names, any units and delays: debouncing, mounting, the  *)
(* life of the GPIO thread and the event queue, whose own proofs are in    *)
(* QueueProofs.                                                            *)
(***************************************************************************)
EXTENDS MCHost, TLAPS

QP == INSTANCE QueueProofs

----------------------------------------------------------------------------
(* The debouncer.  Without steps of the wall clock the age of the last     *)
(* change is how long every sample differed from the report; and a switch  *)
(* already visited in this scan that is outstanding has not been so for    *)
(* longer than debounce_ms, or it had been reported.                       *)

AgeIsUnlike == ~ClockSteps => age = unlike

VisitedIsYoung ==
    ~ClockSteps => \A s \in Switch : s < pos => age[s] <= DebounceTime

ScanInv == TypeOK /\ AgeIsUnlike /\ VisitedIsYoung

LEMMA Sizes == /\ NSwitches \in Nat \ {0} /\ DebounceTime \in Nat \ {0}
               /\ Long \in Nat /\ na \in Int \ 0 .. Long /\ na < 0 /\ DebounceTime < Long
BY SizeAssumption DEF Long, na

LEMMA ScanInit == Init => ScanInv
<1> SUFFICES ASSUME Init PROVE ScanInv
  OBVIOUS
<1>1. TypeOK
  <2>1. age \in [Switch -> {na} \cup 0 .. Long] /\ unlike \in [Switch -> {na} \cup 0 .. Long]
    BY DEF Init
  <2>2. contact \subseteq Switch /\ switchstatus \subseteq Switch /\ stable_state = switchstatus
    BY DEF Init
  <2>3. pos \in 0 .. NSwitches
    BY Sizes DEF Init
  <2>4. gss_initted \in BOOLEAN
    BY DEF Init
  <2> QED BY <2>1, <2>2, <2>3, <2>4 DEF TypeOK
<1>2. AgeIsUnlike /\ VisitedIsYoung
  BY Sizes DEF Init, AgeIsUnlike, VisitedIsYoung, Switch
<1> QED BY <1>1, <1>2 DEF ScanInv

\* The three outcomes of reading a switch.
LEMMA DebounceOutcomes ==
    ASSUME NEW s, NEW ss, DebounceSwitch(s, ss)
    PROVE  \/ Report(s, ss) /\ (gss_initted => age[s] > DebounceTime /\ ss # (s \in stable_state))
           \/ Pend(s, na) /\ gss_initted /\ ss = (s \in stable_state)
           \/ Pend(s, 0) /\ gss_initted /\ ss # (s \in stable_state) /\ age[s] = na
           \/ /\ Pend(s, age[s]) /\ gss_initted /\ ss # (s \in stable_state)
              /\ age[s] # na /\ ~(age[s] > DebounceTime)
BY DEF DebounceSwitch

LEMMA ScanStepKeeps == ASSUME ScanInv, [Next]_vars PROVE ScanInv'
<1> USE Sizes DEF ScanInv
<1>1. ASSUME NEW s \in Switch, Move(s) PROVE ScanInv'
  BY <1>1 DEF Move, TypeOK, AgeIsUnlike, VisitedIsYoung
<1>2. ASSUME BeginScan PROVE ScanInv'
  <2>1. PICK passed \in 1 .. Long, set \in (IF ClockSteps THEN -Long .. Long ELSE {0}) :
          /\ age' = [s \in Switch |-> IF age[s] = na THEN na ELSE Unsigned(age[s] + passed + set)]
          /\ unlike' = [s \in Switch |-> IF unlike[s] = na THEN na ELSE Capped(unlike[s] + passed)]
    BY <1>2 DEF BeginScan
  <2>2. set \in Int /\ (~ClockSteps => set = 0)
    BY <2>1
  <2>3. \A n \in Int : Unsigned(n) \in 0 .. Long /\ (n >= 0 => Unsigned(n) = Capped(n) /\ Capped(n) \in 0 .. Long)
    BY DEF Unsigned, Capped
  <2>4. TypeOK'
    BY <1>2, <2>1, <2>2, <2>3 DEF BeginScan, TypeOK
  <2>5. AgeIsUnlike'
    BY <2>1, <2>2, <2>3 DEF AgeIsUnlike, TypeOK
  <2>6. VisitedIsYoung'
    BY <1>2 DEF BeginScan, VisitedIsYoung, Switch
  <2> QED BY <2>4, <2>5, <2>6
<1>3. ASSUME ReadSwitch PROVE ScanInv'
  <2> DEFINE ss == pos \in contact
  <2>1. /\ pos # 0 /\ DebounceSwitch(pos, ss)
        /\ unlike' = [unlike EXCEPT ![pos] = IF ss = (pos \in switchstatus') THEN na
                                             ELSE IF @ = na THEN 0 ELSE @]
        /\ pos' = (IF pos = NSwitches THEN 0 ELSE pos + 1)
        /\ gss_initted' = (gss_initted \/ pos = NSwitches)
        /\ UNCHANGED contact
    BY <1>3 DEF ReadSwitch, Visit
  <2>2. pos \in Switch /\ ss \in BOOLEAN
    BY <2>1 DEF Switch, TypeOK
  <2> HIDE DEF ss
  <2>3. \/ Report(pos, ss) /\ (gss_initted => age[pos] > DebounceTime)
        \/ Pend(pos, na) /\ ss = (pos \in stable_state)
        \/ Pend(pos, 0) /\ ss # (pos \in stable_state) /\ age[pos] = na
        \/ /\ Pend(pos, age[pos]) /\ ss # (pos \in stable_state)
           /\ age[pos] # na /\ ~(age[pos] > DebounceTime)
    BY <2>1, DebounceOutcomes
  <2>4. TypeOK'
    <3>1. age' \in [Switch -> {na} \cup 0 .. Long]
      BY <2>2, <2>3 DEF TypeOK, Report, Pend
    <3>2. stable_state' = switchstatus' /\ switchstatus' \subseteq Switch
      BY <2>2, <2>3 DEF TypeOK, Report, Pend
    <3>3. unlike' \in [Switch -> {na} \cup 0 .. Long]
      BY <2>1, <2>2 DEF TypeOK
    <3>4. pos' \in 0 .. NSwitches /\ gss_initted' \in BOOLEAN
      BY <2>1 DEF TypeOK
    <3> QED BY <2>1, <3>1, <3>2, <3>3, <3>4 DEF TypeOK
  <2>5. AgeIsUnlike' /\ age' = [age EXCEPT ![pos] = age'[pos]] /\ age'[pos] <= DebounceTime
    BY <2>1, <2>2, <2>3 DEF TypeOK, AgeIsUnlike, Report, Pend
  <2>6. VisitedIsYoung'
    BY <2>1, <2>2, <2>5 DEF VisitedIsYoung, TypeOK, Switch
  <2> QED BY <2>4, <2>5, <2>6
<1>4. CASE UNCHANGED vars
  BY <1>4 DEF vars, TypeOK, AgeIsUnlike, VisitedIsYoung
<1> QED BY <1>1, <1>2, <1>3, <1>4 DEF Next, Scan

\* What a report of s after the first scan says: it is the switch visited, and it
\* had differed for longer than debounce_ms.
LEMMA ReportIsOld ==
    ASSUME ScanInv, [Next]_vars, ~ClockSteps, NEW s \in Switch, Reports(s)
    PROVE  s = pos /\ unlike[s] > DebounceTime
<1> USE Sizes DEF ScanInv
<1>1. ReadSwitch
  BY DEF Next, Scan, vars, Reports, Move, BeginScan
<1> DEFINE ss == pos \in contact
<1>2. DebounceSwitch(pos, ss) /\ unlike = age
  BY <1>1 DEF ReadSwitch, Visit, AgeIsUnlike
<1> HIDE DEF ss
<1>3. Report(pos, ss) /\ age[pos] > DebounceTime
  BY <1>2, DebounceOutcomes DEF Reports, Pend
<1> QED BY <1>2, <1>3 DEF Report, Reports

LEMMA OldOnly ==
    ScanInv /\ [Next]_vars /\ ~ClockSteps
        => [\A s \in Switch : Reports(s) => unlike[s] > DebounceTime]_vars
BY ReportIsOld

LEMMA InOrder ==
    ScanInv /\ [Next]_vars /\ ~ClockSteps
        => [\A s, t \in Switch :
               s < t /\ Reports(t) /\ unlike[s] # na => unlike[s] < unlike[t]]_vars
<1> SUFFICES ASSUME ScanInv, [Next]_vars, ~ClockSteps,
                    NEW s \in Switch, NEW t \in Switch, s < t, Reports(t), unlike[s] # na
             PROVE  unlike[s] < unlike[t]
  OBVIOUS
<1>1. t = pos /\ unlike[t] > DebounceTime
  BY ReportIsOld
<1>2. unlike[s] = age[s] /\ age[s] <= DebounceTime
  BY <1>1 DEF ScanInv, AgeIsUnlike, VisitedIsYoung
<1>3. unlike[s] \in Int /\ unlike[t] \in Int
  BY Sizes DEF ScanInv, TypeOK
<1> QED BY <1>1, <1>2, <1>3, Sizes

\* The composition steps the debouncer or leaves it alone.
LEMMA ScanSteps == [HostNext]_hostvars => [Next]_vars
BY DEF HostNext, ScanStep, UsbStep, LifeStep, QueueStep, hostvars

LEMMA ScanInvariant == FairHost => []ScanInv
<1>1. HostInit => ScanInv
  BY ScanInit DEF HostInit, ScanRest
<1>2. ScanInv /\ [HostNext]_hostvars => ScanInv'
  BY ScanSteps, ScanStepKeeps
<1> QED BY <1>1, <1>2, PTL DEF FairHost

(* A change is reported only when every sample of more than debounce_ms    *)
(* showed it (debounce_switch), if the wall clock is not set meanwhile.    *)
THEOREM BouncesHidden == ~ClockSteps /\ FairHost => Debounced
<1> SUFFICES ASSUME ~ClockSteps PROVE FairHost => Debounced
  OBVIOUS
<1>1. ScanInv /\ [HostNext]_hostvars
        => [\A s \in Switch : Reports(s) => unlike[s] > DebounceTime]_vars
  BY ScanSteps, OldOnly
<1> QED BY <1>1, ScanInvariant, PTL DEF FairHost, Debounced

(* Of two switches moved one after the other, the second is not reported   *)
(* while the first is outstanding, if read_switches visits the first one   *)
(* first.                                                                  *)
THEOREM ReportsInOrder == ~ClockSteps /\ FairHost => OrderKept
<1> SUFFICES ASSUME ~ClockSteps PROVE FairHost => OrderKept
  OBVIOUS
<1>1. ScanInv /\ [HostNext]_hostvars
        => [\A s, t \in Switch :
               s < t /\ Reports(t) /\ unlike[s] # na => unlike[s] < unlike[t]]_vars
  BY ScanSteps, InOrder
<1> QED BY <1>1, ScanInvariant, PTL DEF FairHost, OrderKept

----------------------------------------------------------------------------
(* Mounting.  What the search has found is of the type of the device it    *)
(* searches for and not known to be mounted, and what is known to be       *)
(* mounted in a slot is of that slot's type: so a file found for slot 1 to *)
(* 6 is in no other slot of them because it was compared, and in slot 7    *)
(* because it is of another type, which is why slot 7 need not be compared.*)
(* Nothing is said of what is attached: the operator may attach anything.  *)

FoundIsNew ==
    sFoundFile # Usb!none =>
        /\ devNo # 0 /\ sFoundFile.ext = Usb!Extension[devNo]
        /\ ~Usb!Known(sFoundFile)

MountedAreTyped ==
    \A s \in Slots : mountedFiles[s] # Usb!none => mountedFiles[s].ext = Usb!Extension[s]

\* The record of a slot is empty while a medium is sought for it.
GivenUp == devNo # 0 => mountedFiles[devNo] = Usb!none

UsbInv == Usb!TypeOK /\ FoundIsNew /\ MountedAreTyped /\ GivenUp

LEMMA Types ==
    /\ Slots \subseteq 1 .. 7 /\ 0 \notin Slots
    /\ Usb!none \notin Usb!File
    /\ \A s \in Slots : s # 7 => Usb!Extension[s] # Usb!Extension[7]
<1>1. Slots \subseteq 1 .. 7
  BY SlotsInUse DEF Usb!SlotsAssumption
<1>2. \A s \in 1 .. 7 :
        /\ s # 7 => Usb!Extension[s] # Usb!Extension[7]
        /\ Usb!Extension[s] # "none"
  BY DEF Usb!Extension
<1>3. Usb!none \notin Usb!File
  BY <1>1, <1>2 DEF Usb!none, Usb!File
<1> QED BY <1>1, <1>2, <1>3

LEMMA UsbInit == Usb!Init => UsbInv
BY DEF Usb!Init, UsbInv, Usb!TypeOK, FoundIsNew, MountedAreTyped, GivenUp

\* What a search of one directory returns.
LEMMA SearchFinds ==
    ASSUME UsbInv, NEW d \in Dirs, Usb!ReadDirectory(d)
    PROVE  FoundIsNew' /\ sFoundFile' \in Usb!File \cup {Usb!none}
<1>1. /\ devNo # 0 /\ sFoundFile' \in Usb!FoundIn(d)
      /\ UNCHANGED <<present, attached, mountedFiles, devNo>>
  BY DEF Usb!ReadDirectory
<1>2. sFoundFile' = sFoundFile \/ sFoundFile' = Usb!none
        \/ sFoundFile' \in {f \in Usb!Candidates(d) : ~Usb!Known(f)}
  BY <1>1 DEF Usb!FoundIn
<1>3. CASE sFoundFile' \in {f \in Usb!Candidates(d) : ~Usb!Known(f)}
  BY <1>1, <1>3 DEF FoundIsNew, Usb!Candidates, Usb!Known, UsbInv, Usb!TypeOK
<1> QED BY <1>1, <1>2, <1>3 DEF FoundIsNew, UsbInv, Usb!TypeOK, Usb!Known

LEMMA UsbStepKeeps == ASSUME UsbInv, [Usb!Next]_usbvars PROVE UsbInv'
<1> USE Types DEF UsbInv
<1>1. ASSUME NEW s \in Slots, Usb!BeginMount(s) PROVE UsbInv'
  BY <1>1 DEF Usb!BeginMount, Usb!TypeOK, FoundIsNew, MountedAreTyped, GivenUp
<1>2. ASSUME NEW d \in Dirs, Usb!ReadDirectory(d) PROVE UsbInv'
  BY <1>2, SearchFinds DEF Usb!ReadDirectory, Usb!TypeOK, MountedAreTyped, GivenUp
<1>3. ASSUME Usb!OpenFails \/ Usb!NothingFound PROVE UsbInv'
  BY <1>3 DEF Usb!OpenFails, Usb!NothingFound, Usb!Finish, Usb!TypeOK, FoundIsNew, MountedAreTyped, GivenUp
<1>4. ASSUME Usb!Attach PROVE UsbInv'
  <2>1. /\ devNo \in Slots /\ sFoundFile \in Usb!File /\ sFoundFile.ext = Usb!Extension[devNo]
        /\ devNo' = 0 /\ unread' = {} /\ sFoundFile' = Usb!none /\ UNCHANGED present
    BY <1>4 DEF Usb!Attach, Usb!Finish, Usb!TypeOK, FoundIsNew
  <2>2. \/ /\ attached' = [attached EXCEPT ![devNo] = sFoundFile]
           /\ mountedFiles' = [mountedFiles EXCEPT ![devNo] = sFoundFile]
        \/ /\ attached' \in {attached, [attached EXCEPT ![devNo] = Usb!none]}
           /\ UNCHANGED mountedFiles
    BY <1>4 DEF Usb!Attach, Usb!Recorded, Usb!NotRecorded, Usb!AttachFails
  <2>3. \A t \in Slots : t # devNo => mountedFiles[t] # sFoundFile
    <3>1. ASSUME NEW t \in Slots, t # devNo, t # 7 PROVE mountedFiles[t] # sFoundFile
      BY <2>1, <3>1 DEF FoundIsNew, Usb!Known
    <3>2. ASSUME 7 \in Slots, 7 # devNo PROVE mountedFiles[7] # sFoundFile
      BY <2>1, <3>2 DEF MountedAreTyped, Usb!TypeOK
    <3> QED BY <3>1, <3>2
  <2>4. \A s, t \in Slots :
          s # t /\ mountedFiles'[s] # Usb!none => mountedFiles'[s] # mountedFiles'[t]
    BY <2>1, <2>2, <2>3 DEF Usb!TypeOK
  <2> QED BY <2>1, <2>2, <2>4 DEF Usb!TypeOK, FoundIsNew, MountedAreTyped, GivenUp
<1>5. ASSUME Usb!Replug PROVE UsbInv'
  <2>1. present' \subseteq Usb!File
    BY <1>5 DEF Usb!Replug, Usb!TypeOK
  <2> QED BY <1>5, <2>1 DEF Usb!Replug, Usb!TypeOK, FoundIsNew, MountedAreTyped, GivenUp, Usb!Known
<1>6. ASSUME NEW s \in Slots, Usb!Command(s) PROVE UsbInv'
  BY <1>6 DEF Usb!Command, Usb!TypeOK, FoundIsNew, MountedAreTyped, GivenUp, Usb!Known
<1>7. CASE UNCHANGED usbvars
  BY <1>7 DEF usbvars, Usb!TypeOK, FoundIsNew, MountedAreTyped, GivenUp, Usb!Known
<1> QED BY <1>1, <1>2, <1>3, <1>4, <1>5, <1>6, <1>7 DEF Usb!Next, Usb!Mount

LEMMA NewOnly == UsbInv /\ [Usb!Next]_usbvars => [Usb!AttachesUnmounted]_usbvars
<1> SUFFICES ASSUME UsbInv, Usb!Next, NEW s \in Slots, NEW t \in Slots, devNo # 0,
                    attached'[s] # attached[s], attached'[s] # Usb!none, s # t
             PROVE  mountedFiles[t] # attached'[s]
  BY DEF Usb!AttachesUnmounted
<1>1. Usb!Attach
  BY DEF Usb!Next, Usb!Mount, Usb!BeginMount, Usb!ReadDirectory, Usb!OpenFails,
         Usb!NothingFound, Usb!Replug, Usb!Command
<1>2. s = devNo /\ attached'[s] = sFoundFile /\ sFoundFile \in Usb!File
  BY <1>1 DEF Usb!Attach, Usb!Recorded, Usb!NotRecorded, Usb!AttachFails, UsbInv, Usb!TypeOK
<1>3. CASE t # 7
  BY <1>2, <1>3, Types DEF UsbInv, FoundIsNew, Usb!Known
<1>4. CASE t = 7
  BY <1>2, <1>4, Types DEF UsbInv, FoundIsNew, MountedAreTyped, GivenUp, Usb!TypeOK
<1> QED BY <1>3, <1>4

LEMMA EndsTrue == UsbInv /\ [Usb!Next]_usbvars => [Usb!RecordsAttached]_usbvars
<1> SUFFICES ASSUME UsbInv, Usb!Next, devNo # 0, devNo' = 0
             PROVE  mountedFiles'[devNo] \in {Usb!none, attached'[devNo]}
  BY DEF Usb!RecordsAttached
<1>1. devNo \in Slots /\ mountedFiles[devNo] = Usb!none
  BY DEF UsbInv, Usb!TypeOK, GivenUp
<1>2. CASE Usb!Attach
  BY <1>1, <1>2 DEF Usb!Attach, Usb!Recorded, Usb!NotRecorded, Usb!AttachFails, UsbInv, Usb!TypeOK
<1>3. CASE UNCHANGED mountedFiles
  BY <1>1, <1>3
<1> QED BY <1>2, <1>3 DEF Usb!Next, Usb!Mount, Usb!BeginMount, Usb!ReadDirectory, Usb!OpenFails,
           Usb!NothingFound, Usb!Replug, Usb!Command

LEMMA UsbSteps == [HostNext]_hostvars => [Usb!Next]_usbvars
BY DEF HostNext, ScanStep, UsbStep, LifeStep, QueueStep, hostvars

LEMMA UsbInvariant == FairHost => []UsbInv
<1>1. HostInit => UsbInv
  BY UsbInit DEF HostInit, UsbRest
<1>2. UsbInv /\ [HostNext]_hostvars => UsbInv'
  BY UsbSteps, UsbStepKeeps
<1> QED BY <1>1, <1>2, PTL DEF FairHost

(* Whatever the sticks and the operator do, mount_usb_stick_file attaches  *)
(* no file that it knows to be mounted in another slot, though slot 7 is   *)
(* never compared.                                                         *)
THEOREM NoFileTwice == FairHost => AttachUnmounted
<1>1. UsbInv /\ [HostNext]_hostvars => [Usb!AttachesUnmounted]_usbvars
  BY UsbSteps, NewOnly
<1> QED BY <1>1, UsbInvariant, PTL DEF FairHost, AttachUnmounted

(* However a mount ends, with an attach_cmd that fails or after the stick  *)
(* was pulled, the record of its slot is empty or what the unit is         *)
(* attached to.                                                            *)
THEOREM RecordIsTrue == FairHost => RecordTells
<1>1. UsbInv /\ [HostNext]_hostvars => [Usb!RecordsAttached]_usbvars
  BY UsbSteps, EndsTrue
<1> QED BY <1>1, UsbInvariant, PTL DEF FairHost, RecordTells

----------------------------------------------------------------------------
(* The life of the process.  The thread holds the start-up interlock until *)
(* it is in its loop; it ends in the dark and is never started again, so a *)
(* process that has joined it leaves no LED lit.                           *)

Interlock == gpio \in {"none", "starting"} => start_mutex = "held"

StartedOnce == main = "create" <=> gpio = "none" /\ ~killed

EndedIsDark == gpio \in {"none", "starting", "ended", "joined"} => ~lit

SignalsAfter == main = "create" => handler = "dfl"

LifeInv ==
    Life!TypeOK /\ Interlock /\ StartedOnce /\ EndedIsDark /\ SignalsAfter /\ Life!LeavesDark

LEMMA LifeInit == Life!Init => LifeInv
BY DEF Life!Init, LifeInv, Life!TypeOK, Interlock, StartedOnce, EndedIsDark, SignalsAfter,
       Life!LeavesDark

LEMMA LifeBooleans ==
    ASSUME LifeInv, Life!Next
    PROVE  ({terminate, stop_cpu, sigterm_received, lit, killed} \subseteq BOOLEAN)'
<1> USE DEF LifeInv, Life!TypeOK, Life!ends, Life!signals
<1>1. ASSUME Life!GpioThread \/ Life!Proceed
      PROVE  ({terminate, stop_cpu, sigterm_received, lit, killed} \subseteq BOOLEAN)'
  BY <1>1 DEF Life!GpioThread, Life!Unlock, Life!Core, Life!Proceed, Life!CreateThread,
      Life!Started, Life!EndScript, Life!Join, Life!Prompt, Life!Stop, Life!Terminate,
      Life!EventStop, Life!EndRun
<1>2. ASSUME Life!Asked
      PROVE  ({terminate, stop_cpu, sigterm_received, lit, killed} \subseteq BOOLEAN)'
  BY <1>2 DEF Life!Asked, Life!Run, Life!EventStop, Life!OtherStop, Life!EndRun,
      Life!ExitCommand, Life!Signal, Life!Stop, Life!Terminate
<1> QED BY <1>1, <1>2 DEF Life!Next

LEMMA LifeStepKeeps == ASSUME LifeInv, Life!Next PROVE LifeInv'
<1> USE DEF LifeInv, Life!TypeOK, Interlock, StartedOnce, EndedIsDark, SignalsAfter,
            Life!LeavesDark, Life!ends, Life!signals
<1> USE LifeBooleans
<1>1. ASSUME Life!GpioThread PROVE LifeInv'
  BY <1>1 DEF Life!GpioThread, Life!Unlock, Life!Core
<1>2. ASSUME Life!CreateThread \/ Life!Started \/ Life!EndScript PROVE LifeInv'
  BY <1>2 DEF Life!CreateThread, Life!Started, Life!MutexGiven, Life!EndScript
<1>3. ASSUME Life!Join PROVE LifeInv'
  BY <1>3 DEF Life!Join, Life!Joinable
<1>4. ASSUME Life!Prompt PROVE LifeInv'
  BY <1>4 DEF Life!Prompt, Life!Stop, Life!Terminate
<1>5. ASSUME Life!EventStop \/ Life!OtherStop PROVE LifeInv'
  BY <1>5 DEF Life!EventStop, Life!OtherStop, Life!EndRun
<1>6. ASSUME Life!Run \/ Life!ExitCommand PROVE LifeInv'
  BY <1>6 DEF Life!Run, Life!ExitCommand, Life!Stop, Life!Terminate
<1>7. ASSUME Life!Signal PROVE LifeInv'
  <2>1. /\ main \notin {"dead", "join"} /\ UNCHANGED <<gpio, start_mutex, handler, insert_scp_cmd>>
    BY <1>7 DEF Life!Signal
  <2>2. CASE handler = "dfl"
    BY <1>7, <2>1, <2>2 DEF Life!Signal
  <2>3. CASE handler = "panel"
    BY <1>7, <2>1, <2>3 DEF Life!Signal, Life!Stop, Life!Terminate
  <2>4. CASE handler \in {"int", "ign"}
    <3>1. UNCHANGED <<main, then, gpio, start_mutex, terminate, handler, insert_scp_cmd, lit, killed>>
      BY <1>7, <2>1, <2>4 DEF Life!Signal
    <3> QED BY <3>1
  <2> QED BY <2>2, <2>3, <2>4
<1> QED BY <1>1, <1>2, <1>3, <1>4, <1>5, <1>6, <1>7 DEF Life!Next, Life!Proceed, Life!Asked

----------------------------------------------------------------------------
(* The event queue.  QueueProofs is about the same definitions under its   *)
(* own name of them.                                                       *)

LEMMA SameOperators ==
    /\ Queue!ResetQueue = QP!ResetQueue
    /\ \A u : Queue!Queued(u) <=> QP!Queued(u)
    /\ \A k : Queue!UPDATE_SIM_TIME(k) = QP!UPDATE_SIM_TIME(k)
    /\ \A k, u : Queue!sim_is_active(k, u) <=> QP!sim_is_active(k, u)
    /\ \A k, u, d : Queue!Activate(k, u, d) = QP!Activate(k, u, d)
    /\ \A k, u : Queue!Cancel(k, u) = QP!Cancel(k, u)
    /\ \A k, c : Queue!PopFirst(k, c) = QP!PopFirst(k, c)
    /\ \A k : Queue!CountDown(k) = QP!CountDown(k)
    /\ \A k : Queue!NoCatchingUp(k) = QP!NoCatchingUp(k)
    /\ Queue!CaughtUp = QP!CaughtUp
<1> USE DEF Queue!UPDATE_SIM_TIME, QP!UPDATE_SIM_TIME, Queue!sim_is_active, QP!sim_is_active,
       Queue!Contains, QP!Contains
<1>1. Queue!ResetQueue = QP!ResetQueue
  BY DEF Queue!ResetQueue, QP!ResetQueue
<1>2. \A u : Queue!Queued(u) <=> QP!Queued(u)
  BY DEF Queue!Queued, QP!Queued
<1>3. \A k, u, d : Queue!Activate(k, u, d) = QP!Activate(k, u, d)
  BY DEF Queue!Activate, QP!Activate, Queue!Accum, QP!Accum, Queue!Min, QP!Min,
         Queue!InsertAt, QP!InsertAt
<1>4. \A k, u : Queue!Cancel(k, u) = QP!Cancel(k, u)
  BY DEF Queue!Cancel, QP!Cancel, Queue!RemoveAt, QP!RemoveAt
<1>5. \A k, c : Queue!PopFirst(k, c) = QP!PopFirst(k, c)
  BY DEF Queue!PopFirst, QP!PopFirst
<1>6. \A k : Queue!CountDown(k) = QP!CountDown(k) /\ Queue!NoCatchingUp(k) = QP!NoCatchingUp(k)
  BY DEF Queue!CountDown, QP!CountDown, Queue!NoCatchingUp, QP!NoCatchingUp
<1>7. Queue!CaughtUp = QP!CaughtUp
  BY DEF Queue!CaughtUp, QP!CaughtUp
<1>8. \A k : Queue!UPDATE_SIM_TIME(k) = QP!UPDATE_SIM_TIME(k)
  OBVIOUS
<1>9. \A k, u : Queue!sim_is_active(k, u) <=> QP!sim_is_active(k, u)
  OBVIOUS
<1> QED BY <1>1, <1>2, <1>3, <1>4, <1>5, <1>6, <1>7, <1>8, <1>9

LEMMA SameSteps == (Queue!Init <=> QP!Init) /\ (Queue!Next <=> QP!Next)
<1> USE SameOperators
<1>1. Queue!Init <=> QP!Init
  BY DEF Queue!Init, QP!Init
<1>2. \A n : Queue!RunCommand(n) <=> QP!RunCommand(n)
  BY DEF Queue!RunCommand, QP!RunCommand, Queue!ActivateAbs, QP!ActivateAbs
<1>3. \A u, d : Queue!Schedule(u, d) <=> QP!Schedule(u, d)
  BY DEF Queue!Schedule, QP!Schedule, Queue!Scheduled, QP!Scheduled, Queue!ActivateAbs, QP!ActivateAbs
<1>4. \A u : Queue!Withdraw(u) <=> QP!Withdraw(u)
  BY DEF Queue!Withdraw, QP!Withdraw
<1>5. /\ Queue!BootPrep <=> QP!BootPrep
      /\ Queue!NothingDue <=> QP!NothingDue
      /\ Queue!Fetch <=> QP!Fetch
      /\ Queue!EndOfInstruction <=> QP!EndOfInstruction
      /\ Queue!StopInstruction <=> QP!StopInstruction
      /\ Queue!Compute <=> QP!Compute
      /\ Queue!ScheduleTick <=> QP!ScheduleTick
      /\ Queue!ServeStop <=> QP!ServeStop
  BY DEF Queue!BootPrep, QP!BootPrep, Queue!NothingDue, QP!NothingDue, Queue!Fetch, QP!Fetch,
     Queue!EndOfInstruction, QP!EndOfInstruction, Queue!StopInstruction, QP!StopInstruction,
     Queue!Compute, QP!Compute, Queue!ScheduleTick, QP!ScheduleTick, Queue!ServeStop, QP!ServeStop
<1>6. Queue!ServeFirst <=> QP!ServeFirst
  BY DEF Queue!ServeFirst, QP!ServeFirst
<1>7. Queue!Returns <=> QP!Returns
  BY DEF Queue!Returns, QP!Returns
<1>8. /\ Queue!ServeNext <=> QP!ServeNext
      /\ Queue!EndOfEvents <=> QP!EndOfEvents
      /\ Queue!StopEvents <=> QP!StopEvents
  BY <1>7 DEF Queue!ServeNext, QP!ServeNext, Queue!EndOfEvents, QP!EndOfEvents,
     Queue!StopEvents, QP!StopEvents
<1>9. /\ Queue!StopServices <=> QP!StopServices
      /\ Queue!CancelStep <=> QP!CancelStep
      /\ Queue!int_handler <=> QP!int_handler
  BY DEF Queue!StopServices, QP!StopServices, Queue!CancelStep, QP!CancelStep,
     Queue!int_handler, QP!int_handler
<1>10. Queue!Next <=> QP!Next
  BY <1>2, <1>3, <1>4, <1>5, <1>6, <1>8, <1>9 DEF Queue!Next, QP!Next, Queue!Machine, QP!Machine
<1> QED BY <1>1, <1>10

LEMMA SameAgenda ==
    /\ \A k : Queue!Pending(k) = QP!Pending(k)
    /\ Queue!A!Init <=> QP!A!Init
    /\ Queue!A!Next <=> QP!A!Next
<1>1. \A k : Queue!Pending(k) = QP!Pending(k)
  BY DEF Queue!Pending, QP!Pending, Queue!Accum, QP!Accum
<1>2. Queue!A!Init <=> QP!A!Init
  BY <1>1 DEF Queue!A!Init, QP!A!Init
<1> DEFINE a == QP!Pending(q)
<1>3. \A u, d : Queue!A!Place(a, u, d) = QP!A!Place(a, u, d)
  BY DEF Queue!A!Place, QP!A!Place, Queue!A!InsertAt, QP!A!InsertAt, Queue!A!Max, QP!A!Max
<1>4. \A u : Queue!A!Waiting(u) <=> QP!A!Waiting(u)
  BY <1>1 DEF Queue!A!Waiting, QP!A!Waiting
<1>5. \A u : Queue!A!Without(u) = QP!A!Without(u)
  BY DEF Queue!A!Without, QP!A!Without, Queue!A!RemoveAt, QP!A!RemoveAt, Queue!A!Waiting,
     QP!A!Waiting, Queue!Pending, QP!Pending, Queue!Accum, QP!Accum
<1>6. \A n : Queue!A!Shifted(n) = QP!A!Shifted(n)
  BY <1>1 DEF Queue!A!Shifted, QP!A!Shifted
<1>7. \A u, d : Queue!A!Schedule(u, d) <=> QP!A!Schedule(u, d)
  BY <1>1, <1>3, <1>4 DEF Queue!A!Schedule, QP!A!Schedule
<1>13. \A b, u, d : Queue!A!Place(b, u, d) = QP!A!Place(b, u, d)
  BY DEF Queue!A!Place, QP!A!Place, Queue!A!InsertAt, QP!A!InsertAt, Queue!A!Max, QP!A!Max
<1>8. \A u, d : Queue!A!Reschedule(u, d) <=> QP!A!Reschedule(u, d)
  BY <1>1, <1>13, <1>5 DEF Queue!A!Reschedule, QP!A!Reschedule
<1>9. \A u : Queue!A!Withdraw(u) <=> QP!A!Withdraw(u)
  BY <1>1, <1>5 DEF Queue!A!Withdraw, QP!A!Withdraw
<1>10. /\ Queue!A!Pass <=> QP!A!Pass
       /\ Queue!A!Run <=> QP!A!Run
       /\ Queue!A!Hurry <=> QP!A!Hurry
       /\ Queue!A!Restart <=> QP!A!Restart
  BY <1>1, <1>6 DEF Queue!A!Pass, QP!A!Pass, Queue!A!Run, QP!A!Run, Queue!A!Hurry, QP!A!Hurry,
     Queue!A!Restart, QP!A!Restart
<1>11. Queue!A!Next <=> QP!A!Next
  BY <1>7, <1>8, <1>9, <1>10 DEF Queue!A!Next, QP!A!Next
<1> QED BY <1>1, <1>2, <1>11

----------------------------------------------------------------------------
(* The life of the process and the event queue, which have the stop        *)
(* request in common: the queue's part clears it and sets it, the life's   *)
(* sets it while the queue rests at the prompt.                            *)

RunInv == LifeInv /\ QP!QInv /\ (part # "queue" => at = "scp")

LEMMA RunInit == HostInit => RunInv
<1> SUFFICES ASSUME HostInit PROVE RunInv
  OBVIOUS
<1>1. LifeInv
  BY LifeInit DEF HostInit
<1>2. QP!QInv
  BY UnitsOfQueue, SameSteps, QP!QueueInit DEF HostInit, Queue!UnitsAssumption, QP!UnitsAssumption
<1>3. at = "scp"
  BY DEF HostInit, Queue!Init
<1> QED BY <1>1, <1>2, <1>3 DEF RunInv

LEMMA RunStepKeeps ==
    ASSUME RunInv, [HostNext]_hostvars
    PROVE  RunInv' /\ [QP!A!Next]_(QP!Pending(q))
<1>1. QP!UnitsAssumption
  BY UnitsOfQueue DEF Queue!UnitsAssumption, QP!UnitsAssumption
<1>2. CASE QueueStep(Queue!Next)
  <2>1. /\ part' = part /\ part = "queue" /\ QP!Next
        /\ UNCHANGED <<main, then, gpio, start_mutex, terminate, handler,
                       sigterm_received, insert_scp_cmd, lit, killed>>
    BY <1>2, SameSteps DEF QueueStep
  <2>2. QP!QInv' /\ [QP!A!Next]_(QP!Pending(q))
    BY <1>1, <2>1, QP!QueueStep DEF RunInv
  <2>3. stop_cpu' \in BOOLEAN
    BY <2>2 DEF QP!QInv
  <2>4. LifeInv'
    BY <2>1, <2>3 DEF RunInv, LifeInv, Life!TypeOK, Interlock, StartedOnce, EndedIsDark,
       SignalsAfter, Life!LeavesDark
  <2> QED BY <2>1, <2>2, <2>4 DEF RunInv
<1>3. CASE LifeStep(Life!Next)
  <2>1. part' = part /\ at = "scp" /\ UNCHANGED queuevars
    BY <1>3 DEF LifeStep, RunInv
  <2>2. LifeInv'
    BY <1>3, LifeStepKeeps DEF LifeStep, RunInv
  <2>3. stop_cpu' \in BOOLEAN
    BY <2>2 DEF LifeInv, Life!TypeOK
  <2>4. QP!QInv'
    BY <2>1, <2>3 DEF RunInv, QP!QInv, QP!NotLate, QP!ClockKept, QP!Places, queuevars
  <2> QED BY <2>1, <2>2, <2>4 DEF RunInv, queuevars
<1>4. CASE UNCHANGED <<part, lifevars, queuevars>>
  BY <1>4 DEF RunInv, LifeInv, Life!TypeOK, Interlock, StartedOnce, EndedIsDark, SignalsAfter,
     Life!LeavesDark, QP!QInv, QP!NotLate, QP!ClockKept, queuevars, lifevars
<1> QED BY <1>2, <1>3, <1>4 DEF HostNext, ScanStep, UsbStep, hostvars

LEMMA RunInvariant == FairHost => []RunInv
<1>1. RunInv /\ [HostNext]_hostvars => RunInv'
  BY RunStepKeeps
<1> QED BY <1>1, RunInit, PTL DEF FairHost

(* Whichever way the process ends of itself, at the prompt, by a signal or *)
(* by EXIT in a script, the GPIO thread has been joined or was never       *)
(* started, and no LED is lit.                                             *)
THEOREM EndsInTheDark == FairHost => []LeavesDark
<1>1. RunInv => LeavesDark
  BY DEF RunInv, LifeInv, LeavesDark
<1> QED BY <1>1, RunInvariant, PTL

(* sim_process_event never has to catch up: sim_interval is negative only  *)
(* from the fetch after a stop request until the request is served.        *)
THEOREM NeverLate == FairHost => []NothingOverdue
<1>1. RunInv => NothingOverdue
  BY DEF RunInv, QP!QInv, QP!NotLate, NothingOverdue, Queue!NothingOverdue
<1> QED BY <1>1, RunInvariant, PTL

(* sim_activate, sim_activate_abs and sim_cancel on the list of            *)
(* differences, the counting down of sim_interval and sim_process_event    *)
(* implement the agenda of times: order, first come first served, and no   *)
(* unit moved by what happens to another.                                  *)
THEOREM ListIsAgenda == FairHost => ImplementsAgenda
<1>1. HostInit => Queue!A!Init
  <2> SUFFICES ASSUME HostInit PROVE Queue!A!Init
    OBVIOUS
  <2>1. QP!A!Init
    BY UnitsOfQueue, SameSteps, QP!QueueInit DEF HostInit, Queue!UnitsAssumption, QP!UnitsAssumption
  <2> QED BY <2>1, SameAgenda
<1>2. RunInv /\ [HostNext]_hostvars => [Queue!A!Next]_(Queue!Pending(q))
  <2> SUFFICES ASSUME RunInv, [HostNext]_hostvars PROVE [Queue!A!Next]_(Queue!Pending(q))
    OBVIOUS
  <2>1. [QP!A!Next]_(QP!Pending(q))
    BY RunStepKeeps
  <2> QED BY <2>1, SameAgenda
<1> QED BY <1>1, <1>2, RunInvariant, PTL DEF FairHost, ImplementsAgenda, Queue!ImplementsAgenda, Queue!A!Spec

(* Types of everything around the machine; no file is known to be mounted  *)
(* in two slots, no command starts before the GPIO thread has reported,    *)
(* and no unit is on the list of events twice.                             *)
THEOREM HostTyped == FairHost => []HostTypes
<1>1. ScanInv /\ UsbInv /\ RunInv => HostTypes
  <2> SUFFICES ASSUME ScanInv, UsbInv, RunInv PROVE HostTypes
    OBVIOUS
  <2>1. QP!TypeOK
    BY UnitsOfQueue, QP!QTyped DEF RunInv, Queue!UnitsAssumption, QP!UnitsAssumption
  <2>2. Queue!TypeOK
    BY <2>1, SameOperators DEF QP!TypeOK, Queue!TypeOK, Queue!IsInjective, QP!IsInjective
  <2> QED BY <2>2 DEF ScanInv, UsbInv, RunInv, LifeInv, HostTypes
<1> QED BY <1>1, ScanInvariant, UsbInvariant, RunInvariant, PTL
=============================================================================
