------------------------------- MODULE MCHost -------------------------------
(***************************************************************************)
(* What is around the simulated machine, for TLC: the scan of the          *)
(* switches, the mounting of USB sticks, the life of the GPIO thread and   *)
(* the event queue.  A behaviour is about one of them.  The stop request   *)
(* that the life cycle and the queue have in common is one variable.       *)
(***************************************************************************)
EXTENDS Debounce

CONSTANTS Dirs, Images, Slots, Sticks, Operator         \* UsbMount
CONSTANTS Units, Clock, Step, Rearmed, Delays, Tick, NOQUEUE_WAIT   \* EventQueue
CONSTANTS clk, step, tti, lpt

VARIABLES
    part,
    present, attached, mountedFiles, devNo, unread, sFoundFile,
    main, then, gpio, start_mutex, terminate, handler, stop_cpu, sigterm_received,
    insert_scp_cmd, lit, killed,
    at, q, uptr, sim_interval_catchup

Usb == INSTANCE UsbMount
Life == INSTANCE Lifecycle
Queue == INSTANCE EventQueue

\* A unit waits no longer than the longest delay asked for and is off the list
\* when it is asked for again, so the queue's states are finite as they are.
MCUnits == {clk, step, tti, lpt}
MCRearmed == {tti}

ASSUME SlotsInUse == Usb!SlotsAssumption
ASSUME UnitsOfQueue == Queue!UnitsAssumption

usbvars == <<present, attached, mountedFiles, devNo, unread, sFoundFile>>
lifevars == <<main, then, gpio, start_mutex, terminate, handler, stop_cpu,
              sigterm_received, insert_scp_cmd, lit, killed>>
queuevars == <<at, q, uptr, sim_interval_catchup>>
hostvars == <<part, vars, usbvars, lifevars, queuevars>>

ScanStep(A) == part = "scan" /\ A /\ UNCHANGED <<part, usbvars, lifevars, queuevars>>
UsbStep(A) == part = "usb" /\ A /\ UNCHANGED <<part, vars, lifevars, queuevars>>
LifeStep(A) == part = "life" /\ A /\ UNCHANGED <<part, vars, usbvars, queuevars>>
QueueStep(A) == part = "queue" /\ A
    /\ UNCHANGED <<part, vars, usbvars, main, then, gpio, start_mutex, terminate, handler,
                   sigterm_received, insert_scp_cmd, lit, killed>>

\* The parts that a behaviour is not about rest.
ScanRest == Init /\ contact = {}
UsbRest == Usb!Init /\ present = {}

HostInit ==
    /\ Life!Init /\ Queue!Init
    /\ \/ part = "scan" /\ Init /\ UsbRest
       \/ part = "usb" /\ ScanRest /\ Usb!Init
       \/ part \in {"life", "queue"} /\ ScanRest /\ UsbRest

HostNext ==
    ScanStep(Next) \/ UsbStep(Usb!Next) \/ LifeStep(Life!Next) \/ QueueStep(Queue!Next)

\* That of Debounce, Lifecycle and EventQueue.  At rest the queue takes no step of
\* its own.
HostFairness ==
    /\ WF_hostvars(ScanStep(Scan))
    /\ WF_hostvars(LifeStep(Life!GpioThread)) /\ WF_hostvars(LifeStep(Life!Proceed))
    /\ Queue!Fairness

FairHost == HostInit /\ [][HostNext]_hostvars /\ HostFairness

----------------------------------------------------------------------------
\* Types; and the internal bits of the switches agree with the exported ones, no
\* file is known to be mounted in two slots, and no command starts before the
\* GPIO thread has reported its configuration; and no unit is on the list of
\* events twice.
HostTypes == TypeOK /\ Usb!TypeOK /\ Life!TypeOK /\ Queue!TypeOK

\* Whatever the sticks and the operator do, mounting attaches no file that
\* another slot is known to have.
AttachUnmounted == [][Usb!AttachesUnmounted]_usbvars

\* However a mount ends, what it leaves in the record is what the unit is attached
\* to, or nothing.
RecordTells == [][Usb!RecordsAttached]_usbvars

\* A process that ends of itself leaves no LED lit.
LeavesDark == Life!LeavesDark

\* Stopping the GPIO thread does not hang.
StopReturns == Life!StopReturns

\* No service of this machine runs late.
NothingOverdue == Queue!NothingOverdue

\* The list of differences implements an agenda of times.
ImplementsAgenda == Queue!ImplementsAgenda

\* A stop request brings the running machine back to the prompt.
StopServed == Queue!StopServed

\* While the machine runs, a unit that waits comes to its turn or is cancelled.
EveryUnitRuns == Queue!EveryUnitRuns
=============================================================================
