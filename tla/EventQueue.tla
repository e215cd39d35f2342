----------------------------- MODULE EventQueue -----------------------------
(***************************************************************************)
(* The event queue of SIMH (scp.c) under the CPU's instruction loop        *)
(* (pdp8_cpu.c): what is to happen is kept as a list of units, each with   *)
(* the time between the one before it and itself, and the time left of the *)
(* first one is counted down in sim_interval.  Instructions and the        *)
(* services of the units schedule and cancel; a signal asks for a stop at  *)
(* any point by clearing sim_interval.                                     *)
(*                                                                         *)
(* Time passes at the instruction fetch and by one, and in the same way    *)
(* when the FPP8A's service carries out its own instructions; nowhere else *)
(* on this machine, for sim_idle is never called.                          *)
(***************************************************************************)
EXTENDS Integers, Sequences, SequencesExt

CONSTANTS
    Units,          \* what can be scheduled
    Clock,          \* the unit of the line clock, which always comes again
    Step,           \* the unit of the STEP command
    Rearmed,        \* units an instruction schedules with sim_activate_abs
    Delays,         \* the delays asked for, 0 for an event at once
    Tick,           \* the clock's
    NOQUEUE_WAIT    \* sim_interval while nothing is scheduled

UnitsAssumption ==
    /\ {Clock, Step} \subseteq Units /\ Clock # Step
    /\ Rearmed \subseteq Units \ {Clock, Step}
    /\ Delays \subseteq Nat /\ Tick \in Delays \ {0}
    /\ NOQUEUE_WAIT \in Nat \ {0}

VARIABLES
    at,                     \* where the program is, see TypeOK
    q,                      \* the queue: see QueueType
    uptr,                   \* the unit whose service runs
    sim_interval_catchup,   \* how late it runs, negative
    stop_cpu                \* a stop was asked for

vars == <<at, q, uptr, sim_interval_catchup, stop_cpu>>

\* sim_clock_queue as a sequence, UNIT.time of every unit, and sim_interval.
QueueType ==
    [units : Seq(Units), time : [Units -> Int], sim_interval : Int]

Queued(u) == \E i \in DOMAIN q.units : q.units[i] = u

----------------------------------------------------------------------------
\* The operations, as functions from a queue to the queue they leave.

UpdateNothing(k) == k                              \* mutant of UPDATE_SIM_TIME
UPDATE_SIM_TIME(k) ==
    IF k.units = <<>> THEN k
    ELSE [k EXCEPT !.time[Head(k.units)] = k.sim_interval]

\* The time from now to the i-th unit of the list.
Accum(k) ==
    LET sum[i \in 0 .. Len(k.units)] ==
            IF i = 0 THEN 0 ELSE sum[i - 1] + k.time[k.units[i]]
    IN  sum

\* A unit on the list has a successor, the last one the mark of its end.
IsActiveUnmarked(k, u) ==                           \* mutant of sim_is_active
    \E i \in 1 .. Len(k.units) - 1 : k.units[i] = u
sim_is_active(k, u) == Contains(k.units, u)

Activate(k0, u, d) ==
    IF sim_is_active(k0, u) THEN k0
    ELSE LET k      == UPDATE_SIM_TIME(k0)
             accum  == Accum(k)
             later  == {i \in DOMAIN k.units : d < accum[i]}
             place  == IF later = {} THEN Len(k.units) + 1 ELSE Min(later)
             delta  == d - accum[place - 1]
             units  == InsertAt(k.units, place, u)
             time   == [v \in Units |->
                           IF v = u THEN delta
                           ELSE IF place \in DOMAIN k.units /\ v = k.units[place]
                                THEN k.time[v] - delta
                                ELSE k.time[v]]
         IN  [units |-> units, time |-> time, sim_interval |-> time[Head(units)]]

Cancel(k0, u) ==
    IF ~sim_is_active(k0, u) THEN k0
    ELSE LET k      == UPDATE_SIM_TIME(k0)
             place  == CHOOSE i \in DOMAIN k.units : k.units[i] = u
             units  == RemoveAt(k.units, place)
             time   == [v \in Units |->
                           IF v = u THEN 0
                           ELSE IF place \in DOMAIN units /\ v = units[place]
                                THEN k.time[v] + k.time[u]
                                ELSE k.time[v]]
         IN  [units |-> units, time |-> time,
              sim_interval |-> IF units = <<>> THEN NOQUEUE_WAIT
                               ELSE time[Head(units)]]

ActivateAbs(k, u, d) == Activate(Cancel(k, u), u, d)

\* What a device may do to unit u.
ScheduledAnew(u, d) == {ActivateAbs(q, u, d)}               \* mutant of Scheduled
Scheduled(u, d) ==
    {Activate(q, u, d)} \union (IF u \in Rearmed THEN {ActivateAbs(q, u, d)} ELSE {})

CountNothing(k) == k                                        \* mutant of CountDown
CountDown(k) == [k EXCEPT !.sim_interval = @ - 1]

CatchUpLater(k) == k                                        \* mutant of NoCatchingUp
NoCatchingUp(k) == [k EXCEPT !.sim_interval = IF @ < 0 THEN 0 ELSE @]

\* Taking the first unit off, with the clock at the time it was due.
PopFirst(k, catchup) ==
    LET units == Tail(k.units)
        base  == IF catchup < 0 THEN - catchup ELSE k.sim_interval
    IN  [units |-> units,
         time |-> [k.time EXCEPT ![Head(k.units)] = 0],
         sim_interval |-> IF units = <<>> THEN NOQUEUE_WAIT
                          ELSE base + catchup + k.time[Head(units)]]

\* The queue that resetting the machine leaves.
ResetQueue ==
    [units |-> <<Clock>>, time |-> [u \in Units |-> IF u = Clock THEN Tick ELSE 0],
     sim_interval |-> Tick]

----------------------------------------------------------------------------
Init ==
    /\ at = "scp"
    /\ q = ResetQueue
    /\ uptr = Clock
    /\ sim_interval_catchup = 0
    /\ stop_cpu = FALSE

\* RUN and BOOT empty the queue and reset the devices first, GO and CONT do not.
BootPrep ==
    /\ at = "scp"
    /\ q' = ResetQueue
    /\ UNCHANGED <<at, uptr, sim_interval_catchup, stop_cpu>>

\* With a count of instructions, STEP's or the default 0.
RunCommand(n) ==
    /\ at = "scp"
    /\ at' = "check"
    /\ q' = IF n = 0 THEN q ELSE ActivateAbs(q, Step, n)
    /\ stop_cpu' = FALSE
    /\ UNCHANGED <<uptr, sim_interval_catchup>>

\* The top of the instruction loop with nothing due.
NothingDue ==
    /\ at = "check"
    /\ q.sim_interval > 0
    /\ at' = "fetch"
    /\ UNCHANGED <<q, uptr, sim_interval_catchup, stop_cpu>>

Fetch ==
    /\ at = "fetch"
    /\ at' = "execute"
    /\ q' = CountDown(q)
    /\ UNCHANGED <<uptr, sim_interval_catchup, stop_cpu>>

EndOfInstruction ==
    /\ at = "execute"
    /\ at' = "check"
    /\ UNCHANGED <<q, uptr, sim_interval_catchup, stop_cpu>>

\* A halt or a breakpoint.
StopInstruction ==
    /\ at = "execute"
    /\ at' = "stopping"
    /\ UNCHANGED <<q, uptr, sim_interval_catchup, stop_cpu>>

\* What the device code of an instruction, of a service or of a command of the
\* prompt does to the queue.  A tick of the clock has the units coscheduled with
\* it run at once, the other services ask for a later event.
Schedule(u, d) ==
    /\ at \in {"execute", "service", "scp"}
    /\ at = "service" /\ d = 0 => uptr = Clock
    /\ u \notin {Clock, Step}
    /\ q' \in Scheduled(u, d)
    /\ UNCHANGED <<at, uptr, sim_interval_catchup, stop_cpu>>

Withdraw(u) ==
    /\ at \in {"execute", "service", "scp"}
    /\ u \notin {Clock, Step}
    /\ q' = Cancel(q, u)
    /\ UNCHANGED <<at, uptr, sim_interval_catchup, stop_cpu>>

\* The service of the FPP8A computes until the next event is due.
Compute ==
    /\ at = "service" /\ uptr \notin {Clock, Step}
    /\ q.sim_interval > 0
    /\ q' = CountDown(q)
    /\ UNCHANGED <<at, uptr, sim_interval_catchup, stop_cpu>>

\* The clock's service schedules the next tick.
ScheduleTick ==
    /\ at = "service" /\ uptr = Clock
    /\ ~Queued(Clock)
    /\ q' = Activate(q, Clock, Tick)
    /\ UNCHANGED <<at, uptr, sim_interval_catchup, stop_cpu>>

\* sim_process_event finds a stop request and does nothing else.
ServeStop ==
    /\ at = "check"
    /\ q.sim_interval <= 0
    /\ stop_cpu
    /\ stop_cpu' = FALSE
    /\ at' = "stopping"
    /\ UNCHANGED <<q, uptr, sim_interval_catchup>>

\* It finds a unit due, late or in time.
ServeFirst ==
    /\ at = "check"
    /\ q.sim_interval <= 0
    /\ ~stop_cpu
    /\ LET k == UPDATE_SIM_TIME([q EXCEPT !.sim_interval = 0])
       IN  /\ sim_interval_catchup' = q.sim_interval
           /\ uptr' = Head(k.units)
           /\ q' = PopFirst(k, q.sim_interval)
    /\ at' = "service"
    /\ UNCHANGED stop_cpu

\* A service returns: the next unit's turn, if it is due as well ...
CaughtUp ==
    IF sim_interval_catchup < -1
    THEN sim_interval_catchup + q.time[Head(q.units)]
    ELSE 0

Returns == at = "service" /\ (uptr = Clock => Queued(Clock))

ServeNext ==
    /\ Returns
    /\ uptr # Step
    /\ q.sim_interval + CaughtUp <= 0
    /\ ~stop_cpu
    /\ sim_interval_catchup' = CaughtUp
    /\ uptr' = Head(q.units)
    /\ q' = PopFirst(q, CaughtUp)
    /\ UNCHANGED <<at, stop_cpu>>

\* ... or back to the instruction loop ...
EndOfEvents ==
    /\ Returns
    /\ uptr # Step
    /\ q.sim_interval + CaughtUp > 0
    /\ ~stop_cpu
    /\ sim_interval_catchup' = 0
    /\ at' = "check"
    /\ UNCHANGED <<q, uptr, stop_cpu>>

\* ... or out of it, for a stop request or with the reason the service returns.
StopEvents ==
    /\ Returns
    /\ \/ uptr # Step /\ stop_cpu /\ stop_cpu' = FALSE
       \/ UNCHANGED stop_cpu
    /\ sim_interval_catchup' = 0
    /\ at' = "stopping"
    /\ UNCHANGED <<q, uptr>>

\* The way out of run_cmd: nothing is caught up after stopping, and the STEP
\* that may not have come to its end is cancelled.
StopServices ==
    /\ at = "stopping"
    /\ at' = "cancelling"
    /\ q' = NoCatchingUp(q)
    /\ UNCHANGED <<uptr, sim_interval_catchup, stop_cpu>>

CancelStep ==
    /\ at = "cancelling"
    /\ at' = "scp"
    /\ q' = UPDATE_SIM_TIME(Cancel(q, Step))
    /\ UNCHANGED <<uptr, sim_interval_catchup, stop_cpu>>

\* Ctrl-E or SIGTERM, between any two steps.  Inside one that writes
\* sim_interval after reading it, the handler's zero is lost.
int_handler ==
    /\ stop_cpu' = TRUE
    /\ q' \in {q, [q EXCEPT !.sim_interval = 0]}
    /\ UNCHANGED <<at, uptr, sim_interval_catchup>>

Machine ==
    \/ NothingDue \/ Fetch \/ EndOfInstruction \/ StopInstruction
    \/ ScheduleTick \/ ServeStop \/ ServeFirst
    \/ ServeNext \/ EndOfEvents \/ StopEvents \/ StopServices \/ CancelStep

Next ==
    \/ BootPrep \/ \E n \in Delays \union {0} : RunCommand(n)
    \/ \E u \in Units, d \in Delays : Schedule(u, d)
    \/ \E u \in Units : Withdraw(u)
    \/ Compute
    \/ Machine
    \/ int_handler

\* An instruction and a service come to an end, whatever they do on the way;
\* only the user's commands and signals may stay away for ever.
Fairness ==
    /\ WF_vars(Fetch) /\ WF_vars(EndOfInstruction) /\ WF_vars(ScheduleTick)
    /\ WF_vars(NothingDue \/ ServeStop \/ ServeFirst)
    /\ WF_vars(ServeNext \/ EndOfEvents \/ StopEvents)
    /\ WF_vars(StopServices) /\ WF_vars(CancelStep)

Spec == Init /\ [][Next]_vars /\ Fairness
----------------------------------------------------------------------------
TypeOK ==
    /\ at \in {"scp", "check", "fetch", "execute", "service",
              "stopping", "cancelling"}
    /\ q.units \in Seq(Units) /\ IsInjective(q.units)
    /\ q.time \in [Units -> Int] /\ q.sim_interval \in Int
    /\ uptr \in Units
    /\ sim_interval_catchup \in Int
    /\ stop_cpu \in BOOLEAN
    /\ at # "service" => Queued(Clock)

(***************************************************************************)
(* No service of this machine runs late, so the branch of                  *)
(* sim_process_event that catches up is never taken: the one way for       *)
(* sim_interval to become negative is a stop request that clears it before *)
(* the fetch counts down, and then the request is served first and the     *)
(* count reset on the way to the prompt.                                   *)
(***************************************************************************)
NothingOverdue ==
    /\ sim_interval_catchup = 0
    /\ at \in {"check", "service"} /\ ~stop_cpu => q.sim_interval >= 0

(***************************************************************************)
(* The list of differences promises what an agenda of times does: order,   *)
(* first come first served, no unit moved by another's scheduling or       *)
(* cancelling, each run when its time has come.                            *)
(***************************************************************************)
Pending(k) ==
    LET accum == Accum(k)
    IN  [i \in DOMAIN k.units |->
            [unit |-> k.units[i],
             left |-> accum[i] + k.sim_interval - k.time[Head(k.units)]]]

A == INSTANCE Agenda WITH agenda <- Pending(q)

ImplementsAgenda == A!Spec

(***************************************************************************)
(* A stop request brings the running machine back to the prompt, even when *)
(* the handler's write to sim_interval was lost to a concurrent one.       *)
(***************************************************************************)
StopServed == stop_cpu /\ at # "scp" ~> at = "scp"

(***************************************************************************)
(* While the machine runs, a unit that waits comes to its turn (or is      *)
(* cancelled), however the others are scheduled.  Only one that            *)
(* instructions schedule anew may wait for ever, as KRB in a loop does to  *)
(* the keyboard, and only if its turn is put off again and again.          *)
(***************************************************************************)
TimeLeft(k, u) == LET i == CHOOSE j \in DOMAIN k.units : k.units[j] = u IN Pending(k)[i].left

PutOff(u) == Queued(u) /\ Queued(u)' /\ TimeLeft(q', u) > TimeLeft(q, u)

GetsItsTurn(u) == Queued(u) /\ at = "check" ~> ~Queued(u) \/ at = "scp"

EveryUnitRuns ==
    /\ \A u \in Units \ Rearmed : GetsItsTurn(u)
    /\ \A u \in Rearmed : GetsItsTurn(u) \/ []<><<PutOff(u)>>_vars
=============================================================================
