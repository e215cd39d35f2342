----------------------------- MODULE Lifecycle -----------------------------
(***************************************************************************)
(* The life of the simulator process and of its GPIO thread: the start-up  *)
(* interlock and the stop of gpio-common.c.in, the command loop, the run   *)
(* command and the SIGTERM handlers of scp.c that surround sim_instr, and  *)
(* the relaunch of build_pidp8i_scp_cmd (main.c.in).                       *)
(*                                                                         *)
(* A signal is delivered to the main thread.  The standard input is a      *)
(* terminal.                                                               *)
(***************************************************************************)

VARIABLES
    main,           \* what the main thread does
    then,           \* what it does after the join it waits in
    gpio,           \* the GPIO thread
    start_mutex,    \* gpio_start_mutex
    terminate,      \* terminate_gpio_thread
    handler,        \* the disposition of SIGTERM
    stop_cpu, sigterm_received,
    insert_scp_cmd, \* what a switch combination wants the command loop to do
    lit,            \* LEDs are lit
    killed          \* the process died of the signal

signals == <<handler, stop_cpu, sigterm_received>>
ends == <<lit, killed>>
vars == <<main, then, gpio, start_mutex, terminate, signals, insert_scp_cmd, ends>>

-----------------------------------------------------------------------------
(* start_pidp8i_gpio_thread, with the mutex locked once before.            *)

CreateThread ==
    /\ main = "create"
    /\ gpio' = "starting" /\ handler' = "panel" /\ main' = "wait"
    /\ UNCHANGED <<then, start_mutex, terminate, stop_cpu, sigterm_received,
                   insert_scp_cmd, ends>>

MutexGiven == start_mutex # "held"

\* The second lock, and its unlock.
Started ==
    /\ main = "wait" /\ MutexGiven
    /\ main' = "script"
    /\ UNCHANGED <<then, gpio, start_mutex, terminate, signals, insert_scp_cmd, ends>>

-----------------------------------------------------------------------------
(* gpio_thread and gpio_core.                                              *)

Unlock ==
    /\ gpio = "starting"
    /\ start_mutex' = (IF start_mutex = "held" THEN "free" ELSE start_mutex)
    /\ gpio' = "core"
    /\ UNCHANGED <<main, then, terminate, signals, insert_scp_cmd, ends>>

\* A pass lights the LEDs row by row and leaves every row dark.
Core ==
    /\ gpio = "core"
    /\ IF lit THEN lit' = FALSE /\ UNCHANGED gpio
       ELSE IF terminate THEN gpio' = "ended" /\ UNCHANGED lit
       ELSE lit' = TRUE /\ UNCHANGED gpio
    /\ UNCHANGED <<main, then, start_mutex, terminate, signals, insert_scp_cmd, killed>>

GpioThread == main # "dead" /\ (Unlock \/ Core)

-----------------------------------------------------------------------------
(* stop_pidp8i_gpio_thread.                                                *)

TerminateNot == UNCHANGED terminate             \* mutant of Terminate
Terminate == terminate' = TRUE

Stop(next) ==
    /\ Terminate
    /\ main' = "join" /\ then' = next

JoinAtOnce == TRUE                              \* mutant of Joinable
Joinable == gpio \in {"ended", "joined"}

\* A second join fails, with a complaint, and the caller goes on.  A relaunch
\* that fails comes back to the prompt.
Join ==
    /\ main = "join" /\ Joinable
    /\ gpio' = "joined" /\ start_mutex' = "gone"
    /\ main' \in (IF then = "relaunch" THEN {"dead", "prompt"} ELSE {then})
    /\ UNCHANGED <<then, terminate, signals, insert_scp_cmd, lit, killed>>

-----------------------------------------------------------------------------
(* The commands.                                                           *)

\* go, cont or boot, from the boot script or the prompt.
Run ==
    /\ main \in {"script", "read"}
    /\ main' = "run" /\ handler' = "int" /\ stop_cpu' = FALSE
    /\ UNCHANGED <<then, gpio, start_mutex, terminate, sigterm_received,
                   insert_scp_cmd, ends>>

EndScript ==
    /\ main = "script" /\ main' = "prompt"
    /\ UNCHANGED <<then, gpio, start_mutex, terminate, signals, insert_scp_cmd, ends>>

\* The end of a run command, which is the last one of a boot script.
EndRun ==
    /\ main = "run" /\ main' = "prompt"
    /\ handler' = (IF sigterm_received THEN "ign" ELSE "dfl")
    /\ UNCHANGED <<then, gpio, start_mutex, terminate, sigterm_received, ends>>

\* sim_process_event serves stop_cpu and clears it.
EventStop == EndRun /\ stop_cpu' = FALSE /\ UNCHANGED insert_scp_cmd

\* Breakpoints and switch combinations do not.
OtherStop ==
    /\ EndRun
    /\ insert_scp_cmd' \in {"none", "relaunch", "exit"}
    /\ UNCHANGED stop_cpu

Prompt ==
    /\ main = "prompt"
    /\ stop_cpu' = FALSE
    /\ IF stop_cpu /\ sigterm_received
       THEN Stop("dead") /\ UNCHANGED insert_scp_cmd
       ELSE /\ insert_scp_cmd' = "none"
            /\ CASE insert_scp_cmd = "relaunch" -> Stop("relaunch")
                 [] insert_scp_cmd = "exit" -> Stop("dead")
                 [] OTHER -> main' = "read" /\ UNCHANGED <<then, terminate>>
    /\ UNCHANGED <<gpio, start_mutex, handler, sigterm_received, ends>>

ExitCommand ==
    /\ main = "read" /\ Stop("dead")
    /\ UNCHANGED <<gpio, start_mutex, signals, insert_scp_cmd, ends>>

\* SIGTERM, by its disposition.  The one found by start_pidp8i_gpio_thread is
\* the default, so that its handler calls no other.
Signal ==
    /\ main \notin {"dead", "join"}
    /\ CASE handler = "dfl" -> /\ main' = "dead" /\ killed' = TRUE
                               /\ UNCHANGED <<then, terminate, stop_cpu, sigterm_received, lit>>
         [] handler = "int" -> /\ stop_cpu' = TRUE /\ sigterm_received' = TRUE
                               /\ UNCHANGED <<main, then, terminate, killed, lit>>
         [] handler = "panel" -> /\ lit' = FALSE /\ Stop(main)
                                 /\ UNCHANGED <<stop_cpu, sigterm_received, killed>>
         [] handler = "ign" -> UNCHANGED <<main, then, terminate, stop_cpu,
                                           sigterm_received, killed, lit>>
    /\ UNCHANGED <<gpio, start_mutex, handler, insert_scp_cmd>>

Init ==
    /\ main = "create" /\ then = "dead" /\ gpio = "none" /\ start_mutex = "held"
    /\ terminate = FALSE /\ handler = "dfl"
    /\ stop_cpu = FALSE /\ sigterm_received = FALSE /\ insert_scp_cmd = "none"
    /\ lit = FALSE /\ killed = FALSE

\* What the main thread does unasked.
Proceed ==
    \/ CreateThread \/ Started \/ Join \/ EndScript \/ Prompt
    \/ EventStop /\ stop_cpu

Asked == Run \/ EventStop \/ OtherStop \/ ExitCommand \/ Signal

Next == GpioThread \/ Proceed \/ Asked

Spec == Init /\ [][Next]_vars

FairSpec == Spec /\ WF_vars(GpioThread) /\ WF_vars(Proceed)

-----------------------------------------------------------------------------
\* Types, and that the process starts no command before the GPIO thread has
\* reported its configuration.
TypeOK ==
    /\ main \in {"create", "wait", "script", "run", "prompt", "read", "join", "dead"}
    /\ then \in {"wait", "script", "run", "prompt", "read", "relaunch", "dead"}
    /\ gpio \in {"none", "starting", "core", "ended", "joined"}
    /\ start_mutex \in {"held", "free", "gone"}
    /\ handler \in {"dfl", "panel", "int", "ign"}
    /\ insert_scp_cmd \in {"none", "relaunch", "exit"}
    /\ {terminate, stop_cpu, sigterm_received, lit, killed} \subseteq BOOLEAN
    /\ main \in {"script", "run", "prompt", "read"} => gpio \notin {"none", "starting"}

\* A process that ends of itself leaves no LED lit.
LeavesDark == main = "dead" /\ ~killed => ~lit /\ gpio = "joined"

\* Stopping the GPIO thread does not hang.
StopReturns == main = "join" ~> main # "join"
=============================================================================
