--------------------------- MODULE InterruptReturn ---------------------------
(***************************************************************************)
(* What an interrupt handler relies on: RMF and then JMP I 0 in field 0    *)
(* resume the interrupted program at its own address, with its own fields  *)
(* and user mode.  The code spreads this over the interrupt check (SF and  *)
(* location 0), RMF (the buffers), the interrupt inhibit that protects the *)
(* buffers, and the Fetch and Defer states of the jump.                    *)
(*                                                                         *)
(* saved is a history variable: the context of the last interrupt, and     *)
(*   intact     location 0 still holds what the interrupt put there        *)
(*   restored   RMF was the last instruction to load a field               *)
(*   prompted   the SCP prompt was visited after that RMF                  *)
(***************************************************************************)
EXTENDS Cpu

VARIABLE saved

hvars == <<vars, saved>>

NoContext == [IFR |-> 0, DF |-> 0, UF |-> 0, PC |-> 0]

HInit ==
    /\ Init
    /\ saved = [context |-> NoContext, intact |-> FALSE,
                restored |-> FALSE, prompted |-> FALSE]

Interrupted ==
    [context |-> [IFR |-> IFR, DF |-> DF, UF |-> UF, PC |-> PC[2]],
     intact |-> TRUE, restored |-> FALSE, prompted |-> FALSE]

KeepsLocation0 == M'[<<0, 0>>] = M[<<0, 0>>]

LoadsField ==
    /\ next_Major_State = "Fetch" /\ ~BreakpointHere
    /\ IR'.op \in FieldOps /\ ~Privileged(IR')

HNext ==
    \/ /\ TakeInterrupt
       /\ saved' = Interrupted
    \/ /\ CpuCycle
       /\ saved' = IF LoadsField
                   THEN [saved EXCEPT !.restored = (IR'.op = "RMF"), !.prompted = FALSE]
                   ELSE [saved EXCEPT !.intact = @ /\ KeepsLocation0]
    \/ /\ NoInterrupt \/ Event
       /\ UNCHANGED saved
    \/ /\ Continue
       /\ saved' = [saved EXCEPT !.prompted = TRUE]
    \/ /\ Reset \/ \E a \in Wide : Go(a) \/ Run(a)
       /\ saved' = [saved EXCEPT !.restored = FALSE]

HSpec == HInit /\ [][HNext]_hvars

-----------------------------------------------------------------------------
\* The jump that ends a handler.
ReturnJump ==
    /\ Defer
    /\ IR.op = "JMP" /\ <<IFR, MA[2]>> = <<0, 0>>

Resumed ==
    /\ IFR' = saved.context.IFR /\ DF' = saved.context.DF
    /\ UF' = saved.context.UF /\ PC'[2] = saved.context.PC

\* A handler that has left location 0 alone and restored the fields with RMF
\* resumes exactly what was interrupted, if it runs without a visit to the
\* prompt.
InterruptReturns ==
    [][ReturnJump /\ saved.intact /\ saved.restored /\ ~saved.prompted => Resumed]_hvars

\* The same across Ctrl-E and CONTINUE, which are meant to be transparent.
InterruptReturnsAcrossPrompt ==
    [][ReturnJump /\ saved.intact /\ saved.restored => Resumed]_hvars
=============================================================================
