----------------------------- MODULE MCProcessor -----------------------------
(***************************************************************************)
(* The processors for TLC.  A behaviour is about the control of the CPU,   *)
(* module Cpu with the history of InterruptReturn, about its arithmetic,   *)
(* module Operate, or about that of the FPP8A, module FppArithmetic, which *)
(* share no state.                                                         *)
(***************************************************************************)
EXTENDS MCReturn

CONSTANTS W, S, Operands, Rotated, Combined             \* Operate
CONSTANTS FppW, ExpSize, Fractions, Guards, Exponents   \* FppArithmetic

VARIABLES part, r, fac, unfx

Arithmetic == INSTANCE Operate
Fpp == INSTANCE FppArithmetic WITH W <- FppW

\* Fractions next to every limit of a format with words of two bits.
MCFractions == {-8, -7, -5, -4, -1, 0, 1, 3, 4, 6, 7}
MCExponents == {-4, 0, 3}

ASSUME Widths == Arithmetic!WidthAssumption
ASSUME FppSizes == Fpp!SizesAssumption

processorvars == <<part, r, fac, unfx, hvars>>

ProcessorInit ==
    /\ part \in {"control", "arithmetic", "floating"}
    /\ HInit /\ Arithmetic!Init /\ Fpp!Init
    /\ part # "floating" => ~unfx

ProcessorNext ==
    \/ part = "control" /\ HNext /\ UNCHANGED <<part, r, fac, unfx>>
    \/ part = "arithmetic" /\ Arithmetic!Next /\ UNCHANGED <<part, fac, unfx, hvars>>
    \/ part = "floating" /\ Fpp!Next /\ UNCHANGED <<part, r, hvars>>

ProcessorSpec == ProcessorInit /\ [][ProcessorNext]_processorvars

----------------------------------------------------------------------------
\* For every content of the arithmetic registers that a program can bring about,
\* which keep their widths, the EAE computes what it is used for and the
\* microinstructions of OPR combine as their names say; and the sums, alignments
\* and index registers of the FPP8A are as exact as their formats admit.
ArithmeticIsExact ==
    /\ part = "arithmetic" =>
          Arithmetic!TypeOK /\ Arithmetic!EaeIsExact /\ Arithmetic!MicrocodeComposes
    /\ part = "floating" =>
          Fpp!TypeOK /\ Fpp!SumIsFaithful /\ Fpp!IntegerSum /\ Fpp!IndexSurvives

\* A sum of the FPP8A that is too small for any exponent leaves zero.
UnderflowIsZero == Fpp!UnderflowIsZero
=============================================================================
