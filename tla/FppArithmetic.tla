--------------------------- MODULE FppArithmetic ---------------------------
(***************************************************************************)
(* What the instructions of the FPP8A compute (pdp8_fpp.c), for words and  *)
(* exponents of any width: sums in the three formats, normalizing,         *)
(* aligning and the index registers.  Products and quotients are left out. *)
(*                                                                         *)
(* The code keeps a fraction as a row of words and adds, shifts and tests  *)
(* the row.  Here it is the number that the row stands for: a signed       *)
(* integer of as many bits as the format has, or as the five words that    *)
(* intermediate results have.  The value of a number is its fraction       *)
(* times two to the power of its exponent, up to a constant power.         *)
(***************************************************************************)
EXTENDS Integers, FiniteSetsExt, Powers

CONSTANTS
    W,          \* the bits of a word
    ExpSize,    \* exponents are from -ExpSize to ExpSize - 1
    Fractions,  \* of the operands in memory, in two words
    Guards,     \* and the rest of them in extended precision
    Exponents

Modes == {"FP", "DP", "EP"}     \* floating point, double and extended precision
EXTEND == 5 * W
EXACT(mode) == IF mode = "EP" THEN EXTEND ELSE 2 * W
Lost(mode) == Pow2[EXTEND - EXACT(mode)]        \* a unit of the format in five words

\* Exponents reach farther than normalizing shifts: 2048 and 60 bits in the code.
SizesAssumption ==
    /\ W \in Nat \ {0, 1} /\ ExpSize \in Nat \ {0} /\ EXTEND <= 3 * ExpSize
    /\ Fractions \subseteq -(Pow2[2 * W - 1]) .. Pow2[2 * W - 1] - 1
    /\ Guards \subseteq 0 .. Pow2[3 * W] - 1
    /\ Exponents \subseteq -ExpSize .. ExpSize - 1

VARIABLES
    fac,        \* the accumulator, with its format: [mode, exp, fr]
    unfx        \* whether underflow traps, FPC_UNFX of the command register

Number(exp, fr) == [exp |-> exp, fr |-> fr]

SignedMod(n, size) == ((n + size) % (2 * size)) - size

\* What twelve bits keep of an exponent.
SEXT12(exp) == SignedMod(exp, ExpSize)

----------------------------------------------------------------------------
\* Numbers of five words.
Half == Pow2[EXTEND - 1]

\* The shifts until the first two bits differ.
Leading(fr) == Max({k \in 0 .. EXTEND - 1 : fr * Pow2[k] \in -Half .. Half - 1})

\* 1.0...0 has no counterpart and becomes 1.1...0; then and for zero the result is
\* exact.
Illegal(mode, fr) == fr \div Lost(mode) = -(Pow2[EXACT(mode) - 1])

fpp_norm(mode, z) ==
    LET k == Leading(z.fr)
        n == Number(z.exp - k, z.fr * Pow2[k])
    IN  CASE z.fr = 0 -> [number |-> Number(0, 0), exact |-> TRUE]
          [] z.fr # 0 /\ Illegal(mode, n.fr) ->
                [number |-> Number(n.exp + 1, n.fr + Half \div 2), exact |-> TRUE]
          [] z.fr # 0 /\ ~Illegal(mode, n.fr) -> [number |-> n, exact |-> FALSE]

\* Half a unit is added, less the last bit of the third word if the number is
\* negative.
Rounding(fr) == IF fr < 0 THEN Pow2[W - 1] - 1 ELSE Pow2[W - 1]

fpp_round(mode, z) ==
    LET fr == z.fr + Rounding(z.fr) * Pow2[2 * W]
    IN  IF mode = "EP" THEN z
        ELSE IF fr >= Half THEN Number(z.exp + 1, fr \div 2)
        ELSE Number(z.exp, fr)

NormRound(mode, z) ==
    LET n == fpp_norm(mode, z)
    IN  IF n.exact THEN n.number ELSE fpp_round(mode, n.number)

\* The words of the format.
Exactly(mode, z) == Number(z.exp, z.fr \div Lost(mode))
Extended(mode, a) == Number(a.exp, a.fr * Lost(mode))

----------------------------------------------------------------------------
fpp_fr_neg(mode, fr) == SignedMod(-fr, Pow2[EXACT(mode) - 1])

\* Beyond as many places as the format has nothing is left to add.
Overshift(mode) == IF mode = "EP" THEN EXTEND - 1 ELSE 2 * W

\* The sum of two numbers, the one with the larger exponent first.  Fractions of
\* one sign may need a bit more; two negative ones are always taken to.
Aligned(mode, x, y) ==
    LET sum == x.fr + y.fr \div Pow2[x.exp - y.exp]
        same == (x.fr < 0) = (y.fr < 0)
    IN  IF x.exp - y.exp > Overshift(mode) THEN x
        ELSE IF same /\ (x.fr < 0 \/ sum >= Half) THEN Number(x.exp + 1, sum \div 2)
        ELSE Number(x.exp, sum)

FloatSum(mode, a, b) ==
    LET x == Extended(mode, a)
        y == Extended(mode, b)
    IN  CASE b.fr = 0 -> x
          [] b.fr # 0 /\ a.fr = 0 -> y
          [] b.fr # 0 /\ a.fr # 0 ->
                IF x.exp < y.exp THEN Aligned(mode, y, x) ELSE Aligned(mode, x, y)

\* An underflow that does not trap is to be flushed to zero, but the number that is
\* flushed has been copied before.
UnderflowOnly(exp) ==                                   \* mutant of fpp_test_xp
    IF exp < -ExpSize /\ unfx THEN "UNF" ELSE "none"
fpp_test_xp(exp) ==
    IF exp > ExpSize - 1 THEN "FOVX" ELSE IF exp < -ExpSize /\ unfx THEN "UNF" ELSE "none"

Result(n, trap) == [exp |-> n.exp, fr |-> n.fr, trap |-> trap]

\* FADD, and FSUB which negates b.  In double precision the exponent stays.
fpp_add(mode, a, b) ==
    IF mode = "DP"
    THEN LET fr == SignedMod(a.fr + b.fr, Pow2[2 * W - 1])
         IN  Result(Number(a.exp, fr),
                    IF (a.fr < 0) = (b.fr < 0) /\ (fr < 0) # (a.fr < 0) THEN "IOVX" ELSE "none")
    ELSE LET z == NormRound(mode, FloatSum(mode, a, b))
         IN  Result(Exactly(mode, z), fpp_test_xp(z.exp))

Negated(mode, b) == Number(b.exp, fpp_fr_neg(mode, b.fr))

----------------------------------------------------------------------------
(* The other instructions, as functions of the accumulator.                *)

\* The program asks for an exponent, or in double precision for a shift.
Shifted(mode, fr, places) ==
    IF places < 0 THEN SignedMod(fr * Pow2[-places], Pow2[EXACT(mode) - 1]) ELSE fr \div Pow2[places]

ALN(a, wd) ==
    LET fr == Shifted(a.mode, a.fr, IF a.mode = "DP" THEN wd ELSE SEXT12(wd - a.exp))
    IN  [a EXCEPT !.fr = fr,
                  !.exp = IF fr = 0 THEN 0 ELSE IF a.mode = "DP" THEN @ ELSE wd]

FNORM(a) ==
    LET z == Exactly(a.mode, fpp_norm(a.mode, Extended(a.mode, a)).number)
    IN  IF a.mode = "DP" THEN a ELSE [a EXCEPT !.exp = z.exp, !.fr = z.fr]

FNEG(a) == [a EXCEPT !.fr = fpp_fr_neg(a.mode, @)]

\* The second word of a fraction is where integers are.
SecondWord(mode, fr) == (fr \div Pow2[EXACT(mode) - 2 * W]) % Pow2[W]

WordAsIs(a) == SecondWord(a.mode, a.fr)                 \* mutant of ATX
ATX(a) ==
    SecondWord(a.mode, IF a.mode = "DP" THEN a.fr
                       ELSE Shifted(a.mode, a.fr, (2 * W - 1) - a.exp))

XTA(mode, xr) ==
    LET n == Number(2 * W - 1, SignedMod(xr, Pow2[W - 1]) * Pow2[3 * W])
        z == Exactly(mode, IF mode = "DP" THEN n ELSE fpp_norm(mode, n).number)
    IN  [mode |-> mode, exp |-> z.exp, fr |-> z.fr]

\* Leaving extended precision cuts off: to round is told there, but fpp_round does
\* nothing as long as the status says EP.
STARTF(a) == [a EXCEPT !.mode = "FP", !.fr = IF a.mode = "EP" THEN @ \div Pow2[3 * W] ELSE @]
STARTD(a) == [a EXCEPT !.mode = "DP", !.fr = IF a.mode = "EP" THEN @ \div Pow2[3 * W] ELSE @]
STARTE(a) == [a EXCEPT !.mode = "EP", !.fr = IF a.mode = "EP" THEN @ ELSE @ * Pow2[3 * W]]

----------------------------------------------------------------------------
\* The numbers that memory holds.
InMemory(mode) ==
    { Number(exp, fr) : exp \in Exponents, fr \in
        IF mode = "EP" THEN {fr * Pow2[3 * W] + g : fr \in Fractions, g \in Guards}
        ELSE Fractions }

\* Twelve bits of the exponent are kept between events, and every instruction is one
\* here.
Kept(n) == [mode |-> fac.mode, exp |-> SEXT12(n.exp), fr |-> n.fr]

FLDA == \E b \in InMemory(fac.mode) :
            fac' = Kept(IF fac.mode = "DP" THEN Number(fac.exp, b.fr) ELSE b)
Sum(b) == fac' = Kept(fpp_add(fac.mode, fac, b))
FADD == \E b \in InMemory(fac.mode) : Sum(b)
FSUB == \E b \in InMemory(fac.mode) : Sum(Negated(fac.mode, b))

Init == fac = [mode |-> "FP", exp |-> 0, fr |-> 0] /\ unfx \in BOOLEAN

Next ==
    /\ \/ FLDA \/ FADD \/ FSUB
       \/ \E wd \in Exponents : fac' = Kept(ALN(fac, wd))
       \/ \E xr \in 0 .. Pow2[W] - 1 : fac' = Kept(XTA(fac.mode, xr))
       \/ fac' \in {Kept(FNORM(fac)), Kept(FNEG(fac)), STARTF(fac), STARTD(fac), STARTE(fac)}
    /\ UNCHANGED unfx

vars == <<fac, unfx>>

Spec == Init /\ [][Next]_vars

----------------------------------------------------------------------------
TypeOK ==
    /\ fac.mode \in Modes /\ fac.exp \in -ExpSize .. ExpSize - 1
    /\ fac.fr \in -(Pow2[EXACT(fac.mode) - 1]) .. Pow2[EXACT(fac.mode) - 1] - 1

Normal(mode, n) ==
    LET quarter == Pow2[EXACT(mode) - 2]
    IN  \/ n.fr = 0 /\ n.exp = 0
        \/ n.fr \in quarter .. 2 * quarter - 1
        \/ n.fr \in 1 - 2 * quarter .. -quarter

\* Values in units that all exponents admit.
Value(n) == n.fr * Pow2[n.exp + 4 * ExpSize]
Ulp(n) == Pow2[n.exp + 4 * ExpSize]
Near(z, exact, ulp) == Value(z) - exact < ulp /\ exact - Value(z) < ulp

\* A sum of normalized numbers is normalized, and less than one unit of its last
\* place off; in extended precision, where no digits are kept beyond it, less than
\* two of the larger number.  A sum that the format has a number for is that
\* number, and one whose exponent is too large traps.
SumIsFaithful ==
    fac.mode # "DP" /\ Normal(fac.mode, fac) =>
        \A b \in {n \in InMemory(fac.mode) : Normal(fac.mode, n)} :
        \A y \in {b, Negated(fac.mode, b)} :
            LET z == fpp_add(fac.mode, fac, y)
                exact == Value(fac) + Value(y)
                exp == Max({z.exp, fac.exp, y.exp})
            IN  /\ Normal(fac.mode, z)
                /\ Near(z, exact, IF fac.mode = "FP" THEN Ulp(z) ELSE 2 * Ulp([exp |-> exp]))
                /\ fac.mode = "FP" /\ exact % Ulp(z) = 0 => Value(z) = exact
                /\ z.trap = "FOVX" <=> z.exp > ExpSize - 1

\* An integer sum is exact or traps, unless the most negative number is subtracted,
\* which is its own negative.
IntegerSum ==
    fac.mode = "DP" =>
        \A b \in InMemory("DP") : LET z == fpp_add("DP", fac, b) IN
            z.trap = "none" <=> z.fr = fac.fr + b.fr

\* An index register that goes to the accumulator comes back as it was, and what
\* goes to an index register is the integer part, if it fits.
IndexSurvives ==
    /\ \A xr \in 0 .. Pow2[W] - 1 : ATX(XTA(fac.mode, xr)) = xr
    /\ fac.mode # "DP" =>
          LET whole == Value(fac) \div Pow2[EXACT(fac.mode) - 1 + 4 * ExpSize]
          IN  whole \in 0 .. Pow2[W] - 1 => ATX(fac) = whole

\* A sum too small for any exponent leaves zero in the accumulator, where underflow
\* does not trap.
UnderflowIsZero ==
    [][fac.mode = "FP" /\ ~unfx =>
          \A b \in InMemory("FP") :
            LET smallest == Pow2[2 * W - 2] * Pow2[3 * ExpSize]
            IN  Sum(b) /\ Value(fac) + Value(b) \in 1 .. smallest \div 2 => fac'.fr = 0]_vars
=============================================================================
