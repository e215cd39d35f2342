------------------------------ MODULE Operate -------------------------------
(***************************************************************************)
(* What the operate instructions and the extended arithmetic element do to *)
(* the arithmetic registers (OPR in pdp8_cpu.c), for words of any width:   *)
(* the numbers that the code has for twelve bits are given in terms of it. *)
(* An instruction is a function of the registers.  The operands in memory  *)
(* are any words; of the program counter only the decision to skip is      *)
(* kept.  HLT and OSR are part of module Cpu; DST changes no register; the *)
(* two rotations called undefined in the code are left out.                *)
(***************************************************************************)
EXTENDS Integers, FiniteSetsExt, Powers

CONSTANTS
    W,          \* the bits of a word
    S,          \* the bits of the step counter
    Operands,   \* words in memory
    Rotated,    \* the sets of group 1 bits that come with a rotation
    Combined    \* the sets of group 3 bits that come with an EAE function

\* The step counter fits into AC, and can ask for more than all bits of L:AC:MQ.
WidthAssumption ==
    /\ W \in Nat \ {0} /\ W % 2 = 0 /\ S \in Nat /\ S <= W /\ Pow2[S] > 2 * W + 2
    /\ Operands \subseteq 0 .. Pow2[W] - 1
    /\ Rotated \subseteq SUBSET {"CLA", "CLL", "CMA", "CML", "IAC"}
    /\ Combined \subseteq SUBSET {"CLA", "MQA", "MQL"}

VARIABLE r      \* [LAC, MQ, SC, gtf, emode]

Link == Pow2[W]
Sign == Pow2[W - 1]
SCMask == Pow2[S] - 1
Word == 0 .. Link - 1

Mode == [A |-> 0, B |-> 1]

AC(x) == x.LAC % Link
L(x) == x.LAC \div Link

Bit(n, i) == (n \div Pow2[i]) % 2
Or(m, n) ==
    LET or[i \in 0 .. W + 1] ==
            IF i = 0 THEN 0
            ELSE or[i - 1] + Pow2[i - 1] * (IF Bit(m, i - 1) + Bit(n, i - 1) > 0 THEN 1 ELSE 0)
    IN  or[W + 1]

\* L:AC:MQ, AC:MQ without and with sign, and the registers that hold a number.
Long(x) == x.LAC * Link + x.MQ
Double(x) == AC(x) * Link + x.MQ
Signed(x) == IF AC(x) >= Sign THEN Double(x) - Link * Link ELSE Double(x)
Holding(x, n) == [x EXCEPT !.LAC = (n \div Link) % (2 * Link), !.MQ = n % Link]

----------------------------------------------------------------------------
\* Group 1: CLA and CLL, CMA and CML, IAC, and a rotation, in this order.
Without(lac) == lac - (lac % Link)

Clear(ops, lac) ==
    (IF "CLL" \in ops THEN 0 ELSE Without(lac)) + (IF "CLA" \in ops THEN 0 ELSE lac % Link)

Complement(ops, lac) ==
    LET ac == lac % Link
        l  == Without(lac)
    IN  (IF "CML" \in ops THEN Link - l ELSE l) + (IF "CMA" \in ops THEN Link - 1 - ac ELSE ac)

Increment(ops, lac) == IF "IAC" \in ops THEN (lac + 1) % (2 * Link) ELSE lac

Half == Pow2[W \div 2]

Rotate(rotation, lac) ==
    CASE rotation = "none" -> lac
      [] rotation = "BSW" -> Without(lac) + ((lac % Link) \div Half) + ((lac % Half) * Half)
      [] rotation = "RAL" -> ((lac * 2) + (lac \div Link)) % (2 * Link)
      [] rotation = "RTL" -> ((lac * 4) + (lac \div Sign)) % (2 * Link)
      [] rotation = "RAR" -> ((lac \div 2) + (lac * Link)) % (2 * Link)
      [] rotation = "RTR" -> ((lac \div 4) + (lac * Sign)) % (2 * Link)

Group1(x, ops, rotation) ==
    [x EXCEPT !.LAC = Rotate(rotation, Increment(ops, Complement(ops, Clear(ops, @))))]

\* Group 2: the conditions are an or, reversed they are its negation.
SkipsOnEither(lac, conditions) ==                   \* mutant of Skips
    \/ "SMA" \in conditions /\ lac % Link >= Sign
    \/ "SZA" \in conditions /\ lac = 0
    \/ "SNL" \in conditions /\ lac >= Link

Skips(lac, conditions) ==
    CASE conditions = {} -> FALSE
      [] conditions = {"SNL"} -> lac >= Link
      [] conditions = {"SZA"} -> lac % Link = 0
      [] conditions = {"SZA", "SNL"} -> lac = 0 \/ lac >= Link
      [] conditions = {"SMA"} -> lac % Link >= Sign
      [] conditions = {"SMA", "SNL"} -> lac >= Sign
      [] conditions = {"SMA", "SZA"} -> lac % Link >= Sign \/ lac % Link = 0
      [] conditions = {"SMA", "SZA", "SNL"} -> lac >= Sign \/ lac = 0

SkipsUnless(lac, conditions) ==
    CASE conditions = {} -> TRUE
      [] conditions = {"SNL"} -> lac < Link
      [] conditions = {"SZA"} -> lac % Link # 0
      [] conditions = {"SZA", "SNL"} -> lac # 0 /\ lac < Link
      [] conditions = {"SMA"} -> lac % Link < Sign
      [] conditions = {"SMA", "SNL"} -> lac < Sign
      [] conditions = {"SMA", "SZA"} -> lac % Link < Sign /\ lac % Link # 0
      [] conditions = {"SMA", "SZA", "SNL"} -> lac < Sign /\ lac # 0

\* Group 3: CLA, then MQA and MQL at the same time, so that both are an exchange.
Group3(x, ops) ==
    LET cleared == IF "CLA" \in ops THEN Without(x.LAC) ELSE x.LAC
        moved   == IF "MQL" \in ops THEN Without(cleared) ELSE cleared
    IN  [x EXCEPT !.MQ = IF "MQL" \in ops THEN cleared % Link ELSE @,
                  !.LAC = IF "MQA" \in ops THEN Or(moved, x.MQ) ELSE moved]

----------------------------------------------------------------------------
\* The EAE.  Mode A clears GT first.
Begin(x) == IF x.emode = Mode.A THEN [x EXCEPT !.gtf = 0] ELSE x

SWAB(x) == [Group3(x, {"MQL"}) EXCEPT !.emode = Mode.B]
SWBA(x) == [x EXCEPT !.emode = Mode.A, !.gtf = 0]

\* In mode A, SCA comes with any of the others and before it.
SCA(x) == [x EXCEPT !.LAC = Or(@, x.SC)]

ACS(x) == [x EXCEPT !.SC = AC(x) % (SCMask + 1), !.LAC = Without(@)]
SCL(x, m) == [x EXCEPT !.SC = (Link - 1 - m) % (SCMask + 1)]

MUY(x, m) == [Holding([x EXCEPT !.LAC = 0], x.MQ * m + AC(x)) EXCEPT !.SC = W]

DVI(x, m) ==
    IF AC(x) >= m
    THEN [x EXCEPT !.LAC = Link + AC(x), !.MQ = (2 * @ + 1) % Link, !.SC = 0]
    ELSE [x EXCEPT !.LAC = Double(x) % m, !.MQ = Double(x) \div m, !.SC = W + 1]

\* Left until the two bits of the sign differ or no other bit is on.
Normal(n) ==
    \/ n % Pow2[2 * W - 2] = 0
    \/ Bit(n, 2 * W - 1) # Bit(n, 2 * W - 2)

NMI(x) ==
    LET steps == Min({n \in 0 .. 2 * W : Normal(Long(x) * Pow2[n])})
        n     == Holding(x, Long(x) * Pow2[steps])
    IN  [n EXCEPT !.SC = steps,
                  !.LAC = IF x.emode = Mode.B /\ AC(n) = Sign /\ n.MQ = 0 THEN Without(@) ELSE @]

\* Mode A shifts by one more than the operand says.
Steps(x, m) == (m % (SCMask + 1)) + (IF x.emode = Mode.A THEN 1 ELSE 0)
Shifted(x, n) == [Holding(x, n) EXCEPT !.SC = IF x.emode = Mode.A THEN 0 ELSE SCMask]

\* The last bit that is shifted out goes to GT, in mode B.
NextOut(x, n, steps) ==                             \* mutant of LastOut
    IF x.emode = Mode.B /\ steps # 0 THEN [x EXCEPT !.gtf = (n \div Pow2[steps]) % 2] ELSE x
LastOut(x, n, steps) ==
    IF x.emode = Mode.B /\ steps # 0 THEN [x EXCEPT !.gtf = (n \div Pow2[steps - 1]) % 2] ELSE x

SHL(x, m) ==
    LET steps == Steps(x, m)
    IN  Shifted(x, IF steps > 2 * W + 1 THEN 0 ELSE Long(x) * Pow2[steps])

ASR(x, m) ==
    LET steps == Steps(x, m)
    IN  Shifted(LastOut(x, Signed(x), steps),
                IF steps > 2 * W + 1 THEN (IF AC(x) >= Sign THEN -1 ELSE 0)
                ELSE Signed(x) \div Pow2[steps])

LSR(x, m) ==
    LET steps == Steps(x, m)
    IN  Shifted(LastOut(x, Double(x), steps),
                IF steps > 2 * W THEN 0 ELSE Double(x) \div Pow2[steps])

\* Mode B only.  The operand of DAD is two words, the low one first.
AddedTo13(x) == x.LAC                               \* mutant of Added
Added(x) == AC(x)

DAD(x, low, high) ==
    [x EXCEPT !.MQ = (@ + low) % Link, !.LAC = Added(x) + high + ((x.MQ + low) \div Link)]

Carry(n) == IF n = 0 THEN 1 ELSE 0

\* These two come after the exchange of AC and MQ.
DPIC(x) ==
    LET low == (x.LAC + 1) % Link
    IN  [x EXCEPT !.LAC = x.MQ + Carry(low), !.MQ = low]

DCM(x) ==
    LET low == (- x.LAC) % Link
    IN  [x EXCEPT !.LAC = Link - 1 - x.MQ + Carry(low), !.MQ = low]

SAM(x) ==
    [x EXCEPT !.LAC = x.MQ + (Link - 1 - AC(x)) + 1,
              !.gtf = IF (AC(x) <= x.MQ) # (Bit(AC(x), W - 1) # Bit(x.MQ, W - 1)) THEN 1 ELSE 0]

DPSZ(x) == AC(x) = 0 /\ x.MQ = 0

----------------------------------------------------------------------------
Rotations == {"BSW", "RAL", "RTL", "RAR", "RTR"}

BothModes(x) ==
    {SCA(x), NMI(x)}
        \union UNION {{MUY(x, m), DVI(x, m), SHL(x, m), ASR(x, m), LSR(x, m)} : m \in Operands}

ModeA(x) == BothModes(SCA(x)) \union UNION {{SCL(x, m), SCL(SCA(x), m)} : m \in Operands}

ModeB(x) ==
    {ACS(x), DPIC(x), DCM(x), SAM(x)} \union {DAD(x, low, high) : low, high \in Operands}

Init == r = [LAC |-> 0, MQ |-> 0, SC |-> 0, gtf |-> 0, emode |-> Mode.A]

Group1Step ==
    \/ \E ops \in SUBSET {"CLA", "CLL", "CMA", "CML", "IAC"} : r' = Group1(r, ops, "none")
    \/ \E ops \in Rotated, rotation \in Rotations : r' = Group1(r, ops, rotation)

Group3Step ==
    \/ \E ops \in SUBSET {"CLA", "MQA", "MQL"} : r' = Begin(Group3(r, ops))
    \/ \E ops \in Combined :
        LET x == Begin(Group3(r, ops))
        IN  r' \in BothModes(x) \union (IF r.emode = Mode.A THEN ModeA(x) ELSE ModeB(x))

ModeStep == r' \in {SWAB(r), SWBA(r)}

Next == Group1Step \/ Group3Step \/ ModeStep

Spec == Init /\ [][Next]_r

----------------------------------------------------------------------------
\* LAC keeps thirteen bits, MQ twelve, the step counter five.
TypeOK ==
    r \in [LAC : 0 .. 2 * Link - 1, MQ : Word, SC : 0 .. SCMask, gtf : {0, 1}, emode : {0, 1}]

\* A product with the addend is exact, and division takes it apart again; it
\* stops with the link set just when the quotient does not fit.
MultipliesAndDivides ==
    \A m \in Operands :
        LET p == MUY(r, m)
            d == DVI(r, m)
        IN  /\ Double(p) = r.MQ * m + AC(r) /\ L(p) = 0
            /\ m > AC(r) => LET b == DVI(p, m) IN b.MQ = r.MQ /\ b.LAC = AC(r)
            /\ IF m * Link > Double(r) THEN d.MQ * m + d.LAC = Double(r) /\ d.LAC < m
               ELSE L(d) = 1

\* What NMI has shifted to the left has kept its value but for the power of two
\* in SC: shifting it back, over the sign, restores it.
NormalisesBack ==
    LET n == NMI(r)
    IN  /\ Signed(n) = Signed(r) * Pow2[n.SC] \/ (r.emode = Mode.B /\ Double(n) = 0)
        /\ Normal(Double(n))

\* Shifts by any count are what the same number of shifts by one bit are.
ShiftsByOnes ==
    \A m \in Operands :
        /\ Long(SHL(r, m)) = (Long(r) * Pow2[Steps(r, m)]) % (2 * Link * Link)
        /\ Signed(ASR(r, m)) = Signed(r) \div Pow2[Steps(r, m)]
        /\ L(ASR(r, m)) = AC(r) \div Sign
        /\ Long(LSR(r, m)) = Double(r) \div Pow2[Steps(r, m)]
        /\ r.emode = Mode.B /\ m % (SCMask + 1) = 1 =>
              ASR(r, m).gtf = r.MQ % 2 /\ LSR(r, m).gtf = r.MQ % 2

\* Numbers of two words: sum, increment, negative and comparison, with the carry
\* in the link.
DoublePrecision ==
    /\ \A low, high \in Operands :
          Long(DAD(r, low, high)) = Double(r) + high * Link + low
    /\ LET swp == Group3(r, {"MQA", "MQL"})
       IN  /\ Long(DPIC(swp)) = Double(r) + 1
           /\ Long(DCM(swp)) = Link * Link - Double(r)

Value(n) == IF n >= Sign THEN n - Link ELSE n

Compares ==
    LET s == SAM(r)
    IN  /\ AC(s) = (r.MQ - AC(r)) % Link
        /\ L(s) = 1 <=> r.MQ >= AC(r)
        /\ s.gtf = 1 <=> Value(r.MQ) >= Value(AC(r))

\* The EAE computes what a program uses it for, for every content of the registers
\* that a program can bring about.
EaeIsExact ==
    MultipliesAndDivides /\ NormalisesBack /\ ShiftsByOnes /\ DoublePrecision /\ Compares

\* A skip is taken when one of the conditions named holds, the reversed one when
\* none does; rotations over two bits are two over one, and those to the right
\* undo those to the left.
MicrocodeComposes ==
    /\ \A c \in SUBSET {"SMA", "SZA", "SNL"} :
          /\ Skips(r.LAC, c) <=> \/ "SMA" \in c /\ Value(AC(r)) < 0
                                 \/ "SZA" \in c /\ AC(r) = 0
                                 \/ "SNL" \in c /\ L(r) = 1
          /\ SkipsUnless(r.LAC, c) <=> ~Skips(r.LAC, c)
    /\ LET Is(f, g) == Rotate(f, Rotate(g, r.LAC))
       IN  /\ Rotate("RTL", r.LAC) = Is("RAL", "RAL") /\ Rotate("RTR", r.LAC) = Is("RAR", "RAR")
           /\ r.LAC = Is("RAR", "RAL") /\ r.LAC = Is("RTR", "RTL") /\ r.LAC = Is("BSW", "BSW")
    /\ DPSZ(r) <=> Double(r) = 0
    /\ LET swp == Group3(r, {"MQA", "MQL"})
       IN  AC(swp) = r.MQ /\ swp.MQ = AC(r) /\ L(swp) = L(r)
=============================================================================
