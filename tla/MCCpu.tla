-------------------------------- MODULE MCCpu --------------------------------
(* Instances of the CPU for TLC: two fields of two words.  *)
EXTENDS Cpu

Mri(op, ind, cur, off) ==
    [op |-> op, ind |-> ind, cur |-> cur, off |-> off, fld |-> 0]
Io(op) == [op |-> op, ind |-> FALSE, cur |-> FALSE, off |-> 0, fld |-> 0]
IoField(op, f) == [op |-> op, ind |-> FALSE, cur |-> FALSE, off |-> 0, fld |-> f]

\* Interrupts and fields, no user mode.
FieldProgram ==
    { Mri("JMP", FALSE, TRUE, 1), Mri("JMP", TRUE, FALSE, 0),
      Mri("ISZ", FALSE, FALSE, 0), Mri("JMS", FALSE, FALSE, 1),
      Io("ION"), Io("RMF"), IoField("CIF", 1), IoField("CDF", 1) }

\* Memory reference: every kind of operand.
MemoryProgram ==
    { Mri("JMP", TRUE, FALSE, 1), Mri("JMS", TRUE, FALSE, 1),
      Mri("DCA", TRUE, FALSE, 1), Mri("ISZ", FALSE, FALSE, 1), Mri("TAD", TRUE, FALSE, 0),
      IoField("CDF", 1), IoField("CDFCIF", 0), Io("ION") }

\* User mode with the TSC8-75.
UserProgram ==
    { Mri("JMP", FALSE, TRUE, 1), Mri("JMP", TRUE, FALSE, 0), Mri("JMS", FALSE, FALSE, 1),
      Io("ION"), Io("IOF"), Io("RMF"), Io("RTF"), Io("SUF"), Io("CUF"), Io("CINT"),
      Io("ETEN"), Io("ETDS"), Io("ECTF"), Io("ESKP"), Io("HLT"),
      Io("UNDEF"), IoField("CDF", 1) }

\* Every way to keep an interrupt out.
LiveProgram ==
    { Mri("JMP", FALSE, FALSE, 1), Mri("TAD", TRUE, FALSE, 0), Mri("JMS", FALSE, FALSE, 0),
      Io("ION"), Io("IOF"), Io("SKON"), Io("CAF"), IoField("CDFCIF", 1),
      Io("SRQ"), Io("READIOT"), Io("SKIPIOT"), Io("SINT"), Io("OSR"),
      Io("OPR"), Io("DEV") }

SafeProgram == FieldProgram \cup MemoryProgram

Location0 == {<<0, 0>>}
Pointers == {<<0, 0>>, <<0, 1>>}
AutoCells == {1}
BreakInField1 == {<<1, 0>>}
=============================================================================
