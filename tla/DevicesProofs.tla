---------------------------- MODULE DevicesProofs ----------------------------
(***************************************************************************)
(* The character devices, for any of them at a time and any characters;    *)
(* the extra terminals, for any lines; the FPP8A, for any length of        *)
(* program; the RK8E, for any drives and any size of field; and a machine  *)
(* that has any one of these.                                              *)
(***************************************************************************)
EXTENDS MCDevices, SequenceTheorems, TLAPS

----------------------------------------------------------------------------
(* An output device that is busy has not been seen ready, for its flag is  *)
(* down: that is what ReadyIsDone needs of a flag seen.  A key that is     *)
(* waiting keeps the keyboard's flag up: that is why Accepts stands in the *)
(* way of the next.                                                        *)
BusyFlagDown == polite => \A d \in Outputs \cap queued : d \notin dev_done \union idle

KeyFlagUp == polite /\ "TTI" \in unread => "TTI" \in dev_done

Buffers == DOMAIN buf = {"TTI", "TTO", "PTP", "LPT"}

IInv == TypeOK /\ IntAgrees /\ BusyFlagDown /\ KeyFlagUp /\ Buffers

LEMMA InitHolds == Init => IInv
BY GroupsAssumption
DEF Init, IInv, TypeOK, IntAgrees, BusyFlagDown, KeyFlagUp, Buffers, INT_INIT_ENABLE, Outputs,
    Inputs, Files

\* How the three words change together.
LEMMA SetFlagKept ==
    ASSUME TypeOK, IntAgrees, NEW d \in devices, SetFlag(d)
    PROVE  /\ int_req' = dev_done' \cap int_enable' /\ dev_done' = dev_done \union {d}
           /\ dev_done' \subseteq devices /\ int_enable' \subseteq devices
BY DEF SetFlag, INT_UPDATE, TypeOK

LEMMA ClearFlagKept ==
    ASSUME TypeOK, IntAgrees, NEW d, ClearFlag(d)
    PROVE  /\ int_req' = dev_done' \cap int_enable' /\ dev_done' = dev_done \ {d}
           /\ dev_done' \subseteq devices /\ int_enable' \subseteq devices
BY DEF ClearFlag, TypeOK, IntAgrees

LEMMA ResetKept ==
    ASSUME IInv, NEW s \in SUBSET devices, ResetEffect(s),
           UNCHANGED idle \/ (s = devices /\ idle' = Outputs)
    PROVE  IInv'
<1> USE DEF IInv
<1>1. /\ int_req' = dev_done' \cap int_enable'
      /\ dev_done' \subseteq devices /\ int_enable' \subseteq devices
  BY DEF ResetEffect, TypeOK, IntAgrees
<1>2. /\ DOMAIN buf' = DOMAIN buf
      /\ \A b \in DOMAIN buf' : buf'[b] \in Chars \union {"nul"}
  BY DEF ResetEffect, TypeOK
<1>3. TypeOK'
  BY <1>1, <1>2 DEF ResetEffect, TypeOK, Outputs, Inputs, Files
<1>4. BusyFlagDown' /\ KeyFlagUp'
  BY DEF ResetEffect, BusyFlagDown, KeyFlagUp, Outputs, TypeOK
<1> QED BY <1>1, <1>2, <1>3, <1>4 DEF Buffers, IntAgrees

LEMMA IotKept == ASSUME IInv, IOT PROVE IInv'
<1> USE DEF IInv
<1>1. ASSUME NEW d \in devices, RaiseFlag(d) PROVE IInv'
  <2>1. /\ UNCHANGED <<devices, queued, buf, attached, lpt_err, old_char, progvars>>
        /\ d \in Outputs /\ (polite => d \in idle) /\ d # "TTI"
    BY <1>1 DEF RaiseFlag
  <2> QED BY <1>1, <2>1, SetFlagKept
          DEF RaiseFlag, TypeOK, IntAgrees, BusyFlagDown, KeyFlagUp, Buffers, progvars, Outputs,
              Inputs, Files
<1>2. ASSUME NEW d \in devices, SeeFlag(d) PROVE IInv'
  BY <1>2 DEF SeeFlag, flagvars, TypeOK, IntAgrees, BusyFlagDown, KeyFlagUp, Buffers, Outputs,
              Inputs, Files
<1>3. ASSUME NEW d \in devices, DropFlag(d) PROVE IInv'
  <2>1. /\ UNCHANGED <<devices, queued, buf, attached, lpt_err, old_char, progvars>>
        /\ polite => d \notin unread
    BY <1>3 DEF DropFlag
  <2> QED BY <1>3, <2>1, ClearFlagKept
          DEF DropFlag, TypeOK, IntAgrees, BusyFlagDown, KeyFlagUp, Buffers, progvars, Outputs,
              Inputs, Files
<1>4. ASSUME NEW d \in devices, DisableOne(d) PROVE IInv'
  BY <1>4 DEF DisableOne, TypeOK, IntAgrees, BusyFlagDown, KeyFlagUp, Buffers, progvars, Outputs,
              Inputs, Files
<1>5. ASSUME NEW d \in devices, NEW clear \in BOOLEAN, NEW fetch \in BOOLEAN,
             ReadChar(d, clear, fetch)
      PROVE  IInv'
  <2>1. /\ UNCHANGED <<devices, buf, attached, lpt_err, old_char, polite, idle>>
        /\ d \in Inputs /\ unread' = unread \ {d}
        /\ queued' = queued \/ (d = "PTR" /\ queued' = queued \union {"PTR"})
    BY <1>5 DEF ReadChar
  <2>2. /\ int_req' = dev_done' \cap int_enable'
        /\ dev_done' = dev_done \/ dev_done' = dev_done \ {d}
        /\ dev_done' \subseteq devices /\ int_enable' \subseteq devices
    BY <1>5, ClearFlagKept DEF ReadChar, flagvars, TypeOK, IntAgrees
  <2> QED BY <2>1, <2>2
          DEF TypeOK, IntAgrees, BusyFlagDown, KeyFlagUp, Buffers, Outputs, Inputs, Files
<1>6. ASSUME FetchChar PROVE IInv'
  <2>1. /\ UNCHANGED <<devices, buf, attached, lpt_err, old_char, progvars>>
        /\ queued' = queued \union {"PTR"}
    BY <1>6 DEF FetchChar
  <2>2. /\ int_req' = dev_done' \cap int_enable' /\ dev_done' = dev_done \ {"PTR"}
        /\ dev_done' \subseteq devices /\ int_enable' \subseteq devices
    BY <1>6, ClearFlagKept DEF FetchChar
  <2> QED BY <2>1, <2>2
          DEF TypeOK, IntAgrees, BusyFlagDown, KeyFlagUp, Buffers, progvars, Outputs, Inputs, Files
<1>7. ASSUME NEW p \in Pairs, NEW on \in BOOLEAN, EnablePair(p, on) PROVE IInv'
  BY <1>7 DEF EnablePair, SetEnable, INT_UPDATE, Pairs, TypeOK, IntAgrees, BusyFlagDown, KeyFlagUp,
              Buffers, progvars, Outputs, Inputs, Files
<1>8. ASSUME NEW d \in devices, NEW c \in Chars, NEW clear \in BOOLEAN, Load(d, c, clear)
      PROVE  IInv'
  <2>1. /\ UNCHANGED <<devices, attached, lpt_err, old_char, unread, polite>>
        /\ d \in Outputs /\ idle' = idle \ {d} /\ queued' = queued \union {d}
        /\ buf' = [buf EXCEPT ![d] = c]
        /\ polite /\ ~clear => d \notin dev_done
    BY <1>8 DEF Load, Begin
  <2>2. /\ int_req' = dev_done' \cap int_enable'
        /\ IF clear THEN dev_done' = dev_done \ {d} ELSE dev_done' = dev_done
        /\ dev_done' \subseteq devices /\ int_enable' \subseteq devices
    BY <1>8, ClearFlagKept DEF Load, flagvars, TypeOK, IntAgrees
  <2>3. \A b \in DOMAIN buf' : buf'[b] \in Chars \union {"nul"}
    BY <2>1 DEF TypeOK
  <2> QED BY <2>1, <2>2, <2>3
          DEF TypeOK, IntAgrees, BusyFlagDown, KeyFlagUp, Buffers, Outputs, Inputs, Files
<1>9. ASSUME NEW c \in Chars, NEW clear \in BOOLEAN, PrintAtOnce(c, clear), "LPT" \in devices
      PROVE  IInv'
  <2>1. /\ UNCHANGED <<devices, queued, attached, old_char, unread, polite>>
        /\ idle' = idle \ {"LPT"} /\ (polite => "LPT" \in idle)
        /\ buf' = [buf EXCEPT !["LPT"] = c]
        /\ lpt_err' = (lpt_err \/ "LPT" \notin attached)
    BY <1>9 DEF PrintAtOnce, Begin
  <2>2. /\ int_req' = dev_done' \cap int_enable' /\ dev_done' = dev_done \union {"LPT"}
        /\ dev_done' \subseteq devices /\ int_enable' \subseteq devices
    BY <1>9, SetFlagKept DEF PrintAtOnce
  <2>3. \A b \in DOMAIN buf' : buf'[b] \in Chars \union {"nul"}
    BY <2>1 DEF TypeOK
  <2>4. lpt_err' \in BOOLEAN /\ lpt_err' = ("LPT" \notin attached')
    BY <1>9, <2>1 DEF TypeOK
  <2>5. TypeOK'
    BY <2>1, <2>2, <2>3, <2>4 DEF TypeOK, Outputs, Inputs, Files
  <2>6. BusyFlagDown' /\ KeyFlagUp'
    BY <2>1, <2>2 DEF BusyFlagDown, KeyFlagUp, Outputs
  <2> QED BY <2>1, <2>2, <2>5, <2>6 DEF Buffers, IntAgrees
<1>10. CASE \E s \in SUBSET devices :
               ResetEffect(s) /\ (UNCHANGED idle \/ (s = devices /\ idle' = Outputs))
  BY <1>10, ResetKept
<1> QED
  BY <1>1, <1>2, <1>3, <1>4, <1>5, <1>6, <1>7, <1>8, <1>9, <1>10 DEF IOT, CAF

\* A service that sets the flag of an output device takes its event.
LEMMA PrintedKept ==
    ASSUME IInv, NEW d \in Outputs, queued' = queued \ {d}, SetFlag(d),
           UNCHANGED <<devices, buf, attached, old_char, unread, polite, idle>>,
           lpt_err' \in {lpt_err, lpt_err \/ "LPT" \notin attached}
    PROVE  IInv'
<1> USE DEF IInv
<1>1. /\ int_req' = dev_done' \cap int_enable' /\ dev_done' = dev_done \union {d}
      /\ dev_done' \subseteq devices /\ int_enable' \subseteq devices
  BY SetFlagKept DEF Outputs
<1>2. TypeOK'
  BY <1>1 DEF TypeOK, Outputs, Inputs, Files
<1>3. BusyFlagDown' /\ KeyFlagUp'
  BY <1>1 DEF BusyFlagDown, KeyFlagUp, Outputs
<1> QED BY <1>1, <1>2, <1>3 DEF Buffers, IntAgrees

LEMMA ServiceKept == ASSUME IInv, Service PROVE IInv'
<1> USE DEF IInv
<1>1. CASE PrintChar
  <2>1. "TTO" \in Outputs
    BY <1>1 DEF PrintChar, TypeOK, Outputs
  <2> QED BY <1>1, <2>1, PrintedKept DEF PrintChar, progvars
<1>2. CASE ptp_svc
  <2>1. "PTP" \in Outputs
    BY <1>2 DEF ptp_svc, TypeOK, Outputs
  <2> QED BY <1>2, <2>1, PrintedKept DEF ptp_svc, progvars
<1>3. CASE lpt_svc
  <2>1. "LPT" \in Outputs
    BY <1>3 DEF lpt_svc, TypeOK, Outputs
  <2> QED BY <1>3, <2>1, PrintedKept DEF lpt_svc, progvars, TypeOK
<1>4. CASE Stall
  BY <1>4 DEF Stall, TryAgain, flagvars, progvars, TypeOK, IntAgrees, BusyFlagDown, KeyFlagUp,
              Buffers, Outputs, Inputs, Files
<1>5. CASE ptr_svc
  <2>1. /\ UNCHANGED <<devices, buf, attached, lpt_err, old_char, polite, idle>>
        /\ queued' = queued \ {"PTR"}
        /\ \/ UNCHANGED <<flagvars, unread>>
           \/ "PTR" \in devices /\ SetFlag("PTR") /\ unread' = unread \union {"PTR"}
    BY <1>5 DEF ptr_svc, TypeOK, Files
  <2>2. /\ int_req' = dev_done' \cap int_enable'
        /\ dev_done' = dev_done \/ dev_done' = dev_done \union {"PTR"}
        /\ dev_done' \subseteq devices /\ int_enable' \subseteq devices
    BY <2>1, SetFlagKept DEF flagvars, TypeOK, IntAgrees
  <2>3. TypeOK'
    BY <2>1, <2>2 DEF TypeOK, Outputs, Inputs, Files
  <2>4. BusyFlagDown' /\ KeyFlagUp'
    BY <2>1, <2>2 DEF BusyFlagDown, KeyFlagUp, Outputs
  <2> QED BY <2>1, <2>2, <2>3, <2>4 DEF Buffers, IntAgrees
<1>6. CASE clk_svc
  <2>1. /\ UNCHANGED <<devices, queued, buf, attached, lpt_err, old_char, unread, polite, idle>>
        /\ dev_done' = dev_done \union {"CLK"} /\ int_req' = dev_done' \cap int_enable'
        /\ dev_done' \subseteq devices /\ int_enable' \subseteq devices
    BY <1>6, SetFlagKept DEF clk_svc, progvars
  <2>2. BusyFlagDown' /\ KeyFlagUp'
    BY <2>1 DEF BusyFlagDown, KeyFlagUp, Outputs
  <2> QED BY <2>1, <2>2 DEF TypeOK, IntAgrees, Buffers, Outputs, Inputs, Files
<1>7. ASSUME NEW c \in Chars, tti_svc(c) PROVE IInv'
  <2>1. /\ UNCHANGED <<devices, queued, attached, lpt_err, polite, idle>>
        /\ buf' = [buf EXCEPT !["TTI"] = c] /\ unread' = unread \union {"TTI"}
        /\ old_char' = FALSE /\ "TTI" \in devices
    BY <1>7 DEF tti_svc
  <2>2. /\ int_req' = dev_done' \cap int_enable' /\ dev_done' = dev_done \union {"TTI"}
        /\ dev_done' \subseteq devices /\ int_enable' \subseteq devices
    BY <1>7, SetFlagKept DEF tti_svc
  <2>3. DOMAIN buf' = DOMAIN buf /\ \A b \in DOMAIN buf' : buf'[b] \in Chars \union {"nul"}
    BY <2>1 DEF TypeOK
  <2>4. TypeOK'
    BY <2>1, <2>2, <2>3 DEF TypeOK, Outputs, Inputs, Files
  <2>5. BusyFlagDown' /\ KeyFlagUp'
    BY <2>1, <2>2 DEF BusyFlagDown, KeyFlagUp, Outputs
  <2> QED BY <2>2, <2>3, <2>4, <2>5 DEF Buffers, IntAgrees
<1> QED BY <1>1, <1>2, <1>3, <1>4, <1>5, <1>6, <1>7 DEF Service

LEMMA StepKept == ASSUME IInv, [Next]_vars PROVE IInv'
<1> USE DEF IInv
<1>1. ASSUME NEW d \in devices, Reset(d) PROVE IInv'
  BY <1>1, ResetKept DEF Reset
<1>2. ASSUME NEW d \in devices, Attach(d) \/ Detach(d) PROVE IInv'
  <2>1. /\ UNCHANGED <<devices, dev_done, int_enable, int_req, queued, buf, old_char, unread,
                       polite, idle>>
        /\ attached' \subseteq Files
    BY <1>2 DEF Attach, Detach, flagvars, progvars, TypeOK
  <2>2. lpt_err' \in BOOLEAN /\ ("LPT" \in devices => lpt_err' = ("LPT" \notin attached'))
    BY <1>2 DEF Attach, Detach, TypeOK
  <2>3. TypeOK'
    BY <2>1, <2>2 DEF TypeOK, Outputs, Inputs, Files
  <2> QED BY <2>1, <2>3 DEF IntAgrees, BusyFlagDown, KeyFlagUp, Buffers, Outputs
<1>3. CASE TimePasses \/ UNCHANGED vars
  <2>1. UNCHANGED <<devices, dev_done, int_enable, int_req, queued, buf, attached, lpt_err,
                    unread, polite, idle>> /\ old_char' \in BOOLEAN
    BY <1>3 DEF TimePasses, vars, flagvars, progvars, TypeOK
  <2> QED BY <2>1 DEF TypeOK, IntAgrees, BusyFlagDown, KeyFlagUp, Buffers, Outputs, Inputs, Files
<1> QED BY <1>1, <1>2, <1>3, IotKept, ServiceKept DEF Next

THEOREM Inductive == Spec => []IInv
BY InitHolds, StepKept, PTL DEF Spec

\* The requests that every IOT, service and reset of the devices keeps by hand are
\* those of the flags that are up and enabled.
THEOREM RequestsKept == Spec => []IntAgrees
BY Inductive, PTL DEF IInv

\* A device that a polite program has seen ready has printed what it was given: the
\* next character neither replaces it nor is printed twice.
THEOREM OutputKept == Spec => []ReadyIsDone
<1>1. IInv => ReadyIsDone
  BY DEF IInv, TypeOK, BusyFlagDown, ReadyIsDone
<1> QED BY <1>1, Inductive, PTL

\* What the keyboard's part of that needs of a step.
LEMMA KeyStep ==
    ASSUME IInv, [Next]_vars
    PROVE  [(/\ polite /\ "TTI" \in unread \cap unread'
             /\ buf'["TTI"] # buf["TTI"]) => old_char]_vars
<1>1. ASSUME polite, "TTI" \in unread \cap unread', buf'["TTI"] # buf["TTI"] PROVE old_char
  <2>1. CASE \E c \in Chars : tti_svc(c)
    BY <1>1, <2>1 DEF tti_svc, Accepts, IInv, KeyFlagUp
  <2>2. ASSUME NEW d \in devices, NEW c \in Chars, NEW clear \in BOOLEAN, Load(d, c, clear)
        PROVE  FALSE
    BY <1>1, <2>2 DEF Load, Begin, Outputs, IInv, Buffers
  <2>3. ASSUME NEW c \in Chars, NEW clear \in BOOLEAN, PrintAtOnce(c, clear) PROVE FALSE
    BY <1>1, <2>3 DEF PrintAtOnce, IInv, Buffers
  <2>4. ASSUME NEW s, ResetEffect(s) PROVE FALSE
    BY <1>1, <2>4 DEF ResetEffect, IInv, Buffers
  <2>5. CASE UNCHANGED buf
    BY <1>1, <2>5
  <2> QED
    BY <1>1, <2>1, <2>2, <2>3, <2>4, <2>5
    DEF Next, IOT, Service, RaiseFlag, SeeFlag, DropFlag, ReadChar, FetchChar, EnablePair,
        DisableOne, CAF, Reset, Attach, Detach, TimePasses, PrintChar, Stall, ptp_svc, lpt_svc,
        ptr_svc, clk_svc, vars
<1> QED BY <1>1

\* No key replaces one that a polite program has not read before 500 ms are over.
THEOREM KeysKept == Spec => KeyKept
BY KeyStep, Inductive, PTL DEF Spec, KeyKept

----------------------------------------------------------------------------
(* The extra terminals.  Beyond what the runs check: a line that waits to  *)
(* print has its output flag down, which is what TSF looks at.             *)
TxBusyFlagDown == polite => queued \cap ttox_done = {}

TxInv == Tx!TypeOK /\ Tx!IntAgrees /\ Tx!CharsKept /\ Tx!PollsOn /\ TxBusyFlagDown

LEMMA TxInitHolds == Tx!Init => TxInv
BY TxLines
DEF Tx!LinesAssumption, Tx!Init, Tx!Lines, Tx!Masters, Tx!Summary, TxInv, Tx!TypeOK, Tx!IntAgrees,
    Tx!CharsKept, Tx!PollsOn, TxBusyFlagDown

\* ttx_new_flags makes the requests what the flags and enables call for, whatever
\* they were.
LEMMA NewFlagsAgree ==
    ASSUME NEW i, NEW o, NEW e, Tx!ttx_new_flags(i, o, e)
    PROVE  ttix_done' = i /\ ttox_done' = o /\ ttx_enbl' = e /\ Tx!IntAgrees'
BY DEF Tx!ttx_new_flags, Tx!Summary, Tx!Masters, Tx!IntAgrees

LEMMA TxIotKept == ASSUME TxInv, NEW l \in present, Tx!IOT(l) PROVE TxInv'
<1> USE DEF TxInv, TxBusyFlagDown, Tx!TypeOK, Tx!CharsKept, Tx!PollsOn, Tx!muxvars, Tx!progvars
<1>0. l \in Tx!Lines
  BY DEF Tx!Lines
<1>1. CASE Tx!TLF(l)
  <2>1. ttix_done' = ttix_done /\ ttox_done' = ttox_done \union {l} /\ ttx_enbl' = ttx_enbl /\ Tx!IntAgrees'
    BY <1>1, NewFlagsAgree DEF Tx!TLF
  <2> QED BY <1>1, <2>1 DEF Tx!TLF, Tx!Lines
<1>2. CASE Tx!TSF(l)
  BY <1>0, <1>2 DEF Tx!TSF, Tx!linevars, Tx!Lines, Tx!IntAgrees
<1>3. CASE Tx!TCF(l)
  <2>1. ttix_done' = ttix_done /\ ttox_done' = ttox_done \ {l} /\ ttx_enbl' = ttx_enbl /\ Tx!IntAgrees'
    BY <1>3, NewFlagsAgree DEF Tx!TCF, Tx!ClearOutput
  <2> QED BY <1>3, <2>1 DEF Tx!TCF, Tx!Lines
<1>4. ASSUME NEW b \in BOOLEAN, Tx!DropInput(l, b) PROVE TxInv'
  <2>1. ttix_done' = ttix_done \ {l} /\ ttox_done' = ttox_done /\ ttx_enbl' = ttx_enbl /\ Tx!IntAgrees'
    BY <1>4, NewFlagsAgree DEF Tx!DropInput, Tx!ClearInput
  <2>2. polling' \in BOOLEAN /\ (polling => polling')
    BY <1>4 DEF Tx!DropInput
  <2> QED BY <1>4, <2>1, <2>2 DEF Tx!DropInput, Tx!Lines
<1>5. ASSUME NEW b \in BOOLEAN, Tx!ReadLine(l, b) PROVE TxInv'
  <2>1. /\ ttix_done' = ttix_done \ {l} \/ ttix_done' = ttix_done
        /\ ttox_done' = ttox_done /\ ttx_enbl' = ttx_enbl /\ Tx!IntAgrees'
    BY <1>5, NewFlagsAgree DEF Tx!ReadLine, Tx!ClearInput, Tx!linevars, Tx!IntAgrees
  <2>2. polling' \in BOOLEAN /\ (polling => polling')
    BY <1>5 DEF Tx!ReadLine
  <2> QED BY <1>5, <2>1, <2>2 DEF Tx!ReadLine, Tx!Lines
<1>6. ASSUME NEW b \in BOOLEAN, Tx!KIE(l, b) PROVE TxInv'
  <2>1. /\ ttix_done' = ttix_done /\ ttox_done' = ttox_done /\ Tx!IntAgrees'
        /\ ttx_enbl' \in {ttx_enbl \union {l}, ttx_enbl \ {l}}
    BY <1>6, NewFlagsAgree DEF Tx!KIE
  <2> QED BY <1>0, <1>6, <2>1 DEF Tx!KIE, Tx!Lines
<1>7. ASSUME NEW b \in BOOLEAN, Tx!TransmitChar(l, b) PROVE TxInv'
  <2>1. /\ ttix_done' = ttix_done /\ ttx_enbl' = ttx_enbl /\ Tx!IntAgrees'
        /\ IF b THEN ttox_done' = ttox_done \ {l} ELSE ttox_done' = ttox_done
    BY <1>7, NewFlagsAgree DEF Tx!TransmitChar, Tx!ClearOutput, Tx!linevars, Tx!IntAgrees
  <2> QED BY <1>7, <2>1 DEF Tx!TransmitChar, Tx!Lines
<1> QED BY <1>1, <1>2, <1>3, <1>4, <1>5, <1>6, <1>7 DEF Tx!IOT

\* Lines reset, with the lines there are afterwards.
LEMMA ResetLinesKept ==
    ASSUME TxInv, NEW s \in SUBSET Tx!Lines, Tx!ttx_reset_ln(s),
           present' \in LineSets, conn' \subseteq present', present \ s \subseteq present',
           attached' = attached, attached' # {} => polling', polling' \in BOOLEAN,
           polite' = polite, idle' = idle \/ idle' = idle \union s
    PROVE  TxInv'
<1>1. /\ ttix_done' = ttix_done \ s /\ ttox_done' = ttox_done \ s /\ ttx_enbl' = ttx_enbl \union s
      /\ Tx!IntAgrees' /\ queued' = queued \ s /\ unread' = unread \ s
  BY NewFlagsAgree DEF Tx!ttx_reset_ln
<1> QED BY <1>1 DEF TxInv, TxBusyFlagDown, Tx!TypeOK, Tx!CharsKept, Tx!PollsOn, Tx!Lines

LEMMA TxStepKept == ASSUME TxInv, Tx!Next PROVE TxInv'
<1>1. ASSUME NEW l \in present, Tx!IOT(l) PROVE TxInv'
  BY <1>1, TxIotKept
<1>2. CASE Tx!ttix_svc
  <2>1. CASE attached = {}
    BY <1>2, <2>1
    DEF Tx!ttix_svc, Tx!linevars, TxInv, TxBusyFlagDown, Tx!TypeOK, Tx!CharsKept, Tx!PollsOn, Tx!IntAgrees,
        Tx!Lines
  <2>2. CASE attached # {}
    <3>1. PICK typed \in SUBSET conn' :
              /\ Tx!ttx_new_flags(ttix_done \union typed, ttox_done, ttx_enbl)
              /\ unread' = unread \union typed
      BY <1>2, <2>2 DEF Tx!ttix_svc
    <3>2. /\ ttix_done' = ttix_done \union typed /\ ttox_done' = ttox_done /\ ttx_enbl' = ttx_enbl
          /\ Tx!IntAgrees'
      BY <3>1, NewFlagsAgree
    <3>3. conn' \subseteq present /\ polling' = TRUE /\ UNCHANGED <<present, attached, queued, polite, idle>>
      BY <1>2, <2>2 DEF Tx!ttix_svc, Tx!PollAgain, TxInv, Tx!TypeOK
    <3> QED
      BY <3>1, <3>2, <3>3
      DEF TxInv, TxBusyFlagDown, Tx!TypeOK, Tx!CharsKept, Tx!PollsOn, Tx!Lines
  <2> QED BY <2>1, <2>2
<1>3. ASSUME NEW l \in Tx!Lines, Tx!ttox_svc(l) PROVE TxInv'
  <2>1. /\ ttix_done' = ttix_done /\ ttox_done' = ttox_done \union {l} /\ ttx_enbl' = ttx_enbl
        /\ Tx!IntAgrees'
    BY <1>3, NewFlagsAgree DEF Tx!ttox_svc
  <2> QED
    BY <1>3, <2>1
    DEF Tx!ttox_svc, Tx!muxvars, Tx!progvars, TxInv, TxBusyFlagDown, Tx!TypeOK, Tx!CharsKept, Tx!PollsOn,
        Tx!Lines
<1>4. ASSUME NEW l \in Tx!Lines, Tx!WaitToSend(l) \/ Tx!HangUp(l) PROVE TxInv'
  <2>1. /\ UNCHANGED <<present, attached, ttix_done, ttox_done, ttx_enbl, int_req, polling, queued,
                       unread, polite, idle>>
        /\ conn' \subseteq conn
    BY <1>4
    DEF Tx!WaitToSend, Tx!HangUp, Tx!vars, Tx!muxvars, Tx!linevars, Tx!progvars
  <2> QED
    BY <2>1
    DEF TxInv, TxBusyFlagDown, Tx!TypeOK, Tx!CharsKept, Tx!PollsOn, Tx!IntAgrees, Tx!Lines, Tx!Summary
<1>5. CASE Tx!CAF \/ Tx!Reset
  <2>1. /\ Tx!ttx_reset_ln(Tx!Lines) /\ polling' = (attached # {})
        /\ UNCHANGED <<present, attached, conn, polite>>
        /\ idle' = Tx!Lines \/ idle' = idle
    BY <1>5 DEF Tx!CAF, Tx!Reset, Tx!ttx_reset, Tx!muxvars
  <2>2. idle' = idle \/ idle' = idle \union Tx!Lines
    BY <2>1 DEF TxInv, Tx!TypeOK
  <2>3. /\ present' \in LineSets /\ conn' \subseteq present' /\ present \ Tx!Lines \subseteq present'
        /\ polling' \in BOOLEAN /\ (attached' # {} => polling')
    BY <2>1 DEF TxInv, Tx!TypeOK
  <2> QED BY <2>1, <2>2, <2>3, ResetLinesKept
<1>6. CASE Tx!ttx_attach \/ Tx!ttx_detach
  <2>1. /\ UNCHANGED <<present, ttix_done, ttox_done, ttx_enbl, int_req, queued, unread, polite, idle>>
        /\ conn' \subseteq conn /\ attached' \subseteq {"TTIX"}
        /\ polling' \in BOOLEAN /\ (attached' # {} => polling')
    BY <1>6 DEF Tx!ttx_attach, Tx!ttx_detach, Tx!linevars, Tx!progvars, TxInv, Tx!TypeOK
  <2> QED
    BY <2>1
    DEF TxInv, TxBusyFlagDown, Tx!TypeOK, Tx!CharsKept, Tx!PollsOn, Tx!IntAgrees, Tx!Lines, Tx!Summary
<1>7. ASSUME NEW new \in LineSets, Tx!ttx_vlines(new) PROVE TxInv'
  <2> DEFINE changed == (present \ new) \union (new \ present)
  <2>1. /\ present' = new /\ conn' = conn \cap new /\ Tx!ttx_reset_ln(changed)
        /\ idle' = idle \union changed /\ UNCHANGED <<attached, polling, polite>>
    BY <1>7 DEF Tx!ttx_vlines
  <2>2. changed \in SUBSET Tx!Lines /\ present \ changed \subseteq new
    BY DEF TxInv, Tx!TypeOK, Tx!Lines
  <2>3. polling' \in BOOLEAN /\ (attached' # {} => polling')
    BY <2>1 DEF TxInv, Tx!TypeOK, Tx!PollsOn
  <2> HIDE DEF changed
  <2> QED BY <2>1, <2>2, <2>3, ResetLinesKept
<1> QED BY <1>1, <1>2, <1>3, <1>4, <1>5, <1>6, <1>7 DEF Tx!Next

----------------------------------------------------------------------------
(* The FPP8A.  A pause is left behind only by a single step: what is       *)
(* halted there was stepped over it, and any other pause stands for        *)
(* itself.                                                                 *)
LeftBehind == Fp!Paused /\ ~Fp!Running => stepped

FpInv == Fp!TypeOK /\ Fp!IntAgrees /\ Fp!Resumes /\ Fp!RunsOn /\ Fp!TrapsTold /\ LeftBehind

\* Places, which make a ring.
LEMMA Ring ==
    /\ Places \in Nat \ {0} /\ Fp!none \notin Fp!Place /\ 0 \in Fp!Place
    /\ \A p \in Fp!Place : Fp!Next1(p) \in Fp!Place /\ Fp!Before(Fp!Next1(p)) = p
    /\ \A p \in Fp!Place : Fp!Before(p) \in Fp!Place
<1>1. Places \in Nat \ {0}
  BY FpCommands DEF Fp!CommandsAssumption
<1>2. ASSUME NEW p \in Fp!Place PROVE Fp!Next1(p) \in Fp!Place /\ Fp!Before(Fp!Next1(p)) = p
  <2>1. CASE p + 1 < Places
    <3>1. Fp!Next1(p) = p + 1
      BY <1>1, <1>2, <2>1 DEF Fp!Place, Fp!Next1
    <3>2. (p + 1) + Places - 1 = p + Places /\ (p + Places) % Places = p
      BY <1>1, <1>2 DEF Fp!Place
    <3> QED BY <1>1, <1>2, <2>1, <3>1, <3>2 DEF Fp!Place, Fp!Before
  <2>2. CASE p + 1 = Places
    <3>1. Fp!Next1(p) = 0
      BY <1>1, <1>2, <2>2 DEF Fp!Place, Fp!Next1
    <3>2. (0 + Places - 1) % Places = Places - 1
      BY <1>1
    <3> QED BY <1>1, <1>2, <2>2, <3>1, <3>2 DEF Fp!Place, Fp!Before
  <2> QED BY <1>1, <1>2, <2>1, <2>2 DEF Fp!Place
<1>3. ASSUME NEW p \in Fp!Place PROVE Fp!Before(p) \in Fp!Place
  BY <1>1, <1>3 DEF Fp!Place, Fp!Before
<1> QED BY <1>1, <1>2, <1>3 DEF Fp!Place, Fp!none

FpTraps == fpp_sta \cap Fp!Traps

LEMMA FpInitHolds == Fp!Init => FpInv
BY Ring
DEF Fp!Init, FpInv, Fp!TypeOK, Fp!IntAgrees, Fp!Resumes, Fp!RunsOn, Fp!TrapsTold, LeftBehind, Fp!Running,
    Fp!Paused, Fp!StatusBits

\* The IOTs.
LEMMA FpIotKept == ASSUME FpInv, Fp!IOT \/ Fp!NewProgram PROVE FpInv'
<1> USE DEF FpInv, Fp!Running, Fp!Paused
<1>0. /\ fpp_sta \subseteq Fp!StatusBits /\ fpp_fpc \in Fp!Place /\ apt \in Fp!Place
      /\ due \in Fp!Place \union {Fp!none}
      /\ fpp_flag \in BOOLEAN /\ fpp_ssf \in BOOLEAN /\ fpp_last_lockbit \in BOOLEAN
      /\ int_fpp \in BOOLEAN /\ fpp_active \in BOOLEAN /\ stepped \in BOOLEAN
  BY DEF Fp!TypeOK
<1>1. CASE Fp!fpp_reset
  <2>1. Fp!TypeOK'
    BY <1>0, <1>1, Ring, FpCommands DEF Fp!fpp_reset, Fp!TypeOK, Fp!CommandsAssumption
  <2>2. Fp!IntAgrees' /\ Fp!Resumes' /\ Fp!RunsOn' /\ Fp!TrapsTold' /\ LeftBehind'
    BY <1>0, <1>1
    DEF Fp!fpp_reset, Fp!Cleared, Fp!Traps, Fp!IntAgrees, Fp!Resumes, Fp!RunsOn, Fp!TrapsTold, LeftBehind
  <2> QED BY <2>1, <2>2
<1>2. ASSUME NEW cmd \in FppCommands, Fp!FPCOM(cmd) PROVE FpInv'
  <2>1. Fp!TypeOK'
    BY <1>0, <1>2 DEF Fp!FPCOM, Fp!TypeOK, Fp!FPC_STA, Fp!StatusBits, Fp!Cleared
  <2>2. Fp!IntAgrees' /\ Fp!Resumes' /\ Fp!RunsOn' /\ Fp!TrapsTold' /\ LeftBehind'
    BY <1>0, <1>2
    DEF Fp!FPCOM, Fp!FPC_STA, Fp!Cleared, Fp!Traps, Fp!IntAgrees, Fp!Resumes, Fp!RunsOn, Fp!TrapsTold,
        LeftBehind
  <2> QED BY <2>1, <2>2
<1>3. CASE Fp!FPHLT /\ Fp!Running
  <2> DEFINE pc == IF Fp!Paused THEN Fp!Before(fpp_fpc) ELSE fpp_fpc
  <2>1. pc \in Fp!Place
    BY <1>0, Ring
  <2>2. due # Fp!none /\ ~stepped => pc = due
    BY <1>0, <1>3, Ring DEF Fp!Resumes
  <2>3. /\ fpp_fpc' = pc /\ apt' = pc /\ fpp_flag' = TRUE
        /\ fpp_sta' = ((fpp_sta \ {"PAUSE"}) \union {"HLTX"}) \ {"RUN"}
        /\ int_fpp' = (int_fpp \/ "IE" \in fpp_cmd)
        /\ fpp_ssf' = TRUE /\ fpp_active' = FALSE
        /\ UNCHANGED <<fpp_cmd, fpp_last_lockbit, due, stepped>>
    BY <1>3 DEF Fp!FPHLT, Fp!fpp_dump_apt, Fp!Dumped, Fp!NoLongerPaused
  <2> HIDE DEF pc
  <2>4. Fp!TypeOK'
    BY <1>0, <2>1, <2>3 DEF Fp!TypeOK, Fp!StatusBits
  <2>5. int_fpp' <=> fpp_flag' /\ "IE" \in fpp_cmd'
    BY <1>0, <2>3 DEF Fp!IntAgrees
  <2>6. Fp!Resumes' /\ Fp!RunsOn' /\ Fp!TrapsTold' /\ LeftBehind'
    BY <2>2, <2>3 DEF Fp!Resumes, Fp!RunsOn, Fp!TrapsTold, LeftBehind
  <2> QED BY <2>4, <2>5, <2>6 DEF Fp!IntAgrees
<1>4. CASE Fp!FPHLT /\ ~Fp!Running
  <2>1. /\ fpp_ssf' \in BOOLEAN
        /\ fpp_sta' = fpp_sta \/ fpp_sta' = fpp_sta \union {"HLTX"}
        /\ UNCHANGED <<fpp_flag, fpp_cmd, fpp_last_lockbit, fpp_fpc, int_fpp, fpp_active, apt, due, stepped>>
    BY <1>0, <1>4 DEF Fp!FPHLT, Fp!HaltTold
  <2>2. Fp!TypeOK'
    BY <1>0, <2>1 DEF Fp!TypeOK, Fp!StatusBits
  <2>3. Fp!IntAgrees' /\ Fp!Resumes' /\ Fp!RunsOn' /\ Fp!TrapsTold' /\ LeftBehind'
    BY <1>0, <1>4, <2>1
    DEF Fp!Traps, Fp!IntAgrees, Fp!Resumes, Fp!RunsOn, Fp!TrapsTold, LeftBehind
  <2> QED BY <2>2, <2>3
<1>5. CASE Fp!Start
  <2>1. /\ ~fpp_flag /\ ~Fp!Running /\ "RUN" \in fpp_sta'
        /\ \A b \in Fp!StatusBits \ {"HLTX", "RUN", "LOCK"} : b \in fpp_sta' <=> b \in fpp_sta
        /\ fpp_sta' \subseteq Fp!StatusBits
        /\ fpp_fpc' = apt /\ fpp_active' = TRUE
        /\ UNCHANGED <<fpp_flag, fpp_cmd, fpp_ssf, fpp_last_lockbit, int_fpp, apt, due, stepped>>
    BY <1>0, <1>5 DEF Fp!Start, Fp!StatusBits
  <2>2. Fp!TypeOK'
    BY <1>0, <2>1 DEF Fp!TypeOK
  <2>3. FpTraps' = {} /\ ("PAUSE" \in fpp_sta' => stepped)
    BY <1>0, <2>1 DEF Fp!TrapsTold, LeftBehind, FpTraps, Fp!Traps, Fp!StatusBits, Fp!Cleared
  <2>4. Fp!IntAgrees' /\ Fp!Resumes' /\ Fp!RunsOn' /\ Fp!TrapsTold' /\ LeftBehind'
    BY <1>0, <2>1, <2>3 DEF Fp!IntAgrees, Fp!Resumes, Fp!RunsOn, Fp!TrapsTold, LeftBehind, FpTraps
  <2> QED BY <2>2, <2>4
<1>6. CASE Fp!GoOn
  <2>1. Fp!TypeOK'
    BY <1>0, <1>6 DEF Fp!GoOn, Fp!TypeOK
  <2>2. Fp!IntAgrees' /\ Fp!Resumes' /\ Fp!RunsOn' /\ Fp!TrapsTold' /\ LeftBehind'
    BY <1>0, <1>6
    DEF Fp!GoOn, Fp!Traps, Fp!IntAgrees, Fp!Resumes, Fp!RunsOn, Fp!TrapsTold, LeftBehind
  <2> QED BY <2>1, <2>2
<1>7. CASE Fp!FPIST \/ Fp!FPEP
  <2>1. /\ \/ fpp_sta' = fpp_sta \ Fp!Cleared /\ fpp_flag' = FALSE /\ int_fpp' = FALSE
           \/ /\ fpp_sta' = (fpp_sta \union {"EP"}) \ {"DP"}
              /\ UNCHANGED <<fpp_flag, int_fpp>>
        /\ UNCHANGED <<fpp_cmd, fpp_ssf, fpp_last_lockbit, fpp_fpc, fpp_active, apt, due, stepped>>
    BY <1>7 DEF Fp!FPIST, Fp!FPEP
  <2>2. Fp!TypeOK'
    BY <1>0, <2>1 DEF Fp!TypeOK, Fp!StatusBits, Fp!Cleared
  <2>3. Fp!IntAgrees' /\ Fp!Resumes' /\ Fp!RunsOn' /\ Fp!TrapsTold' /\ LeftBehind'
    BY <1>0, <2>1
    DEF Fp!Cleared, Fp!Traps, Fp!IntAgrees, Fp!Resumes, Fp!RunsOn, Fp!TrapsTold, LeftBehind
  <2> QED BY <2>2, <2>3
<1>8. CASE Fp!NewProgram
  <2>1. Fp!TypeOK'
    BY <1>0, <1>8 DEF Fp!NewProgram, Fp!TypeOK
  <2>2. Fp!IntAgrees' /\ Fp!Resumes' /\ Fp!RunsOn' /\ Fp!TrapsTold' /\ LeftBehind'
    BY <1>0, <1>8
    DEF Fp!NewProgram, Fp!IntAgrees, Fp!Resumes, Fp!RunsOn, Fp!TrapsTold, LeftBehind
  <2> QED BY <2>1, <2>2
<1> QED BY <1>1, <1>2, <1>3, <1>4, <1>5, <1>6, <1>7, <1>8 DEF Fp!IOT, Fp!FPHLT

\* An instruction that leaves the program running goes on where the history says it
\* does, and so does one that dumps the table; a pause is its own next instruction
\* unless it was stepped over.
LEMMA InstructionKept ==
    ASSUME FpInv, NEW pc \in Fp!Place, NEW sta \in SUBSET Fp!StatusBits,
           NEW reasons \in SUBSET SUBSET (Fp!StatusBits \ {"RUN", "PAUSE"}),
           Fp!Instruction(pc, sta, reasons), "RUN" \in sta, sta \cap Fp!Traps = {},
           due' \in Fp!Place, stepped' \in BOOLEAN,
           "PAUSE" \notin sta => due' = pc,
           "PAUSE" \in sta => stepped' \/ (~fpp_ssf /\ reasons = {} /\ pc = Fp!Next1(due'))
    PROVE  FpInv'
<1> USE DEF FpInv, Fp!Running, Fp!Paused
<1> DEFINE all == reasons \union Fp!Steps
<1>0. /\ fpp_flag \in BOOLEAN /\ fpp_last_lockbit \in BOOLEAN /\ int_fpp \in BOOLEAN
      /\ apt \in Fp!Place /\ fpp_cmd \in FppCommands \union SUBSET {"DP", "IE"}
  BY DEF Fp!TypeOK
<1>1. /\ fpp_fpc' = pc /\ fpp_ssf' = FALSE /\ UNCHANGED <<fpp_cmd, fpp_last_lockbit>>
      /\ fpp_active' \in BOOLEAN
      /\ fpp_active' <=> "RUN" \in fpp_sta' /\ "PAUSE" \notin fpp_sta'
      /\ Fp!fpp_dump_apt(sta, pc, all)
  BY DEF Fp!Instruction
<1>2. all \in SUBSET SUBSET (Fp!StatusBits \ {"RUN", "PAUSE"}) /\ (fpp_ssf => all # {})
  BY DEF Fp!Steps, Fp!StatusBits
<1>3. CASE all = {}
  <2>1. fpp_sta' = sta /\ UNCHANGED <<fpp_flag, int_fpp, apt>>
    BY <1>1, <1>3 DEF Fp!fpp_dump_apt
  <2>2. Fp!TypeOK'
    BY <1>0, <1>1, <2>1 DEF Fp!TypeOK
  <2>3. Fp!IntAgrees' /\ Fp!Resumes' /\ Fp!RunsOn' /\ Fp!TrapsTold' /\ LeftBehind'
    BY <1>0, <1>1, <2>1 DEF Fp!IntAgrees, Fp!Resumes, Fp!RunsOn, Fp!TrapsTold, LeftBehind
  <2> QED BY <2>2, <2>3
<1>4. CASE all # {}
  <2>1. /\ fpp_sta' = (sta \union UNION all) \ {"RUN"} /\ apt' = pc /\ fpp_flag' = TRUE
        /\ int_fpp' = (int_fpp \/ "IE" \in fpp_cmd)
    BY <1>1, <1>4 DEF Fp!fpp_dump_apt, Fp!Dumped
  <2>2. /\ fpp_sta' \subseteq Fp!StatusBits /\ "RUN" \notin fpp_sta'
        /\ "PAUSE" \in fpp_sta' => "PAUSE" \in sta
    BY <1>2, <2>1
  <2>3. "PAUSE" \in fpp_sta' => stepped'
    BY <1>2, <1>4, <2>2 DEF Fp!Steps
  <2>4. int_fpp' \in BOOLEAN /\ (int_fpp' <=> fpp_flag' /\ "IE" \in fpp_cmd')
    BY <1>0, <1>1, <2>1 DEF Fp!IntAgrees
  <2>5. ~stepped' => due' = pc
    BY <1>2, <1>4 DEF Fp!Steps
  <2>6. Fp!TypeOK'
    BY <1>0, <1>1, <2>1, <2>2, <2>4 DEF Fp!TypeOK
  <2>7. Fp!Resumes' /\ Fp!RunsOn' /\ Fp!TrapsTold' /\ LeftBehind'
    BY <1>1, <2>1, <2>2, <2>3, <2>5 DEF Fp!Resumes, Fp!RunsOn, Fp!TrapsTold, LeftBehind
  <2> QED BY <2>4, <2>6, <2>7 DEF Fp!IntAgrees
<1> QED BY <1>3, <1>4

LEMMA FpServiceKept == ASSUME FpInv, Fp!fpp_svc PROVE FpInv'
<1> DEFINE next == Fp!Next1(fpp_fpc)
           Bits == Fp!StatusBits \ {"RUN", "PAUSE"}
<1>1. /\ fpp_active /\ "RUN" \in fpp_sta /\ ("PAUSE" \in fpp_sta => stepped)
      /\ fpp_sta \in SUBSET Fp!StatusBits /\ fpp_sta \cap Fp!Traps = {}
      /\ fpp_fpc \in Fp!Place /\ next \in Fp!Place
      /\ stepped \in BOOLEAN /\ fpp_ssf \in BOOLEAN
  <2>1. fpp_active
    BY DEF Fp!fpp_svc, Fp!Compute, Fp!Trap, Fp!TRAP, Fp!STARTF, Fp!STARTD, Fp!STARTE, Fp!FEXIT, Fp!FPAUSE,
           Fp!Undefined, Fp!Onward, Fp!Instruction
  <2> QED BY <2>1, Ring DEF FpInv, Fp!RunsOn, Fp!TrapsTold, Fp!TypeOK, Fp!Running, Fp!Paused
<1> HIDE DEF next
<1>2. ASSUME NEW sta \in SUBSET Fp!StatusBits, NEW reasons \in SUBSET SUBSET Bits,
             "RUN" \in sta, sta \cap Fp!Traps = {}, "PAUSE" \in sta => "PAUSE" \in fpp_sta,
             Fp!Onward(sta, reasons)
      PROVE  FpInv'
  BY <1>1, <1>2, InstructionKept DEF Fp!Onward, next
<1>3. CASE Fp!Compute
  <2>1. PICK pc \in Fp!Place : Fp!Instruction(pc, fpp_sta, {}) /\ due' = pc /\ UNCHANGED stepped
    BY <1>3 DEF Fp!Compute
  <2> QED BY <1>1, <2>1, InstructionKept
<1>4. CASE Fp!Trap
  <2>1. PICK t \in Fp!Traps : Fp!Onward(fpp_sta, {{t}})
    BY <1>4 DEF Fp!Trap
  <2>2. {{t}} \in SUBSET SUBSET Bits
    BY DEF Fp!Traps, Fp!StatusBits, Fp!Cleared
  <2> QED BY <1>1, <1>2, <2>1, <2>2
<1>5. CASE Fp!TRAP
  <2>1. {{"TRPX"}} \in SUBSET SUBSET Bits
    BY DEF Fp!StatusBits, Fp!Cleared
  <2> QED BY <1>1, <1>2, <1>5, <2>1 DEF Fp!TRAP
<1>6. CASE Fp!STARTF \/ Fp!STARTD \/ Fp!STARTE
  <2>1. PICK sta : /\ Fp!Onward(sta, {})
                   /\ sta \in {fpp_sta, fpp_sta \ {"DP", "EP"}, (fpp_sta \union {"DP"}) \ {"EP"},
                               (fpp_sta \union {"EP"}) \ {"DP"}}
    BY <1>6 DEF Fp!STARTF, Fp!STARTD, Fp!STARTE
  <2>2. /\ sta \in SUBSET Fp!StatusBits /\ "RUN" \in sta /\ sta \cap Fp!Traps = {}
        /\ "PAUSE" \in sta => "PAUSE" \in fpp_sta
    BY <1>1, <2>1 DEF Fp!StatusBits, Fp!Cleared, Fp!Traps
  <2> QED BY <1>2, <2>1, <2>2
<1>7. CASE Fp!FEXIT
  <2>1. Fp!Onward(fpp_sta, {{}})
    BY <1>1, <1>7 DEF Fp!FEXIT
  <2> QED BY <1>1, <1>2, <2>1
<1>8. CASE Fp!FPAUSE
  <2>1. /\ Fp!Instruction(next, fpp_sta \union {"PAUSE"}, {}) /\ stepped' = fpp_ssf
        /\ due' = IF fpp_ssf THEN next ELSE fpp_fpc
    BY <1>8 DEF Fp!FPAUSE, next
  <2>2. /\ fpp_sta \union {"PAUSE"} \in SUBSET Fp!StatusBits /\ "RUN" \in fpp_sta \union {"PAUSE"}
        /\ (fpp_sta \union {"PAUSE"}) \cap Fp!Traps = {}
    BY <1>1 DEF Fp!StatusBits, Fp!Cleared, Fp!Traps
  <2> QED BY <1>1, <2>1, <2>2, InstructionKept DEF next
<1>9. CASE Fp!Undefined
  <2>1. /\ fpp_fpc' = next /\ fpp_active' = FALSE /\ due' = Fp!none
        /\ UNCHANGED <<fpp_flag, fpp_sta, fpp_cmd, fpp_ssf, fpp_last_lockbit, int_fpp, apt, stepped>>
    BY <1>9 DEF Fp!Undefined, next
  <2>2. Fp!TypeOK'
    BY <1>1, <2>1 DEF FpInv, Fp!TypeOK
  <2> QED
    BY <1>1, <2>1, <2>2
    DEF FpInv, Fp!IntAgrees, Fp!Resumes, Fp!RunsOn, Fp!TrapsTold, LeftBehind, Fp!Running, Fp!Paused
<1> QED BY <1>3, <1>4, <1>5, <1>6, <1>7, <1>8, <1>9 DEF Fp!fpp_svc

LEMMA FpStepKept == ASSUME FpInv, Fp!Next PROVE FpInv'
BY FpIotKept, FpServiceKept DEF Fp!Next

----------------------------------------------------------------------------
(* The RK8E, for any number of drives, size of field and program.  Each    *)
(* part of the invariant is inductive by itself, given the types.          *)
RkInv == Rk!TypeOK /\ Rk!OrderStands /\ Rk!IntAgrees

LEMMA RkInitHolds == Rk!Init => RkInv
BY RkSizes
DEF Rk!SizesAssumption, Rk!Init, RkInv, Rk!TypeOK, Rk!OrderStands, Rk!IntAgrees,
    Rk!Commands, Rk!Cleared, Rk!Functions, Rk!Transfers, Rk!Idle, Rk!RKS_ERR

\* What an order leaves behind.
LEMMA RkGoKept ==
    ASSUME RkInv, ~rk_busy,
           NEW sta, sta \in SUBSET ({"DONE", "NRDY"} \union Rk!RKS_ERR),
           NEW func \in Rk!Functions, NEW da \in {"cyl", "bad"},
           func \in Rk!Transfers => func = rk_cmd.func,
           rk_da' \in {"cyl", "bad"}, Rk!rk_go(sta, func, da),
           UNCHANGED <<rk_cmd, rk_ma, attached>>
    PROVE  RkInv'
<1> DEFINE u == rk_cmd.drive
<1>1. /\ u \in Drives /\ rk_cmd \in Rk!Commands
      /\ active \in [Drives -> {"none", "SEEK"} \union Rk!Transfers]
  BY DEF RkInv, Rk!TypeOK, Rk!Commands
<1>2. Rk!Refused(func, da) \in SUBSET {"DONE", "NRDY", "STAT", "WLK"}
  BY DEF Rk!Refused
<1>3. Rk!TypeOK'
  <2>1. rk_sta' \subseteq {"DONE", "NRDY"} \union Rk!RKS_ERR
    BY <1>2 DEF Rk!rk_go, Rk!RKS_ERR
  <2>2. active' \in [Drives -> {"none", "SEEK"} \union Rk!Transfers]
    BY <1>1 DEF Rk!rk_go, Rk!Functions, Rk!Transfers
  <2>3. locks' \subseteq {"SWLK", "HWLK"}
    BY DEF Rk!rk_go, RkInv, Rk!TypeOK
  <2>4. rk_busy' \in BOOLEAN /\ int_rk' \in BOOLEAN
    BY DEF Rk!rk_go, Rk!RK_INT_UPDATE, RkInv, Rk!TypeOK, Rk!Commands
  <2> QED BY <2>1, <2>2, <2>3, <2>4 DEF RkInv, Rk!TypeOK
<1>4. Rk!OrderStands'
  <2>1. \A v \in Drives : active[v] \notin Rk!Transfers
    BY DEF RkInv, Rk!OrderStands
  <2>2. CASE rk_busy'
    <3>1. active' = [active EXCEPT ![u] = func] /\ func = rk_cmd.func /\ func \in Rk!Transfers
      BY <2>2 DEF Rk!rk_go, Rk!Transfers
    <3>2. ordered' = <<rk_cmd, rk_da', rk_ma>>
      BY <2>2 DEF Rk!rk_go
    <3> QED BY <1>1, <2>1, <2>2, <3>1, <3>2 DEF Rk!OrderStands, Rk!Registers
  <2>3. CASE ~rk_busy'
    <3>1. \/ active' = active
          \/ active' = [active EXCEPT ![u] = func] /\ func \notin Rk!Transfers
      BY <2>3 DEF Rk!rk_go, Rk!Transfers
    <3> QED BY <1>1, <2>1, <2>3, <3>1 DEF Rk!OrderStands
  <2> QED BY <2>2, <2>3
<1>5. Rk!IntAgrees'
  BY DEF Rk!rk_go, Rk!RK_INT_UPDATE, Rk!IntAgrees
<1> QED BY <1>3, <1>4, <1>5 DEF RkInv

\* What an event of a transfer leaves behind, whatever has become of it.
LEMMA RkCompleteKept ==
    ASSUME RkInv, NEW u \in Drives, active[u] \in Rk!Transfers, Rk!Complete(u),
           rk_sta' \in SUBSET ({"DONE", "NRDY"} \union Rk!RKS_ERR),
           rk_ma' \in 0 .. FieldSize - 1
    PROVE  RkInv'
<1>1. active' = [active EXCEPT ![u] = "none"] /\ ~rk_busy' /\ UNCHANGED <<rk_cmd, attached, locks>>
  BY DEF Rk!Complete
<1>2. Rk!TypeOK'
  BY <1>1 DEF Rk!Complete, Rk!RK_INT_UPDATE, RkInv, Rk!TypeOK, Rk!Commands
<1>3. Rk!OrderStands'
  <2>1. \A v \in Drives : active[v] \in Rk!Transfers => v = u
    BY DEF RkInv, Rk!OrderStands
  <2>2. \A v \in Drives : active'[v] \notin Rk!Transfers
    BY <1>1, <2>1 DEF RkInv, Rk!TypeOK, Rk!Transfers
  <2> QED BY <1>1, <2>2 DEF Rk!OrderStands
<1>4. Rk!IntAgrees'
  BY DEF Rk!Complete, Rk!RK_INT_UPDATE, Rk!IntAgrees
<1> QED BY <1>2, <1>3, <1>4 DEF RkInv

\* The IOTs, the busy controller's answer included.
LEMMA RkIotKept == ASSUME RkInv, Rk!rk PROVE RkInv'
<1>1. ASSUME Rk!BusyError PROVE RkInv'
  BY <1>1
  DEF Rk!BusyError, Rk!RK_INT_UPDATE, RkInv, Rk!TypeOK, Rk!OrderStands, Rk!IntAgrees,
      Rk!Registers, Rk!Commands, Rk!RKS_ERR
<1>2. ASSUME NEW da \in {"cyl", "bad"}, Rk!DLAG(da) PROVE RkInv'
  <2>1. CASE ~rk_busy
    BY <1>2, <2>1, RkGoKept DEF Rk!DLAG, Rk!Busy, RkInv, Rk!TypeOK, Rk!Commands
  <2> QED BY <1>1, <1>2, <2>1 DEF Rk!DLAG, Rk!Busy
<1>3. ASSUME NEW ma \in Addresses, Rk!DLCA(ma) PROVE RkInv'
  <2>1. CASE ~rk_busy
    <3>1. /\ rk_ma' = ma /\ Rk!RK_INT_UPDATE(rk_sta, rk_cmd)
          /\ UNCHANGED <<rk_busy, rk_sta, rk_cmd, rk_da, active, attached, locks, ordered>>
      BY <1>3, <2>1 DEF Rk!DLCA, Rk!Busy
    <3>2. Rk!TypeOK' /\ Rk!IntAgrees'
      BY <3>1, RkSizes
      DEF Rk!SizesAssumption, Rk!RK_INT_UPDATE, RkInv, Rk!TypeOK, Rk!IntAgrees, Rk!Commands
    <3> QED BY <2>1, <3>1, <3>2 DEF RkInv, Rk!OrderStands
  <2> QED BY <1>1, <1>3, <2>1 DEF Rk!DLCA, Rk!Busy
<1>4. ASSUME NEW cmd \in Rk!Commands, Rk!DLDC(cmd) PROVE RkInv'
  <2>1. CASE ~rk_busy
    <3>1. /\ rk_cmd' = cmd /\ rk_sta' = {} /\ Rk!RK_INT_UPDATE({}, cmd)
          /\ UNCHANGED <<rk_busy, rk_da, rk_ma, active, attached, locks, ordered>>
      BY <1>4, <2>1 DEF Rk!DLDC, Rk!Busy
    <3>2. Rk!TypeOK' /\ Rk!IntAgrees'
      BY <3>1 DEF Rk!RK_INT_UPDATE, RkInv, Rk!TypeOK, Rk!IntAgrees
    <3> QED BY <2>1, <3>1, <3>2 DEF RkInv, Rk!OrderStands
  <2> QED BY <1>1, <1>4, <2>1 DEF Rk!DLDC, Rk!Busy
<1>5. ASSUME NEW says \in BOOLEAN, Rk!ClearStatus(says) PROVE RkInv'
  BY <1>5
  DEF Rk!ClearStatus, Rk!RK_INT_UPDATE, RkInv, Rk!TypeOK, Rk!OrderStands, Rk!IntAgrees,
      Rk!Registers, Rk!Commands, Rk!RKS_ERR
<1>6. CASE Rk!DRST
  BY <1>6 DEF Rk!DRST, RkInv, Rk!TypeOK, Rk!OrderStands, Rk!IntAgrees, Rk!Registers, Rk!RKS_ERR
<1>7. CASE Rk!ClearControl
  <2>1. Rk!Cleared \in Rk!Commands /\ 0 \in 0 .. FieldSize - 1
    BY RkSizes DEF Rk!SizesAssumption, Rk!Cleared, Rk!Commands, Rk!Functions, Rk!Transfers
  <2>2. Rk!Idle \in [Drives -> {"none", "SEEK"} \union Rk!Transfers]
    BY DEF Rk!Idle
  <2>3. \A u \in Drives : Rk!Idle[u] \notin Rk!Transfers
    BY DEF Rk!Idle, Rk!Transfers
  <2>4. int_rk' = FALSE /\ rk_sta' = {} /\ rk_busy' = FALSE
    BY <1>7 DEF Rk!ClearControl, Rk!RK_INT_UPDATE
  <2>5. Rk!TypeOK'
    BY <1>7, <2>1, <2>2, <2>4 DEF Rk!ClearControl, RkInv, Rk!TypeOK
  <2>6. Rk!OrderStands'
    BY <1>7, <2>3, <2>4 DEF Rk!ClearControl, Rk!OrderStands
  <2>7. Rk!IntAgrees'
    BY <1>7, <2>4 DEF RkInv, Rk!TypeOK, Rk!IntAgrees
  <2> QED BY <2>5, <2>6, <2>7 DEF RkInv
<1>8. CASE Rk!ClearDrive
  <2>1. CASE rk_busy
    BY <1>8, <2>1
    DEF Rk!ClearDrive, Rk!RK_INT_UPDATE, RkInv, Rk!TypeOK, Rk!OrderStands, Rk!IntAgrees,
        Rk!Registers, Rk!Commands, Rk!RKS_ERR
  <2>2. CASE ~rk_busy
    <3>1. Rk!rk_go({}, "SEEK", "cyl") /\ UNCHANGED <<rk_cmd, rk_da, rk_ma, attached>>
      BY <1>8, <2>2 DEF Rk!ClearDrive
    <3>2. rk_da' \in {"cyl", "bad"}
      BY <3>1 DEF RkInv, Rk!TypeOK
    <3> QED BY <2>2, <3>1, <3>2, RkGoKept DEF Rk!Functions, Rk!Transfers
  <2> QED BY <2>1, <2>2
<1> QED BY <1>2, <1>3, <1>4, <1>5, <1>6, <1>7, <1>8 DEF Rk!rk

\* The end of a seek and of a transfer, carried out or not.
LEMMA RkEventKept == ASSUME RkInv, NEW u \in Drives, Rk!rk_svc(u) PROVE RkInv'
<1>1. CASE Rk!SeekDone(u)
  <2>1. Rk!TypeOK' /\ Rk!IntAgrees'
    BY <1>1 DEF Rk!SeekDone, Rk!RK_INT_UPDATE, RkInv, Rk!TypeOK, Rk!IntAgrees, Rk!Commands
  <2>2. \A v \in Drives : active'[v] \in Rk!Transfers <=> active[v] \in Rk!Transfers
    BY <1>1 DEF Rk!SeekDone, RkInv, Rk!TypeOK, Rk!Transfers
  <2>3. rk_busy => active'[rk_cmd.drive] = active[rk_cmd.drive]
    BY <1>1 DEF Rk!SeekDone, RkInv, Rk!TypeOK, Rk!OrderStands, Rk!Transfers
  <2> QED BY <1>1, <2>1, <2>2, <2>3 DEF Rk!SeekDone, RkInv, Rk!OrderStands, Rk!Registers
<1>2. CASE Rk!TransferFails(u)
  BY <1>2, RkCompleteKept DEF Rk!TransferFails, RkInv, Rk!TypeOK, Rk!RKS_ERR
<1>3. CASE Rk!Transfer(u)
  <2>1. (rk_ma + SectorSize) % FieldSize \in 0 .. FieldSize - 1
    BY RkSizes DEF Rk!SizesAssumption, RkInv, Rk!TypeOK
  <2> QED BY <1>3, <2>1, RkCompleteKept DEF Rk!Transfer, RkInv, Rk!TypeOK, Rk!RKS_ERR
<1> QED BY <1>1, <1>2, <1>3 DEF Rk!rk_svc

LEMMA RkStepKept == ASSUME RkInv, [Rk!Next]_(Rk!vars) PROVE RkInv'
<1>1. CASE Rk!rk_reset
  BY <1>1, RkSizes
  DEF Rk!rk_reset, Rk!Idle, Rk!Cleared, Rk!SizesAssumption, RkInv, Rk!TypeOK,
      Rk!OrderStands, Rk!IntAgrees, Rk!Commands, Rk!Functions, Rk!Transfers, Rk!RKS_ERR
<1>2. CASE Rk!set_writelock \/ \E u \in Drives : Rk!Attach(u) \/ Rk!Detach(u)
  <2>1. /\ UNCHANGED <<rk_busy, rk_sta, rk_cmd, rk_da, rk_ma, int_rk, active, ordered>>
        /\ attached' \subseteq Drives /\ locks' \subseteq {"SWLK", "HWLK"}
    BY <1>2 DEF Rk!set_writelock, Rk!Attach, Rk!Detach, RkInv, Rk!TypeOK
  <2> QED BY <2>1 DEF RkInv, Rk!TypeOK, Rk!OrderStands, Rk!IntAgrees, Rk!Registers
<1>3. CASE UNCHANGED Rk!vars
  BY <1>3 DEF Rk!vars, RkInv, Rk!TypeOK, Rk!OrderStands, Rk!IntAgrees, Rk!Registers
<1> QED BY <1>1, <1>2, <1>3, RkIotKept, RkEventKept DEF Rk!Next

\* The types and both properties hold in every reachable state.
THEOREM RkInductive == Rk!Spec => []RkInv
BY RkInitHolds, RkStepKept, PTL DEF Rk!Spec

\* While the controller is busy it has one transfer, on the drive and with the
\* registers it was ordered with, and none otherwise: rk_svc reads the registers
\* only when the time has come, and no IOT, seek, detached pack or lock changes
\* them before.
THEOREM RkOrderKept == Rk!Spec => []Rk!OrderStands
BY RkInductive, PTL DEF RkInv

\* The request that RK_INT_UPDATE keeps by hand is up just while the done flag or an
\* error is and the command enables it.
THEOREM RkRequestKept == Rk!Spec => []Rk!IntAgrees
BY RkInductive, PTL DEF RkInv

\* A transfer that meets the end of the field goes on from its beginning: the words
\* rk_svc moves in two parts are the ones a counter of the field's width runs over.
THEOREM WrapsInField ==
    ASSUME NEW ma \in 0 .. FieldSize - 1, NEW wc \in 0 .. FieldSize
    PROVE  Rk!Moved(ma, wc) = [i \in 1 .. wc |-> (ma + i - 1) % FieldSize]
<1> DEFINE over == IF ma + wc - FieldSize > 0 THEN ma + wc - FieldSize ELSE 0
           up == [i \in 1 .. (wc - over) |-> ma + i - 1]
           from0 == [i \in 1 .. over |-> i - 1]
<1>1. over \in Nat /\ wc - over \in Nat /\ ma + (wc - over) <= FieldSize
      /\ (over > 0 => ma + (wc - over) = FieldSize) /\ FieldSize \in Nat \ {0}
  BY RkSizes DEF Rk!SizesAssumption
<1>2. Rk!Moved(ma, wc) = up \o from0
  BY <1>1 DEF Rk!Moved
<1> HIDE DEF over
<1>3. up \in Seq(Int) /\ from0 \in Seq(Int) /\ Len(up) = wc - over /\ Len(from0) = over
  BY <1>1
<1>4. up \o from0 \in Seq(Int) /\ Len(up \o from0) = wc
  BY <1>1, <1>3
<1>5. ASSUME NEW i \in 1 .. wc PROVE (up \o from0)[i] = (ma + i - 1) % FieldSize
  <2>1. CASE i <= wc - over
    <3>1. (up \o from0)[i] = ma + i - 1
      BY <1>1, <1>3, <2>1
    <3> QED BY <1>1, <2>1, <3>1
  <2>2. CASE i > wc - over
    <3>1. (up \o from0)[i] = i - (wc - over) - 1
      BY <1>1, <1>3, <2>2
    <3>2. ma + i - 1 = (i - (wc - over) - 1) + FieldSize /\ i - (wc - over) - 1 \in 0 .. FieldSize - 1
      BY <1>1, <2>2
    <3> QED BY <1>1, <3>1, <3>2
  <2> QED BY <1>1, <2>1, <2>2
<1>6. up \o from0 = [i \in 1 .. wc |-> (up \o from0)[i]]
  <2>1. up \o from0 \in [1 .. wc -> Int]
    BY <1>4, LenProperties
  <2> QED BY <2>1, Zenon
<1> HIDE DEF up, from0
<1> QED BY <1>2, <1>5, <1>6, Zenon

----------------------------------------------------------------------------
(* A machine that has one of them.                                         *)
DevicesInv ==
    /\ controller \in {"char", "rk", "ttx", "fpp"}
    /\ controller = "char" => IInv
    /\ controller = "rk" => RkInv
    /\ controller = "ttx" => TxInv
    /\ controller = "fpp" => FpInv

LEMMA DevicesInitHolds == DevicesInit => DevicesInv
<1>1. Rk!Init => RkInv
  BY RkInitHolds
<1> QED
  BY <1>1, ControllersAssumption, InitHolds, TxInitHolds, FpInitHolds DEF DevicesInit, DevicesInv

LEMMA DevicesStepKept == ASSUME DevicesInv, [DevicesNext]_allvars PROVE DevicesInv'
<1>1. CASE CharStep(Next)
  BY <1>1, StepKept DEF CharStep, DevicesInv
<1>2. CASE RkStep(Rk!Next)
  <2>1. RkInv'
    BY <1>2, RkStepKept DEF RkStep, DevicesInv
  <2> QED BY <1>2, <2>1 DEF RkStep, DevicesInv
<1>3. CASE TxStep(Tx!Next)
  BY <1>3, TxStepKept DEF TxStep, DevicesInv
<1>4. CASE FpStep(Fp!Next)
  BY <1>4, FpStepKept DEF FpStep, DevicesInv
<1>5. CASE UNCHANGED allvars
  <2>1. /\ UNCHANGED <<controller, attached, polite>> /\ UNCHANGED requestvars /\ UNCHANGED charvars
        /\ UNCHANGED rkvars /\ UNCHANGED txvars /\ UNCHANGED fpvars
    BY <1>5 DEF allvars
  <2>2. IInv => IInv'
    BY <2>1, StepKept DEF vars, requestvars, charvars
  <2>3. RkInv => RkInv'
    BY <2>1, RkStepKept DEF Rk!vars, rkvars
  <2>4. TxInv => TxInv'
    BY <2>1
    DEF requestvars, txvars, TxInv, TxBusyFlagDown, Tx!TypeOK, Tx!CharsKept, Tx!PollsOn, Tx!IntAgrees,
        Tx!Lines, Tx!Summary
  <2>5. FpInv => FpInv'
    BY <2>1
    DEF fpvars, FpInv, Fp!TypeOK, Fp!IntAgrees, Fp!Resumes, Fp!RunsOn, Fp!TrapsTold, LeftBehind,
        Fp!Running, Fp!Paused
  <2> QED BY <2>1, <2>2, <2>3, <2>4, <2>5 DEF DevicesInv
<1> QED BY <1>1, <1>2, <1>3, <1>4, <1>5 DEF DevicesNext

THEOREM DevicesInductive == DevicesSpec => []DevicesInv
BY DevicesInitHolds, DevicesStepKept, PTL DEF DevicesSpec

\* Whichever of these controllers the machine has, the request the CPU looks at is
\* up just while a flag calls for it and is enabled, whatever IOTs, events and resets
\* have come: each of them updates the words of the requests by itself.
THEOREM AllRequestsKept == DevicesSpec => []RequestsAgree
<1>1. DevicesInv => RequestsAgree
  BY DEF DevicesInv, IInv, RkInv, TxInv, FpInv, RequestsAgree
<1> QED BY <1>1, DevicesInductive, PTL

\* What a device was given to do stands until it is done: the character of a device or
\* a line that a polite program has seen ready, the poll of the lines, the registers
\* of a transfer, the place where a program of the FPP8A was held.
THEOREM OrdersKept == DevicesSpec => []OrderStands
<1>1. IInv => ReadyIsDone
  BY DEF IInv, TypeOK, BusyFlagDown, ReadyIsDone
<1>2. DevicesInv => OrderStands
  BY <1>1 DEF DevicesInv, RkInv, TxInv, FpInv, OrderStands
<1> QED BY <1>2, DevicesInductive, PTL

\* The keyboard of that machine replaces no key that a polite program has not read
\* before 500 ms are over, and no other controller touches it.
THEOREM AllKeysKept == DevicesSpec => KeyKept
<1>1. ASSUME DevicesInv, [DevicesNext]_allvars
      PROVE  [(/\ polite /\ "TTI" \in unread \cap unread'
               /\ buf'["TTI"] # buf["TTI"]) => old_char]_vars
  <2>1. CASE CharStep(Next)
    BY <1>1, <2>1, KeyStep DEF CharStep, DevicesInv
  <2>2. CASE RkStep(Rk!Next) \/ TxStep(Tx!Next) \/ FpStep(Fp!Next)
    BY <2>2 DEF RkStep, TxStep, FpStep, charvars
  <2>3. CASE UNCHANGED allvars
    BY <2>3 DEF allvars, charvars
  <2> QED BY <1>1, <2>1, <2>2, <2>3 DEF DevicesNext
<1> QED BY <1>1, DevicesInductive, PTL DEF DevicesSpec, KeyKept
=============================================================================
