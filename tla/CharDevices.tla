----------------------------- MODULE CharDevices -----------------------------
(***************************************************************************)
(* The character devices of the PDP-8 and its line clock: console keyboard *)
(* and printer (pdp8_tt.c), paper tape reader and punch (pdp8_pt.c), line  *)
(* printer (pdp8_lp.c), clock (pdp8_clk.c).  Each has a flag in dev_done   *)
(* and a bit in int_enable, and all keep the interrupt requests int_req up *)
(* to date by hand.  The IOTs of a program, the services of the units and  *)
(* the operator's commands come in any order.                              *)
(*                                                                         *)
(* A polite program, as the drivers of the PDP-8 are, hands a device a     *)
(* character only when it has seen the device's flag since the last one,   *)
(* with that flag clear or by the IOT that clears it too, and clears the   *)
(* flag of an input device only when it has read the character.            *)
(***************************************************************************)
EXTENDS Naturals, FiniteSets

CONSTANTS
    Groups,         \* the sets of devices a behaviour may be about
    Chars,          \* what is printed
    Controls        \* of these, what moves the paper of the line printer

ASSUME GroupsAssumption ==
    /\ \A g \in Groups : g \subseteq {"TTI", "TTO", "CLK", "PTR", "PTP", "LPT"}
    /\ Controls \subseteq Chars

VARIABLES
    devices,        \* those of this behaviour
    dev_done, int_enable, int_req,
    queued,         \* the units with an event waiting
    buf,            \* UNIT.buf of these and of the keyboard
    attached,       \* the units with a file
    lpt_err,
    old_char,       \* 500 ms have gone by since tti_buftime
    unread,         \* input devices with a character that no IOT has read
    polite,         \* the style of the program
    idle            \* the output devices it has seen ready since it used them

flagvars == <<dev_done, int_enable, int_req>>
progvars == <<unread, polite, idle>>
vars == <<devices, dev_done, int_enable, int_req, queued, buf, attached, lpt_err,
          old_char, unread, polite, idle>>

Inputs   == {"TTI", "PTR"} \cap devices
Outputs  == {"TTO", "PTP", "LPT"} \cap devices
Files    == {"PTR", "PTP", "LPT"} \cap devices
INT_INIT_ENABLE == devices \ {"CLK"}

----------------------------------------------------------------------------
\* The flags.

INT_UPDATE(done, enable) == done \cap enable

SetFlag(d) ==
    /\ dev_done' = dev_done \union {d}
    /\ int_req' = INT_UPDATE(dev_done', int_enable)
    /\ UNCHANGED int_enable

ClearFlagAlone(d) ==                                        \* mutant of ClearFlag
    dev_done' = dev_done \ {d} /\ UNCHANGED <<int_enable, int_req>>

ClearFlag(d) ==
    /\ dev_done' = dev_done \ {d}
    /\ int_req' = int_req \ {d}
    /\ UNCHANGED int_enable

SetEnable(s) ==
    /\ int_enable' = s
    /\ int_req' = INT_UPDATE(dev_done, s)
    /\ UNCHANGED dev_done

----------------------------------------------------------------------------
\* IOTs.  TLF and PKSTF: a polite program does not claim a busy device ready.
RaiseFlag(d) ==
    /\ d \in {"TTO", "LPT"} \cap Outputs
    /\ polite => d \in idle
    /\ SetFlag(d)
    /\ UNCHANGED <<devices, queued, buf, attached, lpt_err, old_char, progvars>>

\* TSF, PSF and PSKF that skip, or the same seen in an interrupt.
SeeFlag(d) ==
    /\ d \in Outputs \cap dev_done
    /\ idle' = idle \union {d}
    /\ UNCHANGED <<devices, flagvars, queued, buf, attached, lpt_err, old_char,
                   unread, polite>>

\* KCF, KCC, TCF, PCF, PCLF, CLSC, CLCL.
DropFlag(d) ==
    /\ d \in devices \ {"PTR"}
    /\ polite => d \notin unread /\ (d \in dev_done => d \notin Outputs \/ d \in idle)
    /\ ClearFlag(d)
    /\ UNCHANGED <<devices, queued, buf, attached, lpt_err, old_char, progvars>>

\* KRS; KRB and RRB clear the flag too, KRB calls for the next poll, RFC!RRB for
\* the next character of the tape.
ReadChar(d, clear, fetch) ==
    /\ d \in Inputs
    /\ d = "PTR" => clear
    /\ fetch => d = "PTR" /\ clear
    /\ polite => d \in dev_done
    /\ IF clear THEN ClearFlag(d) ELSE UNCHANGED flagvars
    /\ queued' = IF fetch THEN queued \union {d} ELSE queued
    /\ unread' = unread \ {d}
    /\ UNCHANGED <<devices, buf, attached, lpt_err, old_char, polite, idle>>

\* RFC.
FetchChar ==
    /\ "PTR" \in devices
    /\ polite => "PTR" \notin unread
    /\ queued' = queued \union {"PTR"}
    /\ ClearFlag("PTR")
    /\ UNCHANGED <<devices, buf, attached, lpt_err, old_char, progvars>>

\* KIE, RPE, PCE, PSIE, CLEI, CLLE: the interrupts of two devices at a time for
\* the console and the tape.
Pairs == {{"TTI", "TTO"} \cap devices, {"PTR", "PTP"} \cap devices,
          {"LPT"} \cap devices, {"CLK"} \cap devices} \ {{}}

EnablePair(p, on) ==
    /\ SetEnable(IF on THEN int_enable \union p ELSE int_enable \ p)
    /\ UNCHANGED <<devices, queued, buf, attached, lpt_err, old_char, progvars>>

\* CLDI and PCIE drop the request by itself.
DisableOne(d) ==
    /\ d \in {"CLK", "LPT"} \cap devices
    /\ int_enable' = int_enable \ {d}
    /\ int_req' = int_req \ {d}
    /\ UNCHANGED <<devices, dev_done, queued, buf, attached, lpt_err, old_char, progvars>>

----------------------------------------------------------------------------
\* TPC, PPC and PSTB, which load the buffer, and TLS, PLS and PCLF!PSTB, which
\* clear the flag first.  The line printer prints all but the controls at once:
\* lpt_svc sets the flag.
Begin(d, clear) ==
    /\ d \in Outputs
    /\ polite => d \in idle /\ (clear \/ d \notin dev_done)
    /\ idle' = idle \ {d}

Load(d, c, clear) ==
    /\ Begin(d, clear)
    /\ d = "LPT" => c \in Controls
    /\ buf' = [buf EXCEPT ![d] = c]
    /\ queued' = queued \union {d}
    /\ IF clear THEN ClearFlag(d) ELSE UNCHANGED flagvars
    /\ UNCHANGED <<devices, attached, lpt_err, old_char, unread, polite>>

PrintAtOnce(c, clear) ==
    /\ Begin("LPT", clear)
    /\ c \notin Controls
    /\ buf' = [buf EXCEPT !["LPT"] = c]
    /\ SetFlag("LPT")
    /\ lpt_err' = (lpt_err \/ "LPT" \notin attached)
    /\ UNCHANGED <<devices, queued, attached, old_char, unread, polite>>

\* tto_svc, when the host's terminal takes the character, and when it stalls or
\* fails and the unit tries again.
PrintChar ==
    /\ "TTO" \in queued
    /\ queued' = queued \ {"TTO"}
    /\ SetFlag("TTO")
    /\ UNCHANGED <<devices, buf, attached, lpt_err, old_char, progvars>>

TryAgain == UNCHANGED <<queued, flagvars>>

Stall ==
    /\ "TTO" \in queued
    /\ TryAgain
    /\ UNCHANGED <<devices, buf, attached, lpt_err, old_char, progvars>>

\* ptp_svc and lpt_svc set the flag whether the character reaches the file or not.
ptp_svc ==
    /\ "PTP" \in queued
    /\ queued' = queued \ {"PTP"}
    /\ SetFlag("PTP")
    /\ UNCHANGED <<devices, buf, attached, lpt_err, old_char, progvars>>

lpt_svc ==
    /\ "LPT" \in queued
    /\ queued' = queued \ {"LPT"}
    /\ SetFlag("LPT")
    /\ lpt_err' = (lpt_err \/ "LPT" \notin attached)
    /\ UNCHANGED <<devices, buf, attached, old_char, progvars>>

\* ptr_svc: at the end of the tape, on an error or without a tape the flag stays
\* down, and nobody looks again.
ptr_svc ==
    /\ "PTR" \in queued
    /\ queued' = queued \ {"PTR"}
    /\ \/ UNCHANGED <<flagvars, unread>>
       \/ /\ "PTR" \in attached
          /\ SetFlag("PTR")
          /\ unread' = unread \union {"PTR"}
    /\ UNCHANGED <<devices, buf, attached, lpt_err, old_char, polite, idle>>

\* tti_svc is polled with the clock for ever.  It leaves a character alone that
\* has been waiting for less than 500 ms.
AcceptsAlways == TRUE                                       \* mutant of Accepts
Accepts == "TTI" \notin dev_done \/ old_char

tti_svc(c) ==
    /\ "TTI" \in devices
    /\ Accepts
    /\ SetFlag("TTI")
    /\ buf' = [buf EXCEPT !["TTI"] = c]
    /\ unread' = unread \union {"TTI"}
    /\ old_char' = FALSE
    /\ UNCHANGED <<devices, queued, attached, lpt_err, polite, idle>>

TimePasses ==
    /\ "TTI" \in devices
    /\ old_char' = TRUE
    /\ UNCHANGED <<devices, flagvars, queued, buf, attached, lpt_err, progvars>>

clk_svc ==
    /\ "CLK" \in devices
    /\ SetFlag("CLK")
    /\ UNCHANGED <<devices, queued, buf, attached, lpt_err, old_char, progvars>>

----------------------------------------------------------------------------
\* RESET of one device, which a program does not see, and CAF, which resets all.
ResetEffect(s) ==
    /\ dev_done' = dev_done \ s
    /\ int_req' = int_req \ s
    /\ int_enable' = (int_enable \union s) \ ({"CLK"} \cap s)
    /\ queued' = queued \ s
    /\ buf' = [d \in DOMAIN buf |-> IF d \in s THEN "nul" ELSE buf[d]]
    /\ lpt_err' = IF "LPT" \in s THEN "LPT" \notin attached ELSE lpt_err
    /\ unread' = unread \ s
    /\ UNCHANGED <<devices, attached, old_char, polite>>

Reset(d) == d \in devices /\ ResetEffect({d}) /\ UNCHANGED idle

CAF == ResetEffect(devices) /\ idle' = Outputs

Attach(d) ==
    /\ d \in Files \ attached
    /\ attached' = attached \union {d}
    /\ lpt_err' = IF d = "LPT" THEN FALSE ELSE lpt_err
    /\ UNCHANGED <<devices, flagvars, queued, buf, old_char, progvars>>

\* Detaching leaves the unit's event in the queue.
Detach(d) ==
    /\ d \in attached
    /\ attached' = attached \ {d}
    /\ lpt_err' = IF d = "LPT" THEN TRUE ELSE lpt_err
    /\ UNCHANGED <<devices, flagvars, queued, buf, old_char, progvars>>

Init ==
    /\ devices \in Groups
    /\ dev_done = {} /\ int_enable = INT_INIT_ENABLE /\ int_req = {}
    /\ queued = {} /\ attached = {} /\ lpt_err = TRUE
    /\ buf = [d \in {"TTI", "TTO", "PTP", "LPT"} |-> "nul"]
    /\ old_char = TRUE /\ unread = {}
    /\ polite \in BOOLEAN
    /\ idle = Outputs

IOT ==
    \/ \E d \in devices :
        \/ RaiseFlag(d) \/ SeeFlag(d) \/ DropFlag(d) \/ DisableOne(d)
        \/ \E clear, fetch \in BOOLEAN : ReadChar(d, clear, fetch)
        \/ \E c \in Chars, clear \in BOOLEAN :
            Load(d, c, clear) \/ (d = "LPT" /\ PrintAtOnce(c, clear))
    \/ \E p \in Pairs, on \in BOOLEAN : EnablePair(p, on)
    \/ FetchChar \/ CAF

Service ==
    \/ PrintChar \/ Stall \/ ptp_svc \/ lpt_svc \/ ptr_svc \/ clk_svc
    \/ \E c \in Chars : tti_svc(c)

Next ==
    \/ IOT \/ Service \/ TimePasses
    \/ \E d \in devices : Reset(d) \/ Attach(d) \/ Detach(d)
\* Every event comes to its turn, and the host's terminal does not stall for ever.
Fairness == SF_vars(PrintChar) /\ WF_vars(ptp_svc) /\ WF_vars(lpt_svc)

Spec == Init /\ [][Next]_vars /\ Fairness

----------------------------------------------------------------------------
TypeOK ==
    /\ devices \in Groups
    /\ dev_done \subseteq devices /\ int_enable \subseteq devices
    /\ queued \subseteq Outputs \union {"PTR"}
    /\ \A d \in DOMAIN buf : buf[d] \in Chars \union {"nul"}
    /\ attached \subseteq Files
    /\ unread \subseteq Inputs
    /\ {lpt_err, old_char, polite} \subseteq BOOLEAN
    /\ idle \subseteq Outputs
    /\ "LPT" \in devices => lpt_err = ("LPT" \notin attached)

(***************************************************************************)
(* The requests the CPU looks at are those of the flags that are up and    *)
(* enabled, though every IOT, service and reset updates the three words by *)
(* itself.                                                                 *)
(***************************************************************************)
IntAgrees == int_req = dev_done \cap int_enable

(***************************************************************************)
(* A device that a polite program has seen ready has printed what it was   *)
(* given, so the next character neither replaces it nor is printed twice.  *)
(***************************************************************************)
ReadyIsDone == polite => idle \cap queued = {}

(***************************************************************************)
(* A key typed is not replaced by the next before a polite program has     *)
(* read it, unless it takes more than 500 ms.                              *)
(***************************************************************************)
KeyKept ==
    [][ (/\ polite /\ "TTI" \in unread \cap unread'
         /\ buf'["TTI"] # buf["TTI"]) => old_char ]_vars

(***************************************************************************)
(* A polite program that waits for the flag of a device it has given a     *)
(* character gets to see it, unless the device is reset.                   *)
(***************************************************************************)
FlagComes ==
    \A d \in {"TTO", "PTP", "LPT"} :
        polite /\ d \in Outputs \cap queued
            ~> d \in dev_done \union idle \/ buf[d] = "nul"
=============================================================================
