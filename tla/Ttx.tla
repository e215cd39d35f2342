--------------------------------- MODULE Ttx ---------------------------------
(***************************************************************************)
(* The extra terminals (pdp8_ttx.c): lines of a multiplexer, each with a   *)
(* flag for input, one for output and one enable, all of which share two   *)
(* bits of dev_done.  The enable of a line is not in int_enable, where the *)
(* two bits are always on: a bit of dev_done is up while any enabled line  *)
(* has its flag up.                                                        *)
(*                                                                         *)
(* A polite program is that of CharDevices.                                *)
(***************************************************************************)
EXTENDS Naturals, FiniteSets

CONSTANT LineSets         \* of each number of lines that can be configured, those there are

\* As many lines as there can be are a number that can be configured, the one
\* the multiplexer has to begin with.
LinesAssumption == UNION LineSets \in LineSets

VARIABLES
    present,        \* the lines configured
    ttix_done, ttox_done, ttx_enbl,
    dev_done, int_enable, int_req,
    polling,        \* the event that polls for input waits
    queued,         \* the lines with an event waiting to print
    attached,       \* {"TTIX"} while the multiplexer listens
    conn,           \* lines with a terminal connected
    unread, polite, idle

Lines == UNION LineSets

muxvars == <<present, attached, conn>>
linevars == <<ttix_done, ttox_done, ttx_enbl, dev_done, int_enable, int_req>>
progvars == <<unread, polite, idle>>
vars == <<muxvars, linevars, polling, queued, progvars>>

Masters == {"TTI1", "TTO1"}
Summary(i, o, e) ==
    (IF i \cap e # {} THEN {"TTI1"} ELSE {}) \union (IF o \cap e # {} THEN {"TTO1"} ELSE {})

ttx_new_flags(i, o, e) ==
    /\ ttix_done' = i /\ ttox_done' = o /\ ttx_enbl' = e
    /\ dev_done' = Summary(i, o, e)
    /\ int_enable' = int_enable \union Masters
    /\ int_req' = dev_done' \cap int_enable'

ClearOutputAlone(l) ==                                  \* mutant of ClearOutput
    /\ ttox_done' = ttox_done \ {l}
    /\ dev_done' = dev_done \ {"TTO1"} /\ int_req' = int_req \ {"TTO1"}
    /\ UNCHANGED <<ttix_done, ttx_enbl, int_enable>>
ClearOutput(l) == ttx_new_flags(ttix_done, ttox_done \ {l}, ttx_enbl)
ClearInput(l) == ttx_new_flags(ttix_done \ {l}, ttox_done, ttx_enbl)

----------------------------------------------------------------------------
\* KCF and KCC, KRS and KRB; the second of each pair calls for the next poll.
DropInput(l, calls) ==
    /\ polite => l \notin unread
    /\ ClearInput(l)
    /\ polling' = (polling \/ calls)
    /\ UNCHANGED <<muxvars, queued, progvars>>

ReadLine(l, clear) ==
    /\ polite => l \in ttix_done
    /\ IF clear THEN ClearInput(l) /\ polling' = TRUE ELSE UNCHANGED <<linevars, polling>>
    /\ unread' = unread \ {l}
    /\ UNCHANGED <<muxvars, queued, polite, idle>>

KIE(l, on) ==
    /\ ttx_new_flags(ttix_done, ttox_done, IF on THEN ttx_enbl \union {l} ELSE ttx_enbl \ {l})
    /\ UNCHANGED <<muxvars, polling, queued, progvars>>

TLF(l) ==
    /\ polite => l \in idle
    /\ ttx_new_flags(ttix_done, ttox_done \union {l}, ttx_enbl)
    /\ UNCHANGED <<muxvars, polling, queued, progvars>>

TSF(l) ==
    /\ l \in ttox_done
    /\ idle' = idle \union {l}
    /\ UNCHANGED <<muxvars, linevars, polling, queued, unread, polite>>

TCF(l) ==
    /\ polite => l \in idle \/ l \notin ttox_done
    /\ ClearOutput(l)
    /\ UNCHANGED <<muxvars, polling, queued, progvars>>

\* TLS and TPC.
TransmitChar(l, clear) ==
    /\ polite => l \in idle /\ (clear \/ l \notin ttox_done)
    /\ IF clear THEN ClearOutput(l) ELSE UNCHANGED linevars
    /\ queued' = queued \union {l}
    /\ idle' = idle \ {l}
    /\ UNCHANGED <<muxvars, polling, unread, polite>>

----------------------------------------------------------------------------
\* ttix_svc: the poll goes on while the multiplexer listens.  One connection is
\* taken, and a character from any line that can give one.
PollOnce == polling' = FALSE                            \* mutant of PollAgain
PollAgain == polling' = TRUE

ttix_svc ==
    /\ polling
    /\ \/ attached = {} /\ polling' = FALSE /\ UNCHANGED <<conn, linevars, unread>>
       \/ /\ attached # {}
          /\ PollAgain
          /\ \E c \in {{}} \union {{l} : l \in present \ conn} : conn' = conn \union c
          /\ \E typed \in SUBSET (conn' \ ttix_done) :
                /\ ttx_new_flags(ttix_done \union typed, ttox_done, ttx_enbl)
                /\ unread' = unread \union typed
    /\ UNCHANGED <<present, attached, queued, polite, idle>>

\* ttox_svc, for a line that can send or has no terminal.
ttox_svc(l) ==
    /\ l \in queued
    /\ queued' = queued \ {l}
    /\ ttx_new_flags(ttix_done, ttox_done \union {l}, ttx_enbl)
    /\ UNCHANGED <<muxvars, polling, progvars>>

\* The line cannot take the character yet: the unit tries again.
WaitToSend(l) == l \in queued \cap conn /\ UNCHANGED vars

\* The terminal hangs up.
HangUp(l) == l \in conn /\ conn' = conn \ {l}
             /\ UNCHANGED <<present, attached, linevars, polling, queued, progvars>>

----------------------------------------------------------------------------
\* Lines reset, of the whole device or by taking lines away or adding some.
ttx_reset_ln(s) ==
    /\ ttx_new_flags(ttix_done \ s, ttox_done \ s, ttx_enbl \union s)
    /\ queued' = queued \ s
    /\ unread' = unread \ s

ttx_reset ==
    /\ ttx_reset_ln(Lines)
    /\ polling' = (attached # {})
    /\ UNCHANGED <<muxvars, polite>>

CAF == ttx_reset /\ idle' = Lines
Reset == ttx_reset /\ UNCHANGED idle

ttx_attach ==
    /\ attached' = {"TTIX"}
    /\ polling' = TRUE
    /\ UNCHANGED <<present, conn, linevars, queued, progvars>>

ttx_detach ==
    /\ attached # {} /\ attached' = {} /\ conn' = {}
    /\ polling' = FALSE
    /\ UNCHANGED <<present, linevars, queued, progvars>>

\* A program keeps away from the lines that are not there.
ttx_vlines(new) ==
    LET changed == (present \ new) \union (new \ present)
    IN  /\ new # present
        /\ present' = new /\ conn' = conn \cap new
        /\ ttx_reset_ln(changed)
        /\ idle' = idle \union changed
        /\ UNCHANGED <<attached, polling, polite>>

Init ==
    /\ present = Lines
    /\ ttix_done = {} /\ ttox_done = {} /\ ttx_enbl = Lines
    /\ dev_done = {} /\ int_enable = Masters /\ int_req = {}
    /\ polling = FALSE /\ queued = {} /\ attached = {} /\ conn = {}
    /\ unread = {} /\ polite \in BOOLEAN /\ idle = Lines

IOT(l) ==
    \/ TLF(l) \/ TSF(l) \/ TCF(l)
    \/ \E b \in BOOLEAN : DropInput(l, b) \/ ReadLine(l, b) \/ KIE(l, b) \/ TransmitChar(l, b)

Next ==
    \/ \E l \in present : IOT(l)
    \/ ttix_svc
    \/ \E l \in Lines : ttox_svc(l) \/ WaitToSend(l) \/ HangUp(l)
    \/ CAF \/ Reset \/ ttx_attach \/ ttx_detach
    \/ \E new \in LineSets : ttx_vlines(new)

Spec == Init /\ [][Next]_vars

----------------------------------------------------------------------------
TypeOK ==
    /\ present \in LineSets /\ conn \subseteq present
    /\ {ttix_done, ttox_done, queued, unread} \subseteq SUBSET present
    /\ ttx_enbl \subseteq Lines /\ idle \subseteq Lines
    /\ attached \subseteq {"TTIX"} /\ {polling, polite} \subseteq BOOLEAN

\* A request is up just while a line with its interrupts enabled calls for it.
IntAgrees == int_req = Summary(ttix_done, ttox_done, ttx_enbl)

\* When a polite program has seen a line ready no event waits to print on it, and
\* a character that it has not read stands under its flag.
CharsKept ==
    polite => idle \cap queued = {} /\ unread \subseteq ttix_done

\* While the multiplexer listens there is always a poll to come.
PollsOn == attached # {} => polling
=============================================================================
