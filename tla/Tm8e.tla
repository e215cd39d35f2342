-------------------------------- MODULE Tm8e --------------------------------
(***************************************************************************)
(* The TM8E magnetic tape controller and its drives (pdp8_mt.c).  A rewind *)
(* frees the controller at once and ends by itself, while another drive    *)
(* may be at work; the service of a drive takes the function from the      *)
(* controller and asks the drive only whether it is rewinding.  Words,     *)
(* counts and addresses, the end of tape mark and the formats are left     *)
(* out; what a tape holds is nondeterministic.                             *)
(*                                                                         *)
(* A polite program gives no command and loads no register while the       *)
(* controller is busy, and its operator changes no tape of a drive at      *)
(* work.                                                                   *)
(***************************************************************************)
EXTENDS Integers

CONSTANTS
    Units,
    Selects,        \* what the program loads mt_cu with
    Records         \* of a tape

DrivesAssumption ==
    /\ 0 \in Units /\ Records \in Nat
    /\ Selects \subseteq [unit : Units, iee : BOOLEAN, ied : BOOLEAN]

VARIABLES
    mt_cu,          \* [unit, iee, ied]
    mt_fn,          \* the function, less its GO
    mt_sta,         \* the bits on, those of the drive last looked at included
    mt_done, int_mt,
    USTAT,          \* of each drive
    pos,
    active,         \* the drives with an event waiting
    attached, locks,
    polite,
    ordered         \* history: [unit, func] of the command that keeps the controller
                    \* of a polite program busy, or <<>>

mediavars == <<attached, locks>>
vars == <<mt_cu, mt_fn, mt_sta, mt_done, int_mt, USTAT, pos, active, mediavars, polite, ordered>>

Functions == {"UNLOAD", "REWIND", "READ", "CMPARE", "WRITE", "WREOF", "SPACEF", "SPACER"}
STA_DYN == {"REW", "BOT", "REM", "EOF", "WLK"}
Error == {"ERR"}                                        \* of whatever kind

mt_busy == {u \in active : "REW" \notin USTAT[u]}
Ready == polite => mt_busy = {}
Careful(u) == polite => u \notin active

Calls(sta, done, cu) == ("ERR" \in sta /\ cu.iee) \/ (done /\ cu.ied)
RaisesOnly(u, own) ==                                   \* mutant of mt_updcsta
    /\ mt_sta' = (own \ STA_DYN) \union (USTAT'[u] \cap STA_DYN)
    /\ int_mt' = (int_mt \/ Calls(own, mt_done', mt_cu'))
mt_updcsta(u, own) ==
    /\ mt_sta' = (own \ STA_DYN) \union (USTAT'[u] \cap STA_DYN)
    /\ int_mt' = Calls(own, mt_done', mt_cu')

BusyError == IF mt_busy # {} THEN Error ELSE {}

----------------------------------------------------------------------------
LCMR(cu) ==
    /\ Ready
    /\ mt_cu' = cu /\ UNCHANGED <<mt_fn, mt_done, USTAT, pos, active, mediavars, polite, ordered>>
    /\ mt_updcsta(cu.unit, mt_sta \union BusyError)

LDBR ==
    /\ Ready
    /\ mt_done' = TRUE
    /\ UNCHANGED <<mt_cu, mt_fn, USTAT, pos, active, mediavars, polite, ordered>>
    /\ mt_updcsta(mt_cu.unit, mt_sta \union BusyError)

\* LFGR without GO, with an order that the drive refuses, ...
LoadFunction(func) ==
    /\ Ready
    /\ mt_fn' = func
    /\ UNCHANGED <<mt_cu, mt_done, USTAT, pos, active, mediavars, polite, ordered>>
    /\ mt_updcsta(mt_cu.unit, mt_sta \union BusyError)

Refuses(u, func) ==
    \/ u \notin attached \/ u \in active
    \/ func \in {"WRITE", "WREOF"} /\ u \in locks
    \/ func \in {"SPACER", "REWIND"} /\ pos[u] = 0

Refused(func) ==
    /\ Ready /\ Refuses(mt_cu.unit, func)
    /\ mt_fn' = func /\ mt_done' = TRUE
    /\ UNCHANGED <<mt_cu, USTAT, pos, active, mediavars, polite, ordered>>
    /\ mt_updcsta(mt_cu.unit, mt_sta \union Error)

\* ... and with one that it takes: it loses its status and keeps its lock.
Start(func, status) ==
    LET u == mt_cu.unit
    IN  /\ Ready /\ ~Refuses(u, func)
        /\ mt_fn' = func
        /\ USTAT' = [USTAT EXCEPT ![u] = status]
        /\ active' = active \union {u}
        /\ UNCHANGED <<mt_cu, pos, locks, polite>>
        /\ mt_updcsta(u, mt_sta \union BusyError)

Locked(u) == USTAT[u] \cap {"WLK"}

Unload ==
    /\ attached' = attached \ {mt_cu.unit}
    /\ mt_done' = TRUE
    /\ Start("UNLOAD", {"REW", "REM"})
    /\ UNCHANGED ordered

Rewind ==
    /\ mt_done' = TRUE
    /\ Start("REWIND", Locked(mt_cu.unit) \union {"REW"})
    /\ UNCHANGED <<attached, ordered>>

Go(func) ==
    /\ mt_done' = FALSE
    /\ Start(func, Locked(mt_cu.unit))
    /\ ordered' = IF polite THEN [unit |-> mt_cu.unit, func |-> func] ELSE <<>>
    /\ UNCHANGED attached

LFGR(func) ==
    \/ LoadFunction(func) \/ Refused(func)
    \/ func = "UNLOAD" /\ Unload
    \/ func = "REWIND" /\ Rewind
    \/ func \notin {"UNLOAD", "REWIND"} /\ Go(func)

\* RMSR and RFSR bring the status up to date.
ReadStatus ==
    /\ UNCHANGED <<mt_cu, mt_fn, mt_done, USTAT, pos, active, mediavars, polite, ordered>>
    /\ mt_updcsta(mt_cu.unit, mt_sta)

\* CLT, CAF and RESET MT.
mt_reset ==
    /\ mt_cu' = [unit |-> 0, iee |-> FALSE, ied |-> FALSE] /\ mt_fn' = "UNLOAD"
    /\ mt_sta' = {} /\ mt_done' = FALSE /\ int_mt' = FALSE
    /\ active' = {}
    /\ USTAT' = [u \in Units |->
          IF u \in attached
          THEN (IF pos[u] = 0 THEN {"BOT"} ELSE {}) \union (IF u \in locks THEN {"WLK"} ELSE {})
          ELSE {"REM"}]
    /\ ordered' = <<>>
    /\ UNCHANGED <<pos, mediavars, polite>>

\* CLF, which spares a drive at work.
ClearFlags ==
    \/ mt_cu.unit \notin active /\ mt_reset
    \/ /\ mt_cu.unit \in active
       /\ mt_done' = FALSE
       /\ UNCHANGED <<mt_cu, mt_fn, USTAT, pos, active, mediavars, polite, ordered>>
       /\ mt_updcsta(mt_cu.unit, {})

----------------------------------------------------------------------------
\* mt_svc.
Ends(u) ==
    /\ active' = active \ {u}
    /\ UNCHANGED <<mt_cu, mt_fn, mediavars, polite>>

Over(u) == ordered' = IF ordered # <<>> /\ ordered.unit = u THEN <<>> ELSE ordered

Rewound(u) ==
    /\ "REW" \in USTAT[u]
    /\ pos' = [pos EXCEPT ![u] = 0]
    /\ USTAT' = [USTAT EXCEPT ![u] =
          IF u \in attached THEN Locked(u) \union {"BOT"} ELSE {"REM"}]
    /\ IF u = mt_cu.unit THEN mt_done' = TRUE /\ mt_updcsta(u, mt_sta)
       ELSE UNCHANGED <<mt_done, mt_sta, int_mt>>
    /\ UNCHANGED ordered

NotMounted(u) ==
    /\ "REW" \notin USTAT[u] /\ u \notin attached
    /\ USTAT' = [USTAT EXCEPT ![u] = {"REM"}]
    /\ mt_done' = TRUE /\ mt_updcsta(u, mt_sta \union Error)
    /\ UNCHANGED pos /\ Over(u)

\* What each function makes of the tape: [to, errors, status].
Result(to, errors, status) == [to |-> to, errors |-> errors, status |-> status]
\* A record, right or not, or a mark, or nothing.
Read(p) ==
    {Result(p, Error, {})}
    \union (IF p = Records THEN {}
            ELSE {Result(p + 1, {}, {}), Result(p + 1, Error, {}), Result(p + 1, Error, {"EOF"})})

Write(p, locked) ==
    {Result(p, Error, {})}
    \union (IF locked \/ p = Records THEN {}
            ELSE {Result(p + 1, {}, {}), Result(p + 1, Error, {})})     \* past memory

\* Records are passed until the count or the tape ends, or a mark comes.
Marked(q) == {Result(q, {}, {}), Result(q, Error, {"EOF"})}
SpaceForward(p) ==
    {Result(q, Error, {}) : q \in p .. Records}
    \union UNION {Marked(q) : q \in p + 1 .. Records}

SpaceReverse(p) ==
    {Result(q, Error, {}) : q \in 0 .. p} \union {Result(0, Error, {"BOT"})}
    \union UNION {Marked(q) : q \in 0 .. p - 1}

Results(u) ==
    CASE mt_fn \in {"READ", "CMPARE"} -> Read(pos[u])
      [] mt_fn \in {"WRITE", "WREOF"} -> Write(pos[u], u \in locks)
      [] mt_fn = "SPACEF" -> SpaceForward(pos[u])
      [] mt_fn = "SPACER" -> SpaceReverse(pos[u])
      [] OTHER -> {Result(pos[u], {}, {})}

Performed(u) ==
    /\ "REW" \notin USTAT[u] /\ u \in attached
    /\ \E r \in Results(u) :
          /\ pos' = [pos EXCEPT ![u] = r.to]
          /\ USTAT' = [USTAT EXCEPT ![u] = @ \union r.status]
          /\ mt_done' = TRUE /\ mt_updcsta(u, mt_sta \union r.errors)
    /\ Over(u)

mt_svc(u) ==
    /\ u \in active
    /\ Ends(u)
    /\ Rewound(u) \/ NotMounted(u) \/ Performed(u)

----------------------------------------------------------------------------
\* The status of a drive that is not selected shows when it is.
mt_attach(u) ==
    /\ Careful(u)
    /\ attached' = attached \union {u} /\ pos' = [pos EXCEPT ![u] = 0]
    /\ \E readonly \in BOOLEAN :
          /\ locks' = IF readonly THEN locks \union {u} ELSE locks \ {u}
          /\ USTAT' = [USTAT EXCEPT ![u] = {"BOT"} \union (IF readonly THEN {"WLK"} ELSE {})]
    /\ UNCHANGED <<mt_cu, mt_fn, mt_done, active, polite, ordered>>
    /\ IF u = mt_cu.unit THEN mt_updcsta(u, mt_sta) ELSE UNCHANGED <<mt_sta, int_mt>>

StaysMounted(u) == UNCHANGED USTAT                      \* mutant of OffLine
OffLine(u) == USTAT' = IF u \in active THEN USTAT ELSE [USTAT EXCEPT ![u] = {"REM"}]
mt_detach(u) ==
    /\ Careful(u)
    /\ u \in attached /\ attached' = attached \ {u}
    /\ locks' = locks \ {u}
    /\ OffLine(u)
    /\ UNCHANGED <<mt_cu, mt_fn, mt_done, pos, active, polite, ordered>>
    /\ IF u = mt_cu.unit THEN mt_updcsta(u, mt_sta) ELSE UNCHANGED <<mt_sta, int_mt>>

Init ==
    /\ mt_cu = [unit |-> 0, iee |-> FALSE, ied |-> FALSE] /\ mt_fn = "UNLOAD"
    /\ mt_sta = {} /\ mt_done = FALSE /\ int_mt = FALSE
    /\ USTAT = [u \in Units |-> {"REM"}] /\ pos = [u \in Units |-> 0]
    /\ active = {} /\ attached = {} /\ locks = {}
    /\ polite \in BOOLEAN /\ ordered = <<>>

mt ==
    \/ \E cu \in Selects : LCMR(cu)
    \/ \E func \in Functions : LFGR(func)
    \/ LDBR \/ ReadStatus \/ ClearFlags

Next ==
    \/ mt \/ mt_reset
    \/ \E u \in Units : mt_svc(u) \/ mt_attach(u) \/ mt_detach(u)

Spec == Init /\ [][Next]_vars

----------------------------------------------------------------------------
TypeOK ==
    /\ mt_cu \in [unit : Units, iee : BOOLEAN, ied : BOOLEAN] /\ mt_fn \in Functions
    /\ mt_sta \subseteq STA_DYN \union Error
    /\ {mt_done, int_mt, polite} \subseteq BOOLEAN
    /\ USTAT \in [Units -> SUBSET STA_DYN] /\ pos \in [Units -> 0 .. Records]
    /\ {active, attached, locks} \subseteq SUBSET Units

\* A request stands just while done or the error is up and enabled.
IntAgrees == int_mt <=> Calls(mt_sta, mt_done, mt_cu)

\* While its tape is not changed under way, a drive that says it stands at the
\* beginning of it does, and one that says it is off line has none; and one that
\* says it rewinds will end.
StatusTrue == \A u \in Units :
    /\ polite /\ "BOT" \in USTAT[u] => u \in attached /\ pos[u] = 0
    /\ polite /\ "REM" \in USTAT[u] => u \notin attached
    /\ "REW" \in USTAT[u] => u \in active

\* The one drive that keeps the controller of a polite program busy is the one it
\* gave the command to, and will do that and no other; done does not rise before,
\* though other drives come to the end of their rewinding.
OrderStands ==
    polite => IF ordered = <<>> THEN mt_busy = {}
              ELSE mt_busy = {ordered.unit} /\ mt_fn = ordered.func
                   /\ mt_cu.unit = ordered.unit /\ ~mt_done
=============================================================================
