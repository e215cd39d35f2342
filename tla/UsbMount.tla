------------------------------ MODULE UsbMount ------------------------------
(***************************************************************************)
(* Mounting a medium from a USB stick with the switches of the front       *)
(* panel: mount_usb_stick_file of main.c.in, one step per directory under  *)
(* /media, with attach_cmd of scp.c.  Sticks may come and go at any time;  *)
(* the operator attaches and detaches units at the prompt, which the       *)
(* record of this function does not follow.                                *)
(***************************************************************************)
EXTENDS Integers

CONSTANTS
    Dirs,           \* the directories under /media
    Images,         \* file names of media, without their extension
    Slots,          \* the device numbers in use, of 1 .. 7
    Sticks,         \* whether sticks come and go, and attaching may fail
    Operator        \* whether units are attached and detached at the prompt

SlotsAssumption == Slots \subseteq 1 .. 7 /\ {Sticks, Operator} \subseteq BOOLEAN

\* ptr and ptp, dt0 and dt1, rx0 and rx1, rk1: the extension of the files.
Extension == <<"pt", "pt", "dt", "dt", "rx", "rx", "rk">>

File == [dir : Dirs, image : Images, ext : {Extension[s] : s \in Slots}]
none == [dir |-> "none", image |-> "none", ext |-> "none"]

VARIABLES
    present,        \* the files that can be read
    attached,       \* the file the unit of each slot is attached to
    mountedFiles,   \* the file this function knows to be mounted in each slot
    devNo,          \* the slot being mounted, 0 if none
    unread,         \* the directories that readdir has not returned yet
    sFoundFile

vars == <<present, attached, mountedFiles, devNo, unread, sFoundFile>>

-----------------------------------------------------------------------------
Replug ==
    /\ Sticks
    /\ \E d \in Dirs :
          \/ present' = {f \in present : f.dir # d}
          \/ \E new \in SUBSET {f \in File : f.dir = d} : present' = present \cup new
    /\ UNCHANGED <<attached, mountedFiles, devNo, unread, sFoundFile>>

\* ATTACH, of a file that suits the unit, and DETACH at the prompt, where no
\* mount is under way: it is the same thread.
Command(s) ==
    /\ Operator /\ devNo = 0
    /\ \E f \in {none} \cup {g \in present : g.ext = Extension[s]} :
          attached' = [attached EXCEPT ![s] = f]
    /\ UNCHANGED <<present, mountedFiles, devNo, unread, sFoundFile>>

BeginMount(s) ==
    /\ devNo = 0
    /\ devNo' = s
    /\ mountedFiles' = [mountedFiles EXCEPT ![s] = none]
    /\ unread' = Dirs
    /\ sFoundFile' = none
    /\ UNCHANGED <<present, attached>>

Candidates(d) == {f \in present : f.dir = d /\ f.ext = Extension[devNo]}

\* Slot 7 is the only one of its type and is not compared.
Known(f) == \E s \in Slots \ {7} : mountedFiles[s] = f

FoundAny(d) ==                                  \* mutant of FoundIn
    IF Candidates(d) = {} THEN {sFoundFile} ELSE Candidates(d)

\* The first file that is not mounted ends the search of the directory; one
\* that is mounted clears what was found before.
FoundIn(d) ==
    LET new == {f \in Candidates(d) : ~Known(f)}
    IN IF Candidates(d) = {} THEN {sFoundFile}
       ELSE IF new = {} THEN {none} ELSE new

ReadDirectory(d) ==
    /\ devNo # 0 /\ d \in unread
    /\ sFoundFile' \in FoundIn(d)
    /\ unread' = unread \ {d}
    /\ UNCHANGED <<present, attached, mountedFiles, devNo>>

Finish ==
    /\ devNo' = 0 /\ unread' = {} /\ sFoundFile' = none
    /\ UNCHANGED present

\* A directory is gone before it is opened: the search is given up.
OpenFails ==
    /\ Sticks /\ devNo # 0 /\ unread # {}
    /\ Finish
    /\ UNCHANGED <<attached, mountedFiles>>

NothingFound ==
    /\ devNo # 0 /\ unread = {} /\ sFoundFile \notin present
    /\ Finish
    /\ UNCHANGED <<attached, mountedFiles>>

\* An attach_cmd that fails has detached the unit, or not even that.
AttachFails ==
    /\ Sticks
    /\ attached' \in {attached, [attached EXCEPT ![devNo] = none]}

Recorded == mountedFiles' = [mountedFiles EXCEPT ![devNo] = sFoundFile]

RecordedFirst == AttachFails /\ Recorded         \* mutant of NotRecorded
NotRecorded == AttachFails /\ UNCHANGED mountedFiles

Attach ==
    /\ devNo # 0 /\ unread = {} /\ sFoundFile \in present
    /\ Finish
    /\ \/ attached' = [attached EXCEPT ![devNo] = sFoundFile] /\ Recorded
       \/ NotRecorded

Init ==
    /\ present \in SUBSET File
    /\ attached = [s \in Slots |-> none]
    /\ mountedFiles = [s \in Slots |-> none]
    /\ devNo = 0 /\ unread = {} /\ sFoundFile = none

Mount ==
    \/ \E s \in Slots : BeginMount(s)
    \/ \E d \in Dirs : ReadDirectory(d)
    \/ OpenFails \/ NothingFound \/ Attach

Next == Mount \/ Replug \/ \E s \in Slots : Command(s)

Spec == Init /\ [][Next]_vars

-----------------------------------------------------------------------------
\* Types, and that no file is known to be mounted in two slots.
TypeOK ==
    /\ present \subseteq File
    /\ attached \in [Slots -> File \cup {none}]
    /\ mountedFiles \in [Slots -> File \cup {none}]
    /\ \A s, t \in Slots :
          s # t /\ mountedFiles[s] # none => mountedFiles[s] # mountedFiles[t]
    /\ devNo \in Slots \cup {0}
    /\ unread \subseteq Dirs
    /\ sFoundFile \in File \cup {none}

\* Whatever the sticks and the operator do, this function attaches no file that
\* another slot is known to have.
AttachesUnmounted ==
    \A s, t \in Slots :
        devNo # 0 /\ attached'[s] # attached[s] /\ attached'[s] # none /\ s # t
            => mountedFiles[t] # attached'[s]

AttachUnmounted == [][AttachesUnmounted]_vars

\* However a mount ends, and a stick may have been pulled after the search, what
\* it leaves in the record is what the unit is attached to, or nothing.
RecordsAttached ==
    devNo # 0 /\ devNo' = 0 => mountedFiles'[devNo] \in {none, attached'[devNo]}

RecordTells == [][RecordsAttached]_vars

\* As the comment of mount_usb_stick_file has it, an image is not attached to
\* two drives.
NotTwice == \A s, t \in Slots : s # t /\ attached[s] # none => attached[s] # attached[t]
=============================================================================
