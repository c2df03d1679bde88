------------------------------ MODULE RapiTools ------------------------------
(***************************************************************************)
(* The command-line tools: each finds a device, opens a session on it,     *)
(* makes the calls of its script, gives back what it took and ends with an *)
(* exit status.  All are made from one mould, main; pcat and pbackup from  *)
(* another, where the enumeration is released before its outcome is known. *)
(***************************************************************************)
EXTENDS Integers, Sequences, ToolScripts

CONSTANTS
    Names,      \* names of devices
    AnyName,    \* no device was asked for
    Help,       \* nor anything else: the tool is to say how it is used
    Tools,      \* the tools of Scripts to run
    Optimists,  \* tools whose exit status begins as success
    Lenient,    \* tools that end with success whatever some of their calls did
    Leaky,      \* tools that leave a handle open
    MaxDevices, \* bound: devices that are listed
    MaxItems,   \* bound: files, keys, records or chunks the device has to give
    MaxDepth    \* bound: functions of a tool that are in progress at once

\* Every tool has a script.  At the least the tools named here are lenient, and
\* leak: the others are the ones the properties are about.
ASSUME ToolsAssumption == Tools \subseteq DOMAIN Scripts
ASSUME LenientAssumption ==
    {"pshortcut", "pstatus", "list_programs", "database", "pls_R", "pbackup", "pcp_r_get",
     "pcp_r_put", "pcp_r_copy", "list_keys", "dump_registry"} \subseteq Lenient
ASSUME LeakyAssumption ==
    {"list_programs", "database", "list_keys", "dump_registry"} \subseteq Leaky
ASSUME HelpAssumption == Help \notin Names \cup {AnyName}

VARIABLES
    tool,     \* which tool, and what it was asked for
    at,       \* where main is
    label,    \* where the script is
    stack,    \* where it goes when its functions return
    listed,   \* the devices of the desktop, in order
    next,     \* how many of them the enumeration has given
    device,   \* the variable of main: a position in listed, or 0
    refs,     \* the references on each device
    has,      \* the other objects main holds: "desktop", "enumdev", "session"
    owns,     \* its own reference on the device: "none", "one", or "given back"
    link,     \* to the device: "up", "down", or "stalled" within a message
    items,    \* what the device still has to give
    handles,  \* handles the tool opened on the device and did not ask to close
    missed,   \* a call that was part of the work failed
    status    \* the exit status: "success", "failure", or "crash"

vars == <<tool, at, label, stack, listed, next, device, refs, has, owns, link,
          items, handles, missed, status>>
found == <<listed, next, device, refs, has, owns>>
script == <<label, stack, items, handles, missed>>

Ends == {"ok", "no"}
InScript == at = "script" /\ label \notin Ends
Now == StepAt(Scripts[tool.name], label)
Early == {"pcat", "pbackup"}
Positions == DOMAIN listed

Init ==
    /\ tool \in [name : Tools, wants : Names \cup {AnyName, Help}]
    /\ at = "start" /\ label = "start" /\ stack = <<>>
    /\ listed \in UNION {[1..n -> Names] : n \in 0..MaxDevices}
    /\ next = 0 /\ device = 0 /\ refs = [i \in Positions |-> 1] /\ has = {}
    /\ owns = "none"
    /\ link = "up" /\ items = MaxItems /\ handles = 0 /\ missed = FALSE
    /\ status = IF tool.name \in Optimists THEN "success" ELSE "failure"

-----------------------------------------------------------------------------
(* main, up to the session.                                                *)
Goes(from, to) == at = from /\ at' = to
Adjusts(i, n) == refs' = [refs EXCEPT ![i] = @ + n]

\* handle_parameters: what it refuses ends the tool at once, and so does the
\* question how it is used.  In the other mould that is a success.
handle_parameters ==
    /\ \/ /\ tool.wants # Help /\ UNCHANGED status
          /\ Goes("start", "desktop") \/ Goes("start", "exit")
       \/ /\ tool.wants = Help /\ Goes("start", "exit")
          /\ status' = IF tool.name \in Early THEN "success" ELSE status
    /\ UNCHANGED <<tool, found, script, link>>

\* The bus may be out of reach, and memory for the list.
IRAPIDesktop_Get ==
    /\ \/ Goes("desktop", "enumerate") /\ has' = has \cup {"desktop"}
       \/ Goes("desktop", "exit") /\ UNCHANGED has
    /\ UNCHANGED <<tool, listed, next, device, refs, owns, script, link, status>>
EnumDevices ==
    /\ \/ /\ Goes("enumerate", "next") /\ has' = has \cup {"enumdev"}
          /\ refs' = [i \in Positions |-> refs[i] + 1]
       \/ Goes("enumerate", "release session") /\ UNCHANGED <<has, refs>>
    /\ UNCHANGED <<tool, listed, next, device, owns, script, link, status>>

\* IRAPIEnumDevices_Next: the first device, or the one with the name.  Its
\* information may be missing: main ends with the device in its variable, the
\* other mould goes on.
NextDevice ==
    /\ next < Len(listed)
    /\ next' = next + 1 /\ device' = next + 1
    /\ \/ /\ tool.wants \in {AnyName, listed[next + 1]}
          /\ Goes("next", "found")
       \/ /\ tool.wants \notin {AnyName, listed[next + 1]}
          /\ Goes("next", "next")
       \/ /\ tool.wants # AnyName
          /\ Goes("next", IF tool.name \in Early THEN "next" ELSE "release session")
    /\ UNCHANGED <<tool, listed, refs, has, owns, script, link, status>>

ReleasesEnum == [i \in Positions |-> IF "enumdev" \in has THEN refs[i] - 1 ELSE refs[i]]
NoMoreDevices ==
    /\ next = Len(listed) /\ Goes("next", "release session")
    /\ IF tool.name \in Early
       THEN /\ has' = has \ {"enumdev"} /\ refs' = ReleasesEnum /\ UNCHANGED device
       ELSE /\ device' = 0 /\ UNCHANGED <<has, refs>>
    /\ UNCHANGED <<tool, listed, next, owns, script, link, status>>

\* IRAPIDevice_AddRef, and the enumeration is released.  (Mutant: the
\* reference is forgotten.)
KeepDeviceBorrows ==
    /\ Goes("found", "session") /\ owns' = "one"
    /\ has' = has \ {"enumdev"} /\ refs' = ReleasesEnum
    /\ UNCHANGED <<tool, listed, next, device, script, link, status>>
KeepDevice ==
    /\ Goes("found", "session") /\ owns' = "one"
    /\ has' = has \ {"enumdev"} /\ refs' = [ReleasesEnum EXCEPT ![device] = @ + 1]
    /\ UNCHANGED <<tool, listed, next, device, script, link, status>>

IRAPIDevice_CreateSession ==
    /\ \/ /\ Goes("session", "init") /\ has' = has \cup {"session"} /\ Adjusts(device, 1)
       \/ Goes("session", "release session") /\ UNCHANGED <<has, refs>>
    /\ UNCHANGED <<tool, listed, next, device, owns, script, link, status>>

CeRapiInit ==
    /\ \/ link = "up" /\ Goes("init", "script")
       \/ Goes("init", "release session")
    /\ UNCHANGED <<tool, found, script, link, status>>

-----------------------------------------------------------------------------
(* The script.                                                             *)
StatusOf(l) ==
    CASE l = "ok" -> "success" [] l = "no" -> "failure"
      [] l = "crash" -> "crash" [] l = "quit" -> status

\* The script goes on at a label.  At the end of a function it goes on in the
\* caller; at the end of the script main has a status; a crash ends it all.
GoTo(l) ==
    IF l \in Ends /\ stack # <<>>
    THEN /\ label' = Head(stack)[l] /\ stack' = Tail(stack)
         /\ UNCHANGED <<at, status>>
    ELSE IF l \in Ends \cup {"quit", "crash"}
    THEN /\ at' = IF l = "crash" THEN "exit" ELSE "release session"
         /\ status' = StatusOf(l) /\ label' = "start" /\ stack' = <<>>
    ELSE label' = l /\ UNCHANGED <<at, stack, status>>

\* A function begins; at the bound it returns at once.
Enters(l, ok, no) ==
    IF Len(stack) < MaxDepth
    THEN /\ label' = l /\ stack' = <<[ok |-> ok, no |-> no]>> \o stack
         /\ UNCHANGED <<at, status>>
    ELSE GoTo(ok) \/ GoTo(no)
Returns ==
    /\ at = "script" /\ label \in Ends
    /\ GoTo(label)
    /\ UNCHANGED <<tool, found, link, items, handles, missed>>

\* On, or to the next item while there is one.
GoesOn ==
    \/ \E l \in Now.ends : GoTo(l) /\ UNCHANGED items
    \/ \E l \in Now.more :
          /\ items > 0 /\ items' = items - 1
          /\ GoTo(l)

Calling == InScript /\ Now.call \notin {"none", "sub"}

LocalStep ==
    /\ InScript
    /\ \/ Now.call = "none" /\ GoesOn
       \/ /\ Now.call = "sub" /\ UNCHANGED items
          /\ \E l \in Now.ends, ok \in Now.more, no \in Now.no : Enters(l, ok, no)
    /\ UNCHANGED <<tool, found, link, handles, missed>>

Opening == {"CeCreateFile", "CeRegOpenKeyEx", "CeRegCreateKeyEx", "CeFindFirstFile",
            "CeFindFirstDatabase", "CeOpenDatabase"}
Closing == {"CeCloseHandle", "CeRegCloseKey", "CeFindClose"}
\* A process comes with two handles.
Executes ==
    handles' = CASE Now.call \in Opening -> handles + 1
                 [] Now.call = "CeCreateProcess" -> handles + 2
                 [] Now.call \in Closing -> handles - 1
                 [] OTHER -> handles

CallSucceeds ==
    /\ Calling /\ link = "up" /\ Executes /\ GoesOn
    /\ UNCHANGED <<tool, found, link, missed>>
\* (Nobody asks twice for a handle to be closed.)
CallFails ==
    /\ Calling /\ link = "up"
    /\ \E l \in Now.no : GoTo(l)
    /\ handles' = IF Now.call \in Closing THEN handles - 1 ELSE handles
    /\ missed' = (missed \/ Now.work)
    /\ UNCHANGED <<tool, found, link, items>>
\* No answer: the connection is gone, and every later call fails at once.
CallIsLost ==
    /\ Calling /\ link # "stalled" /\ link' = "down"
    /\ \E l \in Now.no : GoTo(l)
    /\ missed' = (missed \/ Now.work)
    /\ (link = "up" /\ Executes) \/ UNCHANGED handles
    /\ UNCHANGED <<tool, found, items>>

-----------------------------------------------------------------------------
(* exit: what main holds is given back, in order.                          *)
ReleaseSession ==
    /\ Goes("release session", "release device")
    /\ has' = has \ {"session"}
    /\ IF "session" \in has THEN Adjusts(device, -1) ELSE UNCHANGED refs
    /\ UNCHANGED <<tool, listed, next, device, owns, script, link, status>>
ReleaseDevice ==
    /\ Goes("release device", "release enumdev")
    /\ device' = 0 /\ owns' = IF owns = "one" THEN "given back" ELSE owns
    /\ IF device # 0 THEN Adjusts(device, -1) ELSE UNCHANGED refs
    /\ UNCHANGED <<tool, listed, next, has, script, link, status>>
ReleaseEnum ==
    /\ Goes("release enumdev", "release desktop")
    /\ has' = has \ {"enumdev"} /\ refs' = ReleasesEnum
    /\ UNCHANGED <<tool, listed, next, device, owns, script, link, status>>
ReleaseDesktop ==
    /\ Goes("release desktop", "exit") /\ has' = has \ {"desktop"}
    /\ UNCHANGED <<tool, listed, next, device, refs, owns, script, link, status>>

\* The device goes out of reach, or stops within a message.
LinkFails ==
    /\ link = "up" /\ at \in {"init", "script"}
    /\ link' = "down" \/ (Calling /\ link' = "stalled")
    /\ UNCHANGED <<tool, at, found, script, status>>

Find == handle_parameters \/ IRAPIDesktop_Get \/ EnumDevices \/ NextDevice
        \/ NoMoreDevices \/ KeepDevice \/ IRAPIDevice_CreateSession \/ CeRapiInit
Run == LocalStep \/ Returns \/ CallSucceeds \/ CallFails \/ CallIsLost
GiveBack == ReleaseSession \/ ReleaseDevice \/ ReleaseEnum \/ ReleaseDesktop

Next ==
    \/ handle_parameters \/ IRAPIDesktop_Get \/ EnumDevices \/ NextDevice
    \/ NoMoreDevices \/ KeepDevice \/ IRAPIDevice_CreateSession \/ CeRapiInit
    \/ LocalStep \/ Returns \/ CallSucceeds \/ CallFails \/ CallIsLost
    \/ ReleaseSession \/ ReleaseDevice \/ ReleaseEnum \/ ReleaseDesktop
    \/ LinkFails
Spec == Init /\ [][Next]_vars
\* A tool goes on by itself; a call that does not stop within a message ends.
FairSpec == Spec /\ WF_vars(Find) /\ WF_vars(Run) /\ WF_vars(GiveBack)

-----------------------------------------------------------------------------
(* Properties.                                                             *)

\* A tool that says success had a device, unless it is an optimist or said no
\* more than how it is used, and did every call of its work with success, unless
\* it is lenient.
ExitIsTrue ==
    at = "exit" /\ status = "success" =>
       /\ owns = "given back" \/ tool.name \in Optimists \/ tool.wants = Help
       /\ missed => tool.name \in Lenient

\* Once main has taken a reference on its device, each device has the references
\* of those who hold one: the desktop, the enumeration, the session and main,
\* until the end and whichever call failed.
One(holds) == IF holds THEN 1 ELSE 0
ReferencesBalance ==
    owns # "none" =>
       \A i \in Positions :
          refs[i] = 1 + One("enumdev" \in has)
                      + One(i = device /\ "session" \in has)
                      + One(i = device /\ owns = "one")

\* Over a connection that never failed, a tool that is not leaky has asked the
\* device to close what it opened, whichever call failed.
HandlesClosed ==
    at = "release device" /\ link = "up" /\ tool.name \notin Leaky => handles = 0

\* A tool ends, unless the device stops within a message.
ToolEnds == <>(at = "exit" \/ link = "stalled")
=============================================================================
