----------------------------- MODULE RapiDesktop -----------------------------
(***************************************************************************)
(* The objects of rapi2_api.c in a client: the desktop with its list of    *)
(* devices, devices, enumerators, sessions and sinks, each living by its   *)
(* reference count, and the daemon whose signals and restarts they follow. *)
(* The client has one thread: its main loop dispatches one signal at a     *)
(* time, its application calls between signals and from its sinks.  The    *)
(* daemon goes on all the time, also while the client waits for it.        *)
(***************************************************************************)
EXTENDS Integers, Sequences, FiniteSets, SequencesExt

CONSTANTS
    Paths,      \* object paths of devices, which also stand for their GUIDs
    Objects,    \* memory for IRAPIDevice objects (numbers)
    Enums,      \* memory for enumerators
    Sessions,   \* memory for sessions
    Listeners,  \* the application's sinks
    None,       \* NULL
    SeqMax,     \* 0xffffffff
    MaxMoves,   \* bound: moves of the daemon
    MaxInits,   \* bound: how often the desktop comes
    MaxHeld     \* bound: references that the application holds on the desktop,
                \* and on one device before it takes another

ASSUME DesktopAssumption ==
    /\ Objects \subseteq Nat
    /\ IsFiniteSet(Objects) /\ IsFiniteSet(Enums) /\ IsFiniteSet(Sessions)
    /\ IsFiniteSet(Listeners) /\ MaxHeld \in Nat
    /\ SeqMax \in Nat /\ SeqMax > Cardinality(Listeners) + 1
    /\ None \notin Paths \cup Listeners

VARIABLES
    daemon,    \* online, the devices it lists, how often it moved
    signals,   \* what the main loop has not dispatched yet
    desktop,   \* irapi_desktop
    device,    \* the device objects
    enum,      \* the enumerators (refcount: 0, or 1 of the application's)
    session,   \* the sessions (likewise)
    doing,     \* what the client's thread is in the middle of
    held,      \* the references of the application on desktop and devices
    ticket,    \* the numbers that its sinks were given
    broken     \* what undefined behaviour did to the client

vars == <<daemon, signals, desktop, device, enum, session, doing, held, ticket,
          broken>>

Free == [refcount |-> 0, path |-> None, text |-> "own", info |-> None,
         status |-> "none"]
NoEnum == [refcount |-> 0, devices |-> <<>>, current |-> 1]
NoSession == [refcount |-> 0, device |-> 0, info |-> None, with |-> None]
\* (Proxies are numbers; handlers are those of them whose handler is
\* connected, made and inits count what came before.)
NoDesktop == [exists |-> FALSE, refcount |-> 0, dbus_proxy |-> 0,
              dev_mgr_proxy |-> 0, handlers |-> {}, devices |-> <<>>,
              sinks |-> [n \in {} |-> None], sink_seq_num |-> 1,
              made |-> 0, inits |-> 0]
Idle == [what |-> "nothing", object |-> 0, left |-> {}, told |-> {}]

Doing(what) == doing.what = what
Live(o) == device[o].refcount > 0
Listed == ToSet(desktop.devices)
Count(n, S) == IF n THEN Cardinality(S) ELSE 0

TypeOK ==
    /\ daemon.online \in BOOLEAN /\ daemon.present \subseteq Paths
    /\ daemon.online \/ daemon.present = {}
    /\ \A i \in DOMAIN signals :
          /\ signals[i].name \in {"Connected", "Disconnected", "Online", "Offline"}
          /\ signals[i].to \in 1..desktop.made
    /\ {desktop.dbus_proxy, desktop.dev_mgr_proxy} \subseteq desktop.handlers \cup {0}
    /\ desktop.handlers \subseteq 1..desktop.made
    /\ Listed \subseteq Objects /\ IsInjective(desktop.devices)
    /\ DOMAIN desktop.sinks \subseteq 1..(SeqMax - 1)
    /\ desktop.sink_seq_num \in 1..SeqMax
    /\ \A o \in Objects : device[o].info \in Paths \cup {None}
    /\ \A s \in Sessions : session[s].with \in Paths \cup {None}
    /\ held.desktop \in 0..MaxHeld /\ held.device \in [Objects -> Nat]
    /\ broken \in {"no", "stopped", "freed memory used"}

Init ==
    /\ \E online \in BOOLEAN, present \in SUBSET Paths :
        /\ online \/ present = {}
        /\ daemon = [online |-> online, present |-> present, moves |-> 0]
    /\ signals = <<>>
    /\ desktop = NoDesktop
    /\ device = [o \in Objects |-> Free]
    /\ enum = [e \in Enums |-> NoEnum]
    /\ session = [s \in Sessions |-> NoSession]
    /\ doing = Idle
    /\ held = [desktop |-> 0, device |-> [o \in Objects |-> 0]]
    /\ ticket = [l \in Listeners |-> 0]
    /\ broken = "no"

-----------------------------------------------------------------------------
(* The daemon and the bus.  A signal reaches each proxy whose handler is   *)
(* connected; the bus tells of the daemon's coming and going.              *)
client == <<desktop, device, enum, session, doing, held, ticket, broken>>

Moves ==
    /\ daemon.moves < MaxMoves
    /\ UNCHANGED client

ToProxies(name, p) ==
    SetToSeq({[name |-> name, path |-> p, to |-> x] : x \in desktop.handlers \ {desktop.dbus_proxy}})
ToDesktop(name) ==
    IF desktop.exists
    THEN <<[name |-> name, path |-> None, to |-> desktop.dbus_proxy]>> ELSE <<>>

DeviceAppears(p) ==
    /\ Moves
    /\ daemon.online /\ p \notin daemon.present
    /\ daemon' = [daemon EXCEPT !.present = @ \cup {p}, !.moves = @ + 1]
    /\ signals' = signals \o ToProxies("Connected", p)

DeviceGoes(p) ==
    /\ Moves
    /\ p \in daemon.present
    /\ daemon' = [daemon EXCEPT !.present = @ \ {p}, !.moves = @ + 1]
    /\ signals' = signals \o ToProxies("Disconnected", p)

DaemonStops ==
    /\ Moves
    /\ daemon.online
    /\ daemon' = [online |-> FALSE, present |-> {}, moves |-> daemon.moves + 1]
    /\ signals' = signals \o ToDesktop("Offline")

DaemonStarts ==
    /\ Moves
    /\ ~daemon.online
    /\ daemon' = [daemon EXCEPT !.online = TRUE, !.moves = @ + 1]
    /\ signals' = signals \o ToDesktop("Online")

-----------------------------------------------------------------------------
(* References.                                                             *)

DesktopAddRef(d) == [d EXCEPT !.refcount = @ + 1]

\* (Mutant: it goes at 1.)
DesktopReleaseEarly(d) ==
    IF d.refcount > 2 THEN [d EXCEPT !.refcount = @ - 1]
    ELSE [NoDesktop EXCEPT !.handlers = d.handlers \ {d.dbus_proxy, d.dev_mgr_proxy},
                           !.made = d.made, !.inits = d.inits]

\* At 0 the desktop goes, with its sinks and handlers.  (That devices are still
\* listed then would free it twice.  A handler of an earlier proxy stays, with
\* a pointer to it.)
DesktopRelease(d) ==
    IF d.refcount > 1 THEN [d EXCEPT !.refcount = @ - 1]
    ELSE [NoDesktop EXCEPT !.handlers = d.handlers \ {d.dbus_proxy, d.dev_mgr_proxy},
                           !.made = d.made, !.inits = d.inits]

\* One of the references on object o is given back; the last one takes the
\* reference on the desktop along.
DeviceRelease(o) ==
    IF device[o].refcount > 1
    THEN /\ device' = [device EXCEPT ![o].refcount = @ - 1]
         /\ UNCHANGED desktop
    ELSE /\ device' = [device EXCEPT ![o] = Free]
         /\ desktop' = DesktopRelease(desktop)

\* The string of an object path that came with the list was freed with the
\* list: freeing it again may stop the process, or not.
FreesPath(os) ==
    broken' \in IF \E o \in os : device[o].text = "freed" /\ device[o].refcount = 1
                THEN {"no", "stopped"} ELSE {"no"}

\* synce_info_new_by_field: asks the daemon.
InfoOf(p) == IF p \in daemon.present THEN p ELSE None

NewObject(o) ==
    /\ ~Live(o)
    /\ \A q \in Objects : q < o => Live(q)

NewDevice(p, text) ==
    [refcount |-> 1, path |-> p, text |-> text, info |-> InfoOf(p),
     status |-> "connected"]

\* Does the object's path compare equal to p?  A freed string may read as it
\* was, or not.
Matches(o, p) ==
    IF device[o].path # p THEN {FALSE}
    ELSE IF device[o].text = "own" THEN {TRUE} ELSE {TRUE, FALSE}

-----------------------------------------------------------------------------
(* The desktop comes and follows the daemon.                               *)

\* (Mutant: no handler is connected.)
UdevConnectBeginsDeaf(d) ==
    LET x == d.made + 1 IN
    /\ desktop' = [d EXCEPT !.dev_mgr_proxy = x, !.made = x]
    /\ doing' = [Idle EXCEPT !.what = "asking for the list"]

\* A proxy to the device manager, with a handler; the list is asked for.
UdevConnectBegins(d) ==
    LET x == d.made + 1 IN
    /\ desktop' = [d EXCEPT !.dev_mgr_proxy = x, !.made = x, !.handlers = @ \cup {x}]
    /\ doing' = [Idle EXCEPT !.what = "asking for the list"]

UdevConnectAnswered ==
    /\ Doing("asking for the list")
    /\ doing' = IF daemon.online
                THEN [Idle EXCEPT !.what = "listing", !.left = daemon.present]
                ELSE Idle
    /\ UNCHANGED <<daemon, signals, desktop, device, enum, session, held, ticket,
                   broken>>

UdevConnectLists ==
    /\ Doing("listing")
    /\ IF doing.left = {} THEN doing' = Idle /\ UNCHANGED <<desktop, device>>
       ELSE \E p \in doing.left, o \in Objects :
            /\ NewObject(o)
            /\ device' = [device EXCEPT ![o] = NewDevice(p, "freed")]
            /\ desktop' = [DesktopAddRef(desktop) EXCEPT !.devices = Append(@, o)]
            /\ doing' = [doing EXCEPT !.left = @ \ {p}]
    /\ UNCHANGED <<daemon, signals, enum, session, held, ticket, broken>>

\* IRAPIDesktop_Init listens to the bus, then asks whether the daemon is there.
DesktopInit ==
    /\ Doing("nothing") /\ ~desktop.exists
    /\ held.desktop < MaxHeld
    /\ desktop.inits < MaxInits
    /\ LET x == desktop.made + 1 IN
        desktop' = [NoDesktop EXCEPT !.exists = TRUE, !.dbus_proxy = x, !.made = x,
                                     !.handlers = desktop.handlers \cup {x},
                                     !.inits = desktop.inits + 1]
    /\ doing' = [Idle EXCEPT !.what = "asking for the owner"]
    /\ ticket' = [l \in Listeners |-> 0]
    /\ UNCHANGED <<daemon, signals, device, enum, session, held, broken>>

\* IRAPIDesktop_Get then takes the application's reference.
DesktopReady ==
    /\ Doing("asking for the owner")
    /\ IF daemon.online THEN UdevConnectBegins(DesktopAddRef(desktop))
       ELSE desktop' = DesktopAddRef(desktop) /\ doing' = Idle
    /\ held' = [held EXCEPT !.desktop = @ + 1]
    /\ UNCHANGED <<daemon, signals, device, enum, session, ticket, broken>>

\* The handler's desktop may be gone: of a proxy that a second one replaced,
\* nobody disconnects the handler.
Dispatched(name) ==
    /\ Doing("nothing")
    /\ signals # <<>>
    /\ Head(signals).name = name
    /\ signals' = Tail(signals)
    /\ UNCHANGED <<daemon, enum, session, held, ticket>>

Handled(signal) == signal.to \in desktop.handlers

\* Its desktop is the one there is.
Current(signal) == desktop.exists /\ signal.to > desktop.dbus_proxy

NotHandled ==
    /\ \E name \in {"Connected", "Disconnected", "Online", "Offline"} :
          Dispatched(name)
    /\ ~Handled(Head(signals))
    /\ UNCHANGED <<desktop, device, doing, broken>>

DesktopIsGone ==
    /\ \E name \in {"Connected", "Disconnected"} : Dispatched(name)
    /\ Handled(Head(signals)) /\ ~Current(Head(signals))
    /\ broken' = "freed memory used"
    /\ UNCHANGED <<desktop, device, doing>>

CameOnline ==
    /\ Dispatched("Online")
    /\ Handled(Head(signals))
    /\ UdevConnectBegins(desktop)
    /\ UNCHANGED <<device, broken>>

\* (Mutant: the pointer to the proxy stays.)
WentOfflineKeepsProxy ==
    /\ Dispatched("Offline")
    /\ Handled(Head(signals))
    /\ desktop' = [desktop EXCEPT !.handlers = @ \ {desktop.dev_mgr_proxy}]
    /\ doing' = [Idle EXCEPT !.what = "removing", !.left = Listed]
    /\ UNCHANGED <<device, broken>>

WentOffline ==
    /\ Dispatched("Offline")
    /\ Handled(Head(signals))
    /\ desktop' = [desktop EXCEPT !.handlers = @ \ {desktop.dev_mgr_proxy},
                                  !.dev_mgr_proxy = 0]
    /\ doing' = [Idle EXCEPT !.what = "removing", !.left = Listed]
    /\ UNCHANGED <<device, broken>>

\* One turn of the loop of udev_disconnect.  A path whose string was freed may
\* not look like one of the daemon's: its device stays.  The desktop, if this
\* was the last reference on it, is used after it was freed.
UdevDisconnectRemoves ==
    /\ Doing("removing") /\ desktop.exists
    /\ IF doing.left = {} THEN doing' = Idle /\ UNCHANGED <<desktop, device, broken>>
       ELSE LET first == SelectInSeq(desktop.devices, LAMBDA o : o \in doing.left)
                o == desktop.devices[first]
            IN  /\ doing' = [doing EXCEPT !.left = @ \ {o}]
                /\ \/ /\ FreesPath({o})
                      /\ device' = [device EXCEPT ![o] =
                            IF device[o].refcount = 1 THEN Free
                            ELSE [device[o] EXCEPT !.refcount = device[o].refcount - 1,
                                                   !.status = "disconnected"]]
                      /\ LET d == [desktop EXCEPT !.devices = RemoveAt(@, first)] IN
                         desktop' = IF device[o].refcount = 1 THEN DesktopRelease(d)
                                    ELSE d
                   \/ /\ device[o].text = "freed"
                      /\ UNCHANGED <<desktop, device, broken>>
    /\ UNCHANGED <<daemon, signals, enum, session, held, ticket>>

UseAfterUninit ==
    /\ Doing("removing") /\ ~desktop.exists
    /\ broken' = "freed memory used"
    /\ UNCHANGED <<daemon, signals, desktop, device, enum, session, doing, held,
                   ticket>>

-----------------------------------------------------------------------------
(* Devices come and go.                                                    *)

OnDeviceConnected ==
    /\ Dispatched("Connected")
    /\ Handled(Head(signals)) /\ Current(Head(signals))
    /\ \E o \in Objects :
        /\ NewObject(o)
        /\ device' = [device EXCEPT ![o] = NewDevice(Head(signals).path, "own")]
        /\ desktop' = [DesktopAddRef(desktop) EXCEPT !.devices = Append(@, o)]
        /\ doing' = [what |-> "telling", object |-> o,
                     left |-> DOMAIN desktop.sinks, told |-> {}]
    /\ UNCHANGED broken

\* The first device of the list whose path matches, if any.
Found(i, p) ==
    /\ TRUE \in Matches(desktop.devices[i], p)
    /\ \A j \in 1..(i - 1) : FALSE \in Matches(desktop.devices[j], p)

OnDeviceDisconnected ==
    /\ Dispatched("Disconnected")
    /\ Handled(Head(signals)) /\ Current(Head(signals))
    /\ \E i \in DOMAIN desktop.devices :
        /\ Found(i, Head(signals).path)
        /\ device' = [device EXCEPT ![desktop.devices[i]].status = "disconnected"]
        /\ desktop' = [desktop EXCEPT !.devices = RemoveAt(@, i)]
        /\ doing' = [what |-> "telling", object |-> desktop.devices[i],
                     left |-> DOMAIN desktop.sinks, told |-> {}]
    /\ UNCHANGED broken

UnfoundDevice ==
    /\ Dispatched("Disconnected")
    /\ Handled(Head(signals)) /\ Current(Head(signals))
    /\ \A i \in DOMAIN desktop.devices :
          FALSE \in Matches(desktop.devices[i], Head(signals).path)
    /\ UNCHANGED <<desktop, device, doing, broken>>

\* Each sink is given a reference of its own.
TellSink(n) ==
    /\ Doing("telling")
    /\ n \in doing.left
    /\ LET o == doing.object IN
        /\ device' = [device EXCEPT ![o].refcount = @ + 1]
        /\ held' = [held EXCEPT !.device[o] = @ + 1]
    /\ doing' = [doing EXCEPT !.left = @ \ {n}, !.told = @ \cup {n}]
    /\ UNCHANGED <<daemon, signals, desktop, enum, session, ticket, broken>>

\* After the sinks of a device that went, the list's reference goes.
Told ==
    /\ Doing("telling")
    /\ doing.left = {}
    /\ IF device[doing.object].status = "disconnected"
       THEN DeviceRelease(doing.object) /\ FreesPath({doing.object})
       ELSE UNCHANGED <<device, desktop, broken>>
    /\ doing' = Idle
    /\ UNCHANGED <<daemon, signals, enum, session, held, ticket>>

-----------------------------------------------------------------------------
(* The application.  It calls what it holds references on, between signals *)
(* or from a sink that is being told.                                      *)
Running == Doing("nothing") \/ (Doing("telling") /\ doing.told # {})

DesktopGet ==
    /\ Running /\ desktop.exists
    /\ held.desktop < MaxHeld
    /\ desktop' = DesktopAddRef(desktop)
    /\ held' = [held EXCEPT !.desktop = @ + 1]
    /\ UNCHANGED <<daemon, signals, device, enum, session, doing, ticket, broken>>

AppDesktopRelease ==
    /\ Running /\ held.desktop > 0
    /\ desktop' = DesktopRelease(desktop)
    /\ held' = [held EXCEPT !.desktop = @ - 1]
    /\ UNCHANGED <<daemon, signals, device, enum, session, doing, ticket, broken>>

\* The loop of Advise: the next number that is free, after the last but one
\* comes the first.
SinkNumber(d) ==
    LET after(k) == ((d.sink_seq_num + k - 1) % (SeqMax - 1)) + 1
    IN  after(CHOOSE k \in 0..(SeqMax - 1) :
            /\ after(k) \notin DOMAIN d.sinks
            /\ \A j \in 0..(k - 1) : after(j) \in DOMAIN d.sinks)

\* (Not from a sink: the table is being walked.)
DesktopAdvise(l) ==
    /\ Doing("nothing") /\ held.desktop > 0
    /\ ticket[l] = 0
    /\ LET n == SinkNumber(desktop) IN
        /\ desktop' = [desktop EXCEPT !.sink_seq_num = n,
                          !.sinks = [m \in DOMAIN @ \cup {n} |->
                                        IF m = n THEN l ELSE @[m]]]
        /\ ticket' = [ticket EXCEPT ![l] = n]
    /\ UNCHANGED <<daemon, signals, device, enum, session, doing, held, broken>>

DesktopUnAdvise(l) ==
    /\ Doing("nothing") /\ held.desktop > 0
    /\ ticket[l] # 0
    /\ desktop' = [desktop EXCEPT !.sinks =
                      [m \in DOMAIN @ \ {ticket[l]} |-> @[m]]]
    /\ ticket' = [ticket EXCEPT ![l] = 0]
    /\ UNCHANGED <<daemon, signals, device, enum, session, doing, held, broken>>

\* One more reference on each device in the sequence.
AddRefs(os) ==
    [o \in Objects |-> IF o \in ToSet(os)
                       THEN [device[o] EXCEPT !.refcount = @ + 1] ELSE device[o]]

EnumDevices(e) ==
    /\ Running /\ held.desktop > 0
    /\ enum[e].refcount = 0
    /\ device' = AddRefs(desktop.devices)
    /\ enum' = [enum EXCEPT ![e] = [refcount |-> 1, devices |-> desktop.devices,
                                    current |-> 1]]
    /\ UNCHANGED <<daemon, signals, desktop, session, doing, held, ticket, broken>>

EnumClone(e, f) ==
    /\ Running
    /\ enum[e].refcount > 0 /\ enum[f].refcount = 0
    /\ device' = AddRefs(enum[e].devices)
    /\ enum' = [enum EXCEPT ![f] = [enum[e] EXCEPT !.refcount = 1, !.current = 1]]
    /\ UNCHANGED <<daemon, signals, desktop, session, doing, held, ticket, broken>>

\* Next, Skip and Reset move on, up to the end, and back to the first.  (Next
\* returns a pointer without a reference: who keeps it adds one.)
EnumMove(e) ==
    /\ Running /\ enum[e].refcount > 0
    /\ \E c \in {1} \cup enum[e].current..(Len(enum[e].devices) + 1) :
          enum' = [enum EXCEPT ![e].current = c]
    /\ UNCHANGED <<daemon, signals, desktop, device, session, doing, held, ticket,
                   broken>>

\* All of a sequence of devices are released; those that this frees take their
\* references on the desktop along.
Releases(os) ==
    /\ device' = [o \in Objects |->
          IF o \notin ToSet(os) THEN device[o]
          ELSE IF device[o].refcount = 1 THEN Free
          ELSE [device[o] EXCEPT !.refcount = @ - 1]]
    /\ LET gone == Cardinality({o \in ToSet(os) : device[o].refcount = 1}) IN
       desktop' = IF gone = 0 THEN desktop
                  ELSE DesktopRelease([desktop EXCEPT !.refcount = @ - (gone - 1)])
    /\ FreesPath(ToSet(os))

EnumRelease(e) ==
    /\ Running /\ enum[e].refcount > 0
    /\ Releases(enum[e].devices)
    /\ enum' = [enum EXCEPT ![e] = NoEnum]
    /\ UNCHANGED <<daemon, signals, session, doing, held, ticket>>

\* Devices without a description before the one that is looked for stop the
\* search, and the process.
FindDevice(p) ==
    /\ Running /\ held.desktop > 0
    /\ LET first == SelectInSeq(desktop.devices,
                                LAMBDA o : device[o].info \in {p, None})
           o == desktop.devices[first]
       IN  /\ first # 0
           /\ IF device[o].info = None
              THEN broken' = "stopped" /\ UNCHANGED <<device, held>>
              ELSE /\ held.device[o] < MaxHeld
                   /\ device' = [device EXCEPT ![o].refcount = @ + 1]
                   /\ held' = [held EXCEPT !.device[o] = @ + 1]
                   /\ UNCHANGED broken
    /\ UNCHANGED <<daemon, signals, desktop, enum, session, doing, ticket>>

\* The device: one the application has a reference on, or an enumerator of
\* its has.
Reachable(o) ==
    held.device[o] > 0 \/ \E e \in Enums : o \in ToSet(enum[e].devices)

DeviceAddRef(o) ==
    /\ Running /\ Reachable(o) /\ held.device[o] < MaxHeld
    /\ device' = [device EXCEPT ![o].refcount = @ + 1]
    /\ held' = [held EXCEPT !.device[o] = @ + 1]
    /\ UNCHANGED <<daemon, signals, desktop, enum, session, doing, ticket, broken>>

AppDeviceRelease(o) ==
    /\ Running /\ held.device[o] > 0
    /\ DeviceRelease(o) /\ FreesPath({o})
    /\ held' = [held EXCEPT !.device[o] = @ - 1]
    /\ UNCHANGED <<daemon, signals, enum, session, doing, ticket>>

\* (Mutant: the session does not refer to its device.)
CreateSessionAlone(s, o) ==
    /\ Running /\ Reachable(o) /\ session[s].refcount = 0
    /\ session' = [session EXCEPT ![s] = [refcount |-> 1, device |-> o,
                                          info |-> device[o].info, with |-> None]]
    /\ UNCHANGED <<daemon, signals, desktop, device, enum, doing, held, ticket, broken>>

CreateSession(s, o) ==
    /\ Running /\ Reachable(o) /\ session[s].refcount = 0
    /\ device' = [device EXCEPT ![o].refcount = @ + 1]
    /\ session' = [session EXCEPT ![s] = [refcount |-> 1, device |-> o,
                                          info |-> device[o].info, with |-> None]]
    /\ UNCHANGED <<daemon, signals, desktop, enum, doing, held, ticket, broken>>

\* The context connects to the device of its info, to any device without one.
SessionInit(s) ==
    /\ Running /\ session[s].refcount > 0 /\ session[s].with = None
    /\ \E p \in IF session[s].info = None THEN daemon.present
                ELSE {session[s].info} \cap daemon.present :
          session' = [session EXCEPT ![s].with = p]
    /\ UNCHANGED <<daemon, signals, desktop, device, enum, doing, held, ticket,
                   broken>>

SessionUninit(s) ==
    /\ Running /\ session[s].refcount > 0 /\ session[s].with # None
    /\ session' = [session EXCEPT ![s].with = None]
    /\ UNCHANGED <<daemon, signals, desktop, device, enum, doing, held, ticket,
                   broken>>

SessionGetDevice(s) ==
    /\ Running /\ session[s].refcount > 0
    /\ LET o == session[s].device IN
        /\ held.device[o] < MaxHeld
        /\ device' = [device EXCEPT ![o].refcount = @ + 1]
        /\ held' = [held EXCEPT !.device[o] = @ + 1]
    /\ UNCHANGED <<daemon, signals, desktop, enum, session, doing, ticket, broken>>

SessionRelease(s) ==
    /\ Running /\ session[s].refcount > 0
    /\ DeviceRelease(session[s].device) /\ FreesPath({session[s].device})
    /\ session' = [session EXCEPT ![s] = NoSession]
    /\ UNCHANGED <<daemon, signals, enum, doing, held, ticket>>

-----------------------------------------------------------------------------
Bus ==
    \/ \E p \in Paths : DeviceAppears(p) \/ DeviceGoes(p)
    \/ DaemonStops
    \/ DaemonStarts

\* What the client's thread does by itself.
MainLoop ==
    \/ UdevConnectAnswered \/ UdevConnectLists \/ DesktopReady
    \/ NotHandled \/ DesktopIsGone \/ CameOnline \/ WentOffline
    \/ UdevDisconnectRemoves \/ UseAfterUninit
    \/ OnDeviceConnected \/ OnDeviceDisconnected \/ UnfoundDevice
    \/ \E n \in DOMAIN desktop.sinks : TellSink(n)
    \/ Told

Application ==
    \/ DesktopInit \/ DesktopGet \/ AppDesktopRelease
    \/ \E l \in Listeners : DesktopAdvise(l) \/ DesktopUnAdvise(l)
    \/ \E e \in Enums : \/ EnumDevices(e) \/ EnumMove(e)
                        \/ EnumRelease(e)
                        \/ \E f \in Enums : EnumClone(e, f)
    \/ \E p \in Paths : FindDevice(p)
    \/ \E o \in Objects : DeviceAddRef(o) \/ AppDeviceRelease(o)
    \/ \E s \in Sessions : \/ SessionInit(s) \/ SessionUninit(s)
                           \/ SessionGetDevice(s) \/ SessionRelease(s)
                           \/ \E o \in Objects : CreateSession(s, o)

Next == broken = "no" /\ (Bus \/ MainLoop \/ Application)
Spec == Init /\ [][Next]_vars
\* The client runs its main loop, and its sinks return.
FairSpec == Spec /\ WF_vars(broken = "no" /\ MainLoop)

-----------------------------------------------------------------------------
(* Every object lives exactly as long as somebody refers to it, and knows  *)
(* how many do: the list, the application, enumerators and sessions refer  *)
(* to a device, the application and the devices to the desktop.            *)
Holders(o) ==
    held.device[o]
    + Count(o \in Listed, {o})
    + Cardinality({e \in Enums : o \in ToSet(enum[e].devices)})
    + Cardinality({s \in Sessions : session[s].refcount > 0 /\ session[s].device = o})
    + Count(Doing("telling") /\ doing.object = o /\ o \notin Listed
            /\ device[o].status = "disconnected", {o})

RefsAreHolders ==
    broken = "no" =>
        /\ \A o \in Objects : device[o].refcount = Holders(o)
        /\ desktop.refcount = held.desktop + Cardinality({o \in Objects : Live(o)})

\* A session, or an enumerator, always finds its devices, and a device its
\* desktop.
NothingDangles ==
    broken = "no" =>
        /\ \A s \in Sessions : session[s].refcount > 0 =>
              Live(session[s].device) /\ session[s].info = device[session[s].device].info
        /\ \A e \in Enums : \A o \in ToSet(enum[e].devices) : Live(o)
        /\ (\E o \in Objects : Live(o)) => desktop.exists

\* A handler that nobody disconnected, of a desktop that is gone, although there
\* is another one.
LeftBehind == \E x \in desktop.handlers : x < desktop.dbus_proxy

\* A client that keeps its reference on the desktop does not touch freed
\* objects, whatever the daemon does, unless an earlier desktop of its left a
\* handler behind: the signals that it still gets are for freed memory.
KeptDesktopIsSafe ==
    broken = "freed memory used" => held.desktop = 0 \/ LeftBehind

Settled == desktop.exists /\ Doing("nothing") /\ signals = <<>> /\ broken = "no"

\* Enumerating "all connected devices" lists no other ones.
OnlyConnectedListed == Settled => \A o \in Listed : device[o].path \in daemon.present

\* A device that connects is listed in the end, unless it goes or the client
\* gives the desktop up.
DeviceIsListed ==
    \A p \in Paths :
        (desktop.exists /\ p \in daemon.present)
        ~> \/ \E o \in Listed : device[o].path = p
           \/ p \notin daemon.present \/ ~desktop.exists \/ broken # "no"
=============================================================================
