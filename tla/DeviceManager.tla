---------------------------- MODULE DeviceManager ----------------------------
(***************************************************************************)
(* dccm/synce-device-manager.c: the list of devices the udev scripts have  *)
(* announced.  An entry waits for its network interface (a timer probes    *)
(* every pending address), then listens on it and, for RNDIS, keeps asking *)
(* the device to connect (a timer per entry) until a connection makes the  *)
(* entry's device object.  The object's "disconnected" signal removes the  *)
(* entry.  Clients on the bus are told of objects that come and go.        *)
(*                                                                         *)
(* The build modelled is the one with GDBus and GUdev, where the scripts'  *)
(* own "disconnected" call is ignored and each device object watches udev  *)
(* for the removal of its path.  All handlers run in one main loop.  What  *)
(* a device object does between its creation and its object path is in     *)
(* SynceDeviceRndis; here it is one step.                                  *)
(***************************************************************************)
EXTENDS Naturals, FiniteSets

CONSTANTS
    Entries,    \* DeviceEntry structures (allocated, freed and used again)
    Paths,      \* sysfs paths of devices
    Ips,        \* local addresses
    None,       \* no path, no address: the entry is not allocated
    MaxTries    \* 10 in the code: repetitions of the trigger

ASSUME EntriesAssumption == IsFiniteSet(Entries)
ASSUME NoneAssumption == None \notin Paths \cup Ips
ASSUME MaxTriesAssumption == MaxTries \in Nat

VARIABLES
    position,   \* the entry's place in the list priv->devices (0: not in it)
    path,       \* device_path
    ip,         \* local_ip
    rndis,      \* the entries announced as RNDIS
    pending,    \* the entries with iface_pending
    listening,  \* the entries with a running server (ports 990 and 5679)
    device,     \* the entry's device object: "none", "rndis", "legacy"
    named,      \* the entries whose device object has an object path
    retryTimer, \* the entries with a trigger_retry timer
    tries,      \* trigger_retry_count
    checkTimer, \* iface_check_id # 0
    announced,  \* the object paths that a client following the signals knows
    aborted,    \* the daemon is gone
    hw,         \* the paths of the devices that are plugged in
    up,         \* the local addresses that exist
    backlog,    \* <<entry, port>> of connections not yet dispatched
    uevents     \* the entries whose device object has a "remove" to handle

entryVars == <<position, path, ip, rndis>>
serviceVars == <<pending, listening, device, named, retryTimer, tries, checkTimer>>
outsideVars == <<hw, up, backlog, uevents>>
vars == <<entryVars, serviceVars, announced, aborted, outsideVars>>

Ports == {990, 5679}

devices == {e \in Entries : position[e] # 0}

TypeOK ==
    /\ position \in [Entries -> Nat]
    /\ path \in [Entries -> Paths \cup {None}]
    /\ ip \in [Entries -> Ips \cup {None}]
    /\ rndis \subseteq Entries /\ pending \subseteq Entries /\ listening \subseteq Entries
    /\ device \in [Entries -> {"none", "rndis", "legacy"}]
    /\ named \subseteq Entries /\ retryTimer \subseteq Entries
    /\ tries \in [Entries -> 0..MaxTries]
    /\ checkTimer \in BOOLEAN
    /\ announced \subseteq Paths
    /\ aborted \in BOOLEAN
    /\ hw \subseteq Paths /\ up \subseteq Ips
    /\ backlog \subseteq Entries \X Ports
    /\ uevents \subseteq Entries

Init ==
    /\ position = [e \in Entries |-> 0]
    /\ path = [e \in Entries |-> None] /\ ip = [e \in Entries |-> None]
    /\ rndis = {} /\ pending = {} /\ listening = {}
    /\ device = [e \in Entries |-> "none"]
    /\ named = {} /\ retryTimer = {}
    /\ tries = [e \in Entries |-> 0]
    /\ checkTimer = FALSE
    /\ announced = {} /\ aborted = FALSE
    /\ hw = {} /\ up = {} /\ backlog = {} /\ uevents = {}

----------------------------------------------------------------------------
(* The world outside.                                                      *)

\* A local address appears once a device that uses it is plugged in.
IfaceUp(i) ==
    /\ ~aborted /\ i \notin up
    /\ \E e \in devices : ip[e] = i /\ path[e] \in hw
    /\ up' = up \cup {i}
    /\ UNCHANGED <<entryVars, serviceVars, announced, aborted, hw, backlog, uevents>>

\* A device is unplugged: its address goes, unless another uses the same, and
\* the objects of that path which exist now are sent the event.
Unplug(p) ==
    /\ ~aborted /\ p \in hw
    /\ hw' = hw \ {p}
    /\ up' = {i \in up : \E e \in devices : ip[e] = i /\ path[e] \in hw'}
    /\ uevents' = uevents \cup {e \in devices : path[e] = p /\ device[e] # "none"}
    /\ UNCHANGED <<entryVars, serviceVars, announced, aborted, backlog>>

\* A device that is plugged in connects to an entry's server, on its address.
DeviceConnects(e, port) ==
    /\ ~aborted
    /\ e \in listening /\ ip[e] \in up
    /\ backlog' = backlog \cup {<<e, port>>}
    /\ UNCHANGED <<entryVars, serviceVars, announced, aborted, hw, up, uevents>>

----------------------------------------------------------------------------
(* The manager.                                                            *)

\* device_connected_cb: a new entry, and the timer if it is not running.  The
\* scripts announce a device when its interface is there, long after the main
\* loop has dispatched the removal of whatever was plugged in that place.
DeviceConnected(e, p, i) ==
    /\ ~aborted
    /\ e \notin devices
    /\ p \notin hw /\ \A d \in uevents : path[d] # p
    /\ hw' = hw \cup {p}
    /\ position' = [position EXCEPT ![e] = Cardinality(devices) + 1]
    /\ path' = [path EXCEPT ![e] = p]
    /\ ip' = [ip EXCEPT ![e] = i]
    /\ rndis' \in {rndis, rndis \cup {e}}
    /\ pending' = pending \cup {e}
    /\ checkTimer' = TRUE
    /\ UNCHANGED <<listening, device, named, retryTimer, tries,
                   announced, aborted, up, backlog, uevents>>

\* The entries whose address can be bound now: it exists and nobody listens on
\* it (an entry that listens is in its own way).
Bindable(e) == ip[e] \in up /\ \A d \in listening : ip[d] # ip[e]

\* (Mutant: the entries of a pass do not get in each other's way.)
TriedTogether(probed, ok) == {e \in probed : Bindable(e)}

\* The entries of `probed' that create_device is called for, when it succeeds
\* for those in `ok': once one listens on an address, those behind it in the
\* list cannot bind it.
Tried(probed, ok) ==
    {e \in probed : Bindable(e) /\
       \A d \in probed \cap ok : ip[d] = ip[e] => position[d] >= position[e]}

\* create_device clears iface_pending for the entries in `tried'; for those in
\* `start' its two sockets open, the server starts, and if the device is RNDIS
\* it is triggered and the retry is armed.  (An entry that is tried has no server
\* yet, and the server made here takes any socket that is not closed: the exit that
\* gives a server back without forgetting it is not reached with one.)
CreateDevice(tried, start) ==
    /\ pending' = pending \ tried
    /\ listening' = listening \cup start
    /\ retryTimer' = retryTimer \cup (start \cap rndis)
    /\ tries' = [e \in Entries |-> IF e \in start THEN 0 ELSE tries[e]]

\* (Mutant: a pass that reaches the end is the last.)
StillOutstanding(probed, left) == probed # devices

\* The timer is kept by a pass that ended early, or left an entry pending.
Outstanding(probed, left) == probed # devices \/ left \cap devices # {}

\* check_interface_cb: every entry in the list is probed, pending or not.  A
\* probe that cannot get a socket ends the pass (probed # devices).
CheckInterface(probed, ok) ==
    LET tried == Tried(probed, ok) IN
    /\ ~aborted /\ checkTimer
    /\ \A e \in probed, d \in devices : position[d] < position[e] => d \in probed
    /\ CreateDevice(tried, tried \cap ok)
    /\ checkTimer' = Outstanding(probed, pending')
    /\ UNCHANGED <<entryVars, device, named, announced, aborted, outsideVars>>

\* The retries of an entry are over.
GaveUp(e) == device[e] # "none" \/ tries[e] >= MaxTries

\* (Mutant: the tries are not counted.)
TriggerRetryForever(e) ==
    /\ ~aborted /\ e \in retryTimer
    /\ device[e] # "none" /\ retryTimer' = retryTimer \ {e}
    /\ UNCHANGED <<entryVars, pending, listening, device, named, tries, checkTimer,
                   announced, aborted, outsideVars>>

\* trigger_retry_cb.
TriggerRetry(e) ==
    /\ ~aborted /\ e \in retryTimer
    /\ IF GaveUp(e)
       THEN retryTimer' = retryTimer \ {e} /\ tries' = tries
       ELSE tries' = [tries EXCEPT ![e] = @ + 1] /\ retryTimer' = retryTimer
    /\ UNCHANGED <<entryVars, pending, listening, device, named, checkTimer,
                   announced, aborted, outsideVars>>

\* client_connected_cb on port 5679: the first connection makes a legacy device
\* (`made': the object could be created), another is dropped.
LegacyConnected(e, made) ==
    /\ ~aborted /\ <<e, 5679>> \in backlog
    /\ backlog' = backlog \ {<<e, 5679>>}
    /\ device' = IF device[e] = "none" /\ made
                 THEN [device EXCEPT ![e] = "legacy"] ELSE device
    /\ UNCHANGED <<entryVars, pending, listening, named, retryTimer, tries, checkTimer,
                   announced, aborted, hw, up, uevents>>

\* client_connected_cb on port 990: the first connection stops the retries and
\* makes an RNDIS device, and a later one is the device object's.  It is handed
\* over as an RNDIS device's whatever the object is: for a legacy one that is
\* memory of another type, and the daemon may not survive it.
RndisConnected(e, made) ==
    /\ ~aborted /\ <<e, 990>> \in backlog
    /\ backlog' = backlog \ {<<e, 990>>}
    /\ IF device[e] = "none"
       THEN /\ retryTimer' = retryTimer \ {e}
            /\ device' = IF made THEN [device EXCEPT ![e] = "rndis"] ELSE device
            /\ aborted' = aborted
       ELSE /\ UNCHANGED <<retryTimer, device>>
            /\ aborted' \in IF device[e] = "legacy" THEN BOOLEAN ELSE {FALSE}
    /\ UNCHANGED <<entryVars, pending, listening, named, tries, checkTimer,
                   announced, hw, up, uevents>>

\* device_obj_path_changed_cb: the device, still there, has described itself and
\* its object is on the bus; only one object can be there under a path.
ObjPathChanged(e) ==
    /\ ~aborted
    /\ e \in devices /\ device[e] # "none" /\ e \notin named
    /\ path[e] \in hw /\ e \notin uevents
    /\ \A d \in named : path[d] # path[e]
    /\ named' = named \cup {e}
    /\ announced' = announced \cup {path[e]}
    /\ UNCHANGED <<entryVars, pending, listening, device, retryTimer, tries, checkTimer,
                   aborted, outsideVars>>

\* (Mutant: the retry timer is not removed.)
EntryFreeKeepsTimer(e) ==
    /\ rndis' = rndis \ {e}
    /\ pending' = pending \ {e}
    /\ tries' = [tries EXCEPT ![e] = 0]
    /\ retryTimer' = retryTimer
    /\ listening' = listening \ {e}
    /\ backlog' = {b \in backlog : b[1] # e}
    /\ device' = [device EXCEPT ![e] = "none"]
    /\ named' = named \ {e}
    /\ uevents' = uevents \ {e}
    /\ path' = [path EXCEPT ![e] = None]
    /\ ip' = [ip EXCEPT ![e] = None]

\* entry_free: the retry timer, the server (with the connections it has not
\* dispatched) and the device object go with the structure.
EntryFree(e) ==
    /\ rndis' = rndis \ {e}
    /\ pending' = pending \ {e}
    /\ tries' = [tries EXCEPT ![e] = 0]
    /\ retryTimer' = retryTimer \ {e}
    /\ listening' = listening \ {e}
    /\ backlog' = {b \in backlog : b[1] # e}
    /\ device' = [device EXCEPT ![e] = "none"]
    /\ named' = named \ {e}
    /\ uevents' = uevents \ {e}
    /\ path' = [path EXCEPT ![e] = None]
    /\ ip' = [ip EXCEPT ![e] = None]

\* g_slist_delete_link: those behind the entry move up.
Unlink(e) ==
    position' = [d \in Entries |->
                   IF d = e THEN 0
                   ELSE IF position[d] > position[e] THEN position[d] - 1 ELSE position[d]]

\* (Mutant: the path is announced as gone whether or not it was the object's.)
AnnouncedAnyway(e) == announced \ {path[e]}

\* The announcement names the object path, which may not have been set.
AnnouncedWithout(e) == IF e \in named THEN announced \ {path[e]} ELSE announced

\* device_sends_disconnected_cb: the entry of the device leaves the list, its
\* object path is announced as gone, and the entry is freed.
DeviceDisconnected(e) ==
    /\ e \in devices /\ device[e] # "none"
    /\ Unlink(e)
    /\ announced' = AnnouncedWithout(e)
    /\ EntryFree(e)
    /\ UNCHANGED <<checkTimer, aborted, hw, up>>

\* gudev_uevent_callback of the entry's device object.
UeventRemove(e) == ~aborted /\ e \in uevents /\ DeviceDisconnected(e)

\* A legacy device that does not answer pings disconnects, plugged in or not.
PingTimeout(e) == ~aborted /\ device[e] = "legacy" /\ DeviceDisconnected(e)

----------------------------------------------------------------------------
Next ==
    \/ \E i \in Ips : IfaceUp(i)
    \/ \E p \in Paths : Unplug(p)
    \/ \E e \in Entries, port \in Ports : DeviceConnects(e, port)
    \/ \E e \in Entries, p \in Paths, i \in Ips : DeviceConnected(e, p, i)
    \/ \E probed, ok \in SUBSET devices : CheckInterface(probed, ok)
    \/ \E e \in Entries : TriggerRetry(e)
    \/ \E e \in Entries, made \in BOOLEAN : LegacyConnected(e, made) \/ RndisConnected(e, made)
    \/ \E e \in Entries : ObjPathChanged(e)
    \/ \E e \in Entries : UeventRemove(e)
    \/ \E e \in Entries : PingTimeout(e)

Spec == Init /\ [][Next]_vars

\* The main loop's timers and event sources are served; that a pass of the
\* interface check gets its sockets is assumed.
FairSpec ==
    /\ Spec
    /\ WF_vars(\E ok \in SUBSET devices : CheckInterface(devices, ok))
    /\ \A e \in Entries :
         /\ WF_vars(TriggerRetry(e))
         /\ WF_vars(UeventRemove(e))
         /\ WF_vars(\E made \in BOOLEAN : LegacyConnected(e, made))
         /\ WF_vars(\E made \in BOOLEAN : RndisConnected(e, made))

----------------------------------------------------------------------------
(* Safety.                                                                 *)

\* An interface that is waited for is being probed for: whoever appends an entry
\* or ends a pass leaves the timer running if any entry needs it.
PendingIsProbed == \A e \in devices : e \in pending => checkTimer

\* What a client knows from the two signals is what it would get by asking
\* (get_connected_devices): the object paths of the list's devices.
ListedIsAnnounced == announced = {path[e] : e \in devices \cap named}

\* No timer, server, device event or connection refers to a freed entry.
NothingOutlivesEntry ==
    /\ retryTimer \cup listening \cup named \cup uevents \cup pending \subseteq devices
    /\ \A b \in backlog : b[1] \in devices
    /\ \A e \in Entries : device[e] # "none" => e \in devices

\* An entry is not waiting for the interface it listens on, connections and its
\* device object come in through its server, and only what listens is retried.
EntryStages ==
    /\ pending \cap listening = {}
    /\ \A e \in Entries : device[e] # "none" => e \in listening
    /\ \A b \in backlog : b[1] \in listening
    /\ retryTimer \subseteq listening

\* Two entries never listen on the same address.
AddressOwned == \A d, e \in listening : ip[d] = ip[e] => d = e

\* The list's places are its length at most, and no two entries have the same:
\* who is probed first is decided by them.
PlacesDiffer ==
    /\ \A e \in devices : position[e] <= Cardinality(devices)
    /\ \A d, e \in devices : position[d] = position[e] => d = e

\* An entry in the list has a path and an address, and no two objects on the bus
\* are there under one path.
PathsDiffer ==
    /\ \A e \in devices : path[e] \in Paths /\ ip[e] \in Ips
    /\ \A d, e \in named : path[d] = path[e] => d = e

\* The inductive invariant of DeviceManagerProofs: types, the timer of whoever
\* waits, and what a freed entry, a server, a place and a path may be shared by.
IndInv ==
    /\ TypeOK
    /\ PendingIsProbed
    /\ ListedIsAnnounced
    /\ NothingOutlivesEntry
    /\ EntryStages
    /\ AddressOwned
    /\ PlacesDiffer
    /\ PathsDiffer

----------------------------------------------------------------------------
(* Liveness.                                                               *)

\* An entry whose address exists and stays free is not left pending.
FreeAddressIsTaken ==
    \A e \in Entries :
      <>[](e \in devices /\ Bindable(e) /\ ~aborted) => <>[](e \notin pending)

\* Retries come to an end.
RetriesEnd == \A e \in Entries : e \in retryTimer ~> (e \notin retryTimer \/ aborted)
=============================================================================
