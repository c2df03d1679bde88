------------------------- MODULE DeviceManagerProofs -------------------------
(***************************************************************************)
(* Proofs about DeviceManager, for every set of entries, paths and         *)
(* addresses: IndInv is inductive, and the safety properties follow.       *)
(***************************************************************************)
EXTENDS DeviceManager, TLAPS, FiniteSetTheorems

----------------------------------------------------------------------------
(* Types.                                                                  *)

\* A pass of the interface check ends with a truth value in the timer's place.
LEMMA OutstandingIsBoolean == \A probed, left : Outstanding(probed, left) \in BOOLEAN
  BY Zenon DEF Outstanding

\* A connection touches neither the list nor the servers.
LEMMA LegacyConnectedFrame ==
    ASSUME NEW e, NEW made \in BOOLEAN, LegacyConnected(e, made)
    PROVE  UNCHANGED <<position, path, ip, pending, listening, named, retryTimer,
                       checkTimer, announced, uevents>>
  BY DEF LegacyConnected, entryVars

LEMMA RndisConnectedFrame ==
    ASSUME NEW e, NEW made \in BOOLEAN, RndisConnected(e, made)
    PROVE  UNCHANGED <<position, path, ip, pending, listening, named, checkTimer,
                       announced, uevents>>
  BY Zenon DEF RndisConnected, entryVars

\* A connection on port 990 makes no object that is not an RNDIS one.
LEMMA RndisConnectedType ==
    ASSUME TypeOK, NEW e \in Entries, NEW made \in BOOLEAN, RndisConnected(e, made)
    PROVE  TypeOK'
<1>1. aborted \in BOOLEAN /\ checkTimer \in BOOLEAN
  BY Zenon DEF TypeOK
<1>2. /\ backlog' = backlog \ {<<e, 990>>}
      /\ UNCHANGED <<position, path, ip, rndis, pending, listening, named, tries,
                     checkTimer, announced, hw, up, uevents>>
  BY Zenon DEF RndisConnected, entryVars
<1>3. CASE device[e] = "none"
  <2>1. /\ retryTimer' = retryTimer \ {e} /\ aborted' = aborted
        /\ device' = IF made THEN [device EXCEPT ![e] = "rndis"] ELSE device
    BY <1>3, Zenon DEF RndisConnected
  <2>2. device' = [device EXCEPT ![e] = "rndis"] \/ device' = device
    BY <2>1, Zenon
  <2>3. /\ device' \in [Entries -> {"none", "rndis", "legacy"}]
        /\ retryTimer' \subseteq Entries /\ backlog' \subseteq Entries \X Ports
    BY <1>2, <2>1, <2>2 DEF TypeOK
  <2> QED
    BY <1>1, <1>2, <2>1, <2>3, Zenon DEF TypeOK
<1>4. CASE device[e] # "none"
  <2>1. /\ retryTimer' = retryTimer /\ device' = device
        /\ aborted' \in IF device[e] = "legacy" THEN BOOLEAN ELSE {FALSE}
    BY <1>4, Zenon DEF RndisConnected
  <2>2. aborted' \in BOOLEAN
    BY <2>1, Zenon
  <2>3. backlog' \subseteq Entries \X Ports
    BY <1>2 DEF TypeOK
  <2> QED
    BY <1>1, <1>2, <2>1, <2>2, <2>3, Zenon DEF TypeOK
<1> QED
  BY <1>3, <1>4

\* Freeing an entry keeps the types of what it resets.
LEMMA DisconnectedType ==
    ASSUME TypeOK, NEW e \in Entries, DeviceDisconnected(e)
    PROVE  TypeOK'
<1> USE DEF TypeOK, DeviceDisconnected, EntryFree
<1>1. position' \in [Entries -> Nat]
  <2>1. \A d \in Entries : position[d] > position[e] => position[d] - 1 \in Nat
    OBVIOUS
  <2> QED
    BY <2>1 DEF Unlink
<1>2. announced' \subseteq Paths
  BY DEF AnnouncedWithout
<1>3. tries' \in [Entries -> 0..MaxTries]
  BY MaxTriesAssumption
<1>4. checkTimer' \in BOOLEAN /\ aborted' \in BOOLEAN
  BY Zenon
<1> QED
  BY <1>1, <1>2, <1>3, <1>4

\* The list is finite: its entries are some of the manager's.
LEMMA ListIsFinite == IsFiniteSet(devices) /\ Cardinality(devices) \in Nat
<1>1. devices \subseteq Entries
  BY DEF devices
<1>2. IsFiniteSet(devices)
  BY <1>1, EntriesAssumption, FS_Subset
<1> QED
  BY <1>2, FS_CardinalityType

\* Every step preserves the types.
LEMMA TypeStep ==
    ASSUME TypeOK, PathsDiffer, [Next]_vars
    PROVE  TypeOK'
<1> USE DEF TypeOK, entryVars, serviceVars, outsideVars, Ports
<1>1. ASSUME NEW i \in Ips, IfaceUp(i) PROVE TypeOK'
  BY <1>1 DEF IfaceUp
<1>2. ASSUME NEW p \in Paths, Unplug(p) PROVE TypeOK'
  BY <1>2 DEF Unplug, devices
<1>3. ASSUME NEW e \in Entries, NEW port \in Ports, DeviceConnects(e, port) PROVE TypeOK'
  BY <1>3 DEF DeviceConnects
<1>4. ASSUME NEW e \in Entries, NEW p \in Paths, NEW i \in Ips, DeviceConnected(e, p, i)
      PROVE  TypeOK'
  <2>1. Cardinality(devices) + 1 \in Nat
    BY ListIsFinite
  <2> QED
    BY <1>4, <2>1 DEF DeviceConnected
<1>5. ASSUME NEW probed \in SUBSET devices, NEW ok \in SUBSET devices,
             CheckInterface(probed, ok)
      PROVE  TypeOK'
  <2>1. tries' \in [Entries -> 0..MaxTries]
    BY <1>5, MaxTriesAssumption DEF CheckInterface, CreateDevice
  <2>2. checkTimer' \in BOOLEAN
    <3> HIDE DEF TypeOK
    <3>1. checkTimer' = Outstanding(probed, pending')
      BY <1>5, Zenon DEF CheckInterface
    <3> QED
      BY <3>1, OutstandingIsBoolean, Zenon
  <2>3. Tried(probed, ok) \subseteq Entries
    BY DEF Tried, devices
  <2>4. aborted' \in BOOLEAN
    BY <1>5, Zenon DEF CheckInterface
  <2>5. pending' \subseteq Entries /\ listening' \subseteq Entries /\ retryTimer' \subseteq Entries
    BY <1>5, <2>3 DEF CheckInterface, CreateDevice
  <2>6. UNCHANGED <<entryVars, device, named, announced, outsideVars>>
    BY <1>5, Zenon DEF CheckInterface
  <2> QED
    BY <2>1, <2>2, <2>4, <2>5, <2>6
<1>6. ASSUME NEW e \in Entries, TriggerRetry(e) PROVE TypeOK'
  BY <1>6, MaxTriesAssumption DEF TriggerRetry, GaveUp
<1>7. ASSUME NEW e \in Entries, NEW made \in BOOLEAN, LegacyConnected(e, made) PROVE TypeOK'
  BY <1>7 DEF LegacyConnected
<1>8. ASSUME NEW e \in Entries, NEW made \in BOOLEAN, RndisConnected(e, made) PROVE TypeOK'
  <2> HIDE DEF TypeOK
  <2> QED
    BY <1>8, RndisConnectedType, Zenon
<1>9. ASSUME NEW e \in Entries, ObjPathChanged(e) PROVE TypeOK'
  BY <1>9 DEF ObjPathChanged, PathsDiffer
<1>10. ASSUME NEW e \in Entries, UeventRemove(e) PROVE TypeOK'
  BY <1>10, DisconnectedType DEF UeventRemove
<1>11. ASSUME NEW e \in Entries, PingTimeout(e) PROVE TypeOK'
  BY <1>11, DisconnectedType DEF PingTimeout
<1>12. CASE UNCHANGED vars
  BY <1>12 DEF vars
<1> HIDE DEF TypeOK
<1> QED
  BY <1>1, <1>2, <1>3, <1>4, <1>5, <1>6, <1>7, <1>8, <1>9, <1>10, <1>11, <1>12 DEF Next

----------------------------------------------------------------------------
(* The list.                                                               *)

\* The list is as long as it has entries, and an entry appended is in it.
LEMMA ConnectedList ==
    ASSUME TypeOK, NEW e \in Entries, NEW p, NEW i, DeviceConnected(e, p, i)
    PROVE  /\ devices' = devices \cup {e} /\ e \notin devices
           /\ Cardinality(devices) \in Nat
           /\ Cardinality(devices') = Cardinality(devices) + 1
<1>1. IsFiniteSet(devices) /\ Cardinality(devices) \in Nat
  BY ListIsFinite
<1>2. devices' = devices \cup {e} /\ e \notin devices
  <2>1. e \notin devices /\ position' = [position EXCEPT ![e] = Cardinality(devices) + 1]
    BY DEF DeviceConnected
  <2>2. Cardinality(devices) + 1 # 0
    BY <1>1
  <2> QED
    BY <2>1, <2>2 DEF devices, TypeOK
<1> QED
  BY <1>1, <1>2, FS_AddElement

\* An entry unlinked is not in it any more, and the others are.
LEMMA DisconnectedList ==
    ASSUME TypeOK, NEW e \in Entries, DeviceDisconnected(e)
    PROVE  /\ devices' = devices \ {e} /\ e \in devices
           /\ Cardinality(devices) \in Nat
           /\ Cardinality(devices') = Cardinality(devices) - 1
<1>1. IsFiniteSet(devices) /\ Cardinality(devices) \in Nat
  BY ListIsFinite
<1>2. e \in devices
  BY DEF DeviceDisconnected
<1>3. \A d \in Entries : d # e => (position'[d] # 0 <=> position[d] # 0)
  BY <1>2 DEF DeviceDisconnected, Unlink, TypeOK, devices
<1>4. position'[e] = 0
  BY DEF DeviceDisconnected, Unlink
<1>5. devices' = devices \ {e}
  BY <1>3, <1>4 DEF devices
<1> QED
  BY <1>1, <1>2, <1>5, FS_RemoveElement

\* Places stay different, and within the list's length.
LEMMA PlacesStep ==
    ASSUME TypeOK, PlacesDiffer, [Next]_vars
    PROVE  PlacesDiffer'
<1>1. CASE UNCHANGED position
  BY <1>1 DEF PlacesDiffer, devices
<1>2. ASSUME NEW e \in Entries, NEW p \in Paths, NEW i \in Ips, DeviceConnected(e, p, i)
      PROVE  PlacesDiffer'
  <2>1. /\ devices' = devices \cup {e} /\ e \notin devices
        /\ Cardinality(devices) \in Nat
        /\ Cardinality(devices') = Cardinality(devices) + 1
    BY <1>2, ConnectedList
  <2>2. position' = [position EXCEPT ![e] = Cardinality(devices) + 1]
    BY <1>2 DEF DeviceConnected
  <2>3. devices \subseteq Entries
    BY DEF devices
  <2> QED
    BY <2>1, <2>2, <2>3 DEF PlacesDiffer, TypeOK
<1>3. ASSUME NEW e \in Entries, DeviceDisconnected(e) PROVE PlacesDiffer'
  <2>1. /\ devices' = devices \ {e} /\ e \in devices
        /\ Cardinality(devices) \in Nat
        /\ Cardinality(devices') = Cardinality(devices) - 1
    BY <1>3, DisconnectedList
  <2>2. \A d \in devices \ {e} :
          position'[d] = IF position[d] > position[e] THEN position[d] - 1 ELSE position[d]
    BY <1>3 DEF DeviceDisconnected, Unlink, devices
  <2>3. \A d \in devices \ {e} : position[d] # position[e]
    BY <2>1 DEF PlacesDiffer
  <2>4. \A d \in devices : position[d] \in Nat
    BY DEF TypeOK, devices
  <2> QED
    BY <2>1, <2>2, <2>3, <2>4 DEF PlacesDiffer
<1>4. ASSUME NEW e \in Entries, UeventRemove(e) \/ PingTimeout(e) PROVE PlacesDiffer'
  BY <1>3, <1>4 DEF UeventRemove, PingTimeout
<1>5. ASSUME NEW i \in Ips, IfaceUp(i) PROVE PlacesDiffer'
  BY <1>1, <1>5 DEF IfaceUp, entryVars
<1>6. ASSUME NEW p \in Paths, Unplug(p) PROVE PlacesDiffer'
  BY <1>1, <1>6 DEF Unplug, entryVars
<1>7. ASSUME NEW e \in Entries, NEW port \in Ports, DeviceConnects(e, port)
      PROVE  PlacesDiffer'
  BY <1>1, <1>7 DEF DeviceConnects, entryVars
<1>8. ASSUME NEW probed \in SUBSET devices, NEW ok \in SUBSET devices,
             CheckInterface(probed, ok)
      PROVE  PlacesDiffer'
  BY <1>1, <1>8 DEF CheckInterface, entryVars
<1>9. ASSUME NEW e \in Entries, TriggerRetry(e) \/ ObjPathChanged(e)
      PROVE  PlacesDiffer'
  BY <1>1, <1>9 DEF TriggerRetry, ObjPathChanged, entryVars
<1>10. ASSUME NEW e \in Entries, NEW made \in BOOLEAN, LegacyConnected(e, made)
       PROVE  PlacesDiffer'
  <2>1. UNCHANGED position
    BY <1>10, LegacyConnectedFrame, Zenon
  <2> QED
    BY <1>1, <2>1
<1>11. ASSUME NEW e \in Entries, NEW made \in BOOLEAN, RndisConnected(e, made)
       PROVE  PlacesDiffer'
  <2>1. UNCHANGED position
    BY <1>11, RndisConnectedFrame, Zenon
  <2> QED
    BY <1>1, <2>1
<1>12. CASE UNCHANGED vars
  BY <1>1, <1>12 DEF vars, entryVars
<1> QED
  BY <1>2, <1>4, <1>5, <1>6, <1>7, <1>8, <1>9, <1>10, <1>11, <1>12 DEF Next

----------------------------------------------------------------------------
(* Entries and what refers to them.                                        *)

EntryPart == NothingOutlivesEntry /\ EntryStages

\* What refers to an entry goes with it.
LEMMA DisconnectedEntry ==
    ASSUME TypeOK, EntryPart, NEW e \in Entries, DeviceDisconnected(e)
    PROVE  EntryPart'
<1> USE DEF EntryPart, NothingOutlivesEntry, EntryStages, DeviceDisconnected, EntryFree
<1>1. devices' = devices \ {e}
  BY DisconnectedList
<1>2. \A d \in Entries : device'[d] # "none" => d # e /\ device[d] # "none"
  BY DEF TypeOK
<1>3. NothingOutlivesEntry'
  BY <1>1, <1>2
<1>4. EntryStages'
  BY <1>2
<1> QED
  BY <1>3, <1>4

\* Every step leaves servers, timers and objects to entries in the list.
LEMMA EntryStep ==
    ASSUME TypeOK, EntryPart, [Next]_vars
    PROVE  EntryPart'
<1> USE DEF EntryPart, NothingOutlivesEntry, EntryStages, entryVars, serviceVars,
            outsideVars
<1>1. ASSUME NEW i \in Ips, IfaceUp(i) PROVE EntryPart'
  BY <1>1 DEF IfaceUp, devices
<1>2. ASSUME NEW p \in Paths, Unplug(p) PROVE EntryPart'
  BY <1>2 DEF Unplug, devices
<1>3. ASSUME NEW e \in Entries, NEW port \in Ports, DeviceConnects(e, port) PROVE EntryPart'
  BY <1>3 DEF DeviceConnects, devices
<1>4. ASSUME NEW e \in Entries, NEW p \in Paths, NEW i \in Ips, DeviceConnected(e, p, i)
      PROVE  EntryPart'
  <2>1. devices' = devices \cup {e} /\ e \notin devices
    BY <1>4, ConnectedList
  <2> QED
    BY <1>4, <2>1 DEF DeviceConnected
<1>5. ASSUME NEW probed \in SUBSET devices, NEW ok \in SUBSET devices,
             CheckInterface(probed, ok)
      PROVE  EntryPart'
  <2>1. Tried(probed, ok) \subseteq devices
    BY DEF Tried
  <2>2. /\ pending' = pending \ Tried(probed, ok)
        /\ listening' = listening \cup (Tried(probed, ok) \cap ok)
        /\ retryTimer' = retryTimer \cup ((Tried(probed, ok) \cap ok) \cap rndis)
        /\ UNCHANGED <<position, device, named, backlog, uevents>>
    BY <1>5 DEF CheckInterface, CreateDevice
  <2>3. devices' = devices
    BY <2>2 DEF devices
  <2> QED
    BY <2>1, <2>2, <2>3
<1>6. ASSUME NEW e \in Entries, TriggerRetry(e) PROVE EntryPart'
  BY <1>6 DEF TriggerRetry, devices
<1>7. ASSUME NEW e \in Entries, NEW made \in BOOLEAN, LegacyConnected(e, made) PROVE EntryPart'
  BY <1>7 DEF LegacyConnected, devices, TypeOK
<1>8. ASSUME NEW e \in Entries, NEW made \in BOOLEAN, RndisConnected(e, made) PROVE EntryPart'
  <2>1. UNCHANGED <<position, path, ip, pending, listening, named, uevents>>
    BY <1>8, RndisConnectedFrame, Zenon
  <2>2. <<e, 990>> \in backlog /\ backlog' = backlog \ {<<e, 990>>}
    BY <1>8, Zenon DEF RndisConnected
  <2>3. CASE device[e] = "none"
    <3>1. retryTimer' = retryTimer \ {e}
      BY <1>8, <2>3, Zenon DEF RndisConnected
    <3>2. device' = [device EXCEPT ![e] = "rndis"] \/ device' = device
      BY <1>8, <2>3, Zenon DEF RndisConnected
    <3>3. \A d \in Entries : device'[d] # "none" => d = e \/ device[d] # "none"
      BY <3>2 DEF TypeOK
    <3> QED
      BY <2>1, <2>2, <3>1, <3>3 DEF devices
  <2>4. CASE device[e] # "none"
    <3>1. retryTimer' = retryTimer /\ device' = device
      BY <1>8, <2>4, Zenon DEF RndisConnected
    <3> QED
      BY <2>1, <2>2, <3>1 DEF devices
  <2> QED
    BY <2>3, <2>4
<1>9. ASSUME NEW e \in Entries, ObjPathChanged(e) PROVE EntryPart'
  BY <1>9 DEF ObjPathChanged, devices
<1>10. ASSUME NEW e \in Entries, UeventRemove(e) PROVE EntryPart'
  BY <1>10, DisconnectedEntry DEF UeventRemove
<1>11. ASSUME NEW e \in Entries, PingTimeout(e) PROVE EntryPart'
  BY <1>11, DisconnectedEntry DEF PingTimeout
<1>12. CASE UNCHANGED vars
  BY <1>12 DEF vars, devices
<1> HIDE DEF EntryPart
<1> QED
  BY <1>1, <1>2, <1>3, <1>4, <1>5, <1>6, <1>7, <1>8, <1>9, <1>10, <1>11, <1>12 DEF Next

----------------------------------------------------------------------------
(* The timer of the interface check.                                       *)

\* Whoever appends an entry, or ends a pass, leaves the timer to those who wait.
LEMMA PendingStep ==
    ASSUME TypeOK, PendingIsProbed, [Next]_vars
    PROVE  PendingIsProbed'
<1>1. CASE devices' \subseteq devices /\ pending' \subseteq pending /\ UNCHANGED checkTimer
  BY <1>1 DEF PendingIsProbed
<1>2. ASSUME NEW i \in Ips, IfaceUp(i) PROVE PendingIsProbed'
  BY <1>1, <1>2 DEF IfaceUp, entryVars, serviceVars, devices
<1>3. ASSUME NEW p \in Paths, Unplug(p) PROVE PendingIsProbed'
  BY <1>1, <1>3 DEF Unplug, entryVars, serviceVars, devices
<1>4. ASSUME NEW e \in Entries, NEW port \in Ports, DeviceConnects(e, port)
      PROVE  PendingIsProbed'
  BY <1>1, <1>4 DEF DeviceConnects, entryVars, serviceVars, devices
<1>5. ASSUME NEW e \in Entries, NEW p \in Paths, NEW i \in Ips, DeviceConnected(e, p, i)
      PROVE  PendingIsProbed'
  BY <1>5 DEF DeviceConnected, PendingIsProbed
<1>6. ASSUME NEW probed \in SUBSET devices, NEW ok \in SUBSET devices,
             CheckInterface(probed, ok)
      PROVE  PendingIsProbed'
  <2>1. checkTimer' = Outstanding(probed, pending') /\ devices' = devices
    BY <1>6, Zenon DEF CheckInterface, entryVars, devices
  <2>2. ASSUME NEW e \in devices, e \in pending' PROVE checkTimer'
    BY <2>1, <2>2 DEF Outstanding
  <2> QED
    BY <2>1, <2>2 DEF PendingIsProbed
<1>7. ASSUME NEW e \in Entries, TriggerRetry(e) \/ ObjPathChanged(e)
      PROVE  PendingIsProbed'
  BY <1>1, <1>7 DEF TriggerRetry, ObjPathChanged, entryVars, serviceVars, devices
<1>8. ASSUME NEW e \in Entries, NEW made \in BOOLEAN, LegacyConnected(e, made)
      PROVE  PendingIsProbed'
  <2>1. UNCHANGED <<position, pending, checkTimer>>
    BY <1>8, LegacyConnectedFrame, Zenon
  <2> QED
    BY <1>1, <2>1 DEF devices
<1>9. ASSUME NEW e \in Entries, NEW made \in BOOLEAN, RndisConnected(e, made)
      PROVE  PendingIsProbed'
  <2>1. UNCHANGED <<position, pending, checkTimer>>
    BY <1>9, RndisConnectedFrame, Zenon
  <2> QED
    BY <1>1, <2>1 DEF devices
<1>10. ASSUME NEW e \in Entries, DeviceDisconnected(e) PROVE PendingIsProbed'
  BY <1>1, <1>10, DisconnectedList DEF DeviceDisconnected, EntryFree
<1>11. ASSUME NEW e \in Entries, UeventRemove(e) \/ PingTimeout(e) PROVE PendingIsProbed'
  BY <1>10, <1>11 DEF UeventRemove, PingTimeout
<1>12. CASE UNCHANGED vars
  BY <1>1, <1>12 DEF vars, entryVars, serviceVars, devices
<1> QED
  BY <1>2, <1>3, <1>4, <1>5, <1>6, <1>7, <1>8, <1>9, <1>11, <1>12 DEF Next

----------------------------------------------------------------------------
(* Addresses.                                                              *)

\* A pass of the check gives an address to the first entry that can listen on it.
LEMMA CheckInterfaceAddress ==
    ASSUME TypeOK, PlacesDiffer, AddressOwned,
           NEW probed \in SUBSET devices, NEW ok \in SUBSET devices,
           CheckInterface(probed, ok)
    PROVE  AddressOwned'
<1> DEFINE start == Tried(probed, ok) \cap ok
<1>1. listening' = listening \cup start /\ ip' = ip
  BY DEF CheckInterface, CreateDevice, entryVars
<1>2. ASSUME NEW d \in start, NEW e \in listening PROVE ip[d] # ip[e]
  BY DEF Tried, Bindable
<1>3. ASSUME NEW d \in start, NEW e \in start, ip[d] = ip[e] PROVE d = e
  <2>1. d \in probed \cap ok /\ e \in probed \cap ok
    BY DEF Tried
  <2>2. position[d] >= position[e] /\ position[e] >= position[d]
    BY <1>3, <2>1 DEF Tried
  <2>3. position[d] \in Nat /\ position[e] \in Nat
    BY <2>1 DEF TypeOK, devices
  <2>4. position[d] = position[e]
    BY <2>2, <2>3
  <2> QED
    BY <2>1, <2>4 DEF PlacesDiffer
<1> HIDE DEF start
<1> QED
  BY <1>1, <1>2, <1>3 DEF AddressOwned

\* No other step lets an entry listen, or changes the address of one that does.
LEMMA AddressStep ==
    ASSUME TypeOK, PlacesDiffer, EntryPart, AddressOwned, [Next]_vars
    PROVE  AddressOwned'
<1>1. CASE UNCHANGED <<ip, listening>>
  BY <1>1 DEF AddressOwned
<1>2. ASSUME NEW i \in Ips, IfaceUp(i) PROVE AddressOwned'
  BY <1>1, <1>2 DEF IfaceUp, entryVars, serviceVars
<1>3. ASSUME NEW p \in Paths, Unplug(p) PROVE AddressOwned'
  BY <1>1, <1>3 DEF Unplug, entryVars, serviceVars
<1>4. ASSUME NEW e \in Entries, NEW port \in Ports, DeviceConnects(e, port)
      PROVE  AddressOwned'
  BY <1>1, <1>4 DEF DeviceConnects, entryVars, serviceVars
<1>5. ASSUME NEW e \in Entries, NEW p \in Paths, NEW i \in Ips, DeviceConnected(e, p, i)
      PROVE  AddressOwned'
  <2>1. e \notin listening /\ UNCHANGED listening /\ ip' = [ip EXCEPT ![e] = i]
    BY <1>5 DEF DeviceConnected, EntryPart, NothingOutlivesEntry
  <2> QED
    BY <2>1 DEF AddressOwned, TypeOK
<1>6. ASSUME NEW probed \in SUBSET devices, NEW ok \in SUBSET devices,
             CheckInterface(probed, ok)
      PROVE  AddressOwned'
  BY <1>6, CheckInterfaceAddress
<1>7. ASSUME NEW e \in Entries, TriggerRetry(e) \/ ObjPathChanged(e) PROVE AddressOwned'
  BY <1>1, <1>7 DEF TriggerRetry, ObjPathChanged, entryVars
<1>8. ASSUME NEW e \in Entries, NEW made \in BOOLEAN, LegacyConnected(e, made)
      PROVE  AddressOwned'
  <2>1. UNCHANGED <<ip, listening>>
    BY <1>8, LegacyConnectedFrame, Zenon
  <2> QED
    BY <1>1, <2>1
<1>9. ASSUME NEW e \in Entries, NEW made \in BOOLEAN, RndisConnected(e, made)
      PROVE  AddressOwned'
  <2>1. UNCHANGED <<ip, listening>>
    BY <1>9, RndisConnectedFrame, Zenon
  <2> QED
    BY <1>1, <2>1
<1>10. ASSUME NEW e \in Entries, DeviceDisconnected(e) PROVE AddressOwned'
  <2>1. listening' = listening \ {e} /\ ip' = [ip EXCEPT ![e] = None]
    BY <1>10 DEF DeviceDisconnected, EntryFree
  <2> QED
    BY <2>1 DEF AddressOwned, TypeOK
<1>11. ASSUME NEW e \in Entries, UeventRemove(e) \/ PingTimeout(e) PROVE AddressOwned'
  BY <1>10, <1>11 DEF UeventRemove, PingTimeout
<1>12. CASE UNCHANGED vars
  BY <1>1, <1>12 DEF vars, entryVars, serviceVars
<1> QED
  BY <1>2, <1>3, <1>4, <1>5, <1>6, <1>7, <1>8, <1>9, <1>11, <1>12 DEF Next

----------------------------------------------------------------------------
(* What clients are told.                                                  *)

AnnouncedPart == ListedIsAnnounced /\ PathsDiffer

\* Only the path of the object that goes is announced as gone, since no other
\* object has it.
LEMMA DisconnectedAnnounced ==
    ASSUME TypeOK, EntryPart, AnnouncedPart, NEW e \in Entries, DeviceDisconnected(e)
    PROVE  AnnouncedPart'
<1>1. /\ announced' = AnnouncedWithout(e) /\ named' = named \ {e}
      /\ path' = [path EXCEPT ![e] = None] /\ ip' = [ip EXCEPT ![e] = None]
  BY DEF DeviceDisconnected, EntryFree
<1>2. devices' = devices \ {e} /\ e \in devices
  BY DisconnectedList
<1>3. devices \subseteq Entries /\ named \subseteq devices
  BY DEF devices, EntryPart, NothingOutlivesEntry
<1>4. \A d \in Entries \ {e} : path'[d] = path[d] /\ ip'[d] = ip[d]
  BY <1>1 DEF TypeOK
<1>5. PathsDiffer'
  BY <1>1, <1>2, <1>3, <1>4 DEF AnnouncedPart, PathsDiffer
<1>6. {path'[d] : d \in devices' \cap named'} = {path[d] : d \in (devices \cap named) \ {e}}
  BY <1>1, <1>2, <1>3, <1>4
<1>7. CASE e \in named
  <2>1. \A d \in named \ {e} : path[d] # path[e]
    BY <1>7 DEF AnnouncedPart, PathsDiffer
  <2>2. {path[d] : d \in (devices \cap named) \ {e}}
          = {path[d] : d \in devices \cap named} \ {path[e]}
    BY <2>1
  <2> QED
    BY <1>1, <1>5, <1>6, <1>7, <2>2
    DEF AnnouncedPart, ListedIsAnnounced, AnnouncedWithout
<1>8. CASE e \notin named
  <2>1. (devices \cap named) \ {e} = devices \cap named
    BY <1>8
  <2> QED
    BY <1>1, <1>5, <1>6, <1>8, <2>1
    DEF AnnouncedPart, ListedIsAnnounced, AnnouncedWithout
<1> QED
  BY <1>7, <1>8

\* Every step keeps the announcements and the list the same.
LEMMA AnnouncedStep ==
    ASSUME TypeOK, EntryPart, AnnouncedPart, [Next]_vars
    PROVE  AnnouncedPart'
<1>1. CASE UNCHANGED <<position, path, ip, named, announced>>
  BY <1>1 DEF AnnouncedPart, ListedIsAnnounced, PathsDiffer, devices
<1>2. ASSUME NEW i \in Ips, IfaceUp(i) PROVE AnnouncedPart'
  BY <1>1, <1>2 DEF IfaceUp, entryVars, serviceVars
<1>3. ASSUME NEW p \in Paths, Unplug(p) PROVE AnnouncedPart'
  BY <1>1, <1>3 DEF Unplug, entryVars, serviceVars
<1>4. ASSUME NEW e \in Entries, NEW port \in Ports, DeviceConnects(e, port)
      PROVE  AnnouncedPart'
  BY <1>1, <1>4 DEF DeviceConnects, entryVars, serviceVars
<1>5. ASSUME NEW e \in Entries, NEW p \in Paths, NEW i \in Ips, DeviceConnected(e, p, i)
      PROVE  AnnouncedPart'
  <2>1. devices' = devices \cup {e} /\ e \notin devices /\ e \notin named
    BY <1>5, ConnectedList DEF EntryPart, NothingOutlivesEntry
  <2>2. /\ UNCHANGED <<named, announced>>
        /\ path' = [path EXCEPT ![e] = p] /\ ip' = [ip EXCEPT ![e] = i]
    BY <1>5 DEF DeviceConnected
  <2>3. devices \subseteq Entries /\ named \subseteq Entries
    BY DEF devices, TypeOK
  <2>4. \A d \in Entries \ {e} : path'[d] = path[d] /\ ip'[d] = ip[d]
    BY <2>2 DEF TypeOK
  <2>5. path'[e] = p /\ ip'[e] = i
    BY <2>2 DEF TypeOK
  <2>6. PathsDiffer'
    BY <2>1, <2>2, <2>3, <2>4, <2>5 DEF AnnouncedPart, PathsDiffer
  <2>7. {path'[d] : d \in devices' \cap named'} = {path[d] : d \in devices \cap named}
    BY <2>1, <2>2, <2>3, <2>4
  <2> QED
    BY <2>2, <2>6, <2>7 DEF AnnouncedPart, ListedIsAnnounced
<1>6. ASSUME NEW probed \in SUBSET devices, NEW ok \in SUBSET devices,
             CheckInterface(probed, ok)
      PROVE  AnnouncedPart'
  BY <1>1, <1>6 DEF CheckInterface, entryVars
<1>7. ASSUME NEW e \in Entries, TriggerRetry(e) PROVE AnnouncedPart'
  BY <1>1, <1>7 DEF TriggerRetry, entryVars
<1>8. ASSUME NEW e \in Entries, NEW made \in BOOLEAN, LegacyConnected(e, made)
      PROVE  AnnouncedPart'
  <2>1. UNCHANGED <<position, path, ip, named, announced>>
    BY <1>8, LegacyConnectedFrame, Zenon
  <2> QED
    BY <1>1, <2>1
<1>9. ASSUME NEW e \in Entries, NEW made \in BOOLEAN, RndisConnected(e, made)
      PROVE  AnnouncedPart'
  <2>1. UNCHANGED <<position, path, ip, named, announced>>
    BY <1>9, RndisConnectedFrame, Zenon
  <2> QED
    BY <1>1, <2>1
<1>10. ASSUME NEW e \in Entries, ObjPathChanged(e) PROVE AnnouncedPart'
  <2>1. /\ e \in devices /\ \A d \in named : path[d] # path[e]
        /\ named' = named \cup {e} /\ announced' = announced \cup {path[e]}
        /\ UNCHANGED <<position, path, ip>>
    BY <1>10 DEF ObjPathChanged, entryVars
  <2>2. {path[d] : d \in devices \cap (named \cup {e})}
          = {path[d] : d \in devices \cap named} \cup {path[e]}
    BY <2>1
  <2> QED
    BY <2>1, <2>2 DEF AnnouncedPart, ListedIsAnnounced, PathsDiffer, devices
<1>11. ASSUME NEW e \in Entries, UeventRemove(e) \/ PingTimeout(e) PROVE AnnouncedPart'
  BY <1>11, DisconnectedAnnounced DEF UeventRemove, PingTimeout
<1>12. CASE UNCHANGED vars
  BY <1>1, <1>12 DEF vars, entryVars, serviceVars
<1> QED
  BY <1>2, <1>3, <1>4, <1>5, <1>6, <1>7, <1>8, <1>9, <1>10, <1>11, <1>12 DEF Next

----------------------------------------------------------------------------
(* The invariant, and the safety properties that follow from it.           *)

\* The initial state, with no entry, satisfies the invariant.
LEMMA InitIndInv == Init => IndInv
<1> SUFFICES ASSUME Init PROVE IndInv
  OBVIOUS
<1>1. TypeOK
  <2>1. checkTimer \in BOOLEAN /\ aborted \in BOOLEAN
    BY Zenon DEF Init
  <2> QED
    BY <2>1, MaxTriesAssumption DEF Init, TypeOK
<1>2. devices = {}
  BY DEF Init, devices
<1> QED
  BY <1>1, <1>2 DEF Init, IndInv, PendingIsProbed, ListedIsAnnounced,
     NothingOutlivesEntry, EntryStages, AddressOwned, PlacesDiffer, PathsDiffer

\* Every step preserves it.
LEMMA NextIndInv == IndInv /\ [Next]_vars => IndInv'
  BY TypeStep, PendingStep, EntryStep, AddressStep, PlacesStep, AnnouncedStep
     DEF IndInv, EntryPart, AnnouncedPart

\* IndInv, the invariant the properties rest on, holds in every reachable state of
\* the manager, however many devices come and go.
THEOREM ManagerInvariance == Spec => []IndInv
  BY InitIndInv, NextIndInv, PTL DEF Spec

\* An entry whose interface is awaited is always being probed for.
THEOREM PendingProbed == Spec => []PendingIsProbed
<1>1. IndInv => PendingIsProbed
  BY DEF IndInv
<1> QED
  BY <1>1, ManagerInvariance, PTL

\* Clients that follow the signals know the list's objects.
THEOREM AnnouncementsFit == Spec => []ListedIsAnnounced
<1>1. IndInv => ListedIsAnnounced
  BY DEF IndInv
<1> QED
  BY <1>1, ManagerInvariance, PTL

\* Nothing refers to an entry after it was freed.
THEOREM EntriesFreedAlone == Spec => []NothingOutlivesEntry
<1>1. IndInv => NothingOutlivesEntry
  BY DEF IndInv
<1> QED
  BY <1>1, ManagerInvariance, PTL

\* No two servers are on one address.
THEOREM AddressesOwned == Spec => []AddressOwned
<1>1. IndInv => AddressOwned
  BY DEF IndInv
<1> QED
  BY <1>1, ManagerInvariance, PTL
=============================================================================
