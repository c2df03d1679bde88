----------------------- MODULE SynceDeviceLegacyProofs -----------------------
(***************************************************************************)
(* Proofs about SynceDeviceLegacy, for every set of calls and every        *)
(* MaxPings: its safety properties, and that each step of it is a step of  *)
(* DeviceContract.                                                         *)
(***************************************************************************)
EXTENDS SynceDeviceLegacy, TLAPS

USE DEF HANDSHAKE, GETTING_INFO, GOT_INFO, AUTH, CONNECTED,
        UNSET, PROVIDE, PROVIDE_ON_DEVICE, CHECKING, UNLOCKED

----------------------------------------------------------------------------
(* The invariant.                                                          *)

\* Nobody waits for a verdict.
NobodyWaits == \A p \in PwCalls : pwAnswer[p] # "waiting"

\* Up to the description there is no password call and no ping; while a verdict
\* is awaited the password sent is kept and its caller waits; a connected device
\* has the password that it took.
PhaseInv ==
    /\ state \in {HANDSHAKE, GETTING_INFO, GOT_INFO} =>
         pwFlags = UNSET /\ pwCtx = NoCall /\ password = "none" /\ NobodyWaits
    /\ state = AUTH =>
         /\ pwKey = "key"
         /\ \/ pwFlags = PROVIDE /\ rd = "none" /\ NobodyWaits
            \/ /\ pwFlags = CHECKING /\ password = "set" /\ pwCtx \in PwCalls
               /\ \A p \in PwCalls : pwAnswer[p] = "waiting" <=> p = pwCtx
    /\ state = CONNECTED =>
         /\ pwCtx = NoCall /\ NobodyWaits
         /\ password = IF pwKey = "key" THEN "set" ELSE "none"
    /\ \A p \in PwCalls : pwAnswer[p] # "twice"
    /\ pwKey # "ondevice"

\* The pings are those of a connected device, and at most MaxPings of them.
PingInv ==
    /\ pingTimer => state = CONNECTED
    /\ state # CONNECTED => pingCount = 0
    /\ life = "live" => pingCount < MaxPings

\* What a broker holds follows from how far its call is.
RequestInv ==
    \A c \in ReqCalls :
        /\ rqAnswer[c] # "twice"
        /\ rqAnswer[c] = "idle" =>
             rapi[c] = "none" /\ brokerConn[c] = NoConn /\ c \notin requests
        /\ life = "live" /\ rapi[c] \in {"connecting", "checking"} =>
             rqAnswer[c] = "waiting" /\ brokerConn[c] = NoConn /\ c \in requests
        /\ c \in brokerServer =>
             /\ rqAnswer[c] = "path" /\ brokerConn[c] = c
             /\ c \in requests /\ delivered[c] = NoConn
        /\ delivered[c] # NoConn => rqAnswer[c] = "path"

\* The brokers have different ids, the last of which is reqId.
IdInv ==
    /\ \A c \in ReqCalls : brokerId[c] <= reqId /\ (c \in requests => brokerId[c] # 0)
    /\ \A c, d \in ReqCalls : c # d /\ brokerId[c] # 0 => brokerId[c] # brokerId[d]

IndInv == TypeOK /\ PhaseInv /\ PingInv /\ RequestInv /\ IdInv

----------------------------------------------------------------------------
(* Types.                                                                  *)

\* The handlers of the control connection and the timer preserve the types.
LEMMA ConnEventTypes ==
    ASSUME TypeOK, PingInv, NEW m \in Messages, ConnEvent(m)
    PROVE  TypeOK'
<1> USE MaxPingsAssumption
    DEF TypeOK, BrokerTypeOK, DeviceTypeOK, ReadCompletes, Reads, Messages,
        Infos, PwKeys, Short, Nothing, brokerVars, legacyVars
<1>1. CASE HandshakeEvent(m)
  <2>1. sizeKnown' \in BOOLEAN
    <3>1. sizeKnown' = (m = "size")
      BY <1>1 DEF HandshakeEvent
    <3> QED
      BY <3>1, Zenon
  <2> QED
    BY <1>1, <2>1 DEF HandshakeEvent
<1>2. CASE InfoEvent(m)
  <2>1. pingTimer' \in BOOLEAN
    <3>1. pingTimer' = pingTimer \/ pingTimer' = (pwKey = "none")
      BY <1>2 DEF InfoEvent, InfoReceived, MalformedInfo
    <3> QED
      BY <3>1, Zenon
  <2>2. exported' \in BOOLEAN
    BY <1>2 DEF InfoEvent, InfoReceived, MalformedInfo, DbusInit
  <2>3. state' \in 0..4 /\ pwFlags' \in 0..4
    BY <1>2 DEF InfoEvent, InfoReceived, MalformedInfo
  <2> QED
    BY <1>2, <2>1, <2>2, <2>3 DEF InfoEvent
<1>3. CASE VerdictEvent(m)
  <2>1. pingTimer' \in BOOLEAN
    BY <1>3, Zenon DEF VerdictEvent
  <2>2. state' \in 0..4 /\ pwFlags' \in 0..4
    BY <1>3 DEF VerdictEvent
  <2>3. password' \in {"none", "set", "freed"}
    BY <1>3 DEF VerdictEvent
  <2>4. pwAnswer' \in [PwCalls -> PwAnswers] /\ pwCtx' \in PwCalls \cup {NoCall}
    BY <1>3 DEF VerdictEvent, AnswerPassword, Reply, PwAnswers
  <2> QED
    BY <1>3, <2>1, <2>2, <2>3, <2>4 DEF VerdictEvent
<1>4. CASE PingReplyEvent(m)
  <2>1. CASE m = Short
    BY <1>4, <2>1 DEF PingReplyEvent
  <2>2. CASE m # Short
    <3>1. PICK word \in InBuffer(m) :
            /\ ReadCompletes(m, IF word = "0" THEN "4" ELSE "none")
            /\ pingCount' = IF word = "ping" THEN 0 ELSE pingCount
      BY <1>4, <2>2 DEF PingReplyEvent
    <3>2. freshBuf' \in BOOLEAN
      BY <1>4, <2>2, Zenon DEF PingReplyEvent
    <3>3. pingCount' \in 0..MaxPings /\ rd' \in Reads
      BY <3>1
    <3>4. wire' \in Messages \cup {Nothing}
      BY <3>1
    <3> QED
      BY <1>4, <2>2, <3>2, <3>3, <3>4 DEF PingReplyEvent
  <2> QED
    BY <2>1, <2>2
<1> QED
  BY <1>1, <1>2, <1>3, <1>4 DEF ConnEvent

\* So does every other step.
LEMMA TypeStep ==
    ASSUME TypeOK, PingInv, [Next]_vars
    PROVE  TypeOK'
<1> USE OneConnectionPerCall
    DEF TypeOK, BrokerTypeOK, DeviceTypeOK, brokerVars, legacyVars, deviceVars, pingVars
<1>1. ASSUME NEW m \in Messages, ConnEvent(m) PROVE TypeOK'
  BY <1>1, ConnEventTypes
<1>2. CASE SendPing
  <2>1. pingCount + 1 \in 0..MaxPings /\ rd' \in Reads
    BY <1>2, MaxPingsAssumption DEF SendPing, PingInv, Reads
  <2>2. CASE TooManyPings(pingCount')
    BY <1>2, <2>1, <2>2 DEF SendPing, DeviceGone, Dispose, BrokersDispose
  <2>3. CASE ~TooManyPings(pingCount')
    BY <1>2, <2>1, <2>3 DEF SendPing
  <2> QED
    BY <2>2, <2>3
<1>3. ASSUME NEW c \in ReqCalls, NEW ok \in BOOLEAN, ClientEvent(c, ok) PROVE TypeOK'
  BY <1>3 DEF ClientEvent, RapiStates, TakeConnection, Reply, RqAnswers
<1>4. ASSUME NEW c \in ReqCalls, NEW ok \in BOOLEAN, ClientPasswordEvent(c, ok) PROVE TypeOK'
  BY <1>4 DEF ClientPasswordEvent, RapiStates, TakeConnection, Reply, RqAnswers
<1>5. ASSUME NEW c \in ReqCalls, StaleClientEvent(c) PROVE TypeOK'
  BY <1>5 DEF StaleClientEvent, RapiStates
<1>6. CASE StaleRead /\ UNCHANGED legacyVars
  BY <1>6 DEF StaleRead, Reads
<1>7. CASE StalePing
  BY <1>7 DEF StalePing
<1>8. ASSUME NEW m \in Messages, DeviceSend(m), UNCHANGED legacyVars PROVE TypeOK'
  BY <1>8 DEF DeviceSend
<1>9. CASE LinkBreaks /\ UNCHANGED legacyVars
  BY <1>9 DEF LinkBreaks
<1>10. CASE DeviceRemoved
  BY <1>10 DEF DeviceRemoved, DeviceGone, Dispose, BrokersDispose
<1>11. ASSUME NEW p \in PwCalls, LegacyPassword(p) PROVE TypeOK'
  BY <1>11 DEF LegacyPassword, ProvidePassword, Reply, PwAnswers, Reads
<1>12. ASSUME NEW p \in PwCalls, LegacyPasswordRefused(p) PROVE TypeOK'
  BY <1>12 DEF LegacyPasswordRefused, Reply, PwAnswers
<1>13. ASSUME NEW c \in ReqCalls, RequestConnection(c) PROVE TypeOK'
  BY <1>13 DEF RequestConnection, NewBroker, Reply, RqAnswers, RapiStates
<1>14. ASSUME NEW c \in ReqCalls, RequestRefused(c) PROVE TypeOK'
  BY <1>14 DEF RequestRefused, Reply, RqAnswers
<1>15. ASSUME NEW c \in ReqCalls, NEW sent \in BOOLEAN, BrokerEvent(c, sent) PROVE TypeOK'
  BY <1>15 DEF BrokerEvent, ServerSocketReadable, ConnBrokerDone, Lookup
<1>16. CASE UNCHANGED vars
  BY <1>16 DEF vars
<1> QED
  BY <1>1, <1>2, <1>3, <1>4, <1>5, <1>6, <1>7, <1>8, <1>9, <1>10, <1>11, <1>12, <1>13,
     <1>14, <1>15, <1>16
     DEF Next, Daemon, Environment

----------------------------------------------------------------------------
(* Phases and pings.                                                       *)

PhaseVars == <<state, pwFlags, pwKey, pwCtx, rd, pwAnswer, password>>

PhasePart == PhaseInv /\ PingInv

\* The handlers of the control connection keep the phases, state by state.
LEMMA ConnEventPhases ==
    ASSUME TypeOK, PhasePart, NEW m \in Messages, ConnEvent(m)
    PROVE  PhasePart'
<1> USE MaxPingsAssumption
    DEF PhasePart, PhaseInv, PingInv, NobodyWaits, TypeOK, DeviceTypeOK,
        ReadCompletes, Messages, Infos, PwKeys, Short, Nothing, legacyVars
<1>1. CASE HandshakeEvent(m)
  BY <1>1 DEF HandshakeEvent
<1>2. CASE InfoEvent(m)
  <2>1. CASE m \notin PwKeys
    BY <1>2, <2>1 DEF InfoEvent, MalformedInfo
  <2>2. CASE m \in PwKeys
    BY <1>2, <2>2 DEF InfoEvent, InfoReceived
  <2> QED
    BY <2>1, <2>2
<1>3. CASE VerdictEvent(m)
  <2>1. /\ pwKey = "key" /\ pwFlags = CHECKING /\ password = "set" /\ pwCtx \in PwCalls
        /\ \A p \in PwCalls : pwAnswer[p] = "waiting" <=> p = pwCtx
    BY <1>3 DEF VerdictEvent
  <2>2. pwCtx # NoCall
    BY <2>1, NoCallAssumption
  <2>3. CASE m = Short
    BY <1>3, <2>1, <2>3 DEF VerdictEvent
  <2>4. CASE m = "0"
    BY <1>3, <2>1, <2>2, <2>4 DEF VerdictEvent, AnswerPassword, Reply, PwAnswers
  <2>5. CASE m \notin {Short, "0"}
    BY <1>3, <2>1, <2>2, <2>5 DEF VerdictEvent, AnswerPassword, Reply, PwAnswers
  <2> QED
    BY <2>3, <2>4, <2>5
<1>4. CASE PingReplyEvent(m)
  BY <1>4 DEF PingReplyEvent
<1> QED
  BY <1>1, <1>2, <1>3, <1>4 DEF ConnEvent

\* So does every other step.
LEMMA PhaseStep ==
    ASSUME TypeOK, PhasePart, [Next]_vars
    PROVE  PhasePart'
<1> USE DEF TypeOK, DeviceTypeOK
<1>1. ASSUME UNCHANGED <<PhaseVars, pingTimer, pingCount>>, life' = life \/ life' # "live"
      PROVE  PhasePart'
  BY <1>1 DEF PhasePart, PhaseInv, PingInv, NobodyWaits, PhaseVars
<1>2. ASSUME NEW m \in Messages, ConnEvent(m) PROVE PhasePart'
  BY <1>2, ConnEventPhases
<1>3. CASE SendPing
  <2>1. /\ state = CONNECTED /\ UNCHANGED <<state, pwFlags, pwKey, pwCtx, pwAnswer, password>>
        /\ pingTimer' => pingTimer
    BY <1>3 DEF SendPing, DeviceGone, Dispose, PhasePart, PingInv
  <2>2. PhaseInv'
    BY <2>1 DEF PhasePart, PhaseInv, NobodyWaits
  <2>3. pingCount' = pingCount + 1 /\ pingCount' <= MaxPings
    BY <1>3, MaxPingsAssumption DEF SendPing, PhasePart, PingInv
  <2>4. life' = "live" => pingCount' # MaxPings
    BY <1>3 DEF SendPing, DeviceGone, TooManyPings
  <2>5. PingInv'
    BY <2>1, <2>3, <2>4, MaxPingsAssumption DEF PingInv
  <2> QED
    BY <2>2, <2>5 DEF PhasePart
<1>4. ASSUME NEW c \in ReqCalls, NEW ok \in BOOLEAN,
             ClientEvent(c, ok) \/ ClientPasswordEvent(c, ok)
      PROVE  PhasePart'
  BY <1>1, <1>4 DEF ClientEvent, ClientPasswordEvent, PhaseVars, deviceVars, pingVars
<1>5. ASSUME NEW c \in ReqCalls, StaleClientEvent(c) PROVE PhasePart'
  BY <1>1, <1>5 DEF StaleClientEvent, PhaseVars, pingVars
<1>6. CASE StaleRead /\ UNCHANGED legacyVars
  BY <1>6 DEF StaleRead, legacyVars, pingVars, PhasePart, PhaseInv, PingInv, NobodyWaits
<1>7. CASE StalePing
  BY <1>7 DEF StalePing, PhasePart, PhaseInv, PingInv, NobodyWaits
<1>8. ASSUME (\E m \in Messages : DeviceSend(m)) \/ LinkBreaks, UNCHANGED legacyVars
      PROVE  PhasePart'
  BY <1>1, <1>8 DEF DeviceSend, LinkBreaks, PhaseVars, legacyVars
<1>9. CASE DeviceRemoved
  BY <1>1, <1>9 DEF DeviceRemoved, DeviceGone, Dispose, PhaseVars, legacyVars
<1>10. ASSUME NEW p \in PwCalls, LegacyPassword(p) PROVE PhasePart'
  <2>1. /\ state = AUTH /\ pwKey = "key" /\ pwFlags = PROVIDE /\ pwAnswer[p] = "idle"
        /\ rd = "none" /\ NobodyWaits
    BY <1>10, NoCallAssumption
       DEF LegacyPassword, ProvidePassword, PhasePart, PhaseInv, Provide
  <2>2. /\ pwCtx' = p /\ password' = "set"
        /\ UNCHANGED <<state, pwKey, life, pingTimer, pingCount>>
    BY <1>10 DEF LegacyPassword, ProvidePassword, pingVars
  <2>3. \/ rd' = "2" /\ pwFlags' = CHECKING /\ pwAnswer' = [pwAnswer EXCEPT ![p] = "waiting"]
        \/ pwAnswer' = [pwAnswer EXCEPT ![p] = "error"] /\ UNCHANGED <<rd, pwFlags>>
    BY <1>10, <2>1 DEF LegacyPassword, ProvidePassword, Reply
  <2>4. PingInv'
    BY <2>2 DEF PhasePart, PingInv
  <2>5. PhaseInv'
    BY <2>1, <2>2, <2>3 DEF PhasePart, PhaseInv, NobodyWaits
  <2> QED
    BY <2>4, <2>5 DEF PhasePart
<1>11. ASSUME NEW p \in PwCalls, LegacyPasswordRefused(p) PROVE PhasePart'
  <2>1. /\ pwAnswer[p] = "idle" /\ pwAnswer' = [pwAnswer EXCEPT ![p] = "error"]
        /\ UNCHANGED <<state, pwFlags, pwKey, pwCtx, rd, password, life, pingTimer, pingCount>>
    BY <1>11 DEF LegacyPasswordRefused, Reply, legacyVars
  <2> QED
    BY <2>1 DEF PhasePart, PhaseInv, PingInv, NobodyWaits
<1>12. ASSUME NEW c \in ReqCalls, RequestConnection(c) \/ RequestRefused(c) PROVE PhasePart'
  BY <1>1, <1>12 DEF RequestConnection, RequestRefused, PhaseVars, legacyVars, pingVars
<1>13. ASSUME NEW c \in ReqCalls, NEW sent \in BOOLEAN, BrokerEvent(c, sent) PROVE PhasePart'
  BY <1>1, <1>13 DEF BrokerEvent, PhaseVars, deviceVars, legacyVars
<1>14. CASE UNCHANGED vars
  BY <1>1, <1>14 DEF vars, PhaseVars, deviceVars, legacyVars
<1> QED
  BY <1>2, <1>3, <1>4, <1>5, <1>6, <1>7, <1>8, <1>9, <1>10, <1>11, <1>12, <1>13, <1>14
     DEF Next, Daemon, Environment

----------------------------------------------------------------------------
(* Requests and brokers.                                                   *)

\* A broker takes the connection made for its call.
LEMMA ConnectionMade ==
    ASSUME TypeOK, RequestInv, life = "live", UNCHANGED life,
           NEW c \in ReqCalls, rapi[c] \in {"connecting", "checking"},
           rapi' = [rapi EXCEPT ![c] = "over"],
           NEW bound \in BOOLEAN, TakeConnection(c, c, bound)
    PROVE  RequestInv'
<1> USE DEF TypeOK, BrokerTypeOK
<1>1. rqAnswer[c] = "waiting" /\ c \in requests /\ c \notin brokerServer /\ delivered[c] = NoConn
  BY DEF RequestInv
<1>2. /\ rqAnswer' = [rqAnswer EXCEPT ![c] = IF bound THEN "path" ELSE "error"]
      /\ brokerConn' = [brokerConn EXCEPT ![c] = c]
      /\ UNCHANGED <<requests, delivered>>
      /\ brokerServer' = IF bound THEN brokerServer \cup {c} ELSE brokerServer
  BY <1>1 DEF TakeConnection, Reply
<1>3. ASSUME NEW d \in ReqCalls, d # c
      PROVE  /\ rqAnswer'[d] = rqAnswer[d] /\ brokerConn'[d] = brokerConn[d]
             /\ rapi'[d] = rapi[d] /\ (d \in brokerServer' <=> d \in brokerServer)
  BY <1>2, <1>3
<1>4. rapi'[c] = "over" /\ rqAnswer'[c] = (IF bound THEN "path" ELSE "error")
      /\ brokerConn'[c] = c /\ (c \in brokerServer' <=> bound)
  BY <1>1, <1>2
<1> QED
  BY <1>1, <1>2, <1>3, <1>4 DEF RequestInv

\* Every step keeps the part of the invariant about requests.
LEMMA RequestStep ==
    ASSUME TypeOK, RequestInv, IdInv, [Next]_vars
    PROVE  RequestInv'
<1> USE DEF TypeOK, BrokerTypeOK
<1>1. ASSUME UNCHANGED <<brokerVars, rapi>>, life' = life \/ life' # "live" PROVE RequestInv'
  BY <1>1 DEF RequestInv, brokerVars
<1>2. ASSUME NEW m \in Messages, ConnEvent(m) PROVE RequestInv'
  BY <1>1, <1>2 DEF ConnEvent, HandshakeEvent, InfoEvent, VerdictEvent, PingReplyEvent, legacyVars
<1>3. ASSUME DeviceGone, UNCHANGED rapi PROVE RequestInv'
  BY <1>3 DEF DeviceGone, Dispose, BrokersDispose, RequestInv
<1>4. CASE SendPing
  BY <1>1, <1>3, <1>4 DEF SendPing
<1>5. ASSUME NEW c \in ReqCalls, NEW made \in BOOLEAN, ClientEvent(c, made)
      PROVE  RequestInv'
  <2>1. /\ life = "live" /\ UNCHANGED life /\ rapi[c] = "connecting"
        /\ rapi' = [rapi EXCEPT ![c] = "over"]
    BY <1>5 DEF ClientEvent, deviceVars
  <2>2. CASE made
    BY <1>5, <2>1, <2>2, ConnectionMade DEF ClientEvent
  <2>3. CASE ~made
    BY <1>5, <2>1, <2>3 DEF ClientEvent, brokerVars, RequestInv
  <2> QED
    BY <2>2, <2>3
<1>6. ASSUME NEW c \in ReqCalls, NEW taken \in BOOLEAN, ClientPasswordEvent(c, taken)
      PROVE  RequestInv'
  <2>1. /\ life = "live" /\ UNCHANGED life /\ rapi[c] = "checking"
        /\ rapi' = [rapi EXCEPT ![c] = "over"]
    BY <1>6 DEF ClientPasswordEvent, deviceVars
  <2>2. CASE taken
    BY <1>6, <2>1, <2>2, ConnectionMade DEF ClientPasswordEvent
  <2>3. CASE ~taken
    <3>1. rqAnswer[c] = "waiting" /\ c \notin brokerServer /\ delivered[c] = NoConn
      BY <2>1 DEF RequestInv
    <3>2. /\ rqAnswer' = [rqAnswer EXCEPT ![c] = "error"]
          /\ UNCHANGED <<requests, brokerConn, brokerServer, delivered>>
      BY <1>6, <2>3, <3>1 DEF ClientPasswordEvent, Reply
    <3> QED
      BY <2>1, <3>1, <3>2 DEF RequestInv
  <2> QED
    BY <2>2, <2>3
<1>7. ASSUME NEW c \in ReqCalls, StaleClientEvent(c) PROVE RequestInv'
  BY <1>7 DEF StaleClientEvent, RequestInv, brokerVars
<1>8. CASE StaleRead /\ UNCHANGED legacyVars
  BY <1>1, <1>8 DEF StaleRead, legacyVars
<1>9. CASE StalePing
  BY <1>1, <1>9 DEF StalePing
<1>10. ASSUME (\E m \in Messages : DeviceSend(m)) \/ LinkBreaks, UNCHANGED legacyVars
       PROVE  RequestInv'
  BY <1>1, <1>10 DEF DeviceSend, LinkBreaks, legacyVars
<1>11. CASE DeviceRemoved
  BY <1>3, <1>11 DEF DeviceRemoved, legacyVars
<1>12. ASSUME NEW p \in PwCalls, LegacyPassword(p) \/ LegacyPasswordRefused(p)
       PROVE  RequestInv'
  BY <1>1, <1>12 DEF LegacyPassword, LegacyPasswordRefused, ProvidePassword, legacyVars
<1>13. ASSUME NEW c \in ReqCalls, RequestConnection(c) PROVE RequestInv'
  <2>1. /\ rqAnswer[c] = "idle" /\ rapi[c] = "none" /\ brokerConn[c] = NoConn
        /\ c \notin brokerServer /\ delivered[c] = NoConn
    BY <1>13 DEF RequestConnection, RequestInv
  <2>2. UNCHANGED <<life, brokerConn, brokerServer, delivered>>
    BY <1>13 DEF RequestConnection, NewBroker
  <2>3. \/ /\ rqAnswer' = [rqAnswer EXCEPT ![c] = "waiting"] /\ requests' = requests \cup {c}
           /\ \E s \in {"connecting", "checking"} : rapi' = [rapi EXCEPT ![c] = s]
        \/ rqAnswer' = [rqAnswer EXCEPT ![c] = "error"] /\ UNCHANGED <<requests, rapi>>
    BY <1>13, <2>1 DEF RequestConnection, NewBroker, Reply
  <2> QED
    BY <2>1, <2>2, <2>3 DEF RequestInv
<1>14. ASSUME NEW c \in ReqCalls, RequestRefused(c) PROVE RequestInv'
  <2>1. rqAnswer[c] = "idle" /\ rapi[c] = "none" /\ c \notin brokerServer /\ delivered[c] = NoConn
    BY <1>14 DEF RequestRefused, RequestInv
  <2>2. /\ rqAnswer' = [rqAnswer EXCEPT ![c] = "error"] \/ rqAnswer' = rqAnswer
        /\ life' = life \/ life' # "live"
        /\ UNCHANGED <<requests, brokerConn, brokerServer, delivered, rapi>>
    BY <1>14 DEF RequestRefused, Reply, legacyVars
  <2> QED
    BY <2>1, <2>2 DEF RequestInv
<1>15. ASSUME NEW c \in ReqCalls, NEW sent \in BOOLEAN, BrokerEvent(c, sent)
       PROVE  RequestInv'
  <2>1. /\ c \in brokerServer /\ c \in requests
        /\ rqAnswer[c] = "path" /\ brokerConn[c] = c /\ delivered[c] = NoConn
    BY <1>15 DEF BrokerEvent, ServerSocketReadable, RequestInv
  <2>2. Lookup(brokerId[c]) = {c}
    BY <2>1 DEF Lookup, IdInv
  <2>3. /\ requests' = requests \ {c} /\ brokerServer' = brokerServer \ {c}
        /\ brokerConn' = [brokerConn EXCEPT ![c] = NoConn]
        /\ delivered' = IF sent THEN [delivered EXCEPT ![c] = brokerConn[c]] ELSE delivered
        /\ UNCHANGED <<rqAnswer, rapi, life>>
    BY <1>15, <2>2 DEF BrokerEvent, ServerSocketReadable, ConnBrokerDone, deviceVars, legacyVars
  <2> QED
    BY <2>1, <2>3 DEF RequestInv
<1>16. CASE UNCHANGED vars
  BY <1>1, <1>16 DEF vars, deviceVars, legacyVars
<1> QED
  BY <1>2, <1>4, <1>5, <1>6, <1>7, <1>8, <1>9, <1>10, <1>11, <1>12, <1>13, <1>14, <1>15, <1>16
     DEF Next, Daemon, Environment

\* Ids are given out in increasing order.
LEMMA IdStep ==
    ASSUME TypeOK, IdInv, [Next]_vars
    PROVE  IdInv'
<1> USE DEF TypeOK, BrokerTypeOK, DeviceTypeOK
<1>1. ASSUME UNCHANGED <<brokerId, reqId>>, requests' \subseteq requests PROVE IdInv'
  BY <1>1 DEF IdInv
<1>2. ASSUME NEW c \in ReqCalls, RequestConnection(c) PROVE IdInv'
  <2>1. /\ reqId' = reqId + 1 /\ brokerId' = [brokerId EXCEPT ![c] = reqId + 1]
        /\ requests' \subseteq requests \cup {c}
    BY <1>2 DEF RequestConnection, NewBroker
  <2> QED
    BY <2>1 DEF IdInv
<1>3. ASSUME NEW m \in Messages, ConnEvent(m) PROVE IdInv'
  BY <1>1, <1>3 DEF ConnEvent, HandshakeEvent, InfoEvent, VerdictEvent, PingReplyEvent, brokerVars
<1>4. ASSUME Dispose PROVE IdInv'
  BY <1>1, <1>4 DEF Dispose, BrokersDispose
<1>5. CASE SendPing
  BY <1>1, <1>4, <1>5 DEF SendPing, DeviceGone, brokerVars
<1>6. ASSUME NEW c \in ReqCalls, NEW ok \in BOOLEAN,
             ClientEvent(c, ok) \/ ClientPasswordEvent(c, ok)
      PROVE  IdInv'
  BY <1>1, <1>6 DEF ClientEvent, ClientPasswordEvent, TakeConnection, brokerVars, deviceVars
<1>7. ASSUME NEW c \in ReqCalls, StaleClientEvent(c) \/ RequestRefused(c) PROVE IdInv'
  BY <1>1, <1>7 DEF StaleClientEvent, RequestRefused, brokerVars
<1>8. ASSUME StaleRead \/ StalePing \/ (\E m \in Messages : DeviceSend(m)) \/ LinkBreaks
             \/ UNCHANGED vars
      PROVE  IdInv'
  BY <1>1, <1>8 DEF StaleRead, StalePing, DeviceSend, LinkBreaks, vars, brokerVars, deviceVars
<1>9. CASE DeviceRemoved
  BY <1>4, <1>9 DEF DeviceRemoved, DeviceGone
<1>10. ASSUME NEW p \in PwCalls, LegacyPassword(p) \/ LegacyPasswordRefused(p) PROVE IdInv'
  BY <1>1, <1>10 DEF LegacyPassword, LegacyPasswordRefused, ProvidePassword, brokerVars
<1>11. ASSUME NEW c \in ReqCalls, NEW sent \in BOOLEAN, BrokerEvent(c, sent) PROVE IdInv'
  BY <1>1, <1>11 DEF BrokerEvent, ServerSocketReadable, ConnBrokerDone, deviceVars
<1> QED
  BY <1>2, <1>3, <1>5, <1>6, <1>7, <1>8, <1>9, <1>10, <1>11 DEF Next, Daemon, Environment

----------------------------------------------------------------------------
(* The theorems.                                                           *)

\* The initial state satisfies the invariant.
LEMMA InitIndInv == Init => IndInv
<1> SUFFICES ASSUME Init PROVE IndInv
  OBVIOUS
<1> USE MaxPingsAssumption DEF Init, BrokerInit, DeviceInit
<1>1. BrokerTypeOK
  BY DEF BrokerTypeOK, RqAnswers
<1>2. DeviceTypeOK
  <2>1. sizeKnown \in BOOLEAN /\ exported \in BOOLEAN
    BY Zenon
  <2>2. pwAnswer \in [PwCalls -> PwAnswers]
    BY DEF PwAnswers
  <2>3. rd \in Reads /\ pwKey \in PwKeys /\ wire \in Messages \cup {Nothing}
    BY DEF Reads, PwKeys, Nothing
  <2>4. life = "live" /\ link = "up" /\ state = 0 /\ pwFlags = 0 /\ reqId = 0 /\ pwCtx = NoCall
    OBVIOUS
  <2> QED
    BY <2>1, <2>2, <2>3, <2>4 DEF DeviceTypeOK
<1>3. pingTimer \in BOOLEAN /\ freshBuf \in BOOLEAN
  BY Zenon
<1>4. TypeOK
  BY <1>1, <1>2, <1>3 DEF TypeOK, RapiStates
<1>5. PhaseInv
  BY DEF PhaseInv, NobodyWaits
<1>6. PingInv
  BY DEF PingInv
<1>7. RequestInv /\ IdInv
  BY DEF RequestInv, IdInv
<1> QED
  BY <1>4, <1>5, <1>6, <1>7 DEF IndInv

\* IndInv, the invariant the properties rest on, holds in every reachable state.
THEOREM Invariance == Spec => []IndInv
<1>1. Init => IndInv
  BY InitIndInv
<1>2. IndInv /\ [Next]_vars => IndInv'
  BY TypeStep, PhaseStep, RequestStep, IdStep DEF IndInv, PhasePart
<1> QED
  BY <1>1, <1>2, PTL DEF Spec

\* TypeOK, for every set of calls and every MaxPings: the count of pings does not
\* pass its limit.
THEOREM TypeCorrect == Spec => []TypeOK
<1>1. IndInv => TypeOK
  BY DEF IndInv
<1> QED
  BY <1>1, Invariance, PTL

\* No D-Bus call of a legacy device object is ever answered twice, although its
\* brokers are freed behind the table's back.
THEOREM CallsAnsweredOnce == Spec => []AnsweredOnce
<1>1. IndInv => AnsweredOnce
  BY DEF IndInv, PhaseInv, RequestInv, AnsweredOnce
<1> QED
  BY <1>1, Invariance, PTL

\* The password sent on a client's connection is one the device took, never one
\* that was refused and freed.
THEOREM PasswordIsTaken == Spec => []PasswordForConnections
<1>1. IndInv => PasswordForConnections
  BY DEF IndInv, PhaseInv, PasswordForConnections
<1> QED
  BY <1>1, Invariance, PTL

----------------------------------------------------------------------------
(* The contract.                                                           *)

ContractStep == [Contract!Next]_(Contract!vars)

LockVars == <<state, pwAnswer>>
GrantVars == <<rqAnswer, delivered>>

\* The device object begins as its contract says.
LEMMA ContractInit == Init => Contract!Init
  BY DEF Init, BrokerInit, DeviceInit, Contract!Init, Lock, Granted

\* A step that leaves the lock and the answers alone is none of the contract's.
LEMMA Stutters ==
    ASSUME UNCHANGED <<LockVars, GrantVars>>
    PROVE  ContractStep
  BY DEF ContractStep, Contract!vars, LockVars, GrantVars, Lock, Granted

\* A read on the control connection moves the lock as the contract says.
LEMMA ConnEventContract ==
    ASSUME IndInv, NEW m \in Messages, ConnEvent(m)
    PROVE  ContractStep
<1> USE DEF IndInv, TypeOK, DeviceTypeOK
<1>1. UNCHANGED GrantVars /\ Granted' = Granted
  BY DEF ConnEvent, HandshakeEvent, InfoEvent, VerdictEvent, PingReplyEvent,
         GrantVars, Granted, brokerVars
<1>2. CASE UNCHANGED LockVars
  BY <1>1, <1>2, Stutters
<1>3. ASSUME UNCHANGED pwAnswer, Lock' = Lock PROVE ContractStep
  BY <1>1, <1>3 DEF ContractStep, Contract!vars, GrantVars
<1>4. CASE HandshakeEvent(m)
  BY <1>3, <1>4 DEF HandshakeEvent, Lock
<1>5. CASE InfoEvent(m)
  <2>1. /\ pwAnswer' = pwAnswer /\ Lock = "unknown"
        /\ Lock' \in {"unknown", "host", "open"}
    BY <1>5 DEF InfoEvent, InfoReceived, MalformedInfo, Lock
  <2> QED
    BY <1>1, <1>3, <2>1 DEF ContractStep, Contract!Next, Contract!Learn, GrantVars
<1>6. CASE VerdictEvent(m)
  <2>1. CASE m = Short
    BY <1>2, <1>6, <2>1 DEF VerdictEvent, LockVars, Short
  <2>2. CASE m # Short
    <3>1. pwCtx \in PwCalls /\ pwCtx # NoCall /\ pwAnswer[pwCtx] = "waiting"
      BY <1>6, NoCallAssumption DEF VerdictEvent, ReadCompletes, PhaseInv
    <3>2. \/ pwAnswer' = [pwAnswer EXCEPT ![pwCtx] = "false"] /\ Lock' = Lock
          \/ pwAnswer' = [pwAnswer EXCEPT ![pwCtx] = "true"] /\ Lock' = "open"
      BY <1>6, <2>2, <3>1 DEF VerdictEvent, AnswerPassword, Reply, Lock
    <3> QED
      BY <1>1, <3>1, <3>2 DEF ContractStep, Contract!Next, Contract!PwVerdict, GrantVars
  <2> QED
    BY <2>1, <2>2
<1>7. CASE PingReplyEvent(m)
  BY <1>2, <1>7 DEF PingReplyEvent, LockVars
<1> QED
  BY <1>4, <1>5, <1>6, <1>7 DEF ConnEvent

\* A password call is refused, or becomes the one in progress.
LEMMA PasswordContract ==
    ASSUME IndInv, NEW p \in PwCalls, LegacyPassword(p) \/ LegacyPasswordRefused(p)
    PROVE  ContractStep
<1> USE DEF IndInv, TypeOK, DeviceTypeOK
<1>1. /\ UNCHANGED <<GrantVars, state, Granted, Lock>> /\ pwAnswer[p] = "idle"
  BY DEF LegacyPassword, ProvidePassword, LegacyPasswordRefused, GrantVars, Granted, Lock,
         brokerVars
<1>2. CASE pwAnswer' = [pwAnswer EXCEPT ![p] = "error"]
  BY <1>1, <1>2 DEF ContractStep, Contract!Next, Contract!PwRefuse, GrantVars
<1>3. CASE LegacyPasswordRefused(p)
  BY <1>1, <1>2, <1>3 DEF LegacyPasswordRefused, Reply
<1>4. CASE LegacyPassword(p)
  <2>1. Lock = "host" /\ \A q \in PwCalls : pwAnswer[q] # "waiting"
    BY <1>4, NoCallAssumption
       DEF LegacyPassword, ProvidePassword, Lock, PhaseInv, NobodyWaits
  <2>2. \/ pwAnswer' = [pwAnswer EXCEPT ![p] = "waiting"]
        \/ pwAnswer' = [pwAnswer EXCEPT ![p] = "error"]
    BY <1>1, <1>4 DEF LegacyPassword, ProvidePassword, Reply
  <2> QED
    BY <1>1, <1>2, <2>1, <2>2 DEF ContractStep, Contract!Next, Contract!PwBegin, GrantVars
<1> QED
  BY <1>3, <1>4

\* What comes of the connection made for a call is the answer to that call.
LEMMA ConnectionContract ==
    ASSUME IndInv, NEW c \in ReqCalls, NEW ok \in BOOLEAN,
           ClientEvent(c, ok) \/ ClientPasswordEvent(c, ok)
    PROVE  ContractStep
<1> USE OneConnectionPerCall DEF IndInv, TypeOK, BrokerTypeOK
<1>1. rqAnswer[c] = "waiting" /\ UNCHANGED <<state, Lock, pwAnswer, delivered>>
  BY DEF ClientEvent, ClientPasswordEvent, RequestInv, TakeConnection, Lock, brokerVars, deviceVars
<1>2. CASE UNCHANGED rqAnswer
  BY <1>1, <1>2, Stutters DEF LockVars, GrantVars
<1>3. CASE rqAnswer' = [rqAnswer EXCEPT ![c] = "error"]
  <2>1. Granted' = Granted
    BY <1>1, <1>3 DEF Granted
  <2> QED
    BY <1>1, <1>3, <2>1 DEF ContractStep, Contract!Next, Contract!RqRefuse
<1>4. CASE rqAnswer' = [rqAnswer EXCEPT ![c] = "path"]
  <2>1. Granted' = Granted \cup {<<c, c>>} /\ \A g \in Granted : g[2] # c
    BY <1>1, <1>4 DEF Granted
  <2> QED
    BY <1>1, <1>4, <2>1 DEF ContractStep, Contract!Next, Contract!RqGrant
<1> QED
  BY <1>1, <1>2, <1>3, <1>4 DEF ClientEvent, ClientPasswordEvent, TakeConnection, Reply, brokerVars

\* A request is refused, or waits for its connection.
LEMMA RequestContract ==
    ASSUME IndInv, NEW c \in ReqCalls, RequestConnection(c) \/ RequestRefused(c)
    PROVE  ContractStep
<1> USE DEF IndInv, TypeOK, BrokerTypeOK
<1>1. rqAnswer[c] = "idle" /\ UNCHANGED <<state, Lock, pwAnswer, delivered>>
  BY DEF RequestConnection, RequestRefused, NewBroker, Lock
<1>2. \/ rqAnswer' = rqAnswer
      \/ rqAnswer' = [rqAnswer EXCEPT ![c] = "error"]
      \/ rqAnswer' = [rqAnswer EXCEPT ![c] = "waiting"] /\ Lock = "open"
  BY DEF RequestConnection, RequestRefused, NewBroker, Reply, Lock
<1>3. Granted' = Granted
  BY <1>1, <1>2 DEF Granted
<1> QED
  BY <1>1, <1>2, <1>3
     DEF ContractStep, Contract!Next, Contract!RqRefuse, Contract!RqBegin, Contract!vars

\* The descriptor that is sent is that of the connection made for the call.
LEMMA BrokerEventContract ==
    ASSUME IndInv, NEW c \in ReqCalls, NEW sent \in BOOLEAN, BrokerEvent(c, sent)
    PROVE  ContractStep
<1> USE OneConnectionPerCall DEF IndInv, TypeOK, BrokerTypeOK
<1>1. /\ c \in brokerServer
      /\ delivered' = IF sent THEN [delivered EXCEPT ![c] = brokerConn[c]] ELSE delivered
      /\ UNCHANGED <<Lock, pwAnswer, rqAnswer, Granted>>
  BY DEF BrokerEvent, ServerSocketReadable, ConnBrokerDone, Lock, Granted, deviceVars
<1>2. delivered[c] = NoConn /\ brokerConn[c] = c /\ <<c, c>> \in Granted
  BY <1>1 DEF RequestInv, Granted
<1> QED
  BY <1>1, <1>2 DEF ContractStep, Contract!Next, Contract!Give, Contract!vars

\* Every step of the device object is a step of its contract, or no step of it.
LEMMA NextContract ==
    ASSUME IndInv, [Next]_vars
    PROVE  ContractStep
<1>1. ASSUME \/ SendPing \/ DeviceRemoved \/ StalePing \/ UNCHANGED vars
             \/ \E c \in ReqCalls : StaleClientEvent(c)
             \/ (StaleRead \/ LinkBreaks \/ \E m \in Messages : DeviceSend(m))
      PROVE  UNCHANGED <<LockVars, GrantVars>>
  BY <1>1 DEF SendPing, DeviceRemoved, DeviceGone, Dispose, BrokersDispose, StalePing, StaleRead,
              LinkBreaks, DeviceSend, StaleClientEvent, LockVars, GrantVars, vars, brokerVars,
              deviceVars
<1> QED
  BY <1>1, Stutters, ConnEventContract, PasswordContract, ConnectionContract, RequestContract,
     BrokerEventContract
     DEF Next, Daemon, Environment

\* A legacy device object implements the contract that an RNDIS one implements.
THEOREM ImplementsContract == Spec => KeepsContract
<1>1. Init => Contract!Init
  BY ContractInit
<1>2. IndInv /\ [Next]_vars => [Contract!Next]_(Contract!vars)
  BY NextContract DEF ContractStep
<1> QED
  BY <1>1, <1>2, Invariance, PTL DEF Spec, KeepsContract, Contract!Spec
=============================================================================
