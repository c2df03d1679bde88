------------------------ MODULE SynceDeviceRndisProofs ------------------------
(***************************************************************************)
(* Proofs about SynceDeviceRndis, for every set of calls and connections:  *)
(* the invariant IndInv is inductive, the safety properties follow from    *)
(* it, and so does each step's being a step of DeviceContract.             *)
(***************************************************************************)
EXTENDS SynceDeviceRndis, TLAPS

USE DEF HANDSHAKE, GETTING_INFO, GOT_INFO, AUTH, CONNECTED,
        UNSET, PROVIDE, PROVIDE_ON_DEVICE, CHECKING, UNLOCKED

----------------------------------------------------------------------------
(* Types.                                                                  *)

\* A handler of the control connection's reads preserves the types.
LEMMA ConnEventType ==
    ASSUME TypeOK, NEW m \in Messages, ConnEvent(m)
    PROVE  TypeOK'
<1> USE DEF TypeOK, BrokerTypeOK, DeviceTypeOK, ReadCompletes, Reads, Messages,
            Infos, PwKeys, Short, Nothing, brokerVars, rndisVars
<1>1. CASE HandshakeEvent(m)
  BY <1>1 DEF HandshakeEvent
<1>2. CASE InfoSizeEvent(m)
  BY <1>2 DEF InfoSizeEvent
<1>3. CASE InfoEvent(m)
  BY <1>3 DEF InfoEvent, InfoReceived, MalformedInfo, DbusInit
<1>4. CASE VerdictEvent(m)
  BY <1>4 DEF VerdictEvent, AnswerPassword, Reply, PwAnswers
<1>5. CASE UnlockEvent(m)
  BY <1>5 DEF UnlockEvent
<1> QED
  BY <1>1, <1>2, <1>3, <1>4, <1>5 DEF ConnEvent

\* So does every other step.
LEMMA TypeStep ==
    ASSUME TypeOK, [Next]_vars
    PROVE  TypeOK'
<1> USE DEF TypeOK, BrokerTypeOK, DeviceTypeOK, brokerVars, rndisVars, deviceVars
<1>1. ASSUME NEW m \in Messages, ConnEvent(m) PROVE TypeOK'
  BY <1>1, ConnEventType
<1>2. ASSUME NEW k \in Conns, ClientEvent(k) PROVE TypeOK'
  BY <1>2 DEF ClientEvent, ConnStates, Lookup, TakeConnection, Reply, RqAnswers
<1>3. ASSUME NEW k \in Conns, ClientEventFails(k) PROVE TypeOK'
  BY <1>3 DEF ClientEventFails, ConnStates
<1>4. ASSUME NEW m \in Messages, DeviceSend(m), UNCHANGED rndisVars PROVE TypeOK'
  BY <1>4 DEF DeviceSend
<1>5. CASE LinkBreaks /\ UNCHANGED rndisVars
  BY <1>5 DEF LinkBreaks
<1>6. CASE DeviceRemoved
  BY <1>6 DEF DeviceRemoved, Dispose, BrokersDispose, ConnStates
<1>7. ASSUME NEW p \in PwCalls, ProvidePassword(p), UNCHANGED rndisVars PROVE TypeOK'
  BY <1>7 DEF ProvidePassword, Reply, PwAnswers, Reads
<1>8. ASSUME NEW p \in PwCalls, ProvidePasswordRefused(p), UNCHANGED rndisVars PROVE TypeOK'
  BY <1>8 DEF ProvidePasswordRefused, Reply, PwAnswers
<1>9. ASSUME NEW c \in ReqCalls, RequestConnection(c) PROVE TypeOK'
  BY <1>9 DEF RequestConnection, NewBroker, Reply, RqAnswers
<1>10. ASSUME NEW c \in ReqCalls, RequestRefused(c) PROVE TypeOK'
  BY <1>10 DEF RequestRefused, Reply, RqAnswers
<1>11. ASSUME NEW k \in Conns, NEW id \in askedIds \cup {0}, ClientConnected(k, id)
       PROVE  TypeOK'
  BY <1>11 DEF ClientConnected, ConnStates
<1>12. ASSUME NEW c \in ReqCalls, NEW sent \in BOOLEAN, BrokerEvent(c, sent)
       PROVE  TypeOK'
  BY <1>12 DEF BrokerEvent, ServerSocketReadable, ConnBrokerDone, Lookup
<1>13. CASE UNCHANGED vars
  BY <1>13 DEF vars
<1>14. CASE StaleRead /\ UNCHANGED rndisVars
  BY <1>14 DEF StaleRead, Reads
<1>15. ASSUME NEW k \in Conns, StaleClientEvent(k) PROVE TypeOK'
  BY <1>15 DEF StaleClientEvent, ConnStates
<1> QED
  BY <1>1, <1>2, <1>3, <1>4, <1>5, <1>6, <1>7, <1>8, <1>9, <1>10, <1>11, <1>12, <1>13,
     <1>14, <1>15
     DEF Next, Daemon, Environment

----------------------------------------------------------------------------
(* The control state, the password and the outstanding read.               *)

PasswordPart == PasswordInv /\ ReadFitsState

PasswordVars == <<state, pwFlags, pwKey, pwCtx, sizeKnown, rd, pwAnswer>>

\* The callback of the read on the control connection keeps the two parts of the
\* invariant about them, control state by control state.
LEMMA ConnEventPassword ==
    ASSUME TypeOK, PasswordPart, NEW m \in Messages, ConnEvent(m)
    PROVE  PasswordPart'
<1> USE DEF PasswordPart, PasswordInv, ReadFitsState, TypeOK, DeviceTypeOK,
            ReadCompletes, Messages, Infos, PwKeys, Short, Nothing
<1>1. CASE HandshakeEvent(m)
  BY <1>1 DEF HandshakeEvent
<1>2. CASE InfoSizeEvent(m)
  <2>1. state = GETTING_INFO /\ UNCHANGED <<state, pwFlags, pwKey, pwCtx, pwAnswer>>
    BY <1>2 DEF InfoSizeEvent
  <2>2. PasswordInv'
    BY <2>1
  <2>3. CASE m = Short
    BY <1>2, <2>1, <2>2, <2>3 DEF InfoSizeEvent
  <2>4. CASE m # Short
    <3>1. sizeKnown' /\ rd' = "info"
      BY <1>2, <2>4 DEF InfoSizeEvent
    <3> QED
      BY <2>1, <2>2, <3>1
  <2> QED
    BY <2>3, <2>4
<1>3. CASE InfoEvent(m)
  <2>1. CASE m \notin PwKeys
    BY <1>3, <2>1 DEF InfoEvent, MalformedInfo
  <2>2. CASE m \in PwKeys
    BY <1>3, <2>2 DEF InfoEvent, InfoReceived
  <2> QED
    BY <2>1, <2>2
<1>4. CASE VerdictEvent(m)
  <2>1. pwKey = "key" /\ pwFlags = CHECKING /\ pwCtx \in PwCalls /\ pwCtx # NoCall
    BY <1>4 DEF VerdictEvent
  <2>2. pwAnswer[pwCtx] = "waiting"
    BY <2>1
  <2>3. CASE m = Short
    BY <1>4, <2>1, <2>3 DEF VerdictEvent
  <2>4. CASE m = "0"
    BY <1>4, <2>1, <2>2, <2>4 DEF VerdictEvent, AnswerPassword, Reply, PwAnswers
  <2>5. CASE m \notin {Short, "0"}
    BY <1>4, <2>1, <2>2, <2>5 DEF VerdictEvent, AnswerPassword, Reply, PwAnswers
  <2> QED
    BY <2>3, <2>4, <2>5
<1>5. CASE UnlockEvent(m)
  BY <1>5 DEF UnlockEvent
<1> QED
  BY <1>1, <1>2, <1>3, <1>4, <1>5 DEF ConnEvent

\* So does every other step.
LEMMA PasswordStep ==
    ASSUME TypeOK, PasswordPart, [Next]_vars
    PROVE  PasswordPart'
<1> USE DEF TypeOK, DeviceTypeOK, deviceVars
<1>1. ASSUME NEW m \in Messages, ConnEvent(m) PROVE PasswordPart'
  BY <1>1, ConnEventPassword
<1>2. ASSUME NEW p \in PwCalls, ProvidePassword(p) PROVE PasswordPart'
  <2>1. pwKey = "key" /\ state = AUTH /\ pwFlags = PROVIDE /\ pwCtx = NoCall /\ rd = "none"
    BY <1>2 DEF ProvidePassword, PasswordPart, PasswordInv, Provide
  <2>2. PICK written \in WriteOutcomes :
          IF written
          THEN /\ rd' = "2"
               /\ pwFlags' = CHECKING
               /\ pwAnswer' = [pwAnswer EXCEPT ![p] = "waiting"]
          ELSE /\ pwAnswer' = [pwAnswer EXCEPT ![p] = Reply(@, "error")]
               /\ UNCHANGED <<rd, pwFlags>>
    BY <1>2 DEF ProvidePassword
  <2> QED
    BY <1>2, <2>1, <2>2, NoCallAssumption
       DEF ProvidePassword, PasswordPart, PasswordInv, ReadFitsState, Reply
<1>3. ASSUME NEW p \in PwCalls, ProvidePasswordRefused(p) PROVE PasswordPart'
  BY <1>3 DEF ProvidePasswordRefused, PasswordPart, PasswordInv, ReadFitsState, Reply
<1>4. ASSUME UNCHANGED PasswordVars PROVE PasswordPart'
  BY <1>4 DEF PasswordPart, PasswordInv, ReadFitsState, PasswordVars
<1>5. ASSUME NEW k \in Conns, ClientEvent(k) \/ ClientEventFails(k) \/ StaleClientEvent(k)
      PROVE  UNCHANGED PasswordVars
  BY <1>5 DEF ClientEvent, ClientEventFails, StaleClientEvent, PasswordVars
<1>6. ASSUME NEW c \in ReqCalls, RequestConnection(c) \/ RequestRefused(c)
      PROVE  UNCHANGED PasswordVars
  BY <1>6 DEF RequestConnection, RequestRefused, PasswordVars
<1>7. ASSUME NEW k \in Conns, NEW id \in askedIds \cup {0}, ClientConnected(k, id)
      PROVE  UNCHANGED PasswordVars
  BY <1>7 DEF ClientConnected, PasswordVars
<1>8. ASSUME NEW c \in ReqCalls, NEW sent \in BOOLEAN, BrokerEvent(c, sent)
      PROVE  UNCHANGED PasswordVars
  BY <1>8 DEF BrokerEvent, PasswordVars
<1>9. ASSUME (\E m \in Messages : DeviceSend(m)) \/ LinkBreaks \/ DeviceRemoved \/ UNCHANGED vars
      PROVE  UNCHANGED PasswordVars
  BY <1>9 DEF DeviceSend, LinkBreaks, DeviceRemoved, Dispose, vars, PasswordVars
<1>10. ASSUME StaleRead PROVE PasswordPart'
  BY <1>10 DEF StaleRead, PasswordPart, PasswordInv, ReadFitsState
<1> QED
  BY <1>1, <1>2, <1>3, <1>4, <1>5, <1>6, <1>7, <1>8, <1>9, <1>10 DEF Next, Daemon, Environment

----------------------------------------------------------------------------
(* Requests, brokers and connections.                                      *)

RequestPart == IdInv /\ BrokerInv /\ ZombieInv

RequestVars == <<brokerVars, connState, connId, askedIds, reqId>>

\* The table has one broker under an id.
LEMMA OneBrokerPerId ==
    ASSUME TypeOK, IdInv, BrokerInv, NEW c \in requests
    PROVE  Lookup(brokerId[c]) = {c}
  BY DEF TypeOK, BrokerTypeOK, IdInv, BrokerInv, Lookup

\* The broker that the id read from a connection leads to has no connection yet.
LEMMA FoundIsFree ==
    ASSUME TypeOK, IdInv, BrokerInv,
           NEW k \in Conns, connState[k] = "reading", NEW c \in Lookup(connId[k])
    PROVE  /\ c \in requests /\ brokerId[c] = connId[k] /\ connId[k] # 0
           /\ brokerConn[c] = NoConn
<1>1. c \in requests /\ c \in ReqCalls /\ brokerId[c] = connId[k]
  BY DEF Lookup, TypeOK, BrokerTypeOK
<1>2. connId[k] # 0
  BY <1>1 DEF BrokerInv
<1>3. ASSUME brokerConn[c] # NoConn PROVE FALSE
  <2>1. brokerConn[c] \in Conns
    BY <1>1, <1>3 DEF TypeOK, BrokerTypeOK
  <2>2. connState[brokerConn[c]] = "taken" /\ connId[brokerConn[c]] = connId[k]
    BY <1>1, <1>3 DEF BrokerInv
  <2>3. brokerConn[c] # k
    BY <2>2
  <2> QED
    BY <1>2, <2>1, <2>2, <2>3 DEF IdInv
<1> QED
  BY <1>1, <1>2, <1>3

\* The device opens a connection, with an id it was asked for or with none.
LEMMA ClientConnectedRequest ==
    ASSUME TypeOK, RequestPart,
           NEW k \in Conns, NEW id \in askedIds \cup {0}, ClientConnected(k, id)
    PROVE  RequestPart'
<1> USE DEF TypeOK, BrokerTypeOK, DeviceTypeOK, RequestPart, ClientConnected,
            brokerVars, deviceVars
<1>1. id \in Nat /\ connState[k] = "unopened" /\ connId[k] = 0
  BY DEF IdInv
<1>2. IdInv'
  <2>1. \A l \in Conns : l # k /\ id # 0 => connId[l] # id
    BY DEF IdInv
  <2> QED
    BY <1>1, <2>1 DEF IdInv
<1>3. \A l \in Conns : connState[l] = "taken" =>
        l # k /\ connState'[l] = "taken" /\ connId'[l] = connId[l]
  BY <1>1
<1>4. BrokerInv'
  BY <1>3 DEF BrokerInv
<1>5. ZombieInv'
  BY <1>1 DEF ZombieInv, BrokerInv
<1> QED
  BY <1>2, <1>4, <1>5

\* The id of a connection is read, or could not be.
LEMMA ClientEventRequest ==
    ASSUME TypeOK, RequestPart, NEW k \in Conns, ClientEvent(k)
    PROVE  RequestPart'
<1> USE DEF TypeOK, BrokerTypeOK, DeviceTypeOK, RequestPart
<1>1. connState[k] = "reading" /\ UNCHANGED <<connId, askedIds, reqId>> /\ life = "live"
  BY DEF ClientEvent
<1>2. CASE Lookup(connId[k]) = {} /\ connState' = [connState EXCEPT ![k] = "unclaimed"]
           /\ UNCHANGED <<brokerVars, life>>
  BY <1>1, <1>2 DEF IdInv, BrokerInv, ZombieInv, brokerVars
<1>3. ASSUME NEW c \in Lookup(connId[k]), NEW bound \in BOOLEAN,
             TakeConnection(c, k, bound),
             connState' = [connState EXCEPT ![k] = "taken"], life' = life
      PROVE  RequestPart'
  <2>1. c \in requests /\ c \in ReqCalls /\ brokerId[c] = connId[k] /\ connId[k] # 0
        /\ brokerConn[c] = NoConn
    BY <1>1, FoundIsFree
  <2>2. rqAnswer[c] = "waiting"
    BY <2>1 DEF ZombieInv
  <2>3. IdInv'
    BY <1>1, <1>3 DEF IdInv, TakeConnection
  <2>4. rqAnswer' = [rqAnswer EXCEPT ![c] = IF bound THEN "path" ELSE "error"]
    BY <1>3, <2>2 DEF TakeConnection, Reply
  <2>5. delivered[c] = NoConn
    BY <2>1, <2>2 DEF BrokerInv
  <2>6. BrokerInv'
    <3>1. brokerServer' \subseteq requests'
      BY <1>3, <2>1 DEF BrokerInv, TakeConnection
    <3>2. /\ brokerConn' = [brokerConn EXCEPT ![c] = k]
          /\ brokerCtx' = brokerCtx \ {c}
          /\ brokerServer' \subseteq brokerServer \cup {c}
          /\ bound \/ brokerServer' = brokerServer
          /\ UNCHANGED <<requests, brokerId, delivered>>
      BY <1>3 DEF TakeConnection
    <3>3. c \notin brokerServer
      BY <2>1 DEF BrokerInv
    <3> QED
      BY <1>1, <1>3, <2>1, <2>2, <2>4, <2>5, <3>1, <3>2, <3>3, NoConnAssumption DEF BrokerInv
  <2>7. ZombieInv'
    BY <1>1, <1>3, <2>1, <2>4, NoConnAssumption DEF ZombieInv, TakeConnection
  <2> QED
    BY <2>3, <2>6, <2>7
<1>4. ASSUME NEW c \in Lookup(connId[k]), brokerConn[c] # NoConn
      PROVE  FALSE
  BY <1>1, <1>4, FoundIsFree
<1> QED
  BY <1>2, <1>3, <1>4 DEF ClientEvent

\* A new request takes the next id.
LEMMA RequestConnectionRequest ==
    ASSUME TypeOK, RequestPart, NEW c \in ReqCalls, RequestConnection(c)
    PROVE  RequestPart'
<1> USE DEF TypeOK, BrokerTypeOK, DeviceTypeOK, RequestPart
<1>1. /\ reqId' = reqId + 1 /\ reqId \in Nat
      /\ rqAnswer[c] = "idle" /\ brokerId[c] = 0
      /\ UNCHANGED <<life, connState, connId>>
      /\ askedIds' = IF link = "up" THEN askedIds \cup {reqId + 1} ELSE askedIds
  BY DEF RequestConnection, BrokerInv
<1>2. PICK written \in WriteOutcomes :
        NewBroker(c, reqId', IF written THEN "waiting" ELSE "error")
  BY DEF RequestConnection
<1>3. /\ brokerId' = [brokerId EXCEPT ![c] = reqId + 1]
      /\ requests' = requests \cup {c} /\ brokerCtx' = brokerCtx \cup {c}
      /\ rqAnswer' = [rqAnswer EXCEPT ![c] = IF written THEN "waiting" ELSE "error"]
      /\ UNCHANGED <<brokerConn, brokerServer, delivered>>
  BY <1>1, <1>2 DEF NewBroker, Reply
<1>4. ~written => link # "up"
  BY DEF WriteOutcomes
<1>5. c \notin requests /\ brokerConn[c] = NoConn /\ delivered[c] = NoConn
  BY <1>1 DEF BrokerInv
<1>6. IdInv'
  BY <1>1, <1>3 DEF IdInv
<1>7. BrokerInv'
  BY <1>1, <1>3, <1>5 DEF BrokerInv
<1>8. ZombieInv'
  <2>1. ASSUME NEW d \in requests', brokerConn'[d] = NoConn, rqAnswer'[d] # "waiting"
        PROVE  brokerId'[d] \notin askedIds' /\ \A k \in Conns : connId'[k] # brokerId'[d]
    <3>1. CASE d = c
      BY <1>1, <1>3, <1>4, <2>1, <3>1 DEF IdInv
    <3>2. CASE d # c
      BY <1>1, <1>3, <2>1, <3>2 DEF IdInv, ZombieInv
    <3> QED
      BY <3>1, <3>2
  <2> QED
    BY <2>1 DEF ZombieInv
<1> QED
  BY <1>6, <1>7, <1>8

\* A client connects to a broker's socket; the broker is dropped.
LEMMA BrokerEventRequest ==
    ASSUME TypeOK, RequestPart, NEW c \in ReqCalls, NEW sent \in BOOLEAN,
           BrokerEvent(c, sent)
    PROVE  RequestPart'
<1> USE DEF TypeOK, BrokerTypeOK, DeviceTypeOK, RequestPart
<1>1. /\ c \in brokerServer /\ ConnBrokerDone(c)
      /\ delivered' = IF sent THEN [delivered EXCEPT ![c] = brokerConn[c]] ELSE delivered
      /\ UNCHANGED <<life, reqId, connState, connId, askedIds>>
  BY DEF BrokerEvent, ServerSocketReadable, deviceVars, rndisVars
<1>2. c \in requests /\ Lookup(brokerId[c]) = {c}
  BY <1>1, OneBrokerPerId DEF BrokerInv
<1>3. /\ requests' = requests \ {c} /\ brokerServer' = brokerServer \ {c}
      /\ brokerConn' = [d \in ReqCalls |-> IF d = c THEN NoConn ELSE brokerConn[d]]
      /\ brokerCtx' = brokerCtx \ {c}
      /\ UNCHANGED <<brokerId, rqAnswer>>
  BY <1>1, <1>2 DEF ConnBrokerDone
<1>4. rqAnswer[c] = "path" /\ brokerConn[c] # NoConn
  BY <1>1 DEF BrokerInv
<1>5. IdInv' /\ ZombieInv'
  BY <1>1, <1>3 DEF IdInv, ZombieInv
<1>6. BrokerInv'
  BY <1>1, <1>3, <1>4 DEF BrokerInv
<1> QED
  BY <1>5, <1>6

\* Every step keeps the parts of the invariant about ids, brokers and answers.
LEMMA RequestStep ==
    ASSUME TypeOK, RequestPart, [Next]_vars
    PROVE  RequestPart'
<1> USE DEF TypeOK, BrokerTypeOK, DeviceTypeOK
<1>1. ASSUME UNCHANGED RequestVars, life' = life \/ life' # "live"
      PROVE  RequestPart'
  BY <1>1 DEF RequestVars, RequestPart, IdInv, BrokerInv, ZombieInv, brokerVars
<1>2. ASSUME NEW m \in Messages, ConnEvent(m) PROVE RequestPart'
  <2>1. UNCHANGED RequestVars /\ life' = life
    BY <1>2 DEF ConnEvent, HandshakeEvent, InfoSizeEvent, InfoEvent, VerdictEvent,
                UnlockEvent, RequestVars, brokerVars, rndisVars
  <2> QED
    BY <2>1, <1>1
<1>3. ASSUME NEW k \in Conns, ClientEvent(k) PROVE RequestPart'
  BY <1>3, ClientEventRequest
<1>4. ASSUME NEW k \in Conns, ClientEventFails(k) PROVE RequestPart'
  BY <1>4 DEF ClientEventFails, RequestPart, IdInv, BrokerInv, ZombieInv, brokerVars, deviceVars
<1>5. ASSUME (\E m \in Messages : DeviceSend(m)) \/ LinkBreaks, UNCHANGED rndisVars
      PROVE  RequestPart'
  <2>1. UNCHANGED RequestVars /\ life' = life
    BY <1>5 DEF DeviceSend, LinkBreaks, RequestVars, brokerVars, rndisVars
  <2> QED
    BY <2>1, <1>1
<1>6. CASE DeviceRemoved
  <2>1. /\ requests' = {} /\ brokerServer' = {} /\ life' = "disposed"
        /\ brokerConn' = [c \in ReqCalls |-> NoConn]
        /\ UNCHANGED <<reqId, brokerId, rqAnswer, delivered, connId, askedIds>>
        /\ \A k \in Conns : /\ connState[k] = "taken" => connState'[k] = "taken"
                            /\ connState'[k] = "unopened" => connState[k] = "unopened"
    BY <1>6 DEF DeviceRemoved, Dispose, BrokersDispose, RequestPart, BrokerInv
  <2> QED
    BY <2>1 DEF RequestPart, IdInv, BrokerInv, ZombieInv
<1>7. ASSUME NEW p \in PwCalls, ProvidePassword(p) \/ ProvidePasswordRefused(p),
             UNCHANGED rndisVars
      PROVE  RequestPart'
  <2>1. UNCHANGED RequestVars /\ (life' = life \/ life' # "live")
    BY <1>7 DEF ProvidePassword, ProvidePasswordRefused, RequestVars, brokerVars, rndisVars
  <2> QED
    BY <2>1, <1>1
<1>8. ASSUME NEW c \in ReqCalls, RequestConnection(c) PROVE RequestPart'
  BY <1>8, RequestConnectionRequest
<1>9. ASSUME NEW c \in ReqCalls, RequestRefused(c) PROVE RequestPart'
  BY <1>9 DEF RequestRefused, Reply, RequestPart, IdInv, BrokerInv, ZombieInv, brokerVars,
              deviceVars, rndisVars
<1>10. ASSUME NEW k \in Conns, NEW id \in askedIds \cup {0}, ClientConnected(k, id)
       PROVE  RequestPart'
  BY <1>10, ClientConnectedRequest
<1>11. ASSUME NEW c \in ReqCalls, NEW sent \in BOOLEAN, BrokerEvent(c, sent)
       PROVE  RequestPart'
  BY <1>11, BrokerEventRequest
<1>12. CASE UNCHANGED vars
  <2>1. UNCHANGED RequestVars /\ life' = life
    BY <1>12 DEF vars, RequestVars, brokerVars, deviceVars, rndisVars
  <2> QED
    BY <2>1, <1>1
<1>13. CASE StaleRead /\ UNCHANGED rndisVars
  <2>1. UNCHANGED RequestVars /\ life' # "live"
    BY <1>13 DEF StaleRead, RequestVars, brokerVars, rndisVars
  <2> QED
    BY <2>1, <1>1
<1>14. ASSUME NEW k \in Conns, StaleClientEvent(k) PROVE RequestPart'
  BY <1>14 DEF StaleClientEvent, RequestPart, IdInv, BrokerInv, ZombieInv, brokerVars
<1> QED
  BY <1>2, <1>3, <1>4, <1>5, <1>6, <1>7, <1>8, <1>9, <1>10, <1>11, <1>12, <1>13, <1>14
     DEF Next, Daemon, Environment

----------------------------------------------------------------------------
(* The invariant, and the safety properties that follow from it.           *)

\* The initial state satisfies the invariant.
LEMMA InitIndInv == Init => IndInv
<1> SUFFICES ASSUME Init PROVE IndInv
  OBVIOUS
<1> USE DEF Init, BrokerInit, DeviceInit
<1>1. BrokerTypeOK
  BY DEF BrokerTypeOK, RqAnswers
<1>2. DeviceTypeOK
  <2>1. sizeKnown \in BOOLEAN /\ exported \in BOOLEAN
    BY Zenon
  <2>2. pwAnswer \in [PwCalls -> PwAnswers]
    BY DEF PwAnswers
  <2>3. rd \in Reads /\ pwKey \in PwKeys /\ wire \in Messages \cup {Nothing}
    BY DEF Reads, PwKeys, Nothing
  <2>4. life = "live" /\ link = "up" /\ state = 0 /\ pwFlags = 0 /\ reqId = 0 /\ pwCtx = NoCall
    OBVIOUS
  <2> QED
    BY <2>1, <2>2, <2>3, <2>4 DEF DeviceTypeOK
<1>3. TypeOK
  BY <1>1, <1>2 DEF TypeOK, ConnStates
<1>4. PasswordInv /\ ReadFitsState
  BY DEF PasswordInv, ReadFitsState
<1>5. IdInv /\ BrokerInv /\ ZombieInv
  BY DEF IdInv, BrokerInv, ZombieInv
<1> QED
  BY <1>3, <1>4, <1>5 DEF IndInv

\* Every step preserves it.
LEMMA NextIndInv == IndInv /\ [Next]_vars => IndInv'
  BY TypeStep, PasswordStep, RequestStep DEF IndInv, PasswordPart, RequestPart

\* IndInv, the invariant the properties rest on, holds in every reachable state.
THEOREM Invariance == Spec => []IndInv
<1>1. Init => IndInv
  BY InitIndInv
<1>2. IndInv /\ [Next]_vars => IndInv'
  BY NextIndInv
<1> QED
  BY <1>1, <1>2, PTL DEF Spec

\* TypeOK, for every set of calls and connections.
THEOREM TypeCorrect == Spec => []TypeOK
<1>1. IndInv => TypeOK
  BY DEF IndInv
<1> QED
  BY <1>1, Invariance, PTL

\* No D-Bus call of the device object is ever answered twice.
THEOREM CallsAnsweredOnce == Spec => []AnsweredOnce
<1>1. IndInv => AnsweredOnce
  BY DEF IndInv, PasswordInv, BrokerInv, AnsweredOnce
<1> QED
  BY <1>1, Invariance, PTL

\* A connection request that waits can still be satisfied: its broker is in the
\* table, holds the call and has no connection.
THEOREM WaitingRequestsKept == Spec => []WaitingRequestHasBroker
<1>1. IndInv => WaitingRequestHasBroker
  BY DEF IndInv, BrokerInv, WaitingRequestHasBroker
<1> QED
  BY <1>1, Invariance, PTL

\* The descriptor a client is sent is that of the connection opened for its own
\* request, and nobody else is sent it.
THEOREM ConnectionsDelivered == Spec => []DeliveredToRequester
<1>1. ASSUME IndInv PROVE DeliveredToRequester
  <2> USE <1>1 DEF IndInv, TypeOK, BrokerTypeOK
  <2>1. ASSUME NEW c \in ReqCalls, delivered[c] # NoConn
        PROVE  delivered[c] \in Conns /\ connId[delivered[c]] = brokerId[c] /\ brokerId[c] # 0
    BY <2>1 DEF BrokerInv
  <2>2. ASSUME NEW c \in ReqCalls, NEW d \in ReqCalls,
               c # d, delivered[c] # NoConn, delivered[c] = delivered[d]
        PROVE  FALSE
    BY <2>1, <2>2 DEF IdInv
  <2> QED
    BY <2>1, <2>2 DEF DeliveredToRequester
<1> QED
  BY <1>1, Invariance, PTL

\* A device locked by a host password is connected exactly when some caller was
\* told that its password was accepted.
THEOREM UnlockingIsByVerdict == Spec => []UnlockedByVerdict
<1>1. IndInv => UnlockedByVerdict
  BY DEF IndInv, PasswordInv, UnlockedByVerdict
<1> QED
  BY <1>1, Invariance, PTL

\* A caller waits for a verdict exactly while its call is the one in progress.
THEOREM CheckingIsSomeonesCall == Spec => []CheckingHasCaller
<1>1. ASSUME IndInv PROVE CheckingHasCaller
  BY <1>1 DEF IndInv, TypeOK, DeviceTypeOK, PasswordInv, CheckingHasCaller
<1> QED
  BY <1>1, Invariance, PTL

\* The read outstanding is as long as the state of the protocol will expect.
THEOREM ReadsFit == Spec => []ReadFitsState
<1>1. IndInv => ReadFitsState
  BY DEF IndInv
<1> QED
  BY <1>1, Invariance, PTL

\* The assertion on a broker's connection (synce-connection-broker.c:261) never
\* fails when the device uses each id once.
THEOREM AssertionHolds == Spec => NoAssertion
<1>1. ASSUME IndInv, NEW k \in Conns, ClientEvent(k) PROVE life' = "live"
  BY <1>1, FoundIsFree DEF IndInv, ClientEvent
<1>2. IndInv => [\A k \in Conns : ClientEvent(k) => life' = "live"]_vars
  BY <1>1
<1> QED
  BY <1>2, Invariance, PTL DEF NoAssertion

----------------------------------------------------------------------------
(* The contract.                                                           *)

ContractStep == [Contract!Next]_(Contract!vars)

LockVars == <<Lock, pwAnswer>>
GrantVars == <<rqAnswer, Granted, delivered>>

\* The device object begins as its contract says.
LEMMA ContractInit == Init => Contract!Init
  BY DEF Init, BrokerInit, DeviceInit, Contract!Init, Lock, Granted

\* A read on the control connection moves the lock as the contract says.
LEMMA ConnEventContract ==
    ASSUME IndInv, NEW m \in Messages, ConnEvent(m)
    PROVE  ContractStep
<1> USE DEF IndInv, TypeOK, DeviceTypeOK, PasswordInv
<1>1. UNCHANGED GrantVars
  BY DEF ConnEvent, HandshakeEvent, InfoSizeEvent, InfoEvent, VerdictEvent, UnlockEvent,
         GrantVars, Granted, brokerVars, rndisVars
<1>2. CASE UNCHANGED LockVars
  BY <1>1, <1>2 DEF ContractStep, Contract!vars, GrantVars, LockVars
<1>3. CASE HandshakeEvent(m) \/ InfoSizeEvent(m)
  BY <1>2, <1>3 DEF HandshakeEvent, InfoSizeEvent, LockVars, Lock
<1>4. CASE InfoEvent(m)
  <2>1. CASE m \notin PwKeys
    BY <1>2, <1>4, <2>1 DEF InfoEvent, MalformedInfo, LockVars, Lock
  <2>2. CASE m \in PwKeys
    <3>1. Lock = "unknown" /\ Lock' \in {"host", "device", "open"} /\ pwAnswer' = pwAnswer
      BY <1>4, <2>2 DEF InfoEvent, InfoReceived, Lock, PwKeys, Short
    <3> QED
      BY <1>1, <3>1 DEF ContractStep, Contract!Next, Contract!Learn, GrantVars
  <2> QED
    BY <2>1, <2>2
<1>5. CASE VerdictEvent(m)
  <2>1. Lock = "host" /\ pwKey = "key" /\ pwFlags = CHECKING /\ pwCtx \in PwCalls
    BY <1>5 DEF VerdictEvent, ReadCompletes, Lock, PwKeys
  <2>2. pwAnswer[pwCtx] = "waiting"
    BY <2>1
  <2>3. CASE m = Short
    BY <1>2, <1>5, <2>3 DEF VerdictEvent, LockVars, Lock, Short
  <2>4. CASE m = "0"
    <3>1. pwAnswer' = [pwAnswer EXCEPT ![pwCtx] = "false"] /\ Lock' = Lock
      BY <1>5, <2>1, <2>2, <2>4 DEF VerdictEvent, AnswerPassword, Reply, Lock, Short
    <3> QED
      BY <1>1, <2>1, <2>2, <3>1
         DEF ContractStep, Contract!Next, Contract!PwVerdict, GrantVars
  <2>5. CASE m \notin {Short, "0"}
    <3>1. pwAnswer' = [pwAnswer EXCEPT ![pwCtx] = "true"] /\ Lock' = "open"
      BY <1>5, <2>1, <2>2, <2>5 DEF VerdictEvent, AnswerPassword, Reply, Lock
    <3> QED
      BY <1>1, <2>1, <2>2, <3>1
         DEF ContractStep, Contract!Next, Contract!PwVerdict, GrantVars
  <2> QED
    BY <2>3, <2>4, <2>5
<1>6. CASE UnlockEvent(m)
  <2>1. Lock = "device" /\ pwAnswer' = pwAnswer /\ (Lock' = Lock \/ Lock' = "open")
    BY <1>6 DEF UnlockEvent, Lock
  <2> QED
    BY <1>1, <1>2, <2>1
       DEF ContractStep, Contract!Next, Contract!UnlockedOnDevice, GrantVars, LockVars
<1> QED
  BY <1>3, <1>4, <1>5, <1>6 DEF ConnEvent

\* A password call is refused, or becomes the one in progress.
LEMMA PasswordContract ==
    ASSUME IndInv, NEW p \in PwCalls,
           ProvidePassword(p) \/ ProvidePasswordRefused(p), UNCHANGED rndisVars
    PROVE  ContractStep
<1> USE DEF IndInv, TypeOK, DeviceTypeOK, PasswordInv
<1>1. UNCHANGED GrantVars /\ Lock' = Lock
  BY DEF ProvidePassword, ProvidePasswordRefused, GrantVars, Granted, Lock, brokerVars, rndisVars
<1>2. CASE UNCHANGED LockVars
  BY <1>1, <1>2 DEF ContractStep, Contract!vars, GrantVars, LockVars
<1>3. CASE pwAnswer[p] = "idle" /\ pwAnswer' = [pwAnswer EXCEPT ![p] = "error"]
  BY <1>1, <1>3 DEF ContractStep, Contract!Next, Contract!PwRefuse, GrantVars
<1>4. CASE ProvidePasswordRefused(p)
  BY <1>1, <1>2, <1>3, <1>4 DEF ProvidePasswordRefused, Reply, LockVars
<1>5. CASE ProvidePassword(p)
  <2>1. Lock = "host" /\ pwAnswer[p] = "idle" /\ \A q \in PwCalls : pwAnswer[q] # "waiting"
    BY <1>5, NoCallAssumption DEF ProvidePassword, Lock, Provide
  <2>2. CASE pwAnswer' = [pwAnswer EXCEPT ![p] = "waiting"]
    BY <1>1, <2>1, <2>2 DEF ContractStep, Contract!Next, Contract!PwBegin, GrantVars
  <2>3. \/ pwAnswer' = [pwAnswer EXCEPT ![p] = "waiting"]
        \/ pwAnswer' = [pwAnswer EXCEPT ![p] = Reply(@, "error")]
    BY <1>5 DEF ProvidePassword
  <2>4. Reply(pwAnswer[p], "error") = "error"
    BY <2>1 DEF Reply
  <2> QED
    BY <1>3, <2>1, <2>2, <2>3, <2>4
<1> QED
  BY <1>4, <1>5

\* The id of a connection leads to the request it was opened for, or to none.
LEMMA ClientEventContract ==
    ASSUME IndInv, NEW k \in Conns, ClientEvent(k)
    PROVE  ContractStep
<1> USE DEF IndInv, TypeOK, BrokerTypeOK, DeviceTypeOK
<1>1. /\ connState[k] = "reading" /\ UNCHANGED <<Lock, pwAnswer, connId, delivered>>
      /\ UNCHANGED brokerId
  BY DEF ClientEvent, Lock, TakeConnection, brokerVars
<1>2. CASE connState' = [connState EXCEPT ![k] = "unclaimed"] /\ UNCHANGED brokerVars
  <2>1. Granted' = Granted
    BY <1>1, <1>2 DEF Granted, brokerVars
  <2> QED
    BY <1>1, <1>2, <2>1 DEF ContractStep, Contract!vars, brokerVars
<1>3. ASSUME NEW c \in Lookup(connId[k]), NEW bound \in BOOLEAN,
             TakeConnection(c, k, bound), connState' = [connState EXCEPT ![k] = "taken"]
      PROVE  ContractStep
  <2>1. c \in ReqCalls /\ brokerId[c] = connId[k] /\ connId[k] # 0 /\ rqAnswer[c] = "waiting"
    BY <1>1, FoundIsFree DEF ZombieInv
  <2>2. rqAnswer' = [rqAnswer EXCEPT ![c] = IF bound THEN "path" ELSE "error"]
    BY <1>3, <2>1 DEF TakeConnection, Reply
  <2>3. \A d \in ReqCalls, l \in Conns :
          connId[l] = brokerId[d] /\ (d = c \/ l = k) => d = c /\ l = k
    BY <2>1 DEF IdInv
  <2>4. CASE bound
    <3>1. Granted' = Granted \cup {<<c, k>>}
      BY <1>1, <1>3, <2>1, <2>2, <2>3, <2>4 DEF Granted
    <3>2. \A g \in Granted : g[2] # k
      BY <1>1 DEF Granted
    <3> QED
      BY <1>1, <2>1, <2>2, <2>4, <3>1, <3>2 DEF ContractStep, Contract!Next, Contract!RqGrant
  <2>5. CASE ~bound
    <3>1. Granted' = Granted
      BY <1>1, <1>3, <2>1, <2>2, <2>3, <2>5 DEF Granted
    <3> QED
      BY <1>1, <2>1, <2>2, <2>5, <3>1 DEF ContractStep, Contract!Next, Contract!RqRefuse
  <2> QED
    BY <2>4, <2>5
<1>4. ASSUME NEW c \in Lookup(connId[k]), brokerConn[c] # NoConn PROVE FALSE
  BY <1>1, <1>4, FoundIsFree
<1> QED
  BY <1>2, <1>3, <1>4 DEF ClientEvent

\* A request is refused, or waits for its connection.
LEMMA RequestContract ==
    ASSUME IndInv, NEW c \in ReqCalls, RequestConnection(c) \/ RequestRefused(c)
    PROVE  ContractStep
<1> USE DEF IndInv, TypeOK, BrokerTypeOK, DeviceTypeOK
<1>1. /\ rqAnswer[c] = "idle" /\ UNCHANGED <<Lock, pwAnswer, connId, connState, delivered>>
      /\ \A d \in ReqCalls \ {c} : brokerId'[d] = brokerId[d]
  BY DEF RequestConnection, RequestRefused, NewBroker, Lock, deviceVars, rndisVars
<1>2. \/ rqAnswer' = [rqAnswer EXCEPT ![c] = "error"]
      \/ rqAnswer' = [rqAnswer EXCEPT ![c] = "waiting"] /\ Lock = "open"
  BY DEF RequestConnection, RequestRefused, NewBroker, Reply, Lock
<1>3. Granted' = Granted
  BY <1>1, <1>2 DEF Granted
<1> QED
  BY <1>1, <1>2, <1>3 DEF ContractStep, Contract!Next, Contract!RqRefuse, Contract!RqBegin

\* The descriptor that is sent is that of a connection granted to the call.
LEMMA BrokerEventContract ==
    ASSUME IndInv, NEW c \in ReqCalls, NEW sent \in BOOLEAN, BrokerEvent(c, sent)
    PROVE  ContractStep
<1> USE DEF IndInv, TypeOK, BrokerTypeOK, DeviceTypeOK
<1>1. /\ c \in brokerServer
      /\ delivered' = IF sent THEN [delivered EXCEPT ![c] = brokerConn[c]] ELSE delivered
      /\ UNCHANGED <<Lock, pwAnswer, rqAnswer, Granted>>
  BY DEF BrokerEvent, ServerSocketReadable, ConnBrokerDone, Lock, Granted, deviceVars, rndisVars
<1>2. delivered[c] = NoConn /\ brokerConn[c] \in Conns /\ <<c, brokerConn[c]>> \in Granted
  BY <1>1 DEF BrokerInv, Granted
<1> QED
  BY <1>1, <1>2 DEF ContractStep, Contract!Next, Contract!Give, Contract!vars

\* Every step of the device object is a step of its contract, or no step of it.
LEMMA NextContract ==
    ASSUME IndInv, [Next]_vars
    PROVE  ContractStep
<1> USE DEF IndInv, TypeOK, BrokerTypeOK, DeviceTypeOK
<1>1. ASSUME UNCHANGED <<Lock, pwAnswer, rqAnswer, Granted, delivered>> PROVE ContractStep
  BY <1>1 DEF ContractStep, Contract!vars
<1>2. ASSUME NEW k \in Conns, ClientEventFails(k) \/ StaleClientEvent(k)
      PROVE  ContractStep
  <2>1. Granted' = Granted
    BY <1>2 DEF ClientEventFails, StaleClientEvent, Granted, brokerVars
  <2> QED
    BY <1>1, <1>2, <2>1 DEF ClientEventFails, StaleClientEvent, Lock, brokerVars, deviceVars
<1>3. ASSUME (\E m \in Messages : DeviceSend(m)) \/ LinkBreaks, UNCHANGED rndisVars
      PROVE  ContractStep
  BY <1>1, <1>3 DEF DeviceSend, LinkBreaks, Lock, Granted, brokerVars, rndisVars
<1>4. CASE DeviceRemoved
  <2>1. Granted' = Granted
    BY <1>4 DEF DeviceRemoved, Dispose, BrokersDispose, Granted
  <2> QED
    BY <1>1, <1>4, <2>1 DEF DeviceRemoved, Dispose, BrokersDispose, Lock
<1>5. ASSUME NEW k \in Conns, NEW id \in askedIds \cup {0}, ClientConnected(k, id)
      PROVE  ContractStep
  <2>1. Granted' = Granted
    BY <1>5 DEF ClientConnected, Granted, brokerVars
  <2> QED
    BY <1>1, <1>5, <2>1 DEF ClientConnected, Lock, brokerVars, deviceVars
<1>6. CASE UNCHANGED vars
  BY <1>1, <1>6 DEF vars, brokerVars, deviceVars, rndisVars, Lock, Granted
<1>7. CASE StaleRead /\ UNCHANGED rndisVars
  BY <1>1, <1>7 DEF StaleRead, Lock, Granted, brokerVars, rndisVars
<1> QED
  BY <1>2, <1>3, <1>4, <1>5, <1>6, <1>7, ConnEventContract, ClientEventContract, PasswordContract,
     RequestContract, BrokerEventContract
     DEF Next, Daemon, Environment

\* The device object implements its contract.
THEOREM ImplementsContract == Spec => KeepsContract
<1>1. Init => Contract!Init
  BY ContractInit
<1>2. IndInv /\ [Next]_vars => [Contract!Next]_(Contract!vars)
  BY NextContract DEF ContractStep
<1> QED
  BY <1>1, <1>2, Invariance, PTL DEF Spec, KeepsContract, Contract!Spec
=============================================================================
