--------------------------- MODULE SynceDeviceRndis ---------------------------
(***************************************************************************)
(* dccm/synce-device-rndis.c: a Windows Mobile 5 or 6 device.  One main    *)
(* loop runs all the handlers, so that each is one action: the callback of *)
(* the read on the control connection (one action per control state), the  *)
(* D-Bus calls, the callbacks of the connections the device opens when it  *)
(* is asked to, and the callback of a broker's socket.                     *)
(*                                                                         *)
(* A device asked for connection `id' opens one connection and sends that  *)
(* id on it.  One that restarts its side without leaving the bus opens a   *)
(* connection that starts with a handshake word, which reads as id 0.      *)
(***************************************************************************)
EXTENDS SynceDevice

VARIABLES
    connState,  \* what became of each connection the device may open
    connId,     \* the id the device sends on it
    askedIds,   \* the ids the device was asked for and has not yet used
    toldUnlocked \* history: the device has said that its user unlocked it

rndisVars == <<connState, connId, askedIds, toldUnlocked>>
vars == <<brokerVars, deviceVars, rndisVars>>

\* A connection is in the table pending_client_conns while "reading" (its id is
\* being read) and, for good, once "lost" (that read failed); a broker has
\* "taken" it, or it is "unclaimed" when no broker has its id.
ConnStates == {"unopened", "reading", "lost", "taken", "unclaimed", "closed"}

TypeOK ==
    /\ BrokerTypeOK
    /\ DeviceTypeOK
    /\ connState \in [Conns -> ConnStates]
    /\ connId \in [Conns -> Nat]
    /\ askedIds \subseteq Nat
    /\ toldUnlocked \in BOOLEAN

Init ==
    /\ BrokerInit
    /\ DeviceInit
    /\ connState = [k \in Conns |-> "unopened"]
    /\ connId = [k \in Conns |-> 0]
    /\ askedIds = {}
    /\ toldUnlocked = FALSE

----------------------------------------------------------------------------
(* conn_event_cb, one action per control state.                            *)

\* The device opens with 0, is answered, goes on with 6, is answered, and says
\* 4 when its description follows.  After any other word nothing is read again.
HandshakeEvent(m) ==
    /\ state = HANDSHAKE
    /\ ReadCompletes(m, IF m \in {"0", "4", "6"} THEN "4" ELSE "none")
    /\ state' = IF m = "4" THEN GETTING_INFO ELSE state
    /\ UNCHANGED <<brokerVars, rndisVars, life, pwFlags, pwKey, pwCtx, sizeKnown,
                   reqId, exported, link, pwAnswer>>

\* The size of the description.  (A size the description does not have shows
\* as a malformed one.)
InfoSizeEvent(m) ==
    /\ state \in {GETTING_INFO, GOT_INFO} /\ ~sizeKnown
    /\ ReadCompletes(m, IF m = Short THEN "none" ELSE "info")
    /\ sizeKnown' = (m # Short)
    /\ UNCHANGED <<brokerVars, rndisVars, life, state, pwFlags, pwKey, pwCtx,
                   reqId, exported, link, pwAnswer>>

\* info_received for a description that cannot be parsed: the device stays
\* where it is.  Nothing reads the key such a description may have set.
MalformedInfo ==
    /\ state' = GOT_INFO
    /\ UNCHANGED <<pwFlags, pwKey, exported>>

\* info_received: the object goes on the bus, then the password key decides.
\* A device unlocked on its own screen is told to show it, and its answer is
\* awaited, whether or not the write succeeded.
InfoReceived(key) ==
    /\ pwKey' = key
    /\ DbusInit
    /\ state' = IF key = "none" THEN CONNECTED ELSE AUTH
    /\ pwFlags' = IF key = "none" THEN UNSET
                  ELSE IF key = "ondevice" THEN PROVIDE_ON_DEVICE ELSE PROVIDE

InfoEvent(m) ==
    /\ state \in {GETTING_INFO, GOT_INFO} /\ sizeKnown
    /\ ReadCompletes(m, IF m = "ondevice" THEN "4" ELSE "none")
    /\ \/ m = Short /\ UNCHANGED <<state, pwFlags, pwKey, exported>>
       \/ m \in Messages \ (PwKeys \cup {Short}) /\ MalformedInfo
       \/ m \in PwKeys /\ InfoReceived(m)
    /\ UNCHANGED <<brokerVars, rndisVars, life, pwCtx, sizeKnown, reqId, link, pwAnswer>>

\* The verdict on a password: zero is no.  A short read is dropped, with the
\* caller left in pw_ctx and the flags at CHECKING.
VerdictEvent(m) ==
    /\ state = AUTH /\ pwKey # "ondevice"
    /\ ReadCompletes(m, "none")
    /\ \/ m = Short /\ UNCHANGED <<state, pwFlags, pwCtx, pwAnswer>>
       \/ /\ m = "0"
          /\ pwFlags' = PROVIDE
          /\ AnswerPassword("false")
          /\ state' = state
       \/ /\ m \notin {Short, "0"}
          /\ state' = CONNECTED
          /\ pwFlags' = UNLOCKED
          /\ AnswerPassword("true")
    /\ UNCHANGED <<brokerVars, rndisVars, life, pwKey, sizeKnown, reqId, exported, link>>

\* The device was unlocked on its screen (zero), or says something else, after
\* which nothing is read.  The length of what was read is not looked at: after
\* a short read the buffer holds whatever was there before.
UnlockEvent(m) ==
    /\ state = AUTH /\ pwKey = "ondevice"
    /\ ReadCompletes(m, "none")
    /\ \E zero \in IF m = Short THEN BOOLEAN ELSE {m = "0"} :
         IF zero
         THEN state' = CONNECTED /\ pwFlags' = UNLOCKED
         ELSE UNCHANGED <<state, pwFlags>>
    /\ toldUnlocked' = (toldUnlocked \/ m = "0")
    /\ UNCHANGED <<brokerVars, connState, connId, askedIds, life, pwKey, pwCtx,
                   sizeKnown, reqId, exported, link, pwAnswer>>

ConnEvent(m) ==
    \/ HandshakeEvent(m)
    \/ InfoSizeEvent(m)
    \/ InfoEvent(m)
    \/ VerdictEvent(m)
    \/ UnlockEvent(m)

----------------------------------------------------------------------------
(* RequestConnection and the connections the device opens.                 *)

RequestRefused(c) ==
    /\ CanCall
    /\ rqAnswer[c] = "idle"
    /\ state # CONNECTED
    /\ rqAnswer' = [rqAnswer EXCEPT ![c] = Reply(@, "error")]
    /\ UNCHANGED <<requests, brokerId, brokerCtx, brokerConn, brokerServer, delivered,
                   deviceVars, rndisVars>>

\* A broker is made under the next id and the device is asked for a connection
\* with that id.  When the write fails the caller gets the error and the broker,
\* which still holds the call, stays in the table.
RequestConnection(c) ==
    /\ CanCall
    /\ rqAnswer[c] = "idle"
    /\ state = CONNECTED
    /\ reqId' = reqId + 1
    /\ \E written \in WriteOutcomes :
         NewBroker(c, reqId', IF written THEN "waiting" ELSE "error")
    /\ askedIds' = IF link = "up" THEN askedIds \cup {reqId'} ELSE askedIds
    /\ UNCHANGED <<life, state, pwFlags, pwKey, pwCtx, sizeKnown, exported, rd, link,
                   wire, pwAnswer, connState, connId, toldUnlocked>>

\* client_connected: the device opens a connection on which it sends `id'.
ClientConnected(k, id) ==
    /\ life = "live"
    /\ connState[k] = "unopened"
    /\ id \in askedIds \cup {0}
    /\ connState' = [connState EXCEPT ![k] = "reading"]
    /\ connId' = [connId EXCEPT ![k] = id]
    /\ askedIds' = askedIds \ {id}
    /\ UNCHANGED <<brokerVars, deviceVars, toldUnlocked>>

\* client_event_cb, the id could not be read: the connection stays in the table.
ClientEventFails(k) ==
    /\ life = "live"
    /\ connState[k] = "reading"
    /\ connState' = [connState EXCEPT ![k] = "lost"]
    /\ UNCHANGED <<brokerVars, deviceVars, connId, askedIds, toldUnlocked>>

\* client_event_cb, the id was read: the connection leaves the table and goes to
\* the broker under that id, if there is one.  A broker that already has a
\* connection stops the daemon (g_assert).
ClientEvent(k) ==
    /\ life = "live"
    /\ connState[k] = "reading"
    /\ LET found == Lookup(connId[k]) IN
       \/ /\ found = {}
          /\ connState' = [connState EXCEPT ![k] = "unclaimed"]
          /\ UNCHANGED <<brokerVars, life>>
       \/ \E c \in found, bound \in BOOLEAN :
            /\ TakeConnection(c, k, bound)
            /\ connState' = [connState EXCEPT ![k] = "taken"]
            /\ life' = life
       \/ \E c \in found :
            /\ brokerConn[c] # NoConn
            /\ life' = "aborted"
            /\ UNCHANGED <<brokerVars, connState>>
    /\ UNCHANGED <<state, pwFlags, pwKey, pwCtx, sizeKnown, reqId, exported, rd, link,
                   wire, pwAnswer, connId, askedIds, toldUnlocked>>

\* A client connects to the socket named in the answer to call c.
BrokerEvent(c, sent) ==
    /\ life = "live"
    /\ ServerSocketReadable(c, sent)
    /\ UNCHANGED <<deviceVars, rndisVars>>

\* "uevent remove": the RNDIS object drops its table of client connections and
\* then does what every device object does.  The reads on those connections are
\* still to be called back.
DeviceRemoved ==
    /\ life = "live"
    /\ Dispose
    /\ life' = "disposed" /\ rd' = rd
    /\ connState' = [k \in Conns |->
                       IF connState[k] = "lost" THEN "closed" ELSE connState[k]]
    /\ UNCHANGED <<connId, askedIds, toldUnlocked>>

\* client_event_cb, given the object that has been freed.
StaleClientEvent(k) ==
    /\ life = "disposed"
    /\ connState[k] = "reading"
    /\ connState' = [connState EXCEPT ![k] = "closed"]
    /\ life' \in {"disposed", "aborted"}
    /\ UNCHANGED <<brokerVars, state, pwFlags, pwKey, pwCtx, sizeKnown, reqId, exported,
                   rd, link, wire, pwAnswer, connId, askedIds, toldUnlocked>>

----------------------------------------------------------------------------
\* What the daemon's main loop runs.
Daemon ==
    \/ \E m \in Messages : ConnEvent(m)
    \/ \E k \in Conns : ClientEvent(k) \/ ClientEventFails(k) \/ StaleClientEvent(k)
    \/ StaleRead /\ UNCHANGED rndisVars

\* What the device and the clients do.
Environment ==
    \/ \E m \in Messages : DeviceSend(m) /\ UNCHANGED rndisVars
    \/ LinkBreaks /\ UNCHANGED rndisVars
    \/ DeviceRemoved
    \/ \E p \in PwCalls :
         /\ ProvidePassword(p) \/ ProvidePasswordRefused(p)
         /\ UNCHANGED rndisVars
    \/ \E c \in ReqCalls : RequestConnection(c) \/ RequestRefused(c)
    \/ \E k \in Conns : \E id \in askedIds \cup {0} : ClientConnected(k, id)
    \/ \E c \in ReqCalls : \E sent \in BOOLEAN : BrokerEvent(c, sent)

Next == Daemon \/ Environment

Spec == Init /\ [][Next]_vars

\* The main loop dispatches every source that is ready; the device and the
\* clients owe nothing.
FairSpec == Spec /\ WF_vars(\E m \in Messages : ConnEvent(m))
                 /\ \A k \in Conns : WF_vars(ClientEvent(k) \/ ClientEventFails(k))

----------------------------------------------------------------------------
(* Safety.                                                                 *)

\* No D-Bus call is answered twice: not the password call whose write failed
\* when a verdict arrives, not the connection request whose write failed when a
\* connection arrives, not any call when the second of two answers is at hand.
AnsweredOnce ==
    /\ \A p \in PwCalls : pwAnswer[p] # "twice"
    /\ \A c \in ReqCalls : rqAnswer[c] # "twice"

\* A connection request that waits is one the device can still satisfy: its
\* broker is in the table, holds the call, and has no connection.
WaitingRequestHasBroker ==
    life = "live" =>
      \A c \in ReqCalls : rqAnswer[c] = "waiting" =>
        c \in requests /\ c \in brokerCtx /\ brokerConn[c] = NoConn

\* The descriptor a client is sent is that of the connection the device opened
\* for the client's own request, in whatever order requests and connections
\* crossed; and no two clients are sent the same one.
DeliveredToRequester ==
    /\ \A c \in ReqCalls : delivered[c] # NoConn =>
         connId[delivered[c]] = brokerId[c] /\ brokerId[c] # 0
    /\ \A c, d \in ReqCalls :
         c # d /\ delivered[c] # NoConn => delivered[c] # delivered[d]

\* Whoever was told "true" was told so because the device said yes, and a
\* device with a password key is connected only after somebody was.
UnlockedByVerdict ==
    pwKey = "key" => (state = CONNECTED <=> \E p \in PwCalls : pwAnswer[p] = "true")

\* A caller waits for a verdict exactly while it is the call in progress, and
\* the flags clients see say so.
CheckingHasCaller ==
    /\ \A p \in PwCalls : pwAnswer[p] = "waiting" <=> pwCtx = p /\ pwFlags = CHECKING
    /\ pwFlags = CHECKING => state = AUTH /\ pwCtx # NoCall

\* The read outstanding asks for what the control state will expect of it.
ReadFitsState ==
    rd # "none" =>
      /\ state \in {HANDSHAKE, GETTING_INFO, AUTH}
      /\ state = HANDSHAKE => rd = "4"
      /\ state = GETTING_INFO => rd = IF sizeKnown THEN "info" ELSE "4"
      /\ state = AUTH => rd = IF pwKey = "key" THEN "2" ELSE "4"

\* A device's assertion that a broker has no connection yet never fails: ids are
\* not reused while a broker holds them, and a device uses each id once.
NoAssertion == [][\A k \in Conns : ClientEvent(k) => life' = "live"]_vars

(* A thing the program says of itself, which its run refutes.                *)

\* "wm6 - password entered on device" (synce-device-rndis.c:404): a device with
\* such a key is connected only after it reported that.
UnlockWasReported ==
    pwKey = "ondevice" /\ state = CONNECTED => toldUnlocked

----------------------------------------------------------------------------
(* The contract, seen through the program's state.                         *)

Lock ==
    IF state = CONNECTED THEN "open"
    ELSE IF state # AUTH THEN "unknown"
    ELSE IF pwKey = "ondevice" THEN "device" ELSE "host"

\* The connections the brokers took for calls that were answered with a path.
Granted ==
    {g \in ReqCalls \X Conns :
       rqAnswer[g[1]] = "path" /\ connState[g[2]] = "taken" /\ connId[g[2]] = brokerId[g[1]]}

Contract == INSTANCE DeviceContract WITH
    lock <- Lock, pw <- pwAnswer, rq <- rqAnswer, grants <- Granted, given <- delivered

\* The device object keeps its promises to its clients.
KeepsContract == Contract!Spec

----------------------------------------------------------------------------
(* Liveness.                                                               *)

\* A verdict that has reached the daemon reaches the caller.
VerdictDelivered ==
    \A p \in PwCalls :
      (pwCtx = p /\ rd = "2" /\ wire \notin {Nothing, Short} /\ life = "live")
        ~> (pwAnswer[p] \in {"true", "false"} \/ life # "live")

\* A request for which the device opened a connection is answered, unless the
\* id could not be read from it.
OpenedIsAnswered ==
    \A c \in ReqCalls, k \in Conns :
      (rqAnswer[c] = "waiting" /\ connState[k] = "reading" /\ connId[k] = brokerId[c])
        ~> (rqAnswer[c] # "waiting" \/ connState[k] = "lost" \/ life # "live")
----------------------------------------------------------------------------
(* The inductive invariant: what the safety properties above rest on.      *)

\* The control state, the key, the flags, the call in progress and the read
\* outstanding always fit together.
PasswordInv ==
    /\ state < AUTH => pwFlags = UNSET /\ pwCtx = NoCall /\ pwKey = "none"
    /\ state = AUTH =>
         \/ pwKey = "ondevice" /\ pwFlags = PROVIDE_ON_DEVICE /\ pwCtx = NoCall
         \/ pwKey = "key" /\ pwFlags \in {PROVIDE, CHECKING}
    /\ state = CONNECTED => pwCtx = NoCall /\ pwFlags \in {UNSET, UNLOCKED}
    /\ pwFlags = CHECKING => pwCtx # NoCall
    /\ state = AUTH /\ pwKey = "key" /\ rd # "none" => pwFlags = CHECKING
    /\ state = HANDSHAKE => ~sizeKnown
    /\ \A p \in PwCalls :
         /\ pwAnswer[p] # "twice"
         /\ pwAnswer[p] = "waiting" <=> pwCtx = p /\ pwFlags = CHECKING
         /\ pwAnswer[p] = "true" => pwKey = "key" /\ state = CONNECTED
    /\ pwKey = "key" /\ state = CONNECTED => \E p \in PwCalls : pwAnswer[p] = "true"

\* Ids are given out once, and the device uses each once.
IdInv ==
    /\ askedIds \subseteq 1..reqId
    /\ \A c \in ReqCalls : brokerId[c] <= reqId
    /\ \A c, d \in ReqCalls : c # d /\ brokerId[c] # 0 => brokerId[c] # brokerId[d]
    /\ \A k \in Conns : connId[k] <= reqId /\ connId[k] \notin askedIds
    /\ \A k, l \in Conns : k # l /\ connId[k] # 0 => connId[k] # connId[l]
    /\ \A k \in Conns : connState[k] = "unopened" => connId[k] = 0

\* What a broker holds, and what its call was answered.
BrokerInv ==
    /\ brokerServer \subseteq requests
    /\ \A c \in ReqCalls :
         /\ rqAnswer[c] # "twice"
         /\ rqAnswer[c] = "idle" => brokerId[c] = 0
         /\ rqAnswer[c] \in {"waiting", "path"} \/ c \in requests => brokerId[c] # 0
         /\ c \notin requests => brokerConn[c] = NoConn
         /\ rqAnswer[c] = "waiting" /\ life = "live" => c \in requests
         /\ rqAnswer[c] = "waiting" => brokerConn[c] = NoConn
         /\ c \in requests /\ brokerConn[c] = NoConn => c \in brokerCtx
         /\ c \in brokerServer =>
              rqAnswer[c] = "path" /\ brokerConn[c] # NoConn /\ delivered[c] = NoConn
         /\ brokerConn[c] # NoConn =>
              connState[brokerConn[c]] = "taken" /\ connId[brokerConn[c]] = brokerId[c]
         /\ delivered[c] # NoConn =>
              /\ rqAnswer[c] = "path"
              /\ connState[delivered[c]] = "taken" /\ connId[delivered[c]] = brokerId[c]

\* A broker that has no connection and whose call was answered is one whose id
\* the device was never sent.
ZombieInv ==
    \A c \in requests : brokerConn[c] = NoConn /\ rqAnswer[c] # "waiting" =>
        brokerId[c] \notin askedIds /\ \A k \in Conns : connId[k] # brokerId[c]

IndInv == TypeOK /\ PasswordInv /\ ReadFitsState /\ IdInv /\ BrokerInv /\ ZombieInv
=============================================================================
