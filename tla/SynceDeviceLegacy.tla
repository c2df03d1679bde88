-------------------------- MODULE SynceDeviceLegacy --------------------------
(***************************************************************************)
(* dccm/synce-device-legacy.c: a device older than Windows Mobile 5.  It   *)
(* speaks first on the control connection, is asked for its password as    *)
(* part of that, and once connected is pinged every five seconds; after    *)
(* three pings without a reply it is taken for gone.  A client's           *)
(* connection is one the daemon opens to the device, on which it repeats   *)
(* the password, so that a connection is named by the call it is for.      *)
(*                                                                         *)
(* What the daemon reads from memory that it has freed or not yet written  *)
(* is anything; what a callback does to an object that has been freed is   *)
(* nothing, or the end of the daemon.                                      *)
(***************************************************************************)
EXTENDS SynceDevice

CONSTANT MaxPings   \* DCCM_MAX_PING_COUNT, 3 in the code

ASSUME MaxPingsAssumption == MaxPings \in Nat \ {0}
ASSUME OneConnectionPerCall == Conns = ReqCalls

VARIABLES
    password,   \* priv_legacy->password: "none", "set", or "freed" and still pointed to
    pingTimer,  \* send_ping is a running timer
    pingCount,  \* ping_count
    freshBuf,   \* iobuf was replaced while a read into the old one was outstanding
    rapi,       \* the connection being made for each call
    dangling    \* the brokers that were freed but are still in the table

legacyVars == <<password, pingTimer, pingCount, freshBuf, rapi, dangling>>
pingVars == <<pingTimer, pingCount, freshBuf>>
vars == <<brokerVars, deviceVars, legacyVars>>

\* A call's connection is being opened, or is open and waits for the device to
\* say (one byte) whether it takes the password, or is no longer the device's.
RapiStates == {"none", "connecting", "checking", "over"}

TypeOK ==
    /\ BrokerTypeOK
    /\ DeviceTypeOK
    /\ password \in {"none", "set", "freed"}
    /\ pingTimer \in BOOLEAN
    /\ pingCount \in 0..MaxPings
    /\ freshBuf \in BOOLEAN
    /\ rapi \in [ReqCalls -> RapiStates]
    /\ dangling \subseteq ReqCalls

Init ==
    /\ BrokerInit
    /\ DeviceInit
    /\ password = "none"
    /\ pingTimer = FALSE /\ pingCount = 0 /\ freshBuf = FALSE
    /\ rapi = [c \in ReqCalls |-> "none"]
    /\ dangling = {}

----------------------------------------------------------------------------
(* conn_event_cb, one action per control state.  The words of a legacy     *)
(* device: "0"; the size of a description ("size"), or too small for one   *)
(* ("small"); a password challenge, with a key or with a key of zero       *)
(* ("challenge", "challenge0"); the reply to a ping ("ping").              *)

\* The first words: empty headers, challenges, then the description's size.
HandshakeEvent(m) ==
    /\ state = HANDSHAKE
    /\ ReadCompletes(m, IF m = "size" THEN "info"
                        ELSE IF m \in {"0", "challenge", "challenge0", "ping"} THEN "4"
                        ELSE "none")
    /\ state' = IF m = "size" THEN GETTING_INFO ELSE state
    /\ sizeKnown' = (m = "size")
    /\ pwKey' = IF m \in {"challenge", "ping"} THEN "key"
                ELSE IF m = "challenge0" THEN "none" ELSE pwKey
    /\ UNCHANGED <<brokerVars, legacyVars, life, pwFlags, pwCtx, reqId, exported, link, pwAnswer>>

\* info_received for a description that cannot be parsed.
MalformedInfo ==
    /\ state' = GOT_INFO
    /\ UNCHANGED <<pwFlags, exported, pingTimer>>

\* info_received: the object goes on the bus, and the key of the challenge (none
\* is in the description) decides.  A connected device is pinged from now on.
InfoReceived ==
    /\ DbusInit
    /\ state' = IF pwKey = "none" THEN CONNECTED ELSE AUTH
    /\ pwFlags' = IF pwKey = "none" THEN UNSET ELSE PROVIDE
    /\ pingTimer' = (pwKey = "none")

InfoEvent(m) ==
    /\ state \in {GETTING_INFO, GOT_INFO}
    /\ ReadCompletes(m, "none")
    /\ \/ m = Short /\ UNCHANGED <<state, pwFlags, exported, pingTimer>>
       \/ m \in Messages \ (PwKeys \cup {Short}) /\ MalformedInfo
       \/ m \in PwKeys /\ InfoReceived
    /\ UNCHANGED <<brokerVars, password, pingCount, freshBuf, rapi, dangling,
                   life, pwKey, pwCtx, sizeKnown, reqId, link, pwAnswer>>

\* The verdict.  A password that was refused is freed, but not forgotten.
VerdictEvent(m) ==
    /\ state = AUTH
    /\ ReadCompletes(m, "none")
    /\ \/ m = Short /\ UNCHANGED <<state, pwFlags, pwCtx, pwAnswer, password, pingTimer>>
       \/ /\ m = "0"
          /\ pwFlags' = PROVIDE
          /\ password' = "freed"
          /\ AnswerPassword("false")
          /\ UNCHANGED <<state, pingTimer>>
       \/ /\ m \notin {Short, "0"}
          /\ state' = CONNECTED
          /\ pwFlags' = UNLOCKED
          /\ pingTimer' = TRUE
          /\ AnswerPassword("true")
          /\ UNCHANGED password
    /\ UNCHANGED <<brokerVars, pingCount, freshBuf, rapi, dangling,
                   life, pwKey, sizeKnown, reqId, exported, link>>

\* What the callback finds in iobuf when m was read.
InBuffer(m) == IF freshBuf THEN Words ELSE {m}

\* A connected device sends: the reply to a ping, or something else, after which
\* nothing is read until the next ping, or an empty header, after which it is.
PingReplyEvent(m) ==
    /\ state = CONNECTED
    /\ \/ /\ m = Short
          /\ ReadCompletes(m, "none")
          /\ UNCHANGED <<pingCount, freshBuf>>
       \/ /\ m # Short
          /\ \E word \in InBuffer(m) :
               /\ ReadCompletes(m, IF word = "0" THEN "4" ELSE "none")
               /\ pingCount' = IF word = "ping" THEN 0 ELSE pingCount
          /\ freshBuf' = FALSE
    /\ UNCHANGED <<brokerVars, password, pingTimer, rapi, dangling, life, state, pwFlags,
                   pwKey, pwCtx, sizeKnown, reqId, exported, link, pwAnswer>>

ConnEvent(m) ==
    \/ HandshakeEvent(m)
    \/ InfoEvent(m)
    \/ VerdictEvent(m)
    \/ PingReplyEvent(m)

----------------------------------------------------------------------------
(* The object goes.                                                        *)

\* (Mutant: a reference to the object is left.)
DeviceGoneStays ==
    /\ Dispose
    /\ life' = life

\* Dispose and finalize: a broker freed before is freed again by the table's
\* destruction, and a refused password by the object's.
DeviceGone ==
    /\ Dispose
    /\ life' \in IF dangling # {} \/ password = "freed"
                 THEN {"disposed", "aborted"} ELSE {"disposed"}

\* "uevent remove".
DeviceRemoved ==
    /\ life = "live"
    /\ DeviceGone
    /\ UNCHANGED <<legacyVars, rd>>

\* (Mutant: one ping too many.)
TooManyPingsLate(count) == count > MaxPings

TooManyPings(count) == count = MaxPings

\* send_ping: the ping is written (or not: nobody looks), iobuf is replaced, and
\* its reply read; when a read is outstanding this one is refused by GIO and the
\* old one stays, for the old buffer.
SendPing ==
    /\ life = "live" /\ pingTimer
    /\ pingCount' = pingCount + 1
    /\ freshBuf' = (rd # "none")
    /\ rd' = "4"
    /\ IF TooManyPings(pingCount')
       THEN /\ DeviceGone
            /\ pingTimer' = FALSE
            /\ UNCHANGED <<password, rapi, dangling>>
       ELSE /\ UNCHANGED <<brokerVars, password, pingTimer, rapi, dangling, life, state,
                           pwFlags, pwKey, pwCtx, sizeKnown, reqId, exported, link, wire,
                           pwAnswer>>

\* The timer outlives the object: send_ping looks at what it was given, and stops.
StalePing ==
    /\ life = "disposed" /\ pingTimer
    /\ pingTimer' = FALSE
    /\ life' \in {"disposed", "aborted"}
    /\ UNCHANGED <<brokerVars, password, pingCount, freshBuf, rapi, dangling, state,
                   pwFlags, pwKey, pwCtx, sizeKnown, reqId, exported, rd, link, wire, pwAnswer>>

----------------------------------------------------------------------------
(* ProvidePassword.                                                        *)

\* provide_password_impl of the legacy class makes the base class's checks first,
\* on variables that it has initialised.
LegacyPasswordRefused(p) ==
    /\ CanCall
    /\ pwAnswer[p] = "idle"
    /\ state # AUTH \/ ~Provide(pwFlags) \/ pwCtx # NoCall
    /\ pwAnswer' = [pwAnswer EXCEPT ![p] = Reply(@, "error")]
    /\ UNCHANGED <<brokerVars, legacyVars, life, state, pwFlags, pwKey, pwCtx, sizeKnown,
                   reqId, exported, rd, link, wire>>

\* (Mutant: it is not kept.)
LegacyPasswordForgotten(p) ==
    /\ ProvidePassword(p)
    /\ UNCHANGED <<pingVars, rapi, dangling, password>>

\* The password is kept for the connections to come, sent or not.
LegacyPassword(p) ==
    /\ ProvidePassword(p)
    /\ password' = "set"
    /\ UNCHANGED <<pingVars, rapi, dangling>>

----------------------------------------------------------------------------
(* RequestConnection.                                                      *)

\* Refused: `broker' and `req_id_local' are used without having been set, so that
\* what the refusal does is up to the stack's content.
RequestRefused(c) ==
    /\ CanCall
    /\ rqAnswer[c] = "idle"
    /\ state # CONNECTED
    /\ \/ rqAnswer' = [rqAnswer EXCEPT ![c] = Reply(@, "error")] /\ life' = life
       \/ rqAnswer' = rqAnswer /\ life' = "aborted"
    /\ UNCHANGED <<requests, brokerId, brokerCtx, brokerConn, brokerServer, delivered,
                   legacyVars, state, pwFlags, pwKey, pwCtx, sizeKnown, reqId, exported,
                   rd, link, wire, pwAnswer>>

\* Without a password, or with an empty one, the device is connected to in the
\* background.  With one it is connected to while the main loop waits, and sent the
\* password; when that fails the broker leaves the table and the caller gets the
\* error.  (A password that was set may be an empty one.)
RequestConnection(c) ==
    /\ CanCall
    /\ rqAnswer[c] = "idle"
    /\ state = CONNECTED
    /\ reqId' = reqId + 1
    /\ \/ /\ NewBroker(c, reqId', "waiting")
          /\ rapi' = [rapi EXCEPT ![c] = "connecting"]
       \/ /\ password # "none"
          /\ NewBroker(c, reqId', "waiting")
          /\ rapi' = [rapi EXCEPT ![c] = "checking"]
       \/ /\ password # "none"
          /\ brokerId' = [brokerId EXCEPT ![c] = reqId']
          /\ rqAnswer' = [rqAnswer EXCEPT ![c] = Reply(@, "error")]
          /\ UNCHANGED <<requests, brokerCtx, brokerConn, brokerServer, delivered, rapi>>
    /\ UNCHANGED <<password, pingVars, dangling, life, state, pwFlags, pwKey, pwCtx, sizeKnown,
                   exported, rd, link, wire, pwAnswer>>

\* client_event_cb: the connection is made, or it is not, and nobody is told.
ClientEvent(c, made) ==
    /\ life = "live"
    /\ rapi[c] = "connecting"
    /\ rapi' = [rapi EXCEPT ![c] = "over"]
    /\ IF made THEN \E bound \in BOOLEAN : TakeConnection(c, c, bound)
               ELSE UNCHANGED brokerVars
    /\ UNCHANGED <<deviceVars, password, pingVars, dangling>>

\* client_event_password_cb: the device takes the password, or it does not (or
\* cannot be heard).  Then the caller gets an error, and the broker is freed
\* without leaving the table.
ClientPasswordEvent(c, taken) ==
    /\ life = "live"
    /\ rapi[c] = "checking"
    /\ rapi' = [rapi EXCEPT ![c] = "over"]
    /\ IF taken
       THEN /\ \E bound \in BOOLEAN : TakeConnection(c, c, bound)
            /\ dangling' = dangling
       ELSE /\ rqAnswer' = [rqAnswer EXCEPT ![c] = Reply(@, "error")]
            /\ dangling' = dangling \cup {c}
            /\ brokerCtx' = brokerCtx \ {c}
            /\ UNCHANGED <<requests, brokerId, brokerConn, brokerServer, delivered>>
    /\ UNCHANGED <<deviceVars, password, pingVars>>

\* Either callback, for a broker that went with the device object.
StaleClientEvent(c) ==
    /\ life = "disposed"
    /\ rapi[c] \in {"connecting", "checking"}
    /\ rapi' = [rapi EXCEPT ![c] = "over"]
    /\ life' \in {"disposed", "aborted"}
    /\ UNCHANGED <<brokerVars, state, pwFlags, pwKey, pwCtx, sizeKnown, reqId, exported,
                   rd, link, wire, pwAnswer, password, pingVars, dangling>>

\* A client connects to the socket named in the answer to call c.
BrokerEvent(c, sent) ==
    /\ life = "live"
    /\ ServerSocketReadable(c, sent)
    /\ UNCHANGED <<deviceVars, legacyVars>>

----------------------------------------------------------------------------
\* What the daemon's main loop runs.
Daemon ==
    \/ \E m \in Messages : ConnEvent(m)
    \/ SendPing
    \/ \E c \in ReqCalls, ok \in BOOLEAN : ClientEvent(c, ok) \/ ClientPasswordEvent(c, ok)
    \/ \E c \in ReqCalls : StaleClientEvent(c)
    \/ StaleRead /\ UNCHANGED legacyVars
    \/ StalePing

\* What the device and the clients do.
Environment ==
    \/ \E m \in Messages : DeviceSend(m) /\ UNCHANGED legacyVars
    \/ LinkBreaks /\ UNCHANGED legacyVars
    \/ DeviceRemoved
    \/ \E p \in PwCalls : LegacyPassword(p) \/ LegacyPasswordRefused(p)
    \/ \E c \in ReqCalls : RequestConnection(c) \/ RequestRefused(c)
    \/ \E c \in ReqCalls, sent \in BOOLEAN : BrokerEvent(c, sent)

Next == Daemon \/ Environment

Spec == Init /\ [][Next]_vars

\* The main loop dispatches what is ready, timers included, and an attempt to
\* connect ends.  The device and the clients owe nothing.
FairSpec ==
    /\ Spec
    /\ WF_vars(\E m \in Messages : ConnEvent(m))
    /\ WF_vars(SendPing)
    /\ \A c \in ReqCalls : WF_vars(\E made \in BOOLEAN : ClientEvent(c, made))

----------------------------------------------------------------------------
(* Safety.                                                                 *)

\* The password that is sent on a client's connection is one the device took:
\* never one that was refused and freed, and there is one when the device has a
\* key.
PasswordForConnections ==
    state = CONNECTED => password = IF pwKey = "key" THEN "set" ELSE "none"

\* No D-Bus call is answered twice.
AnsweredOnce ==
    /\ \A p \in PwCalls : pwAnswer[p] # "twice"
    /\ \A c \in ReqCalls : rqAnswer[c] # "twice"

\* The contract, seen through the program's state.
Lock == IF state = CONNECTED THEN "open" ELSE IF state = AUTH THEN "host" ELSE "unknown"

Granted == {g \in ReqCalls \X Conns : g[1] = g[2] /\ rqAnswer[g[1]] = "path"}

Contract == INSTANCE DeviceContract WITH
    lock <- Lock, pw <- pwAnswer, rq <- rqAnswer, grants <- Granted, given <- delivered

\* The device object keeps the promises that an RNDIS one keeps.
KeepsContract == Contract!Spec

----------------------------------------------------------------------------
(* Liveness.                                                               *)

\* A connected device whose connection is dead leaves.
DeadDeviceLeaves == (state = CONNECTED /\ link = "down") ~> life # "live"
=============================================================================
