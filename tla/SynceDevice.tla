----------------------------- MODULE SynceDevice -----------------------------
(***************************************************************************)
(* dccm/synce-device.c: what every device object of the connection manager *)
(* has, whatever protocol the device talks: the control connection with at *)
(* most one read outstanding on it, the control state, the password flags, *)
(* the password call in progress and the table of connection requests.     *)
(* The build modelled is the one with GDBus and GUdev.                     *)
(*                                                                         *)
(* The device at the other end is the environment.  It sends one message   *)
(* at a time (exact-length reads make a longer pipeline equivalent), and   *)
(* the connection may break.  A read that returns anything but the number  *)
(* of bytes asked for (an error, the end of the stream, a part) is Short.  *)
(***************************************************************************)
EXTENDS ConnectionBroker

CONSTANTS
    PwCalls,    \* D-Bus ProvidePassword invocations
    NoCall,     \* a NULL GDBusMethodInvocation
    Words       \* the 16- and 32-bit words a device sends, as the protocol sorts them

ASSUME NoCallAssumption == NoCall \notin PwCalls

VARIABLES
    life,       \* the object: "live", "disposed"; or the daemon: "aborted"
    state,      \* priv->state
    pwFlags,    \* priv->pw_flags
    pwKey,      \* priv->pw_key
    pwCtx,      \* priv->pw_ctx
    sizeKnown,  \* priv->info_buf_size # -1
    reqId,      \* priv->req_id
    exported,   \* the object is on the bus (obj_path set)
    rd,         \* the read outstanding on the control connection
    link,       \* the control connection: "up", or "down" (peer gone)
    wire,       \* the device's message not yet read
    pwAnswer    \* what the caller of ProvidePassword has received

deviceVars ==
    <<life, state, pwFlags, pwKey, pwCtx, sizeKnown, reqId, exported, rd, link, wire, pwAnswer>>

----------------------------------------------------------------------------
(* Control states and password flags, with the values of the header.       *)

HANDSHAKE    == 0
GETTING_INFO == 1
GOT_INFO     == 2
AUTH         == 3
CONNECTED    == 4

UNSET             == 0
PROVIDE           == 1
PROVIDE_ON_DEVICE == 2
CHECKING          == 3
UNLOCKED          == 4

\* (Mutant: any flag will do.)
ProvideAny(flags) == flags # UNSET

\* pw_flags & SYNCE_DEVICE_PASSWORD_FLAG_PROVIDE
Provide(flags) == flags % 2 = 1

\* pw_key: 0, 0xffffffff (the password is typed on the device), any other.
PwKeys == {"none", "ondevice", "key"}

(* Messages: words, device descriptions named for the password key they    *)
(* carry, and a read that came back short.                                 *)
Infos  == {"malformed"} \cup PwKeys
Short  == "short"
Nothing == "nothing"
Messages == Words \cup Infos \cup {Short}

ASSUME WordsAssumption == Words \cap (Infos \cup {Short, Nothing}) = {}

\* How many bytes the outstanding read asked for ("none": no read).
Reads == {"none", "2", "4", "info"}

PwAnswers == {"idle", "waiting", "true", "false", "error", "twice"}

DeviceTypeOK ==
    /\ life \in {"live", "disposed", "aborted"}
    /\ state \in HANDSHAKE..CONNECTED
    /\ pwFlags \in UNSET..UNLOCKED
    /\ pwKey \in PwKeys
    /\ pwCtx \in PwCalls \cup {NoCall}
    /\ sizeKnown \in BOOLEAN
    /\ reqId \in Nat
    /\ exported \in BOOLEAN
    /\ rd \in Reads
    /\ link \in {"up", "down"}
    /\ wire \in Messages \cup {Nothing}
    /\ pwAnswer \in [PwCalls -> PwAnswers]

\* g_object_new: setting the "connection" property starts the first read.
DeviceInit ==
    /\ life = "live"
    /\ state = HANDSHAKE
    /\ pwFlags = UNSET
    /\ pwKey = "none"
    /\ pwCtx = NoCall
    /\ sizeKnown = FALSE
    /\ reqId = 0
    /\ exported = FALSE
    /\ rd = "4"
    /\ link = "up"
    /\ wire = Nothing
    /\ pwAnswer = [p \in PwCalls |-> "idle"]

----------------------------------------------------------------------------
(* The control connection.                                                 *)

\* The device sends its next message on the control connection.
DeviceSend(m) ==
    /\ life = "live" /\ link = "up" /\ wire = Nothing
    /\ wire' = m
    /\ UNCHANGED <<brokerVars, life, state, pwFlags, pwKey, pwCtx, sizeKnown,
                   reqId, exported, rd, link, pwAnswer>>

\* The device goes away or the cable is pulled.
LinkBreaks ==
    /\ life = "live" /\ link = "up"
    /\ link' = "down"
    /\ UNCHANGED <<brokerVars, life, state, pwFlags, pwKey, pwCtx, sizeKnown,
                   reqId, exported, rd, wire, pwAnswer>>

\* (Mutant: a write that failed may have gone out.)
WriteOutcomesLate == BOOLEAN

\* The outcomes of a write: once the link is down it may still be buffered.
WriteOutcomes == IF link = "up" THEN {TRUE} ELSE BOOLEAN

\* The outstanding read completes with m, and `next' is outstanding after it.
ReadCompletes(m, next) ==
    /\ life = "live" /\ rd # "none"
    /\ \/ wire # Nothing /\ m = wire
       \/ wire = Nothing /\ link = "down" /\ m = Short
    /\ wire' = Nothing
    /\ rd' = next

----------------------------------------------------------------------------
(* The object's methods.                                                   *)

CanCall == life = "live" /\ exported

\* provide_password_impl, refused.  `buf' is freed without having been set, so
\* that what the refusal does is up to the stack's content: the call is
\* answered, or the daemon aborts in the allocator.
ProvidePasswordRefused(p) ==
    /\ CanCall
    /\ pwAnswer[p] = "idle"
    /\ state # AUTH \/ ~Provide(pwFlags) \/ pwCtx # NoCall
    /\ \/ /\ pwAnswer' = [pwAnswer EXCEPT ![p] = Reply(@, "error")]
          /\ life' = life
       \/ /\ life' = "aborted"
          /\ pwAnswer' = pwAnswer
    /\ UNCHANGED <<brokerVars, state, pwFlags, pwKey, pwCtx, sizeKnown, reqId,
                   exported, rd, link, wire>>

\* provide_password_impl, accepted: the context is recorded, the password is
\* written, and the two-byte verdict is awaited.  A write that fails is
\* reported to the caller and leaves the context recorded.
ProvidePassword(p) ==
    /\ CanCall
    /\ pwAnswer[p] = "idle"
    /\ state = AUTH /\ Provide(pwFlags) /\ pwCtx = NoCall
    /\ pwCtx' = p
    /\ \E written \in WriteOutcomes :
         IF written
         THEN /\ rd' = "2"
              /\ pwFlags' = CHECKING
              /\ pwAnswer' = [pwAnswer EXCEPT ![p] = "waiting"]
         ELSE /\ pwAnswer' = [pwAnswer EXCEPT ![p] = Reply(@, "error")]
              /\ UNCHANGED <<rd, pwFlags>>
    /\ UNCHANGED <<brokerVars, life, state, pwKey, sizeKnown, reqId, exported, link, wire>>

\* (Mutants: the verdict is not looked at; nobody is told.)
AnswerPasswordYes(verdict) ==
    /\ pwAnswer' = IF pwCtx = NoCall THEN pwAnswer
                   ELSE [pwAnswer EXCEPT ![pwCtx] = Reply(@, "true")]
    /\ pwCtx' = NoCall
AnswerPasswordNobody(verdict) ==
    /\ pwAnswer' = pwAnswer
    /\ pwCtx' = NoCall

\* The caller in pw_ctx gets its verdict, and the context is cleared.
AnswerPassword(verdict) ==
    /\ pwAnswer' = IF pwCtx = NoCall THEN pwAnswer
                   ELSE [pwAnswer EXCEPT ![pwCtx] = Reply(@, verdict)]
    /\ pwCtx' = NoCall

\* dbus_init puts the object on the bus and publishes its path, or fails and
\* leaves the device without one.
DbusInit == exported' \in BOOLEAN

\* The manager drops its reference to a device that says it is disconnected,
\* which disposes of the object: it leaves the bus, and its connection and its
\* table of requests are closed.  A password call in progress is not answered.
Dispose ==
    /\ exported' = FALSE
    /\ BrokersDispose
    /\ UNCHANGED <<state, pwFlags, pwKey, pwCtx, sizeKnown, reqId, link, wire, pwAnswer>>

\* A read that was outstanding then completes when the connection closes, and its
\* callback is given the object that has been freed: the daemon may not survive.
StaleRead ==
    /\ life = "disposed" /\ rd # "none"
    /\ rd' = "none"
    /\ life' \in {"disposed", "aborted"}
    /\ UNCHANGED <<brokerVars, state, pwFlags, pwKey, pwCtx, sizeKnown, reqId,
                   exported, link, wire, pwAnswer>>
=============================================================================
