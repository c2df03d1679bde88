-------------------------- MODULE ConnectionBroker --------------------------
(***************************************************************************)
(* dccm/synce-connection-broker.c: one broker per RequestConnection call   *)
(* that the daemon accepted.  A broker holds the D-Bus invocation (ctx)    *)
(* until the device opens the connection asked for, then listens on a      *)
(* Unix socket whose name it returns, and hands the connection's file      *)
(* descriptor to the first client that connects there.                     *)
(*                                                                         *)
(* A broker is named by the call it was created for, so the hash table     *)
(* priv->requests (id -> broker) is the set of calls whose broker it       *)
(* holds, together with the id of each.                                    *)
(***************************************************************************)
EXTENDS Naturals, FiniteSets

CONSTANTS
    ReqCalls,   \* D-Bus RequestConnection invocations
    Conns,      \* TCP connections the device opens besides the control one
    NoConn      \* a NULL GSocketConnection

ASSUME NoConnAssumption == NoConn \notin Conns

VARIABLES
    requests,     \* priv->requests: the calls whose broker is in the table
    brokerId,     \* broker "id": the key of the broker in the table
    brokerCtx,    \* the calls whose broker has a non-NULL ctx
    brokerConn,   \* broker conn
    brokerServer, \* the calls whose broker listens on its Unix socket
    rqAnswer,     \* what the caller of RequestConnection has received
    delivered     \* the connection whose descriptor the caller was sent

brokerVars ==
    <<requests, brokerId, brokerCtx, brokerConn, brokerServer, rqAnswer, delivered>>

RqAnswers == {"idle", "waiting", "path", "error", "twice"}

BrokerTypeOK ==
    /\ requests \subseteq ReqCalls
    /\ brokerId \in [ReqCalls -> Nat]
    /\ brokerCtx \subseteq ReqCalls
    /\ brokerConn \in [ReqCalls -> Conns \cup {NoConn}]
    /\ brokerServer \subseteq ReqCalls
    /\ rqAnswer \in [ReqCalls -> RqAnswers]
    /\ delivered \in [ReqCalls -> Conns \cup {NoConn}]

BrokerInit ==
    /\ requests = {}
    /\ brokerId = [c \in ReqCalls |-> 0]
    /\ brokerCtx = {}
    /\ brokerConn = [c \in ReqCalls |-> NoConn]
    /\ brokerServer = {}
    /\ rqAnswer = [c \in ReqCalls |-> "idle"]
    /\ delivered = [c \in ReqCalls |-> NoConn]

\* A D-Bus invocation takes one reply; a second one shows as "twice".
Reply(before, answer) ==
    IF before \in {"idle", "waiting"} THEN answer ELSE "twice"

\* g_object_new (SYNCE_TYPE_CONNECTION_BROKER) and its insertion in the table;
\* the call has been answered already when `answer' is not "waiting".
NewBroker(c, id, answer) ==
    /\ requests' = requests \cup {c}
    /\ brokerId' = [brokerId EXCEPT ![c] = id]
    /\ brokerCtx' = brokerCtx \cup {c}
    /\ rqAnswer' = [rqAnswer EXCEPT ![c] = Reply(@, answer)]
    /\ UNCHANGED <<brokerConn, brokerServer, delivered>>

\* (Mutant: the key is one off.)
LookupNext(id) == {c \in requests : brokerId[c] = id + 1}

\* g_hash_table_lookup (priv->requests, &id): the brokers under that key.
Lookup(id) == {c \in requests : brokerId[c] = id}

\* (Mutant: the answer falls through into the error exit.)
TakeConnectionFallsThrough(c, k, bound) ==
    /\ brokerConn[c] = NoConn
    /\ brokerConn' = [brokerConn EXCEPT ![c] = k]
    /\ brokerServer' = brokerServer
    /\ rqAnswer' = [rqAnswer EXCEPT ![c] =
                       IF bound THEN Reply(Reply(@, "path"), "error") ELSE Reply(@, "error")]
    /\ brokerCtx' = brokerCtx \ {c}
    /\ UNCHANGED <<requests, brokerId, delivered>>

\* The broker takes the device's connection: it opens its socket (`bound') and
\* answers the call with the socket's name, or with an error; either way it
\* stays in the table and keeps the connection.
TakeConnection(c, k, bound) ==
    /\ brokerConn[c] = NoConn
    /\ brokerConn' = [brokerConn EXCEPT ![c] = k]
    /\ brokerServer' = IF bound THEN brokerServer \cup {c} ELSE brokerServer
    /\ rqAnswer' = [rqAnswer EXCEPT ![c] =
                       Reply(@, IF bound THEN "path" ELSE "error")]
    /\ brokerCtx' = brokerCtx \ {c}
    /\ UNCHANGED <<requests, brokerId, delivered>>

\* (Mutant: the socket of a dropped broker stays open.)
ConnBrokerDoneListening(c) ==
    LET gone == Lookup(brokerId[c]) IN
    /\ requests' = requests \ gone
    /\ brokerConn' = [d \in ReqCalls |-> IF d \in gone THEN NoConn ELSE brokerConn[d]]
    /\ brokerCtx' = brokerCtx \ gone
    /\ UNCHANGED <<brokerId, brokerServer, rqAnswer>>

\* The "done" handler drops every broker under the id of the one that emitted
\* it, and dropping a broker stops its socket and closes its connection.
ConnBrokerDone(c) ==
    LET gone == Lookup(brokerId[c]) IN
    /\ requests' = requests \ gone
    /\ brokerServer' = brokerServer \ gone
    /\ brokerConn' = [d \in ReqCalls |-> IF d \in gone THEN NoConn ELSE brokerConn[d]]
    /\ brokerCtx' = brokerCtx \ gone
    /\ UNCHANGED <<brokerId, rqAnswer>>

\* A client connects to the broker's socket: the descriptor is sent and, sent
\* or not, the broker says it is done.
ServerSocketReadable(c, sent) ==
    /\ c \in brokerServer
    /\ delivered' = IF sent THEN [delivered EXCEPT ![c] = brokerConn[c]] ELSE delivered
    /\ ConnBrokerDone(c)

\* g_hash_table_destroy (priv->requests): every broker in the table is disposed
\* of.  The invocation a broker still holds is not answered.
BrokersDispose ==
    /\ requests' = {}
    /\ brokerServer' = brokerServer \ requests
    /\ brokerConn' = [c \in ReqCalls |-> IF c \in requests THEN NoConn ELSE brokerConn[c]]
    /\ brokerCtx' = brokerCtx \ requests
    /\ UNCHANGED <<brokerId, rqAnswer, delivered>>
=============================================================================
