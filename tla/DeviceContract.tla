---------------------------- MODULE DeviceContract ----------------------------
(***************************************************************************)
(* What a device object promises its D-Bus clients (dccm/synce-device.xml: *)
(* ProvidePassword, RequestConnection), without handshake, broker table,   *)
(* reads or flags: a call is answered once; one password is tried at a     *)
(* time, and only on a device locked by a password the host provides; such *)
(* a device opens by an accepted password and by nothing else; connections *)
(* are asked for only once it is open; and a connection goes to the one    *)
(* request it was opened for.                                              *)
(***************************************************************************)
CONSTANTS PwCalls, ReqCalls, Conns, NoConn

VARIABLES
    lock,   \* "unknown", "host", "device" (unlocked on its screen), "open"
    pw,     \* the answer to each ProvidePassword call
    rq,     \* the answer to each RequestConnection call
    grants, \* the pairs <<call, connection>> of answered requests
    given   \* the connection whose descriptor each caller was sent

vars == <<lock, pw, rq, grants, given>>

Init ==
    /\ lock = "unknown"
    /\ pw = [p \in PwCalls |-> "idle"]
    /\ rq = [c \in ReqCalls |-> "idle"]
    /\ grants = {}
    /\ given = [c \in ReqCalls |-> NoConn]

\* The device's description says how it is locked, if it is.
Learn ==
    /\ lock = "unknown"
    /\ lock' \in {"host", "device", "open"}
    /\ UNCHANGED <<pw, rq, grants, given>>

UnlockedOnDevice ==
    /\ lock = "device"
    /\ lock' = "open"
    /\ UNCHANGED <<pw, rq, grants, given>>

PwRefuse(p) ==
    /\ pw[p] = "idle"
    /\ pw' = [pw EXCEPT ![p] = "error"]
    /\ UNCHANGED <<lock, rq, grants, given>>

PwBegin(p) ==
    /\ lock = "host"
    /\ pw[p] = "idle"
    /\ \A q \in PwCalls : pw[q] # "waiting"
    /\ pw' = [pw EXCEPT ![p] = "waiting"]
    /\ UNCHANGED <<lock, rq, grants, given>>

PwVerdict(p) ==
    /\ pw[p] = "waiting"
    /\ \/ pw' = [pw EXCEPT ![p] = "false"] /\ lock' = lock
       \/ pw' = [pw EXCEPT ![p] = "true"] /\ lock' = "open"
    /\ UNCHANGED <<rq, grants, given>>

RqRefuse(c) ==
    /\ rq[c] \in {"idle", "waiting"}
    /\ rq' = [rq EXCEPT ![c] = "error"]
    /\ UNCHANGED <<lock, pw, grants, given>>

RqBegin(c) ==
    /\ lock = "open"
    /\ rq[c] = "idle"
    /\ rq' = [rq EXCEPT ![c] = "waiting"]
    /\ UNCHANGED <<lock, pw, grants, given>>

RqGrant(c, k) ==
    /\ rq[c] = "waiting"
    /\ \A g \in grants : g[2] # k
    /\ rq' = [rq EXCEPT ![c] = "path"]
    /\ grants' = grants \cup {<<c, k>>}
    /\ UNCHANGED <<lock, pw, given>>

Give(c, k) ==
    /\ <<c, k>> \in grants
    /\ given[c] = NoConn
    /\ given' = [given EXCEPT ![c] = k]
    /\ UNCHANGED <<lock, pw, rq, grants>>

Next ==
    \/ Learn
    \/ UnlockedOnDevice
    \/ \E p \in PwCalls : PwRefuse(p) \/ PwBegin(p) \/ PwVerdict(p)
    \/ \E c \in ReqCalls : RqRefuse(c) \/ RqBegin(c)
    \/ \E c \in ReqCalls, k \in Conns : RqGrant(c, k) \/ Give(c, k)

Spec == Init /\ [][Next]_vars
=============================================================================
