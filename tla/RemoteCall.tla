----------------------------- MODULE RemoteCall -----------------------------
(***************************************************************************)
(* What a remote call promises its caller, with nothing of how it is made: *)
(* the device does what a call asks at most once, perhaps not before the   *)
(* caller has given up, and a caller who is told that the call succeeded is*)
(* told so after the device has done it.                                   *)
(***************************************************************************)
EXTENDS Naturals

CONSTANT MaxCalls  \* a number

VARIABLES
    calls,    \* how many calls were made
    served,   \* the calls that reached the device
    done,     \* those of them that it did
    told      \* what their callers know

vars == <<calls, served, done, told>>

Verdicts == {"nothing", "success", "failure", "unclear"}

Init ==
    /\ calls = 0
    /\ served = {} /\ done = {}
    /\ told = [i \in 1..MaxCalls |-> "nothing"]

Make ==
    /\ calls < MaxCalls
    /\ calls' = calls + 1
    /\ UNCHANGED <<served, done, told>>

Serve(i) ==
    /\ i <= calls
    /\ i \notin served
    /\ served' = served \cup {i}
    /\ done' \in {done, done \cup {i}}
    /\ UNCHANGED <<calls, told>>

Tell(i, v) ==
    /\ i <= calls
    /\ told[i] = "nothing"
    /\ v = "success" => i \in done
    /\ told' = [told EXCEPT ![i] = v]
    /\ UNCHANGED <<calls, served, done>>

\* Some calls are made and answered without the device.
Refuse(v) ==
    /\ calls < MaxCalls
    /\ v # "success"
    /\ calls' = calls + 1
    /\ told' = [told EXCEPT ![calls'] = v]
    /\ UNCHANGED <<served, done>>

Next ==
    \/ Make
    \/ \E i \in 1..MaxCalls : Serve(i)
    \/ \E i \in 1..MaxCalls, v \in Verdicts \ {"nothing"} : Tell(i, v)
    \/ \E v \in Verdicts \ {"nothing"} : Refuse(v)

Spec == Init /\ [][Next]_vars
=============================================================================
