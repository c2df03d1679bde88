---------------------------- MODULE MCRapiDesktop ----------------------------
(***************************************************************************)
(* One client of RapiDesktop whose freed path strings read as they were:   *)
(* a device whose path is asked for is found.  What still goes wrong then  *)
(* is the order of the steps.                                              *)
(***************************************************************************)
EXTENDS RapiDesktop

\* The first device with the path of a signal leaves the list, and each one
\* when the daemon goes.
FreedReadsAsBefore ==
    /\ OnDeviceDisconnected =>
          \A i \in DOMAIN desktop.devices :
              device[desktop.devices[i]].path = Head(signals).path =>
                  device'[desktop.devices[i]].status = "disconnected"
                  \/ \E j \in 1..(i - 1) :
                        device[desktop.devices[j]].path = Head(signals).path
    /\ UnfoundDevice => \A o \in Listed : device[o].path # Head(signals).path
    /\ UdevDisconnectRemoves /\ doing.left # {} =>
          desktop'.devices # desktop.devices

\* Behaviours of RapiDesktop!Spec, all of them.
ReadableSpec == Init /\ [][Next /\ FreedReadsAsBefore]_vars
=============================================================================
