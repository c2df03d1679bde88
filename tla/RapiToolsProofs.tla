--------------------------- MODULE RapiToolsProofs ---------------------------
(***************************************************************************)
(* Proofs about RapiTools, for any devices and bounds: once a tool has a   *)
(* reference on its device, it gives back what it took; it closes what it  *)
(* opened; and it says success only when its work was done.  The last two  *)
(* rest on what each step of each script keeps to, which is proved script  *)
(* by script.                                                              *)
(***************************************************************************)
EXTENDS RapiTools, SequenceTheorems, TLAPS

----------------------------------------------------------------------------
(* The inductive invariant.                                                *)

Searching == at \in {"start", "desktop", "enumerate", "next", "found"}
Working == at \in {"session", "init", "script", "release session", "release device", "exit"}

ListTypes ==
    /\ Len(listed) \in Nat /\ DOMAIN listed = 1..Len(listed)
    /\ next \in 0..Len(listed)
    /\ device \in 0..Len(listed)
    /\ DOMAIN refs = DOMAIN listed
    /\ \A i \in DOMAIN listed : refs[i] \in Int

\* While main looks for its device, it holds the enumeration or nothing.
SearchInv ==
    Searching =>
       /\ owns = "none" /\ "session" \notin has
       /\ "enumdev" \in has => at \in {"next", "found"}
       /\ at = "found" => device # 0
       /\ \A i \in DOMAIN listed : refs[i] = 1 + One("enumdev" \in has)

\* Then it holds its device, and a session from the moment it is made until the
\* first of the releases.
OwnerInv ==
    /\ owns \in {"none", "one", "given back"}
    /\ at \in {"session", "init", "script"} => owns = "one"
    /\ owns = "one" => device # 0 /\ Working
    /\ owns = "given back" =>
          device = 0 /\ at \in {"release enumdev", "release desktop", "exit"}
    /\ "session" \in has =>
          owns = "one" /\ at \in {"init", "script", "release session", "exit"}

RefsInv ==
    /\ ListTypes
    /\ SearchInv
    /\ OwnerInv
    /\ ReferencesBalance

----------------------------------------------------------------------------
\* Before it looks for a device, main holds nothing.
LEMMA InitRefs == Init => RefsInv
<1> SUFFICES ASSUME Init PROVE RefsInv
  OBVIOUS
<1>1. PICK n \in 0..MaxDevices : listed \in [1..n -> Names]
  BY DEF Init
<1>2. n \in Nat /\ listed \in Seq(Names)
  BY <1>1
<1>3. ListTypes
  BY <1>2 DEF Init, ListTypes, Positions
<1>4. SearchInv
  BY DEF Init, SearchInv, Positions, One
<1>5. OwnerInv /\ ReferencesBalance
  BY DEF Init, OwnerInv, ReferencesBalance, Searching, Working
<1> QED
  BY <1>3, <1>4, <1>5 DEF RefsInv

\* What the script does to the rest: main goes on where it is, to its end, or the
\* tool has crashed.
Stays ==
    /\ UNCHANGED found
    /\ at = "script" /\ at' \in {"script", "release session", "exit"}

\* Every step of a script stays with what main found.
LEMMA ScriptStays ==
    ASSUME LocalStep \/ Returns \/ CallSucceeds \/ CallFails \/ CallIsLost
    PROVE  Stays
<1>1. ASSUME NEW l, GoTo(l), at = "script" PROVE at' \in {"script", "release session", "exit"}
  BY <1>1 DEF GoTo
<1>2. ASSUME NEW l, NEW ok, NEW no, Enters(l, ok, no), at = "script"
      PROVE  at' \in {"script", "release session", "exit"}
  BY <1>1, <1>2 DEF Enters
<1>3. CASE LocalStep
  BY <1>1, <1>2, <1>3 DEF LocalStep, Stays, InScript, GoesOn
<1>4. CASE Returns
  BY <1>1, <1>4 DEF Returns, Stays
<1>5. CASE CallSucceeds
  BY <1>1, <1>5 DEF CallSucceeds, Stays, Calling, InScript, GoesOn
<1>6. CASE CallFails
  BY <1>1, <1>6 DEF CallFails, Stays, Calling, InScript
<1>7. CASE CallIsLost
  BY <1>1, <1>7 DEF CallIsLost, Stays, Calling, InScript
<1> QED
  BY <1>3, <1>4, <1>5, <1>6, <1>7

\* Releasing the enumeration takes one reference from every device, if there is
\* an enumeration.
LEMMA EnumReleased ==
    ASSUME ListTypes
    PROVE  /\ DOMAIN ReleasesEnum = DOMAIN listed
           /\ \A i \in DOMAIN listed : /\ ReleasesEnum[i] \in Int
                                        /\ ReleasesEnum[i] = refs[i] - One("enumdev" \in has)
BY DEF ListTypes, ReleasesEnum, Positions, One

\* A reference more or less on one device.
LEMMA Adjusted ==
    ASSUME ListTypes, NEW d \in DOMAIN listed, NEW n \in Int, Adjusts(d, n)
    PROVE  /\ DOMAIN refs' = DOMAIN listed
           /\ \A i \in DOMAIN listed : /\ refs'[i] \in Int
                                        /\ refs'[i] = IF i = d THEN refs[i] + n ELSE refs[i]
BY DEF ListTypes, Adjusts

\* The device of main is one of the list.
LEMMA OneOfTheList ==
    ASSUME ListTypes, device # 0 PROVE device \in DOMAIN listed
BY DEF ListTypes

\* Every step of main keeps the balance.
LEMMA NextRefs == RefsInv /\ [Next]_vars => RefsInv'
<1> SUFFICES ASSUME RefsInv, [Next]_vars PROVE RefsInv'
  OBVIOUS
<1> USE DEF Searching, Working, Goes, Positions
<1>a. ListTypes
  BY DEF RefsInv
<1>b. SearchInv
  BY DEF RefsInv
<1>c. OwnerInv
  BY DEF RefsInv
<1>d. ReferencesBalance
  BY DEF RefsInv
<1>1. CASE handle_parameters
  BY <1>a, <1>b, <1>c, <1>d, <1>1
     DEF handle_parameters, found, ListTypes, SearchInv, OwnerInv, ReferencesBalance, One, RefsInv
<1>2. CASE IRAPIDesktop_Get
  BY <1>a, <1>b, <1>c, <1>d, <1>2
     DEF IRAPIDesktop_Get, ListTypes, SearchInv, OwnerInv, ReferencesBalance, One, RefsInv
<1>3. CASE EnumDevices
  <2>1. CASE at' = "next"
    <3>1. /\ refs' = [i \in DOMAIN listed |-> refs[i] + 1]
          /\ has' = has \cup {"enumdev"} /\ at = "enumerate"
          /\ UNCHANGED <<listed, next, device, owns>>
      BY <1>3, <2>1 DEF EnumDevices
    <3>2. ListTypes'
      BY <1>a, <3>1 DEF ListTypes
    <3>3. SearchInv'
      BY <1>a, <1>b, <3>1, <2>1 DEF SearchInv, ListTypes, One
    <3> QED
      BY <1>b, <1>c, <1>d, <3>1, <3>2, <3>3, <2>1
         DEF OwnerInv, ReferencesBalance, SearchInv, RefsInv
  <2>2. CASE at' # "next"
    BY <1>a, <1>b, <1>c, <1>d, <1>3, <2>2
       DEF EnumDevices, ListTypes, SearchInv, OwnerInv, ReferencesBalance, RefsInv
  <2> QED
    BY <2>1, <2>2 DEF RefsInv
<1>4. CASE NextDevice
  <2>1. /\ next < Len(listed) /\ next' = next + 1 /\ device' = next + 1
        /\ UNCHANGED <<listed, refs, has, owns>>
    BY <1>4 DEF NextDevice
  <2>2. next' \in 1..Len(listed) /\ device' = next'
    BY <1>a, <2>1 DEF ListTypes
  <2>3. at = "next" /\ at' \in {"next", "found", "release session"}
    BY <1>4 DEF NextDevice
  <2>4. ListTypes'
    BY <1>a, <2>1, <2>2 DEF ListTypes
  <2>5. SearchInv'
    <3>1. device' # 0
      BY <1>a, <2>2 DEF ListTypes
    <3> QED
      BY <1>b, <3>1, <2>1, <2>3, Zenon DEF SearchInv
  <2>6. OwnerInv'
    BY <1>a, <1>b, <1>c, <2>1, <2>3, <2>2 DEF OwnerInv, SearchInv, ListTypes
  <2>7. ReferencesBalance'
    BY <1>b, <1>d, <2>1, <2>3 DEF ReferencesBalance, SearchInv
  <2> QED
    BY <2>4, <2>5, <2>6, <2>7 DEF RefsInv
<1>5. CASE NoMoreDevices
  <2> /\ device' \in {device, 0} /\ refs' \in {refs, ReleasesEnum}
      /\ UNCHANGED <<listed, next>>
    BY <1>5 DEF NoMoreDevices
  <2>1. ListTypes'
    BY <1>a, EnumReleased DEF ListTypes
  <2>2. SearchInv'
    BY <1>a, <1>b, <1>c, <1>5 DEF NoMoreDevices, SearchInv, OwnerInv, ListTypes, One
  <2>3. OwnerInv'
    BY <1>a, <1>b, <1>c, <1>5 DEF NoMoreDevices, OwnerInv, SearchInv, ListTypes
  <2>4. ReferencesBalance'
    BY <1>a, <1>b, <1>c, <1>d, <1>5
       DEF NoMoreDevices, ReferencesBalance, OwnerInv, SearchInv, ListTypes, One
  <2> QED
    BY <2>1, <2>2, <2>3, <2>4 DEF RefsInv
<1>6. CASE KeepDevice
  <2>1. ListTypes'
    BY <1>a, <1>6, EnumReleased DEF KeepDevice, ListTypes
  <2>2. SearchInv'
    BY <1>a, <1>b, <1>c, <1>6 DEF KeepDevice, SearchInv, OwnerInv, ListTypes, One
  <2>3. OwnerInv'
    BY <1>a, <1>b, <1>c, <1>6 DEF KeepDevice, OwnerInv, SearchInv, ListTypes
  <2>4. ReferencesBalance'
    BY <1>a, <1>b, <1>c, <1>d, <1>6, EnumReleased
       DEF KeepDevice, ReferencesBalance, OwnerInv, SearchInv, ListTypes, One
  <2> QED
    BY <2>1, <2>2, <2>3, <2>4 DEF RefsInv
<1>7. CASE IRAPIDevice_CreateSession
  <2>1. owns = "one" /\ at = "session" /\ device \in DOMAIN listed
    <3>1. at = "session"
      BY <1>7 DEF IRAPIDevice_CreateSession
    <3> QED
      BY <1>c, <1>a, <3>1, OneOfTheList DEF OwnerInv, RefsInv
  <2>2. CASE at' = "init"
    <3>1. /\ Adjusts(device, 1) /\ has' = has \cup {"session"} /\ "session" \notin has
          /\ UNCHANGED <<listed, next, device, owns>>
      BY <1>c, <1>7, <2>1, <2>2 DEF IRAPIDevice_CreateSession, OwnerInv
    <3>2. /\ DOMAIN refs' = DOMAIN listed
          /\ \A i \in DOMAIN listed :
                refs'[i] \in Int /\ refs'[i] = IF i = device THEN refs[i] + 1 ELSE refs[i]
      BY <1>a, <2>1, <3>1, Adjusted
    <3>3. ListTypes'
      BY <1>a, <3>1, <3>2 DEF ListTypes
    <3>4. ReferencesBalance'
      BY <1>a, <1>d, <2>1, <3>1, <3>2 DEF ReferencesBalance, ListTypes, One
    <3> QED
      BY <1>b, <1>c, <2>1, <2>2, <3>1, <3>3, <3>4 DEF SearchInv, OwnerInv, RefsInv
  <2>3. CASE at' # "init"
    BY <1>a, <1>b, <1>c, <1>d, <1>7, <2>1, <2>3
       DEF IRAPIDevice_CreateSession, ListTypes, SearchInv, OwnerInv,
       ReferencesBalance, RefsInv
  <2> QED
    BY <2>2, <2>3 DEF RefsInv
<1>8. CASE CeRapiInit
  BY <1>a, <1>b, <1>c, <1>d, <1>8
     DEF CeRapiInit, found, ListTypes, SearchInv, OwnerInv, ReferencesBalance, One, RefsInv
<1>9. CASE LocalStep \/ Returns \/ CallSucceeds \/ CallFails \/ CallIsLost
  <2>1. Stays
    BY <1>9, ScriptStays
  <2> QED
    BY <1>a, <1>b, <1>c, <1>d, <2>1
       DEF Stays, found, ListTypes, SearchInv, OwnerInv, ReferencesBalance, One, RefsInv
<1>10. CASE ReleaseSession
  <2>1. /\ at = "release session" /\ at' = "release device" /\ has' = has \ {"session"}
        /\ UNCHANGED <<listed, next, device, owns>>
    BY <1>10 DEF ReleaseSession
  <2>2. SearchInv' /\ OwnerInv'
    BY <1>b, <1>c, <2>1 DEF SearchInv, OwnerInv
  <2>3. CASE "session" \in has /\ device # 0
    <3>1. device \in DOMAIN listed /\ Adjusts(device, -1)
      BY <1>a, <1>10, <2>3, OneOfTheList DEF ReleaseSession
    <3>2. /\ DOMAIN refs' = DOMAIN listed
          /\ \A i \in DOMAIN listed :
                refs'[i] \in Int /\ refs'[i] = IF i = device THEN refs[i] + (-1) ELSE refs[i]
      BY <1>a, <3>1, Adjusted
    <3>3. ListTypes'
      BY <1>a, <2>1, <3>2 DEF ListTypes
    <3>4. ReferencesBalance'
      <4>1. owns = "one" /\ ~("session" \in has') /\ ("enumdev" \in has' <=> "enumdev" \in has)
        BY <1>c, <2>1, <2>3 DEF OwnerInv
      <4>2. \A i \in DOMAIN listed : refs'[i] = 1 + One("enumdev" \in has) + One(i = device)
        BY <1>a, <1>d, <2>3, <3>2, <4>1 DEF ReferencesBalance, ListTypes, One
      <4> QED
        <5>1. ASSUME NEW i \in DOMAIN listed
              PROVE  refs'[i] = 1 + One("enumdev" \in has') + One(i = device /\ "session" \in has')
                                  + One(i = device /\ owns = "one")
          BY <4>1, <4>2, <5>1 DEF One
        <5> QED
          BY <2>1, <5>1 DEF ReferencesBalance, One
    <3> QED
      BY <2>2, <3>3, <3>4 DEF RefsInv
  <2>4. CASE "session" \notin has
    <3>1. UNCHANGED refs
      BY <1>10, <2>4 DEF ReleaseSession
    <3>2. ListTypes'
      BY <1>a, <2>1, <3>1 DEF ListTypes
    <3>3. ReferencesBalance'
      BY <1>d, <2>1, <2>4, <3>1 DEF ReferencesBalance, One
    <3> QED
      BY <2>2, <3>2, <3>3 DEF RefsInv
  <2> QED
    BY <1>c, <2>3, <2>4 DEF OwnerInv, RefsInv
<1>11. CASE ReleaseDevice
  <2>1. /\ at = "release device" /\ at' = "release enumdev" /\ device' = 0
        /\ owns' = IF owns = "one" THEN "given back" ELSE owns
        /\ UNCHANGED <<listed, next, has>>
    BY <1>11 DEF ReleaseDevice
  <2>2. owns # "given back" /\ "session" \notin has
    BY <1>c, <2>1 DEF OwnerInv
  <2>3. SearchInv' /\ OwnerInv'
    BY <1>b, <1>c, <2>1, <2>2 DEF SearchInv, OwnerInv
  <2>4. CASE device # 0
    <3>1. device \in DOMAIN listed /\ Adjusts(device, -1)
      BY <1>a, <1>11, <2>4, OneOfTheList DEF ReleaseDevice
    <3>2. /\ DOMAIN refs' = DOMAIN listed
          /\ \A i \in DOMAIN listed :
                refs'[i] \in Int /\ refs'[i] = IF i = device THEN refs[i] + (-1) ELSE refs[i]
      BY <1>a, <3>1, Adjusted
    <3>3. ListTypes'
      <4>1. device' \in 0..Len(listed) /\ UNCHANGED <<listed, next>>
        <5>1. Len(listed) \in Nat
          BY <1>a DEF ListTypes
        <5>2. device' = 0 /\ UNCHANGED <<listed, next>>
          BY <2>1, Zenon
        <5> QED
          BY <5>1, <5>2
      <4> QED
        BY <1>a, <3>2, <4>1 DEF ListTypes
    <3>4. ASSUME owns = "one" PROVE ReferencesBalance'
      <4>1. \A i \in DOMAIN listed : refs'[i] = 1 + One("enumdev" \in has)
        BY <1>a, <1>d, <2>2, <3>2, <3>4 DEF ReferencesBalance, ListTypes, One
      <4> QED
        <5>1. ASSUME NEW i \in DOMAIN listed
              PROVE  refs'[i] = 1 + One("enumdev" \in has) + One(i = 0 /\ "session" \in has)
                                  + One(i = 0 /\ owns' = "one")
          <6>1. owns' # "one"
            BY <2>1, <3>4
          <6>2. /\ One(i = 0 /\ "session" \in has) = 0 /\ One(i = 0 /\ owns' = "one") = 0
                /\ One("enumdev" \in has) \in Nat
            BY <2>2, <6>1 DEF One
          <6>3. refs'[i] = 1 + One("enumdev" \in has)
            BY <4>1, <5>1
          <6> QED
            BY <6>2, <6>3
        <5> QED
          BY <2>1, <5>1 DEF ReferencesBalance, One
    <3>5. ASSUME owns = "none" PROVE ReferencesBalance'
      BY <1>d, <2>1, <3>5 DEF ReferencesBalance
    <3> QED
      BY <1>c, <2>2, <2>3, <3>3, <3>4, <3>5 DEF OwnerInv, RefsInv
  <2>5. CASE device = 0
    <3>1. UNCHANGED refs /\ owns = "none" /\ owns' = "none"
      BY <1>c, <1>11, <2>1, <2>2, <2>5 DEF ReleaseDevice, OwnerInv
    <3>2. ListTypes'
      <4>1. UNCHANGED <<listed, next, device, refs>>
        BY <2>1, <2>5, <3>1
      <4> QED
        BY <1>a, <4>1 DEF ListTypes
    <3> QED
      BY <1>d, <2>3, <3>1, <3>2 DEF ReferencesBalance, RefsInv
  <2> QED
    BY <2>4, <2>5 DEF RefsInv
<1>12. CASE ReleaseEnum
  <2>1. /\ at = "release enumdev" /\ at' = "release desktop" /\ has' = has \ {"enumdev"}
        /\ refs' = ReleasesEnum /\ UNCHANGED <<listed, next, device, owns>>
    BY <1>12 DEF ReleaseEnum
  <2>2. SearchInv' /\ OwnerInv'
    BY <1>b, <1>c, <2>1 DEF SearchInv, OwnerInv
  <2>3. ListTypes'
    BY <1>a, <2>1, EnumReleased DEF ListTypes
  <2>4. ReferencesBalance'
    <3>1. "session" \notin has /\ owns # "one"
      BY <1>c, <2>1 DEF OwnerInv
    <3>2. ASSUME NEW i \in DOMAIN listed, owns # "none" PROVE refs'[i] = 1
      <4>1. refs'[i] = refs[i] - One("enumdev" \in has)
        BY <1>a, <2>1, EnumReleased
      <4>2. refs[i] = 1 + One("enumdev" \in has) + One(i = device /\ "session" \in has)
                        + One(i = device /\ owns = "one")
        BY <1>d, <3>2 DEF ReferencesBalance
      <4>3. /\ One(i = device /\ "session" \in has) = 0
            /\ One(i = device /\ owns = "one") = 0
        BY <3>1 DEF One
      <4> QED
        BY <4>1, <4>2, <4>3 DEF One
    <3>3. ASSUME NEW i \in DOMAIN listed, owns # "none"
          PROVE  refs'[i] = 1 + One("enumdev" \in has') + One(i = device /\ "session" \in has')
                              + One(i = device /\ owns = "one")
      <4>1. "session" \notin has' /\ "enumdev" \notin has'
        BY <2>1, <3>1
      <4>2. /\ One("enumdev" \in has') = 0 /\ One(i = device /\ "session" \in has') = 0
            /\ One(i = device /\ owns = "one") = 0
        BY <3>1, <4>1 DEF One
      <4>3. refs'[i] = 1
        BY <3>2, <3>3
      <4> QED
        BY <4>2, <4>3
    <3> QED
      BY <2>1, <3>3 DEF ReferencesBalance, One
  <2> QED
    BY <2>2, <2>3, <2>4 DEF RefsInv
<1>13. CASE ReleaseDesktop
  BY <1>a, <1>b, <1>c, <1>d, <1>13
     DEF ReleaseDesktop, ListTypes, SearchInv, OwnerInv, ReferencesBalance, One, RefsInv
<1>14. CASE LinkFails
  BY <1>a, <1>b, <1>c, <1>d, <1>14
     DEF LinkFails, found, ListTypes, SearchInv, OwnerInv, ReferencesBalance, One, RefsInv
<1>15. CASE UNCHANGED vars
  BY <1>a, <1>b, <1>c, <1>d, <1>15
     DEF vars, found, ListTypes, SearchInv, OwnerInv, ReferencesBalance, One, RefsInv
<1> QED
  BY <1>1, <1>2, <1>3, <1>4, <1>5, <1>6, <1>7, <1>8, <1>9, <1>10, <1>11, <1>12, <1>13,
     <1>14, <1>15 DEF Next

\* ReferencesBalance: a tool that took a reference on its device gives back all it
\* took, whatever its script and whichever call fails.
THEOREM ToolsGiveBack == Spec => []ReferencesBalance
<1>1. RefsInv => ReferencesBalance
  BY DEF RefsInv
<1> QED
  BY <1>1, InitRefs, NextRefs, PTL DEF Spec
----------------------------------------------------------------------------
(* The scripts.                                                            *)

\* Labels that a tool shares the text of but does not come to: the directories of
\* a copy that is not recursive, the subdirectories of a listing and the subkeys
\* of a key that are not.
Copies == {"pcp_get", "pcp_put", "pcp_copy"}
Dead(name) ==
    CASE name \in Copies -> {"newDir", "dirThere", "dirDest", "dirInto", "dirOver", "make",
                             "list", "notCopied", "copied", "subdir", "entry"}
      [] name = "pls" -> {"subdirectory"}
      [] name = "list_key" -> {"child", "childList"}
      [] OTHER -> {}
Places(name) == Ends \cup (Labels(Scripts[name]) \ Dead(name))

\* Handles that the function in progress has open when it comes to a label.
FromRemote == {"pcp_get", "pcp_copy", "pcp_r_get", "pcp_r_copy"}
ToRemote == {"pcp_put", "pcp_copy", "pcp_r_put", "pcp_r_copy"}
Held(name, l) ==
    IF l \in {"process", "installed", "closeApp"} THEN 2
    ELSE IF \/ l \in {"read", "write", "close", "drop", "thread", "names", "apps", "app",
                      "closeNew", "tree", "value", "size"}
            \/ name \in FromRemote /\ l \in {"wasDir", "wasFile"}
            \/ name \in ToRemote /\ l \in {"fileThere", "fileInto", "fileOver", "dirThere",
                                           "dirInto", "dirOver"}
         THEN 1 ELSE 0
Adds(f) == CASE f \in Opening -> 1 [] f = "CeCreateProcess" -> 2 [] f \in Closing -> -1
             [] OTHER -> 0
\* A call that failed opened nothing, and a handle is not closed twice.
AddsFailing(f) == IF f \in Closing THEN -1 ELSE 0

\* From these labels a tool comes to no other end than "no".
Doomed == {"drop", "no"}

\* What every step of every script keeps to.  It goes on to a label there is, or
\* ends the tool; only a tool without functions ends with the status it had.
Continues(name, s) ==
    /\ \A t \in s.more \cup s.ends \cup s.no :
          t \in Places(name) \/ (s.call # "sub" /\ t \in {"quit", "crash"})
    /\ "quit" \in s.more \cup s.ends \cup s.no => name = "pshortcut"
    /\ s.call = "sub" => name # "pshortcut"
\* A call that failed and was part of the work leads to "no", and "no" is kept to.
KeepsFailure(name, l, s) ==
    name \notin Lenient =>
       /\ s.work = TRUE /\ s.call \notin {"none", "sub"} => s.no \subseteq Doomed
       /\ s.call = "sub" => s.no \subseteq Doomed /\ l \notin Doomed
       /\ l \in Doomed => s.more \cup s.ends \cup s.no \subseteq Doomed
\* The handles that are open are those of the label.
KeepsHandles(name, l, s) ==
    name \notin Leaky =>
       /\ s.call = "sub" => /\ \A t \in s.ends : Held(name, t) = 0
                            /\ \A t \in s.more \cup s.no : Held(name, t) = Held(name, l)
       /\ s.call # "sub" => \A t \in s.more \cup s.ends :
                               t # "crash" => Held(name, t) = Held(name, l) + Adds(s.call)
       /\ s.call # "sub" => \A t \in s.no :
                t # "crash" => Held(name, t) = Held(name, l) + AddsFailing(s.call)
Keeps(name, l, s) ==
    /\ s.work = TRUE \/ s.work = FALSE
    /\ Continues(name, s) /\ KeepsFailure(name, l, s) /\ KeepsHandles(name, l, s)

\* A script that starts and whose steps, but those it does not come to, keep to it.
Disciplined(name) ==
    /\ "start" \in Places(name)
    /\ \A i \in DOMAIN Scripts[name] : \A l \in DOMAIN Scripts[name][i] :
          l \notin Dead(name) => Keeps(name, l, Scripts[name][i][l])

\* The scripts of one function.
LEMMA SmallScripts ==
    \A name \in {"prm", "pmkdir", "prmdir", "pmv", "pshortcut", "psettime", "pkillall", "oidinfo",
                 "rapiconfig", "prun", "pstatus", "list_programs", "delete_key", "new_key",
                 "delete_val", "read_val", "write_val"} : Disciplined(name)
<1> DEFINE Fits(name, parts) == Scripts[name] = parts => Disciplined(name)
<1>1. /\ Fits("prm", prm) /\ Fits("pmkdir", pmkdir) /\ Fits("prmdir", prmdir)
      /\ Fits("pmv", pmv) /\ Fits("pshortcut", pshortcut) /\ Fits("psettime", psettime)
      /\ Fits("pkillall", pkillall) /\ Fits("oidinfo", oidinfo)
      /\ Fits("rapiconfig", rapiconfig) /\ Fits("prun", prun) /\ Fits("pstatus", pstatus)
      /\ Fits("list_programs", list_programs) /\ Fits("delete_key", delete_key)
      /\ Fits("new_key", new_key) /\ Fits("delete_val", delete_val)
      /\ Fits("read_val", read_val) /\ Fits("write_val", write_val)
  <2> USE LenientAssumption, LeakyAssumption
      DEF Disciplined, Keeps, Continues, KeepsFailure, KeepsHandles, Places, Labels, Dead,
          Copies, Held, FromRemote, ToRemote, Adds, AddsFailing, Opening, Closing, Doomed, Ends,
          Must, Ask, Loop, Close, Local, Either, Sub, Step, folders
  <2>1. Fits("prm", prm)
    BY SMTT(60) DEF prm, adjust_remote_path
  <2>2. Fits("pmkdir", pmkdir)
    BY SMTT(60) DEF pmkdir, adjust_remote_path
  <2>3. Fits("prmdir", prmdir)
    BY SMTT(60) DEF prmdir, adjust_remote_path
  <2>4. Fits("pmv", pmv)
    BY SMTT(60) DEF pmv, adjust_two_paths
  <2>5. Fits("pshortcut", pshortcut)
    BY SMTT(60) DEF pshortcut, adjust_two_paths
  <2>6. Fits("psettime", psettime)
    BY SMTT(60) DEF psettime, OneCall
  <2>7. Fits("pkillall", pkillall)
    BY SMTT(60) DEF pkillall, OneCall
  <2>8. Fits("oidinfo", oidinfo)
    BY SMTT(60) DEF oidinfo, OneCall
  <2>9. Fits("rapiconfig", rapiconfig)
    BY SMTT(60) DEF rapiconfig, OneCall
  <2>10. Fits("prun", prun)
    BY SMTT(60) DEF prun
  <2>11. Fits("pstatus", pstatus)
    BY SMTT(60) DEF pstatus
  <2>12. Fits("list_programs", list_programs)
    BY SMTT(60) DEF list_programs
  <2>13. Fits("delete_key", delete_key)
    BY SMTT(60) DEF delete_key, OneCall
  <2>14. Fits("new_key", new_key)
    BY SMTT(60) DEF new_key
  <2>15. Fits("delete_val", delete_val)
    BY SMTT(60) DEF delete_val, WithKey
  <2>16. Fits("read_val", read_val)
    BY SMTT(60) DEF read_val, WithKey
  <2>17. Fits("write_val", write_val)
    BY SMTT(60) DEF write_val, WithKey
  <2> HIDE DEF Fits
  <2> QED
    BY <2>1, <2>2, <2>3, <2>4, <2>5, <2>6, <2>7, <2>8, <2>9, <2>10, <2>11, <2>12, <2>13,
       <2>14, <2>15, <2>16, <2>17
<1>2. Scripts["prm"] = prm /\ Scripts["pmkdir"] = pmkdir /\ Scripts["prmdir"] = prmdir
      /\ Scripts["pmv"] = pmv /\ Scripts["pshortcut"] = pshortcut
      /\ Scripts["psettime"] = psettime /\ Scripts["pkillall"] = pkillall
      /\ Scripts["oidinfo"] = oidinfo /\ Scripts["rapiconfig"] = rapiconfig
      /\ Scripts["prun"] = prun /\ Scripts["pstatus"] = pstatus
      /\ Scripts["list_programs"] = list_programs /\ Scripts["delete_key"] = delete_key
      /\ Scripts["new_key"] = new_key /\ Scripts["delete_val"] = delete_val
      /\ Scripts["read_val"] = read_val /\ Scripts["write_val"] = write_val
  BY Zenon DEF Scripts
<1> QED
  BY <1>1, <1>2

\* The scripts of several parts but for the copies.
LEMMA LargerScripts ==
    \A name \in {"database", "pls", "pls_R", "pcat", "pbackup", "list_key", "list_keys",
                 "dump_registry"} : Disciplined(name)
<1> DEFINE Fits(name, parts) == Scripts[name] = parts => Disciplined(name)
<1>1. /\ Fits("database", database) /\ Fits("pls", pls(FALSE)) /\ Fits("pls_R", pls(TRUE))
      /\ Fits("pcat", pcat) /\ Fits("list_key", list_tree(FALSE))
      /\ Fits("list_keys", list_tree(TRUE)) /\ Fits("dump_registry", dump_registry)
  <2> USE LenientAssumption, LeakyAssumption
      DEF Disciplined, Keeps, Continues, KeepsFailure, KeepsHandles, Places, Labels, Dead,
          Copies, Held, FromRemote, ToRemote, Adds, AddsFailing, Opening, Closing, Doomed, Ends,
          Must, Ask, Loop, Close, Local, Either, Sub, Step, folders
  <2>1. Fits("database", database)
    BY SMTT(60) DEF database, list_databases_by_all, list_databases_by_enum, read_database, read_record
  <2>2. Fits("pls", pls(FALSE))
    BY SMTT(60) DEF pls
  <2>3. Fits("pls_R", pls(TRUE))
    BY SMTT(60) DEF pls
  <2>4. Fits("pcat", pcat)
    BY SMTT(60) DEF pcat, FromDevice
  <2>5. Fits("list_key", list_tree(FALSE))
    <3> SUFFICES ASSUME Scripts["list_key"] = list_tree(FALSE) PROVE Disciplined("list_key")
      OBVIOUS
    <3>1. Places("list_key") =
            {"ok", "no", "start", "close", "drop", "tree", "listKey", "values", "keys"}
      BY SMTT(60) DEF list_tree, WithKey, list_key
    <3> HIDE DEF Places
    <3> QED
      BY <3>1, SMTT(60) DEF list_tree, WithKey, list_key
  <2>6. Fits("list_keys", list_tree(TRUE))
    BY SMTT(60) DEF list_tree, WithKey, list_key
  <2>7. Fits("dump_registry", dump_registry)
    BY SMTT(60) DEF dump_registry, list_key
  <2> HIDE DEF Fits
  <2> QED
    BY <2>1, <2>2, <2>3, <2>4, <2>5, <2>6, <2>7
<1>2. Scripts["database"] = database /\ Scripts["pls"] = pls(FALSE)
      /\ Scripts["pls_R"] = pls(TRUE) /\ Scripts["pcat"] = pcat
      /\ Scripts["list_key"] = list_tree(FALSE) /\ Scripts["list_keys"] = list_tree(TRUE)
      /\ Scripts["dump_registry"] = dump_registry
  BY Zenon DEF Scripts
<1>3. Disciplined("pbackup")
  <2> DEFINE first == [start |-> Sub("dir", "ok", "ok")]
  <2>1. Scripts["pbackup"] = <<first, backup_dir, FromDevice>>
    <3>1. Scripts["pbackup"] = pbackup
      BY Zenon DEF Scripts
    <3> QED
      BY <3>1 DEF pbackup
  <2>2. DOMAIN first = {"start"}
    OBVIOUS
  <2>3. DOMAIN backup_dir =
          {"dir", "list", "whole", "subdir", "entry", "partial", "subdir2", "entry2"}
    BY DEF backup_dir
  <2>4. DOMAIN FromDevice = {"file", "read", "close", "drop"}
    BY DEF FromDevice
  <2> HIDE DEF first
  <2>5. /\ DOMAIN Scripts["pbackup"] = {1, 2, 3} /\ Scripts["pbackup"][1] = first
        /\ Scripts["pbackup"][2] = backup_dir /\ Scripts["pbackup"][3] = FromDevice
    BY <2>1
  <2>6. Places("pbackup") = Ends \cup DOMAIN first \cup DOMAIN backup_dir \cup DOMAIN FromDevice
    BY <2>5 DEF Places, Labels, Dead, Copies
  <2>7. "pbackup" \in Lenient
    BY LenientAssumption
  <2> USE DEF Keeps, Continues, KeepsFailure, KeepsHandles, Held, FromRemote, ToRemote, Adds,
              AddsFailing, Opening, Closing, Ends, Must, Ask, Loop, Close, Local, Either, Sub, Step
  <2>8. \A l \in DOMAIN first : Keeps("pbackup", l, first[l])
    BY <2>2, <2>3, <2>6, <2>7 DEF first
  <2>9. \A l \in DOMAIN backup_dir : Keeps("pbackup", l, backup_dir[l])
    BY <2>3, <2>4, <2>6, <2>7 DEF backup_dir
  <2>10. \A l \in DOMAIN FromDevice : Keeps("pbackup", l, FromDevice[l])
    BY <2>4, <2>6, <2>7 DEF FromDevice
  <2> HIDE DEF Keeps
  <2> QED
    BY <2>2, <2>5, <2>6, <2>8, <2>9, <2>10 DEF Disciplined
<1> QED
  BY <1>1, <1>2, <1>3

\* pcp in each of its directions, with and without directories: part by part.
LEMMA CopyDisciplined ==
    ASSUME NEW name, NEW from \in {"remote", "local"}, NEW to \in {"remote", "local"},
           NEW recursive \in BOOLEAN, Scripts[name] = pcp(from, to, recursive),
           from = "remote" \/ to = "remote",
           from = "remote" <=> name \in FromRemote, to = "remote" <=> name \in ToRemote,
           recursive <=> name \notin Copies, recursive => name \in Lenient,
           name \notin {"pls", "list_key", "pshortcut"}
    PROVE  Disciplined(name)
<1> DEFINE parts == pcp(from, to, recursive)
           first == [start |-> IF from = "local" THEN Either({"folder", "copy"})
                               ELSE Either({"copy"}),
                     folder |-> Must(folders, {"copy"}, {"no"})]
<1>1. parts = <<first, do_copy(from, to, recursive), copy_dir(from), copy_file(from, to)>>
  BY DEF pcp
<1>2. DOMAIN parts = 1..4 /\ parts[1] = first /\ parts[2] = do_copy(from, to, recursive)
      /\ parts[3] = copy_dir(from) /\ parts[4] = copy_file(from, to)
  <2> HIDE DEF parts, first
  <2> QED
    BY <1>1
<1>3. Places(name) = Ends \cup ((DOMAIN first \cup DOMAIN do_copy(from, to, recursive)
                        \cup DOMAIN copy_dir(from) \cup DOMAIN copy_file(from, to)) \ Dead(name))
  <2> HIDE DEF parts, first
  <2>1. DOMAIN parts = {1, 2, 3, 4}
    BY <1>2
  <2> QED
    BY <1>2, <2>1 DEF Places, Labels, parts
<1>4. DOMAIN first = {"start", "folder"}
  OBVIOUS
<1>5. DOMAIN do_copy(from, to, recursive) =
        {"copy", "wasDir", "wasFile", "newFile", "fileThere", "fileDest", "fileInto", "fileOver",
         "newDir", "dirThere", "dirDest", "dirInto", "dirOver", "make"}
  BY DEF do_copy
<1>6. DOMAIN copy_dir(from) = {"list", "notCopied", "copied", "subdir", "entry"}
  BY DEF copy_dir
<1>7. /\ from = "remote" /\ to = "remote" => copy_file(from, to) = remote_copy
      /\ from = "remote" /\ to = "local" => copy_file(from, to) = FromDevice
      /\ from = "local" => copy_file(from, to) = ToDevice
  BY DEF copy_file
<1>8. "file" \in DOMAIN copy_file(from, to)
  BY <1>7 DEF remote_copy, FromDevice, ToDevice
<1>9. Dead(name) = IF recursive THEN {}
                   ELSE {"newDir", "dirThere", "dirDest", "dirInto", "dirOver", "make",
                             "list", "notCopied", "copied", "subdir", "entry"}
  BY Zenon DEF Dead, Copies
<1> HIDE DEF parts, first
<1>10. /\ {"start", "folder", "copy", "wasDir", "wasFile", "newFile", "fileThere", "fileDest",
            "fileInto", "fileOver", "file", "ok", "no"} \subseteq Places(name)
       /\ recursive => {"newDir", "dirThere", "dirDest", "dirInto", "dirOver", "make", "list",
                        "notCopied", "copied", "subdir", "entry"} \subseteq Places(name)
  BY <1>3, <1>4, <1>5, <1>6, <1>8, <1>9 DEF Ends
<1> USE DEF Keeps, Continues, KeepsFailure, KeepsHandles, Adds, AddsFailing, Opening, Closing, Doomed
<1> USE DEF Must, Ask, Loop, Close, Local, Either, Sub, Step, folders
<1>11. ASSUME NEW l \in DOMAIN first, l \notin Dead(name) PROVE Keeps(name, l, first[l])
  BY <1>4, <1>10, SMTT(60) DEF first, Held
<1>12. ASSUME NEW l \in DOMAIN do_copy(from, to, recursive), l \notin Dead(name)
       PROVE  Keeps(name, l, do_copy(from, to, recursive)[l])
  <2>1. CASE from = "remote" /\ to = "remote"
    <3>1. CASE recursive
      BY <2>1, <3>1, <1>5, <1>10, SMTT(60)
         DEF do_copy, Question, Answer, Held
    <3>2. CASE ~recursive
      BY <2>1, <3>2, <1>5, <1>9, <1>10, <1>12, SMTT(60)
         DEF do_copy, Question, Answer, Held
    <3> QED
      BY <3>1, <3>2
  <2>2. CASE from = "remote" /\ to = "local"
    <3>1. CASE recursive
      BY <2>2, <3>1, <1>5, <1>10, SMTT(60)
         DEF do_copy, Question, Answer, Held
    <3>2. CASE ~recursive
      BY <2>2, <3>2, <1>5, <1>9, <1>10, <1>12, SMTT(60)
         DEF do_copy, Question, Answer, Held
    <3> QED
      BY <3>1, <3>2
  <2>3. CASE from = "local" /\ to = "remote"
    <3>1. CASE recursive
      BY <2>3, <3>1, <1>5, <1>10, SMTT(60)
         DEF do_copy, Question, Answer, Held
    <3>2. CASE ~recursive
      BY <2>3, <3>2, <1>5, <1>9, <1>10, <1>12, SMTT(60)
         DEF do_copy, Question, Answer, Held
    <3> QED
      BY <3>1, <3>2
  <2> QED
    BY <2>1, <2>2, <2>3
<1>13. ASSUME NEW l \in DOMAIN copy_dir(from), l \notin Dead(name)
       PROVE  Keeps(name, l, copy_dir(from)[l])
  <2>1. recursive
    BY <1>6, <1>9, <1>13
  <2>2. CASE from = "remote"
    BY <2>1, <2>2, <1>6, <1>10 DEF copy_dir, Held
  <2>3. CASE from = "local"
    BY <2>1, <2>3, <1>6, <1>10 DEF copy_dir, Held
  <2> QED
    BY <2>2, <2>3
<1>14. ASSUME NEW l \in DOMAIN copy_file(from, to) PROVE Keeps(name, l, copy_file(from, to)[l])
  <2>1. CASE from = "remote" /\ to = "remote"
    BY <2>1, <1>7, <1>10 DEF remote_copy, Held
  <2>2. CASE from = "remote" /\ to = "local"
    <3>1. copy_file(from, to) = FromDevice
      BY <2>2, <1>7
    <3>2. DOMAIN FromDevice \subseteq Places(name)
      BY <3>1, <1>3, <1>9 DEF FromDevice
    <3> QED
      BY <3>1, <3>2, <1>10 DEF FromDevice, Held
  <2>3. CASE from = "local"
    <3>1. copy_file(from, to) = ToDevice
      BY <2>3, <1>7
    <3>2. DOMAIN ToDevice \subseteq Places(name)
      BY <3>1, <1>3, <1>9 DEF ToDevice
    <3> QED
      BY <3>1, <3>2, <1>10 DEF ToDevice, Held
  <2> QED
    BY <2>1, <2>2, <2>3
<1> HIDE DEF Keeps
<1>15. ASSUME NEW i \in DOMAIN parts, NEW l \in DOMAIN parts[i], l \notin Dead(name)
       PROVE  Keeps(name, l, parts[i][l])
  <2>1. i = 1 \/ i = 2 \/ i = 3 \/ i = 4
    BY <1>2
  <2> QED
    BY <2>1, <1>2, <1>15, <1>11, <1>12, <1>13, <1>14, Zenon
<1> QED
  BY <1>10, <1>15, Zenon DEF Disciplined, parts

\* Every script there is keeps to the discipline.
LEMMA Discipline == \A name \in DOMAIN Scripts : Disciplined(name)
<1>1. DOMAIN Scripts =
        {"prm", "pmkdir", "prmdir", "pmv", "pshortcut", "psettime", "pkillall", "oidinfo",
         "rapiconfig", "prun", "pstatus", "list_programs", "delete_key", "new_key",
         "delete_val", "read_val", "write_val"}
        \cup {"database", "pls", "pls_R", "pcat", "pbackup", "list_key", "list_keys",
              "dump_registry"}
        \cup {"pcp_get", "pcp_put", "pcp_copy", "pcp_r_get", "pcp_r_put", "pcp_r_copy"}
  BY DEF Scripts
<1>2. /\ Scripts["pcp_get"] = pcp("remote", "local", FALSE)
      /\ Scripts["pcp_put"] = pcp("local", "remote", FALSE)
      /\ Scripts["pcp_copy"] = pcp("remote", "remote", FALSE)
      /\ Scripts["pcp_r_get"] = pcp("remote", "local", TRUE)
      /\ Scripts["pcp_r_put"] = pcp("local", "remote", TRUE)
      /\ Scripts["pcp_r_copy"] = pcp("remote", "remote", TRUE)
  BY Zenon DEF Scripts
<1>3. Disciplined("pcp_get") /\ Disciplined("pcp_put") /\ Disciplined("pcp_copy")
  BY <1>2, CopyDisciplined DEF FromRemote, ToRemote, Copies
<1>4. Disciplined("pcp_r_get") /\ Disciplined("pcp_r_put") /\ Disciplined("pcp_r_copy")
  BY <1>2, CopyDisciplined, LenientAssumption DEF FromRemote, ToRemote, Copies
<1> QED
  BY <1>1, <1>3, <1>4, SmallScripts, LargerScripts

----------------------------------------------------------------------------
(* The walk through a script.                                              *)

\* Where the tool is in its script, and where its functions return to.
PlaceInv ==
    /\ tool.name \in Tools
    /\ label \in Places(tool.name)
    /\ stack \in Seq([ok : Places(tool.name), no : Places(tool.name)])
    /\ at # "script" => label = "start" /\ stack = <<>>
    /\ tool.name = "pshortcut" => stack = <<>>

\* After a failure of its work a tool that is not lenient is on its way to "no",
\* as the functions return to it, or has ended without success.
WorkInv ==
    /\ Searching \/ at \in {"session", "init"} => ~missed
    /\ tool.name \notin Lenient =>
         /\ \A i \in DOMAIN stack : stack[i].no \in Doomed
         /\ missed => IF at = "script" THEN label \in Doomed ELSE status # "success"

\* Success comes from the end of a script, or of an answer how the tool is used, and only a crash leaves main with its
\* reference.
StatusInv ==
    /\ status \in {"success", "failure", "crash"}
    /\ at = "exit" /\ owns = "one" => status = "crash"
    /\ tool.name \notin Optimists /\ status = "success" => owns # "none" \/ tool.wants = Help

\* Handles open in the callers of the function in progress, from the innermost out.
Weights(w) ==
    /\ w \in [0..Len(stack) -> Int] /\ w[Len(stack)] = 0
    /\ \A i \in 1..Len(stack) : w[i - 1] = w[i] + Held(tool.name, stack[i].ok)
FramesAgree ==
    \A i \in DOMAIN stack : Held(tool.name, stack[i].no) = Held(tool.name, stack[i].ok)
HandleInv ==
    /\ handles \in Int
    /\ tool.name \notin Leaky /\ link = "up" =>
         IF at = "script"
         THEN FramesAgree /\ \E w : Weights(w) /\ handles = w[0] + Held(tool.name, label)
         ELSE at # "exit" => handles = 0

ToolInv == PlaceInv /\ WorkInv /\ StatusInv /\ HandleInv

\* The tool starts where its script does, with nothing open and nothing missed.
LEMMA InitTool == Init => ToolInv
<1> SUFFICES ASSUME Init PROVE ToolInv
  OBVIOUS
<1>1. tool.name \in Tools /\ at = "start" /\ label = "start" /\ stack = <<>> /\ owns = "none"
      /\ handles = 0 /\ ~missed
  BY DEF Init
<1>2. "start" \in Places(tool.name)
  BY <1>1, ToolsAssumption, Discipline DEF Disciplined
<1>3. PlaceInv
  BY <1>1, <1>2 DEF PlaceInv
<1>4. WorkInv
  BY <1>1 DEF WorkInv, Searching
<1>5. StatusInv
  BY DEF Init, StatusInv
<1>6. HandleInv
  BY <1>1 DEF HandleInv
<1> QED
  BY <1>3, <1>4, <1>5, <1>6 DEF ToolInv

\* The step that a tool is at keeps to the discipline.
LEMMA StepKeeps ==
    ASSUME PlaceInv, InScript PROVE Keeps(tool.name, label, Now)
<1> DEFINE parts == Scripts[tool.name]
<1>1. Disciplined(tool.name)
  BY ToolsAssumption, Discipline DEF PlaceInv
<1>2. label \in Labels(parts) /\ label \notin Dead(tool.name)
  BY DEF PlaceInv, InScript, Places
<1>3. \E i \in DOMAIN parts : label \in DOMAIN parts[i]
  BY <1>2 DEF Labels
<1>4. PICK i \in DOMAIN parts : label \in DOMAIN parts[i] /\ Now = parts[i][label]
  BY <1>3 DEF Now, StepAt
<1> QED
  BY <1>1, <1>2, <1>4 DEF Disciplined

\* Going on to a label keeps the tool in its script.
LEMMA GoToPlace ==
    ASSUME PlaceInv, at = "script", NEW l \in Places(tool.name) \cup {"quit", "crash"},
           GoTo(l), tool' = tool
    PROVE  PlaceInv'
<1>1. /\ tool'.name = tool.name /\ tool.name \in Tools /\ label \in Places(tool.name)
      /\ stack \in Seq([ok : Places(tool.name), no : Places(tool.name)])
      /\ tool.name = "pshortcut" => stack = <<>>
  BY DEF PlaceInv
<1>2. "start" \in Places(tool.name)
  BY <1>1, ToolsAssumption, Discipline DEF Disciplined
<1>3. CASE l \in Ends /\ stack # <<>>
  <2>1. label' = Head(stack)[l] /\ stack' = Tail(stack) /\ at' = at
    BY <1>3 DEF GoTo
  <2>2. /\ Head(stack) \in [ok : Places(tool.name), no : Places(tool.name)]
        /\ Tail(stack) \in Seq([ok : Places(tool.name), no : Places(tool.name)])
    BY <1>1, <1>3, HeadTailProperties
  <2>3. label' \in Places(tool.name)
    BY <1>3, <2>1, <2>2 DEF Ends
  <2> QED
    BY <1>1, <1>3, <2>1, <2>2, <2>3 DEF PlaceInv
<1>4. CASE l \in Ends \cup {"quit", "crash"} /\ ~(l \in Ends /\ stack # <<>>)
  <2>1. label' = "start" /\ stack' = <<>>
    BY <1>4 DEF GoTo
  <2>2. stack' \in Seq([ok : Places(tool.name), no : Places(tool.name)])
    BY <2>1
  <2> QED
    BY <1>1, <1>2, <2>1, <2>2 DEF PlaceInv
<1>5. CASE l \notin Ends \cup {"quit", "crash"}
  BY <1>1, <1>5 DEF GoTo, PlaceInv
<1> QED
  BY <1>3, <1>4, <1>5

\* It keeps a failure that was missed, when the label is one that leads to "no".
LEMMA GoToWork ==
    ASSUME PlaceInv, WorkInv, at = "script", NEW l, GoTo(l), tool' = tool,
           tool.name \notin Lenient /\ missed' => l \in Doomed
    PROVE  WorkInv'
<1>1. stack \in Seq([ok : Places(tool.name), no : Places(tool.name)])
  BY DEF PlaceInv
<1>2. at' \in {"script", "release session", "exit"}
  BY DEF GoTo
<1> SUFFICES ASSUME tool.name \notin Lenient
             PROVE  /\ \A i \in DOMAIN stack' : stack'[i].no \in Doomed
                    /\ missed' => IF at' = "script" THEN label' \in Doomed ELSE status' # "success"
  BY <1>2 DEF WorkInv, Searching
<1>3. \A i \in DOMAIN stack : stack[i].no \in Doomed
  BY DEF WorkInv
<1>4. CASE l \in Ends /\ stack # <<>>
  <2>1. label' = Head(stack)[l] /\ stack' = Tail(stack) /\ at' = at
    BY <1>4 DEF GoTo
  <2>2. /\ Head(stack) = stack[1] /\ 1 \in DOMAIN stack
        /\ \A i \in DOMAIN Tail(stack) : i + 1 \in DOMAIN stack /\ Tail(stack)[i] = stack[i + 1]
    BY <1>1, <1>4
  <2>3. Head(stack).no \in Doomed
    BY <1>3, <2>2
  <2>4. \A i \in DOMAIN stack' : stack'[i].no \in Doomed
    BY <1>3, <2>1, <2>2
  <2>5. missed' => l = "no"
    BY <1>4 DEF Doomed, Ends
  <2> QED
    BY <2>1, <2>3, <2>4, <2>5
<1>5. CASE l \in Ends \cup {"quit", "crash"} /\ ~(l \in Ends /\ stack # <<>>)
  <2>1. /\ at' = IF l = "crash" THEN "exit" ELSE "release session"
        /\ status' = StatusOf(l) /\ stack' = <<>>
    BY <1>5 DEF GoTo
  <2>2. missed' => l = "no"
    BY <1>5 DEF Doomed, Ends
  <2>3. missed' => at' # "script" /\ status' # "success"
    BY <2>1, <2>2 DEF StatusOf
  <2>4. \A i \in DOMAIN stack' : stack'[i].no \in Doomed
    <3>1. stack' = <<>>
      BY <2>1
    <3>2. \A i \in DOMAIN <<>> : FALSE
      OBVIOUS
    <3> QED
      BY <3>1, <3>2, Zenon
  <2> QED
    BY <2>3, <2>4
<1>6. CASE l \notin Ends \cup {"quit", "crash"}
  <2>1. label' = l /\ UNCHANGED <<at, stack>>
    BY <1>6 DEF GoTo
  <2> QED
    BY <1>3, <2>1
<1> QED
  BY <1>4, <1>5, <1>6

\* A status that was set at the end of a script is set by a tool with a device.
LEMMA GoToStatus ==
    ASSUME StatusInv, at = "script", owns = "one", NEW l, GoTo(l), tool' = tool, owns' = owns
    PROVE  StatusInv'
<1>1. CASE l \in Ends /\ stack # <<>>
  BY <1>1 DEF GoTo, StatusInv
<1>2. CASE l \in Ends \cup {"quit", "crash"} /\ ~(l \in Ends /\ stack # <<>>)
  BY <1>2 DEF GoTo, StatusInv, StatusOf, Ends
<1>3. CASE l \notin Ends \cup {"quit", "crash"}
  BY <1>3 DEF GoTo, StatusInv
<1> QED
  BY <1>1, <1>2, <1>3

\* The handles that are open when it goes on to a label.
Carries(l) ==
    /\ handles' \in Int
    /\ tool.name \notin Leaky /\ link' = "up" =>
         /\ FramesAgree
         /\ l = "quit" => stack = <<>>
         /\ l # "crash" => \E w : Weights(w) /\ handles' = w[0] + Held(tool.name, l)

\* At the end of a function the caller's handles are left, at the end of the script
\* none.
LEMMA GoToHandles ==
    ASSUME PlaceInv, at = "script", NEW l, GoTo(l), Carries(l), tool' = tool
    PROVE  HandleInv'
<1> handles' \in Int
  BY DEF Carries
<1> SUFFICES ASSUME tool.name \notin Leaky, link' = "up" PROVE HandleInv'
  BY DEF HandleInv
<1>1. /\ stack \in Seq([ok : Places(tool.name), no : Places(tool.name)])
      /\ FramesAgree /\ (l = "quit" => stack = <<>>)
      /\ l # "crash" => \E w : Weights(w) /\ handles' = w[0] + Held(tool.name, l)
  BY DEF PlaceInv, Carries
<1>2. Len(stack) \in Nat /\ DOMAIN stack = 1..Len(stack)
  BY <1>1
<1>3. \A x : Held(tool.name, x) \in {0, 1, 2}
  BY DEF Held
<1>4. CASE l \in Ends /\ stack # <<>>
  <2>1. label' = Head(stack)[l] /\ stack' = Tail(stack) /\ at' = at
    BY <1>4 DEF GoTo
  <2>2. /\ Head(stack) = stack[1] /\ 1 \in DOMAIN stack /\ Len(Tail(stack)) = Len(stack) - 1
        /\ DOMAIN Tail(stack) = 1..(Len(stack) - 1)
        /\ \A i \in DOMAIN Tail(stack) : i + 1 \in DOMAIN stack /\ Tail(stack)[i] = stack[i + 1]
    BY <1>1, <1>4
  <2>3. PICK w : Weights(w) /\ handles' = w[0] + Held(tool.name, l)
    BY <1>1, <1>4 DEF Ends
  <2>4. Held(tool.name, l) = 0
    BY <1>4 DEF Held, Ends
  <2>5. Held(tool.name, label') = Held(tool.name, stack[1].ok)
    BY <1>1, <1>4, <2>1, <2>2 DEF FramesAgree, Ends
  <2> PICK v : v = [i \in 0..(Len(stack) - 1) |-> w[i + 1]]
    OBVIOUS
  <2>6. w \in [0..Len(stack) -> Int] /\ w[Len(stack)] = 0
        /\ \A i \in 1..Len(stack) : w[i - 1] = w[i] + Held(tool.name, stack[i].ok)
    BY <2>3 DEF Weights
  <2>7. v \in [0..(Len(stack) - 1) -> Int] /\ v[Len(stack) - 1] = 0 /\ v[0] = w[1]
    BY <1>2, <2>2, <2>6
  <2>8. ASSUME NEW i \in 1..(Len(stack) - 1)
        PROVE  v[i - 1] = v[i] + Held(tool.name, Tail(stack)[i].ok)
    <3>1. v[i - 1] = w[i] /\ v[i] = w[i + 1] /\ i + 1 \in 1..Len(stack) /\ (i + 1) - 1 = i
      BY <1>2
    <3>2. w[(i + 1) - 1] = w[i + 1] + Held(tool.name, stack[i + 1].ok)
      BY <2>6, <3>1
    <3> QED
      BY <2>2, <3>1, <3>2
  <2>9. Weights(v)'
    <3>1. Len(stack') = Len(stack) - 1
      BY <2>1, <2>2
    <3> QED
      BY <2>1, <2>7, <2>8, <3>1 DEF Weights
  <2>10. handles' = v[0] + Held(tool.name, label')
    <3>1. w[1 - 1] = w[1] + Held(tool.name, stack[1].ok)
      BY <1>2, <2>2, <2>6
    <3> QED
      BY <1>3, <2>3, <2>4, <2>5, <2>6, <2>7, <3>1
  <2>11. FramesAgree'
    BY <1>1, <2>1, <2>2 DEF FramesAgree
  <2> QED
    BY <2>1, <2>9, <2>10, <2>11 DEF HandleInv
<1>5. CASE l \in Ends \cup {"quit", "crash"} /\ ~(l \in Ends /\ stack # <<>>)
  <2>1. /\ at' = IF l = "crash" THEN "exit" ELSE "release session"
    BY <1>5 DEF GoTo
  <2>2. CASE l # "crash"
    <3>1. stack = <<>> /\ Held(tool.name, l) = 0
      BY <1>1, <1>5, <2>2 DEF Held, Ends
    <3>2. PICK w : Weights(w) /\ handles' = w[0] + Held(tool.name, l)
      BY <1>1, <2>2
    <3>3. w[0] = 0
      BY <3>1, <3>2 DEF Weights
    <3>4. handles' = 0
      BY <3>1, <3>2, <3>3
    <3>5. at' # "script"
      BY <2>1
    <3> QED
      BY <3>4, <3>5 DEF HandleInv
  <2> QED
    BY <2>1, <2>2 DEF HandleInv
<1>6. CASE l \notin Ends \cup {"quit", "crash"}
  <2>1. label' = l /\ UNCHANGED <<at, stack>>
    BY <1>6 DEF GoTo
  <2>2. PICK w : Weights(w) /\ handles' = w[0] + Held(tool.name, l)
    BY <1>1, <1>6
  <2>3. Weights(w)' /\ FramesAgree'
    BY <1>1, <2>1, <2>2 DEF Weights, FramesAgree
  <2>4. handles' = w[0] + Held(tool.name, label)'
    BY <2>1, <2>2
  <2> QED
    BY <2>1, <2>3, <2>4 DEF HandleInv
<1> QED
  BY <1>4, <1>5, <1>6

\* A label that the tool may go on to with what the step did.
Follows(l) ==
    /\ l \in Places(tool.name) \cup {"quit", "crash"}
    /\ tool.name \notin Lenient /\ missed' => l \in Doomed
    /\ Carries(l)

\* Going on to such a label keeps the invariant.
LEMMA GoToKeeps ==
    ASSUME ToolInv, at = "script", owns = "one", NEW l, GoTo(l), Follows(l), tool' = tool,
           owns' = owns
    PROVE  ToolInv'
<1>1. PlaceInv'
  BY GoToPlace DEF ToolInv, Follows
<1>2. WorkInv'
  BY GoToWork DEF ToolInv, Follows
<1>3. StatusInv'
  BY GoToStatus DEF ToolInv
<1>4. HandleInv'
  BY GoToHandles DEF ToolInv, Follows
<1> QED
  BY <1>1, <1>2, <1>3, <1>4 DEF ToolInv

\* What is open where the tool is in its script.
LEMMA OpenNow ==
    ASSUME ToolInv, at = "script", tool.name \notin Leaky, link = "up"
    PROVE  /\ FramesAgree
           /\ \E w : Weights(w) /\ handles = w[0] + Held(tool.name, label) /\ w[0] \in Int
<1>1. FramesAgree /\ \E w : Weights(w) /\ handles = w[0] + Held(tool.name, label)
  BY DEF ToolInv, HandleInv
<1>2. \A w : Weights(w) => w[0] \in Int
  <2> SUFFICES ASSUME NEW w, Weights(w) PROVE w[0] \in Int
    OBVIOUS
  <2>1. Len(stack) \in Nat /\ w \in [0..Len(stack) -> Int]
    BY DEF ToolInv, PlaceInv, Weights
  <2> QED
    BY <2>1
<1> QED
  BY <1>1, <1>2

\* A function returns.
LEMMA ReturnKeeps ==
    ASSUME ToolInv, owns = "one", Returns PROVE ToolInv'
<1>1. /\ at = "script" /\ label \in Ends /\ GoTo(label) /\ tool' = tool /\ owns' = owns
      /\ UNCHANGED <<link, handles>>
  BY DEF Returns, found
<1>2. label \in Places(tool.name)
  BY <1>1 DEF Places
<1>3. tool.name \notin Lenient /\ missed' => label \in Doomed
  <2>1. missed' = missed
    BY DEF Returns
  <2> QED
    BY <1>1, <2>1, Zenon DEF ToolInv, WorkInv
<1>4. Carries(label)
  <2>1. handles' \in Int /\ label # "quit" /\ handles' = handles
    BY <1>1 DEF ToolInv, HandleInv, Ends
  <2> QED
    BY <1>1, <2>1, OpenNow DEF Carries
<1> QED
  BY <1>1, <1>2, <1>3, <1>4, GoToKeeps DEF Follows

\* Where the tool goes on to after a step that did what it was for.
LEMMA OnFollows ==
    ASSUME ToolInv, InScript, Now.call # "sub", NEW l \in Now.more \cup Now.ends,
           missed' = missed, handles' = handles + Adds(Now.call), link' = link
    PROVE  Follows(l)
<1>1. /\ Continues(tool.name, Now) /\ KeepsFailure(tool.name, label, Now)
      /\ KeepsHandles(tool.name, label, Now) /\ at = "script"
  BY StepKeeps DEF ToolInv, Keeps, InScript
<1>2. l \in Places(tool.name) \cup {"quit", "crash"}
  BY <1>1 DEF Continues
<1>3. tool.name \notin Lenient /\ missed' => l \in Doomed
  <2>1. tool.name \notin Lenient /\ missed => label \in Doomed
    BY <1>1, Zenon DEF ToolInv, WorkInv
  <2>2. tool.name \notin Lenient /\ label \in Doomed => l \in Doomed
    BY <1>1 DEF KeepsFailure
  <2> QED
    BY <2>1, <2>2, Zenon
<1>4. Carries(l)
  <2>0. handles' \in Int
    BY DEF ToolInv, HandleInv, Adds
  <2> SUFFICES ASSUME tool.name \notin Leaky, link' = "up"
               PROVE  /\ FramesAgree /\ (l = "quit" => stack = <<>>)
                      /\ l # "crash" => \E w : Weights(w) /\ handles' = w[0] + Held(tool.name, l)
    BY <2>0 DEF Carries
  <2>1. FramesAgree
    BY <1>1, OpenNow
  <2>2. PICK w : Weights(w) /\ handles = w[0] + Held(tool.name, label) /\ w[0] \in Int
    BY <1>1, OpenNow
  <2>3. l = "quit" => stack = <<>>
    BY <1>1 DEF Continues, ToolInv, PlaceInv
  <2>4. ASSUME l # "crash" PROVE handles' = w[0] + Held(tool.name, l)
    <3>1. Held(tool.name, l) = Held(tool.name, label) + Adds(Now.call)
      BY <1>1, <2>4 DEF KeepsHandles
    <3>2. Held(tool.name, label) \in Int /\ Adds(Now.call) \in Int
      BY DEF Held, Adds
    <3> QED
      BY <2>2, <3>1, <3>2
  <2> QED
    BY <2>1, <2>2, <2>3, <2>4
<1> QED
  BY <1>2, <1>3, <1>4 DEF Follows

\* And after a call that failed, or that was lost with its connection.
LEMMA FailureFollows ==
    ASSUME ToolInv, Calling, NEW l \in Now.no, missed' = (missed \/ Now.work),
           \/ link' = link /\ handles' = handles + AddsFailing(Now.call)
           \/ link' # "up" /\ handles' \in {handles, handles + Adds(Now.call)}
    PROVE  Follows(l)
<1>1. /\ Continues(tool.name, Now) /\ KeepsFailure(tool.name, label, Now)
      /\ KeepsHandles(tool.name, label, Now) /\ at = "script"
      /\ Now.work = TRUE \/ Now.work = FALSE
  BY StepKeeps DEF ToolInv, Keeps, InScript, Calling
<1>2. l \in Places(tool.name) \cup {"quit", "crash"}
  BY <1>1 DEF Continues, Calling
<1>3. tool.name \notin Lenient /\ missed' => l \in Doomed
  <2>1. tool.name \notin Lenient /\ missed => label \in Doomed
    BY <1>1, Zenon DEF ToolInv, WorkInv
  <2>2. tool.name \notin Lenient /\ label \in Doomed => l \in Doomed
    BY <1>1 DEF KeepsFailure
  <2>3. tool.name \notin Lenient /\ Now.work = TRUE => l \in Doomed
    BY <1>1 DEF KeepsFailure, Calling
  <2>4. missed' => missed \/ Now.work = TRUE
    BY <1>1, Zenon
  <2> QED
    BY <2>1, <2>2, <2>3, <2>4, Zenon
<1>4. Carries(l)
  <2>0. handles' \in Int
    BY DEF ToolInv, HandleInv, Adds, AddsFailing
  <2> SUFFICES ASSUME tool.name \notin Leaky, link' = "up"
               PROVE  /\ FramesAgree /\ (l = "quit" => stack = <<>>)
                      /\ l # "crash" => \E w : Weights(w) /\ handles' = w[0] + Held(tool.name, l)
    BY <2>0 DEF Carries
  <2>1. link = "up" /\ handles' = handles + AddsFailing(Now.call)
    OBVIOUS
  <2>2. FramesAgree
    BY <1>1, <2>1, OpenNow
  <2>3. PICK w : Weights(w) /\ handles = w[0] + Held(tool.name, label) /\ w[0] \in Int
    BY <1>1, <2>1, OpenNow
  <2>4. l = "quit" => stack = <<>>
    BY <1>1 DEF Continues, ToolInv, PlaceInv
  <2>5. ASSUME l # "crash" PROVE handles' = w[0] + Held(tool.name, l)
    <3>1. Held(tool.name, l) = Held(tool.name, label) + AddsFailing(Now.call)
      BY <1>1, <2>5 DEF KeepsHandles, Calling
    <3>2. AddsFailing(Now.call) \in Int /\ Held(tool.name, label) \in Int
      BY DEF AddsFailing, Held
    <3> QED
      BY <2>1, <2>3, <3>1, <3>2
  <2> QED
    BY <2>2, <2>3, <2>4, <2>5
<1> QED
  BY <1>2, <1>3, <1>4 DEF Follows

\* A function begins, or is left at the bound.
LEMMA EntersKeeps ==
    ASSUME ToolInv, owns = "one", InScript, Now.call = "sub", NEW f \in Now.ends,
           NEW ok \in Now.more, NEW no \in Now.no, Enters(f, ok, no), tool' = tool,
           owns' = owns, link' = link, handles' = handles, missed' = missed
    PROVE  ToolInv'
<1>1. /\ Continues(tool.name, Now) /\ KeepsFailure(tool.name, label, Now)
      /\ KeepsHandles(tool.name, label, Now) /\ at = "script"
  BY StepKeeps DEF ToolInv, Keeps, InScript
<1>2. /\ f \in Places(tool.name) /\ ok \in Places(tool.name) /\ no \in Places(tool.name)
      /\ tool.name # "pshortcut"
  BY <1>1 DEF Continues
<1>3. tool.name \notin Lenient => ~missed /\ no \in Doomed
  <2>1. tool.name \notin Lenient /\ missed => label \in Doomed
    BY <1>1, Zenon DEF ToolInv, WorkInv
  <2>2. tool.name \notin Lenient => label \notin Doomed /\ no \in Doomed
    BY <1>1 DEF KeepsFailure
  <2> QED
    BY <2>1, <2>2, Zenon
<1>4. tool.name \notin Leaky =>
         /\ Held(tool.name, f) = 0
         /\ Held(tool.name, ok) = Held(tool.name, label)
         /\ Held(tool.name, no) = Held(tool.name, label)
  BY <1>1 DEF KeepsHandles
<1>5. ASSUME NEW l \in {ok, no}, GoTo(l) PROVE ToolInv'
  <2>1. l \in Places(tool.name) \cup {"quit", "crash"}
    BY <1>2
  <2>2. tool.name \notin Lenient /\ missed' => l \in Doomed
    BY <1>3, Zenon
  <2>3. Carries(l)
    <3>0. handles' \in Int
      BY DEF ToolInv, HandleInv
    <3> SUFFICES ASSUME tool.name \notin Leaky, link' = "up" PROVE Carries(l)
      BY <3>0 DEF Carries
    <3>1. l # "quit"
      BY <1>1 DEF Continues
    <3>2. Held(tool.name, l) = Held(tool.name, label)
      BY <1>4
    <3> QED
      BY <1>1, <3>0, <3>1, <3>2, OpenNow DEF Carries
  <2> QED
    BY <1>1, <1>5, <2>1, <2>2, <2>3, GoToKeeps DEF Follows
<1>6. CASE Len(stack) < MaxDepth
  <2> DEFINE frame == [ok |-> ok, no |-> no]
             Frames == [ok : Places(tool.name), no : Places(tool.name)]
  <2>1. label' = f /\ stack' = <<frame>> \o stack /\ UNCHANGED <<at, status>>
    BY <1>6 DEF Enters
  <2>2. frame \in Frames /\ stack \in Seq(Frames)
    BY <1>2 DEF ToolInv, PlaceInv
  <2>3. frame.ok = ok /\ frame.no = no
    OBVIOUS
  <2> HIDE DEF frame, Frames
  <2>4. /\ stack' \in Seq(Frames) /\ Len(stack') = Len(stack) + 1 /\ Len(stack) \in Nat
        /\ DOMAIN stack' = 1..Len(stack') /\ DOMAIN stack = 1..Len(stack)
        /\ stack'[1] = frame /\ \A i \in 1..Len(stack) : stack'[i + 1] = stack[i]
    BY <2>1, <2>2
  <2>5. \A i \in 2..Len(stack') : i - 1 \in 1..Len(stack) /\ stack'[i] = stack[i - 1]
    BY <2>4
  <2>6. \A i \in DOMAIN stack' : stack'[i] = frame \/ \E j \in DOMAIN stack : stack'[i] = stack[j]
    <3> SUFFICES ASSUME NEW i \in DOMAIN stack'
                 PROVE  stack'[i] = frame \/ \E j \in DOMAIN stack : stack'[i] = stack[j]
      OBVIOUS
    <3>1. i = 1 \/ i \in 2..Len(stack')
      BY <2>4
    <3> QED
      BY <2>4, <2>5, <3>1
  <2>7. PlaceInv'
    BY <1>1, <1>2, <2>1, <2>4 DEF ToolInv, PlaceInv, Frames
  <2>8. WorkInv'
    <3>1. ASSUME tool.name \notin Lenient PROVE \A i \in DOMAIN stack' : stack'[i].no \in Doomed
      <4>1. \A i \in DOMAIN stack : stack[i].no \in Doomed
        BY <3>1 DEF ToolInv, WorkInv
      <4> QED
        BY <1>3, <3>1, <2>3, <2>6, <4>1
    <3>2. at' = "script"
      BY <1>1, <2>1
    <3>3. tool.name \notin Lenient => ~missed'
      BY <1>3, Zenon
    <3> QED
      BY <3>1, <3>2, <3>3 DEF WorkInv, Searching
  <2>9. StatusInv'
    BY <2>1, <1>1 DEF ToolInv, StatusInv
  <2>10. HandleInv'
    <3> SUFFICES ASSUME tool.name \notin Leaky, link = "up"
                 PROVE  FramesAgree' /\ \E w : Weights(w)' /\ handles = w[0] + Held(tool.name, f)
      BY <1>1, <2>1 DEF ToolInv, HandleInv
    <3>1. FramesAgree
      BY <1>1, OpenNow
    <3>2. PICK w : Weights(w) /\ handles = w[0] + Held(tool.name, label) /\ w[0] \in Int
      BY <1>1, OpenNow
    <3>3. FramesAgree'
      BY <1>4, <2>3, <2>6, <3>1 DEF FramesAgree
    <3> DEFINE h == Held(tool.name, label)
    <3>4. h \in Int
      BY DEF Held
    <3>5. /\ w \in [0..Len(stack) -> Int] /\ w[Len(stack)] = 0
          /\ \A i \in 1..Len(stack) : w[i - 1] = w[i] + Held(tool.name, stack[i].ok)
      BY <3>2 DEF Weights
    <3>6. PICK v : v = [i \in 0..(Len(stack) + 1) |-> IF i = 0 THEN w[0] + h ELSE w[i - 1]]
      OBVIOUS
    <3> HIDE DEF h
    <3>7. v \in [0..(Len(stack) + 1) -> Int]
      <4>1. ASSUME NEW i \in 0..(Len(stack) + 1)
            PROVE  (IF i = 0 THEN w[0] + h ELSE w[i - 1]) \in Int
        <5>1. i # 0 => i - 1 \in 0..Len(stack)
          BY <2>4
        <5>2. i # 0 => w[i - 1] \in Int
          BY <3>5, <5>1
        <5> QED
          BY <3>2, <3>4, <5>2
      <4> QED
        BY <3>6, <4>1
    <3>8. v[0] = w[0] + h /\ v[Len(stack) + 1] = 0 /\ v[1] = w[0]
      BY <2>4, <3>5, <3>6
    <3>9. ASSUME NEW i \in 1..(Len(stack) + 1)
          PROVE  v[i - 1] = v[i] + Held(tool.name, stack'[i].ok)
      <4>1. CASE i = 1
        <5>1. stack'[1].ok = ok
          BY <2>3, <2>4
        <5>2. Held(tool.name, stack'[1].ok) = h
          BY <1>4, <5>1 DEF h
        <5> QED
          BY <3>8, <4>1, <5>2
      <4>2. CASE i # 1
        <5>1. i - 1 \in 1..Len(stack) /\ stack'[i] = stack[i - 1]
          BY <2>4, <2>5, <4>2
        <5>2. v[i - 1] = w[(i - 1) - 1] /\ v[i] = w[i - 1]
          BY <2>4, <3>6, <4>2
        <5>3. w[(i - 1) - 1] = w[i - 1] + Held(tool.name, stack[i - 1].ok)
          BY <3>5, <5>1
        <5> QED
          BY <5>1, <5>2, <5>3
      <4> QED
        BY <4>1, <4>2
    <3>10. Weights(v)'
      BY <2>4, <3>7, <3>8, <3>9 DEF Weights
    <3>11. handles = v[0] + Held(tool.name, f)
      BY <1>4, <3>2, <3>4, <3>8 DEF h
    <3> QED
      BY <3>3, <3>10, <3>11
  <2> QED
    BY <2>7, <2>8, <2>9, <2>10 DEF ToolInv
<1> QED
  BY <1>5, <1>6 DEF Enters

\* Every step of a script.
LEMMA RunKeeps ==
    ASSUME ToolInv, owns = "one",
           LocalStep \/ Returns \/ CallSucceeds \/ CallFails \/ CallIsLost
    PROVE  ToolInv'
<1>0. handles \in Int
  BY DEF ToolInv, HandleInv
<1>1. ASSUME NEW l \in Now.more \cup Now.ends, GoTo(l), InScript, Now.call # "sub",
             missed' = missed, handles' = handles + Adds(Now.call), link' = link,
             tool' = tool, owns' = owns
      PROVE  ToolInv'
  BY <1>1, OnFollows, GoToKeeps DEF InScript
<1>2. GoesOn => \E l \in Now.more \cup Now.ends : GoTo(l)
  BY DEF GoesOn
<1>3. CASE LocalStep
  <2>1. InScript /\ tool' = tool /\ owns' = owns /\ link' = link /\ handles' = handles
    BY <1>3 DEF LocalStep, found
  <2>2. missed' = missed
    BY <1>3 DEF LocalStep
  <2>3. CASE Now.call = "none" /\ GoesOn
    <3>1. handles' = handles + Adds(Now.call)
      <4>1. Adds(Now.call) = 0
        BY <2>3 DEF Adds, Opening, Closing
      <4>2. handles \in Int
        BY <1>0
      <4> QED
        BY <2>1, <4>1, <4>2
    <3> QED
      BY <1>1, <1>2, <2>1, <2>2, <2>3, <3>1
  <2>4. CASE Now.call = "sub" /\ \E l \in Now.ends, ok \in Now.more, no \in Now.no : Enters(l, ok, no)
    BY <2>1, <2>2, <2>4, EntersKeeps
  <2> QED
    BY <1>3, <2>3, <2>4 DEF LocalStep
<1>4. CASE Returns
  BY <1>4, ReturnKeeps
<1>5. CASE CallSucceeds
  <2>1. Calling /\ GoesOn /\ Executes /\ tool' = tool /\ owns' = owns /\ link' = link
    BY <1>5 DEF CallSucceeds, found
  <2>2. missed' = missed
    BY <1>5 DEF CallSucceeds
  <2>3. handles' = handles + Adds(Now.call)
    BY <2>1, <1>0 DEF Executes, Adds, Opening, Closing
  <2> QED
    BY <1>1, <1>2, <2>1, <2>2, <2>3 DEF Calling
<1>6. CASE CallFails
  <2>1. PICK l \in Now.no : GoTo(l)
    BY <1>6 DEF CallFails
  <2>2. Calling /\ tool' = tool /\ owns' = owns /\ link' = link
    BY <1>6 DEF CallFails, found
  <2>3. missed' = (missed \/ Now.work)
    BY <1>6 DEF CallFails
  <2>4. handles' = handles + AddsFailing(Now.call)
    BY <1>0, <1>6 DEF CallFails, AddsFailing
  <2>5. Follows(l)
    BY <2>2, <2>3, <2>4, FailureFollows
  <2> QED
    BY <2>1, <2>2, <2>5, GoToKeeps DEF Calling, InScript
<1>7. CASE CallIsLost
  <2>1. PICK l \in Now.no : GoTo(l)
    BY <1>7 DEF CallIsLost
  <2>2. Calling /\ tool' = tool /\ owns' = owns /\ link' = "down"
    BY <1>7 DEF CallIsLost, found
  <2>3. missed' = (missed \/ Now.work)
    BY <1>7 DEF CallIsLost
  <2>4. handles' \in {handles, handles + Adds(Now.call)}
    BY <1>0, <1>7 DEF CallIsLost, Executes, Adds, Opening, Closing
  <2>5. Follows(l)
    BY <2>2, <2>3, <2>4, FailureFollows
  <2> QED
    BY <2>1, <2>2, <2>5, GoToKeeps DEF Calling, InScript
<1> QED
  BY <1>3, <1>4, <1>5, <1>6, <1>7

\* Outside its script main leaves the script's variables alone, and sets a status only
\* when it has told how it is used.
LEMMA OutsideKeeps ==
    ASSUME ToolInv, at \notin {"script", "exit"}, UNCHANGED <<tool, script, link>>,
           \/ status' = status
           \/ Searching /\ tool.wants = Help /\ status' = "success",
           at' = "exit" => owns' # "one", owns # "none" => owns' # "none",
           Searching' \/ at' \in {"session", "init", "script"} =>
              Searching \/ at \in {"session", "init"}
    PROVE  ToolInv'
<1>1. UNCHANGED <<tool, label, stack, items, handles, link>>
  BY DEF script
<1>2. missed' = missed
  BY DEF script
<1>3. PlaceInv'
  BY <1>1 DEF ToolInv, PlaceInv
<1>4. WorkInv'
  <2>1. stack' = <<>>
    BY <1>1 DEF ToolInv, PlaceInv
  <2>2. \A i \in DOMAIN <<>> : FALSE
    OBVIOUS
  <2>3. Searching' \/ at' \in {"session", "init", "script"} => ~missed
    BY DEF ToolInv, WorkInv
  <2>4. tool.name \notin Lenient => (missed => status' # "success")
    BY Zenon DEF ToolInv, WorkInv
  <2>5. \A i \in DOMAIN stack' : stack'[i].no \in Doomed
    BY <2>1, <2>2, Zenon
  <2> QED
    BY <1>1, <1>2, <2>3, <2>4, <2>5, Zenon DEF WorkInv
<1>5. StatusInv'
  BY <1>1 DEF ToolInv, StatusInv
<1>6. HandleInv'
  <2> SUFFICES ASSUME tool.name \notin Leaky, link = "up" PROVE HandleInv'
    BY <1>1 DEF HandleInv, ToolInv
  <2>1. handles = 0 /\ label = "start" /\ stack = <<>>
    BY DEF ToolInv, HandleInv, PlaceInv
  <2>2. Len(stack') = 0 /\ DOMAIN stack' = 1..0
    BY <1>1, <2>1
  <2>3. PICK w : w = [i \in 0..0 |-> 0]
    OBVIOUS
  <2>4. Weights(w)'
    BY <2>2, <2>3 DEF Weights
  <2>5. FramesAgree'
    BY <2>2 DEF FramesAgree
  <2>6. handles' = w[0] + Held(tool.name, label)'
    <3>1. Held(tool.name, label)' = 0
      BY <1>1, <2>1 DEF Held
    <3> QED
      BY <1>1, <2>1, <2>3, <3>1
  <2> QED
    BY <1>1, <2>1, <2>4, <2>5, <2>6 DEF HandleInv
<1> QED
  BY <1>3, <1>4, <1>5, <1>6 DEF ToolInv

\* Every step of main keeps them.
LEMMA NextTool == RefsInv /\ ToolInv /\ [Next]_vars => ToolInv'
<1> SUFFICES ASSUME RefsInv, ToolInv, [Next]_vars PROVE ToolInv'
  OBVIOUS
<1>1. OwnerInv /\ SearchInv
  BY DEF RefsInv
<1>2. CASE LocalStep \/ Returns \/ CallSucceeds \/ CallFails \/ CallIsLost
  <2>1. at = "script"
    BY <1>2, ScriptStays DEF Stays
  <2> QED
    BY <1>1, <1>2, <2>1, RunKeeps DEF OwnerInv
<1>3. CASE \/ handle_parameters \/ IRAPIDesktop_Get \/ EnumDevices \/ NextDevice
           \/ NoMoreDevices \/ KeepDevice
  <2>1. /\ Searching /\ UNCHANGED <<tool, script, link>> /\ at \notin {"script", "exit"}
        /\ status' = status \/ (tool.wants = Help /\ status' = "success")
        /\ at' # "script" /\ owns' \in {owns, "one"} /\ (at' = "exit" => owns' = owns)
    BY <1>3 DEF handle_parameters, IRAPIDesktop_Get, EnumDevices, NextDevice, NoMoreDevices,
       KeepDevice, Goes, Searching, found
  <2>2. owns = "none"
    BY <1>1, <2>1 DEF SearchInv
  <2> QED
    BY <2>1, <2>2, OutsideKeeps
<1>4. CASE IRAPIDevice_CreateSession \/ CeRapiInit
  <2>1. /\ at \in {"session", "init"} /\ UNCHANGED <<tool, script, status, link>>
        /\ at' # "exit" /\ owns' = owns
    BY <1>4 DEF IRAPIDevice_CreateSession, CeRapiInit, Goes, found
  <2> QED
    BY <2>1, OutsideKeeps
<1>5. CASE ReleaseSession \/ ReleaseDevice \/ ReleaseEnum \/ ReleaseDesktop
  <2>1. /\ at \in {"release session", "release device", "release enumdev", "release desktop"}
        /\ at' \in {"release device", "release enumdev", "release desktop", "exit"}
        /\ UNCHANGED <<tool, script, status, link>>
        /\ owns' = owns \/ (owns = "one" /\ owns' = "given back")
        /\ at' = "exit" => at = "release desktop" /\ owns' = owns
    BY <1>5 DEF ReleaseSession, ReleaseDevice, ReleaseEnum, ReleaseDesktop, Goes
  <2>2. at' = "exit" => owns' # "one"
    BY <1>1, <2>1 DEF OwnerInv, Working
  <2>3. ~(Searching' \/ at' \in {"session", "init", "script"})
    BY <2>1 DEF Searching
  <2> QED
    BY <2>1, <2>2, <2>3, OutsideKeeps
<1>6. CASE LinkFails
  <2>1. UNCHANGED <<tool, at, label, stack, handles, status, owns>> /\ link' # "up"
    BY <1>6 DEF LinkFails, script, found
  <2>2. missed' = missed
    BY <1>6 DEF LinkFails, script
  <2>3. PlaceInv' /\ StatusInv' /\ HandleInv'
    BY <2>1 DEF ToolInv, PlaceInv, StatusInv, HandleInv
  <2>4. WorkInv'
    BY <2>1, <2>2, Zenon DEF ToolInv, WorkInv, Searching
  <2> QED
    BY <2>3, <2>4 DEF ToolInv
<1>7. CASE UNCHANGED vars
  <2>1. UNCHANGED <<tool, at, label, stack, handles, status, owns, link>>
    BY <1>7 DEF vars
  <2>2. missed' = missed
    BY <1>7 DEF vars
  <2>3. PlaceInv' /\ StatusInv'
    BY <2>1 DEF ToolInv, PlaceInv, StatusInv
  <2>4. HandleInv'
    BY <2>1 DEF ToolInv, HandleInv, Weights, FramesAgree
  <2>5. WorkInv'
    BY <2>1, <2>2, Zenon DEF ToolInv, WorkInv, Searching
  <2> QED
    BY <2>3, <2>4, <2>5 DEF ToolInv
<1> QED
  BY <1>2, <1>3, <1>4, <1>5, <1>6, <1>7 DEF Next

\* What holds of a tool from its start to its end.
LEMMA ToolInvariance == Spec => [](RefsInv /\ ToolInv)
<1>1. Init => RefsInv /\ ToolInv
  BY InitRefs, InitTool
<1>2. RefsInv /\ ToolInv /\ [Next]_vars => RefsInv' /\ ToolInv'
  BY NextRefs, NextTool
<1> QED
  BY <1>1, <1>2, PTL DEF Spec

\* ExitIsTrue: a tool that ends with success had a device, unless it is an optimist or
\* was asked how it is used, and every call of its work succeeded, unless it is
\* lenient.
THEOREM SuccessOfTools == Spec => []ExitIsTrue
<1>1. RefsInv /\ ToolInv => ExitIsTrue
  <2> SUFFICES ASSUME RefsInv, ToolInv, at = "exit", status = "success"
               PROVE  /\ owns = "given back" \/ tool.name \in Optimists
                         \/ tool.wants = Help
                      /\ missed => tool.name \in Lenient
    BY DEF ExitIsTrue
  <2>1. owns = "given back" \/ tool.name \in Optimists \/ tool.wants = Help
    BY DEF RefsInv, OwnerInv, ToolInv, StatusInv
  <2>2. missed => tool.name \in Lenient
    BY Zenon DEF ToolInv, WorkInv
  <2> QED
    BY <2>1, <2>2
<1> QED
  BY <1>1, ToolInvariance, PTL

\* HandlesClosed: over a connection that never failed, a tool that is not leaky has
\* asked the device to close what it opened when it gives back its session, whichever
\* call failed, also one that closes, and however deep its functions were.
THEOREM ToolsCloseHandles == Spec => []HandlesClosed
<1>1. RefsInv /\ ToolInv => HandlesClosed
  BY DEF HandlesClosed, ToolInv, HandleInv
<1> QED
  BY <1>1, ToolInvariance, PTL
=============================================================================
