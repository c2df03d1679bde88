---------------------------- MODULE FuseFsProofs ----------------------------
(***************************************************************************)
(* Proofs about FuseFs, for any files and any bounds: the lock keeps the   *)
(* two threads from calling at once, a rename never loses its source, what *)
(* returns success was done, and no handle is left open.                   *)
(***************************************************************************)
EXTENDS FuseFs, Integers, TLAPS

----------------------------------------------------------------------------
(* The inductive invariants.                                               *)

MainShape ==
    DOMAIN main = {"at", "op", "pc", "left", "from", "to", "source", "did", "ret"}

\* The lock says who is in a call, at every moment of the process's life.
LockInv ==
    /\ MainShape
    /\ main.at = "calling" <=> lock = "main"
    /\ watchdog = "probing" <=> lock = "watchdog"
    /\ main.at = "connecting" => watchdog = "ended"

\* A rename that has made its first call, or not yet, has its source, if that is
\* another file than its destination.
Renaming == main.op = "rename" /\ main.at \in {"wants lock", "calling"}
RenameInv ==
    /\ MainShape
    /\ DOMAIN files = Files
    /\ main.at = "connecting" => main.op # "rename"
    /\ Renaming =>
         /\ main.pc \in {1, 2}
         /\ main.from \in Files /\ main.to \in Files
         /\ main.from # main.to => main.source = files[main.from]
    /\ main.op = "rename" /\ main.at = "loop" /\ main.source # None /\ main.from # main.to =>
         main.source \in {Holds(main.from), Holds(main.to)}

----------------------------------------------------------------------------
(* The lock.                                                               *)

\* Nobody calls before there is a session.
LEMMA InitLock == Init => LockInv
BY DEF Init, NoRequest, LockInv, MainShape

\* Whatever an operation does after a call, it is in its next call with the lock,
\* or has given it back.
LEMMA MovesLock ==
    ASSUME LockInv, main.at = "calling", NEW goes, NEW answered \in BOOLEAN,
           Moves(goes, answered), UNCHANGED watchdog
    PROVE  LockInv'
<1> DEFINE way == Way(goes)
           leaves == way \in {"end", "error"} \/ Now.unlocks
<1>1. lock' = IF leaves THEN "nobody" ELSE lock
  BY DEF Moves
<1>2. MainShape' /\ main'.at = IF way \in {"end", "error"} THEN "loop"
                              ELSE IF Now.unlocks THEN "wants lock" ELSE main.at
  BY DEF Moves, Advances, LockInv, MainShape
<1> HIDE DEF way
<1>3. CASE way \in {"end", "error"}
  BY <1>1, <1>2, <1>3 DEF LockInv
<1>4. CASE way \notin {"end", "error"} /\ Now.unlocks
  BY <1>1, <1>2, <1>4 DEF LockInv
<1>5. CASE way \notin {"end", "error"} /\ ~Now.unlocks
  BY <1>1, <1>2, <1>5 DEF LockInv
<1> QED
  BY <1>3, <1>4, <1>5

\* Every step keeps the lock's meaning.
LEMMA NextLock == LockInv /\ [Next]_vars => LockInv'
<1> SUFFICES ASSUME LockInv, [Next]_vars PROVE LockInv'
  OBVIOUS
<1> USE DEF LockInv, MainShape
<1>1. CASE Connect
  BY <1>1 DEF Connect
<1>2. CASE Unmount
  BY <1>2 DEF Unmount
<1>3. CASE LeaveLoop
  BY <1>3 DEF LeaveLoop, NoRequest
<1>4. CASE rapi_disconnect
  BY <1>4 DEF rapi_disconnect, Disconnects
<1>5. ASSUME NEW op, NEW from, NEW to, NEW left, Request(op, from, to, left)
      PROVE LockInv'
  BY <1>5 DEF Request
<1>6. CASE TakeLock
  BY <1>6 DEF TakeLock
<1>7. CASE CallSucceeds
  BY <1>7, MovesLock DEF CallSucceeds
<1>8. CASE CallFails
  BY <1>8, MovesLock DEF CallFails
<1>9. CASE CallIsLost
  BY <1>9, MovesLock DEF CallIsLost
<1>10. CASE Probe
  BY <1>10 DEF Probe
<1>11. ASSUME NEW ok \in BOOLEAN, ProbeEnds(ok) PROVE LockInv'
  BY <1>11 DEF ProbeEnds, ProbeReturns
<1>12. CASE GiveUp
  BY <1>12 DEF GiveUp
<1>13. CASE AlarmRings
  BY <1>13 DEF AlarmRings
<1>14. CASE Device
  BY <1>14 DEF Device
<1>15. CASE UNCHANGED vars
  BY <1>15 DEF vars
<1> HIDE DEF LockInv, MainShape
<1> QED
  BY <1>1, <1>2, <1>3, <1>4, <1>5, <1>6, <1>7, <1>8, <1>9, <1>10, <1>11, <1>12, <1>13,
     <1>14, <1>15 DEF Next, SomeRequest

\* OneCallAtATime: g_lock keeps the watchdog's probe and the kernel's requests
\* apart, for as long as the device is mounted.
THEOREM LockProtects == Spec => []OneCallAtATime
<1>1. LockInv => OneCallAtATime
  BY DEF LockInv, OneCallAtATime, InCall
<1> QED
  BY <1>1, InitLock, NextLock, PTL DEF Spec

----------------------------------------------------------------------------
(* The rename.                                                             *)

\* There is no request yet.
LEMMA InitRename == Init => RenameInv
BY DEF Init, NoRequest, RenameInv, MainShape, Renaming

\* The two calls of a rename.
LEMMA RenameSteps ==
    /\ Len(sf_ops["rename"]) = 2
    /\ sf_ops["rename"][1] = Try("CeDeleteFile")
    /\ sf_ops["rename"][2] = Must("CeMoveFile")
BY DEF sf_ops, sf_rename

\* Where it goes after a call: after the first on to the second, after the second
\* out.
LEMMA RenameGoes ==
    ASSUME RenameInv, Renaming, NEW goes \in Now.yes \cup {Now.no}
    PROVE  /\ main.pc = 1 => Now.call = "CeDeleteFile" /\ Way(goes) = "on"
           /\ main.pc = 2 => Now.call = "CeMoveFile" /\ Way(goes) \in {"end", "error"}
           /\ Now.unlocks = FALSE
<1>1. CASE main.pc = 1
  <2>1. Now = [call |-> "CeDeleteFile", no |-> "on", yes |-> {"on"}, unlocks |-> FALSE]
    BY <1>1, RenameSteps DEF Renaming, Now, Try, Step
  <2>2. goes = "on" /\ Now.call = "CeDeleteFile" /\ Now.unlocks = FALSE
    BY <2>1
  <2>3. Len(sf_ops[main.op]) = 2
    BY RenameSteps DEF Renaming
  <2> QED
    BY <1>1, <2>2, <2>3 DEF Way
<1>2. CASE main.pc = 2
  <2>1. Now = [call |-> "CeMoveFile", no |-> "error", yes |-> {"on"}, unlocks |-> FALSE]
    BY <1>2, RenameSteps DEF Renaming, Now, Must, Step
  <2>2. goes \in {"on", "error"} /\ Now.call = "CeMoveFile" /\ Now.unlocks = FALSE
    BY <2>1
  <2>3. Len(sf_ops[main.op]) = 2
    BY RenameSteps DEF Renaming
  <2> QED
    BY <1>2, <2>2, <2>3 DEF Way
<1> QED
  BY <1>1, <1>2 DEF RenameInv

\* A step of an operation does not change what was asked.
LEMMA MovesKeeps ==
    ASSUME MainShape, NEW goes, NEW answered \in BOOLEAN, Moves(goes, answered)
    PROVE  /\ MainShape'
           /\ UNCHANGED <<main.op, main.from, main.to, main.source>>
           /\ main'.at = IF Way(goes) \in {"end", "error"} THEN "loop"
                         ELSE IF Now.unlocks THEN "wants lock" ELSE main.at
           /\ main'.pc = IF Way(goes) = "on" THEN main.pc + 1 ELSE main.pc
BY DEF Moves, Advances, MainShape

\* What the device does for a rename: first the destination goes, then it is
\* what the source was.
LEMMA RenameExecutes ==
    ASSUME RenameInv, Renaming, Executes
    PROVE  /\ DOMAIN files' = Files
           /\ main.pc = 1 /\ main.from # main.to => files'[main.from] = files[main.from]
           /\ main.pc = 2 /\ main.from # main.to => files'[main.to] = files[main.from]
<1> PICK goes \in Now.yes \cup {Now.no} : TRUE
  OBVIOUS
<1>1. CASE main.pc = 1
  BY <1>1, RenameGoes DEF Executes, RenameInv, Renaming
<1>2. CASE main.pc = 2
  BY <1>2, RenameGoes DEF Executes, RenameInv, Renaming
<1> QED
  BY <1>1, <1>2 DEF RenameInv

\* A call of a rename, whatever became of it, with what it did to the files.
LEMMA RenameMoves ==
    ASSUME RenameInv, main.at = "calling", NEW goes \in Now.yes \cup {Now.no},
           NEW answered \in BOOLEAN, Moves(goes, answered), Executes \/ UNCHANGED files
    PROVE  RenameInv'
<1>1. DOMAIN files' = Files
  BY DEF Executes, RenameInv
<1>2. MainShape'
  BY MovesKeeps DEF RenameInv
<1>3. ASSUME main'.op = "rename" PROVE RenameInv'
  <2>1. Renaming
    BY <1>3, MovesKeeps DEF Renaming, RenameInv
  <2>2. CASE main.pc = 1
    <3>1. main'.at = "calling" /\ main'.pc = 2
      <4>1. Way(goes) = "on" /\ Now.unlocks = FALSE
        BY <2>1, <2>2, RenameGoes
      <4>2. /\ main'.at = IF Way(goes) \in {"end", "error"} THEN "loop"
                          ELSE IF Now.unlocks THEN "wants lock" ELSE main.at
            /\ main'.pc = IF Way(goes) = "on" THEN main.pc + 1 ELSE main.pc
        BY MovesKeeps DEF RenameInv
      <4>3. main'.at = "calling"
        BY <4>1, <4>2, Zenon
      <4>4. main'.pc = main.pc + 1
        BY <4>1, <4>2, Zenon
      <4> QED
        BY <4>3, <4>4, <2>2
    <3>2. main.from # main.to => files'[main.from] = files[main.from]
      BY <2>1, <2>2, RenameExecutes
    <3>3. UNCHANGED <<main.op, main.from, main.to, main.source>>
      BY MovesKeeps DEF RenameInv
    <3>4. /\ main.from \in Files /\ main.to \in Files
          /\ main.from # main.to => main.source = files[main.from]
      BY <2>1 DEF RenameInv
    <3> QED
      BY <1>1, <1>2, <3>1, <3>2, <3>3, <3>4 DEF RenameInv, Renaming
  <2>3. CASE main.pc = 2
    <3>1. main'.at = "loop"
      BY <2>1, <2>3, RenameGoes, MovesKeeps DEF RenameInv
    <3>2. main.from # main.to => main.source \in {files'[main.from], files'[main.to]}
      BY <2>1, <2>3, RenameExecutes DEF RenameInv
    <3>3. UNCHANGED <<main.op, main.from, main.to, main.source>>
      BY MovesKeeps DEF RenameInv
    <3>4. Holds(main.from)' = files'[main.from] /\ Holds(main.to)' = files'[main.to]
      <4>1. main.from \in Files /\ main.to \in Files
        BY <2>1 DEF RenameInv
      <4>2. main.from # None /\ main.to # None
        BY <4>1, NoneAssumption
      <4> QED
        BY <3>3, <4>2 DEF Holds
    <3> QED
      BY <1>1, <1>2, <3>1, <3>2, <3>3, <3>4 DEF RenameInv, Renaming
  <2> QED
    BY <2>1, <2>2, <2>3 DEF RenameInv
<1> QED
  BY <1>1, <1>2, <1>3 DEF RenameInv, Renaming

\* Every other step leaves request and files alone, or begins or ends one.
LEMMA NextRename == RenameInv /\ [Next]_vars => RenameInv'
<1> SUFFICES ASSUME RenameInv, [Next]_vars PROVE RenameInv'
  OBVIOUS
<1> USE DEF device
<1>1. CASE UNCHANGED <<main, files>>
  BY <1>1 DEF RenameInv, MainShape, Renaming, Holds
<1>2. CASE Connect
  BY <1>2 DEF Connect, RenameInv, MainShape, Renaming
<1>3. CASE LeaveLoop
  BY <1>3 DEF LeaveLoop, NoRequest, RenameInv, MainShape, Renaming
<1>4. CASE rapi_disconnect
  BY <1>4 DEF rapi_disconnect, Disconnects, RenameInv, MainShape, Renaming
<1>5. ASSUME NEW op, NEW from \in Files, NEW to \in Files, NEW left,
             Request(op, from, to, left)
      PROVE  RenameInv'
  BY <1>5 DEF Request, RenameInv, MainShape, Renaming
<1>6. CASE TakeLock
  BY <1>6 DEF TakeLock, RenameInv, MainShape, Renaming
<1>7. CASE CallSucceeds
  <2>1. PICK goes \in Now.yes : Moves(goes, TRUE)
    BY <1>7 DEF CallSucceeds
  <2> QED
    BY <1>7, <2>1, RenameMoves DEF CallSucceeds
<1>8. CASE CallFails
  BY <1>8, RenameMoves DEF CallFails
<1>9. CASE CallIsLost
  BY <1>9, RenameMoves DEF CallIsLost
<1>10. CASE Unmount \/ Probe \/ (\E ok \in BOOLEAN : ProbeEnds(ok)) \/ GiveUp
            \/ AlarmRings \/ Device
  BY <1>1, <1>10 DEF Unmount, Probe, ProbeEnds, ProbeReturns, GiveUp, AlarmRings,
     Device, LinkFalls, LinkStalls, StoreFills
<1>11. CASE UNCHANGED vars
  BY <1>1, <1>11 DEF vars
<1> HIDE DEF device
<1> QED
  BY <1>2, <1>3, <1>4, <1>5, <1>6, <1>7, <1>8, <1>9, <1>10, <1>11 DEF Next, SomeRequest

\* RenameKeepsSource: what the source of a rename held is at one of the two names, if
\* they are two files, whichever of its calls failed or were lost.
THEOREM RenamesKeepSource == Spec => []RenameKeepsSource
<1>1. RenameInv => RenameKeepsSource
  BY NoneAssumption DEF RenameInv, RenameKeepsSource, Renaming, Holds
<1> QED
  BY <1>1, InitRename, NextRename, PTL DEF Spec

----------------------------------------------------------------------------
(* The operations: what each step does to the handles, and what it shows.  *)

\* Handles that an operation has open for itself before its step pc, and how
\* a call that succeeds changes their number.
Own(op, pc) ==
    IF (op = "getattr" /\ pc > 2) \/ (op \in {"truncate", "utimens"} /\ pc > 1) THEN 1 ELSE 0
Adds(f) == IF f = "CeCreateFile" THEN 1 ELSE IF f = "CeCloseHandle" THEN -1 ELSE 0

\* The ways on after a step that Way chooses from, and the step that is next.
Ways(op, pc, goes) ==
    (IF goes = "on" /\ pc = Len(sf_ops[op]) THEN {"end"} ELSE {goes})
    \cup (IF goes = "chunk" THEN {"end"} ELSE {})
Ending(way) == way \in {"end", "error"}
Then(pc, way) == IF way = "on" THEN pc + 1 ELSE pc

\* What is open afterwards: the operation's own, and the kernel's files.
OwnThen(op, pc, way) == IF Ending(way) THEN 0 ELSE Own(op, Then(pc, way))
FileThen(op, way) ==
    IF Ending(way) /\ op = "release" THEN -1
    ELSE IF way = "end" /\ op \in Opens THEN 1 ELSE 0

\* Only getattr goes on after the call that it was for.
Shown(op, pc) == op = "getattr" /\ pc > 1

\* The books balance over every step that is answered, and success is reported
\* only when the call that was asked for was answered.
StepFits(op, pc) ==
    LET step == sf_ops[op][pc] IN
    /\ \A goes \in step.yes : \A way \in Ways(op, pc, goes) :
          /\ Own(op, pc) + Adds(step.call) = OwnThen(op, pc, way) + FileThen(op, way)
          /\ way = "end" => op \in Careless \/ Shown(op, pc) \/ step.call \in Asked(op)
          /\ ~Ending(way) /\ Shown(op, Then(pc, way)) => Shown(op, pc) \/ step.call \in Asked(op)
    /\ \A way \in Ways(op, pc, step.no) :
          /\ step.call # "CeCloseHandle" => Own(op, pc) = OwnThen(op, pc, way) + FileThen(op, way)
          /\ way = "end" => op \in Careless \/ Shown(op, pc)
          /\ ~Ending(way) /\ Shown(op, Then(pc, way)) => Shown(op, pc)
          /\ way = "end" => op \notin Opens
    /\ Own(op, pc) = 1 => Adds(step.call) # 1

LEMMA Operations ==
    \A op \in DOMAIN sf_ops :
        /\ Len(sf_ops[op]) \in 1..5 /\ DOMAIN sf_ops[op] = 1..Len(sf_ops[op])
        /\ \A pc \in DOMAIN sf_ops[op] : StepFits(op, pc)
<1> DEFINE Fits(op) ==
        /\ Len(sf_ops[op]) \in 1..5 /\ DOMAIN sf_ops[op] = 1..Len(sf_ops[op])
        /\ \A pc \in DOMAIN sf_ops[op] : StepFits(op, pc)
<1>1. Fits("readdir") /\ Fits("statfs") /\ Fits("open") /\ Fits("read")
  <2> USE CarelessAssumption DEF Must, Try, Step, Unlocks, StepFits, Own, Adds, Ways, Ending,
          Then, OwnThen, FileThen, Opens, OnHandle, Shown, Asked
  <2>1. Fits("readdir")
    BY DEF sf_ops, sf_readdir
  <2>2. Fits("statfs")
    BY DEF sf_ops, sf_statfs
  <2>3. Fits("open")
    BY DEF sf_ops, sf_open
  <2>4. Fits("read")
    BY DEF sf_ops, sf_read
  <2> HIDE DEF Fits
  <2> QED
    BY <2>1, <2>2, <2>3, <2>4
<1>2. Fits("write") /\ Fits("release") /\ Fits("create") /\ Fits("mkdir")
  <2> USE CarelessAssumption DEF Must, Try, Step, Unlocks, StepFits, Own, Adds, Ways, Ending,
          Then, OwnThen, FileThen, Opens, OnHandle, Shown, Asked
  <2>1. Fits("write")
    BY DEF sf_ops, sf_write
  <2>2. Fits("release")
    BY DEF sf_ops, sf_release
  <2>3. Fits("create")
    BY DEF sf_ops, sf_create
  <2>4. Fits("mkdir")
    BY DEF sf_ops, sf_mkdir
  <2> HIDE DEF Fits
  <2> QED
    BY <2>1, <2>2, <2>3, <2>4
<1>3. Fits("unlink") /\ Fits("rmdir") /\ Fits("rename") /\ Fits("ftruncate")
  <2> USE CarelessAssumption DEF Must, Try, Step, Unlocks, StepFits, Own, Adds, Ways, Ending,
          Then, OwnThen, FileThen, Opens, OnHandle, Shown, Asked
  <2>1. Fits("unlink")
    BY DEF sf_ops, sf_unlink
  <2>2. Fits("rmdir")
    BY DEF sf_ops, sf_rmdir
  <2>3. Fits("rename")
    BY DEF sf_ops, sf_rename
  <2>4. Fits("ftruncate")
    BY DEF sf_ops, sf_ftruncate
  <2> HIDE DEF Fits
  <2> QED
    BY <2>1, <2>2, <2>3, <2>4
<1>4. Fits("getattr")
  <2>1. sf_ops["getattr"] = sf_getattr /\ Len(sf_ops["getattr"]) = 5
        /\ DOMAIN sf_ops["getattr"] = 1..5
    BY DEF sf_ops, sf_getattr
  <2>2. \A pc \in 1..5 : StepFits("getattr", pc)
    <3>1. StepFits("getattr", 1)
      BY <2>1, CarelessAssumption DEF sf_getattr, Must, Try, Step, Unlocks, StepFits, Own, Adds, Ways, Ending,
          Then, OwnThen, FileThen, Opens, OnHandle, Shown, Asked
    <3>2. StepFits("getattr", 2)
      BY <2>1, CarelessAssumption DEF sf_getattr, Must, Try, Step, Unlocks, StepFits, Own, Adds, Ways, Ending,
          Then, OwnThen, FileThen, Opens, OnHandle, Shown, Asked
    <3>3. StepFits("getattr", 3)
      BY <2>1, CarelessAssumption DEF sf_getattr, Must, Try, Step, Unlocks, StepFits, Own, Adds, Ways, Ending,
          Then, OwnThen, FileThen, Opens, OnHandle, Shown, Asked
    <3>4. StepFits("getattr", 4)
      BY <2>1, CarelessAssumption DEF sf_getattr, Must, Try, Step, Unlocks, StepFits, Own, Adds, Ways, Ending,
          Then, OwnThen, FileThen, Opens, OnHandle, Shown, Asked
    <3>5. StepFits("getattr", 5)
      BY <2>1, CarelessAssumption DEF sf_getattr, Must, Try, Step, Unlocks, StepFits, Own, Adds, Ways, Ending,
          Then, OwnThen, FileThen, Opens, OnHandle, Shown, Asked
    <3> QED
      BY <3>1, <3>2, <3>3, <3>4, <3>5
  <2> QED
    BY <2>1, <2>2
<1>5. Fits("truncate")
  <2>1. sf_ops["truncate"] = sf_truncate /\ Len(sf_ops["truncate"]) = 4
        /\ DOMAIN sf_ops["truncate"] = 1..4
    BY DEF sf_ops, sf_truncate
  <2>2. \A pc \in 1..4 : StepFits("truncate", pc)
    <3>1. StepFits("truncate", 1)
      BY <2>1, CarelessAssumption DEF sf_truncate, Must, Try, Step, Unlocks, StepFits, Own, Adds, Ways, Ending,
          Then, OwnThen, FileThen, Opens, OnHandle, Shown, Asked
    <3>2. StepFits("truncate", 2)
      BY <2>1, CarelessAssumption DEF sf_truncate, Must, Try, Step, Unlocks, StepFits, Own, Adds, Ways, Ending,
          Then, OwnThen, FileThen, Opens, OnHandle, Shown, Asked
    <3>3. StepFits("truncate", 3)
      BY <2>1, CarelessAssumption DEF sf_truncate, Must, Try, Step, Unlocks, StepFits, Own, Adds, Ways, Ending,
          Then, OwnThen, FileThen, Opens, OnHandle, Shown, Asked
    <3>4. StepFits("truncate", 4)
      BY <2>1, CarelessAssumption DEF sf_truncate, Must, Try, Step, Unlocks, StepFits, Own, Adds, Ways, Ending,
          Then, OwnThen, FileThen, Opens, OnHandle, Shown, Asked
    <3> QED
      BY <3>1, <3>2, <3>3, <3>4
  <2> QED
    BY <2>1, <2>2
<1>6. Fits("utimens")
  <2>1. sf_ops["utimens"] = sf_utimens /\ Len(sf_ops["utimens"]) = 3
        /\ DOMAIN sf_ops["utimens"] = 1..3
    BY DEF sf_ops, sf_utimens
  <2>2. \A pc \in 1..3 : StepFits("utimens", pc)
    <3>1. StepFits("utimens", 1)
      BY <2>1, CarelessAssumption DEF sf_utimens, Must, Try, Step, Unlocks, StepFits, Own, Adds, Ways, Ending,
          Then, OwnThen, FileThen, Opens, OnHandle, Shown, Asked
    <3>2. StepFits("utimens", 2)
      BY <2>1, CarelessAssumption DEF sf_utimens, Must, Try, Step, Unlocks, StepFits, Own, Adds, Ways, Ending,
          Then, OwnThen, FileThen, Opens, OnHandle, Shown, Asked
    <3>3. StepFits("utimens", 3)
      BY <2>1, CarelessAssumption DEF sf_utimens, Must, Try, Step, Unlocks, StepFits, Own, Adds, Ways, Ending,
          Then, OwnThen, FileThen, Opens, OnHandle, Shown, Asked
    <3> QED
      BY <3>1, <3>2, <3>3
  <2> QED
    BY <2>1, <2>2
<1> HIDE DEF Fits
<1>7. DOMAIN sf_ops = {"getattr", "readdir", "statfs", "open", "read", "write", "release",
                     "create", "mkdir", "unlink", "rmdir", "rename", "ftruncate",
                     "truncate", "utimens"}
  BY DEF sf_ops
<1>8. \A op \in DOMAIN sf_ops : Fits(op)
  BY <1>1, <1>2, <1>3, <1>4, <1>5, <1>6, <1>7
<1> QED
  BY <1>8 DEF Fits

----------------------------------------------------------------------------
(* Types, handles and answers.                                             *)

\* A request under way, and what its guard saw, which holds until it returns.
Inside == main.at \in {"wants lock", "calling"}
RequestInv ==
    Inside =>
       /\ main.from \in Files /\ main.to \in Files
       /\ main.op \in OnHandle => opened > 0
       /\ main.op \in Opens => opened < MaxOpen

\* Handles on the device are the kernel's files and those that the operation has
\* open for itself; once the connection failed they stay what they were.
HandleInv ==
    link = "up" => handles = opened + (IF Inside THEN Own(main.op, main.pc) ELSE 0)

\* An operation that is past the call it was for had an answer to it.
AnswerInv ==
    /\ main.at = "connecting" => main.ret = "none"
    /\ Inside /\ Shown(main.op, main.pc) => main.did \cap Asked(main.op) # {}

FsInv ==
    /\ MainShape
    /\ TypeOK
    /\ RequestInv
    /\ HandleInv
    /\ AnswerInv
    /\ SuccessIsTrue

LEMMA InitFs == Init => FsInv
<1> SUFFICES ASSUME Init PROVE FsInv
  OBVIOUS
<1>1. 1 \in DOMAIN sf_ops["getattr"] /\ "getattr" \in DOMAIN sf_ops
  <2>1. "getattr" \in DOMAIN sf_ops
    BY DEF sf_ops
  <2> QED
    BY <2>1, Operations
<1>2. MainShape /\ RequestInv /\ AnswerInv /\ SuccessIsTrue
  BY DEF Init, NoRequest, MainShape, RequestInv, AnswerInv, SuccessIsTrue, Inside
<1>3. HandleInv
  BY DEF Init, NoRequest, HandleInv, Inside
<1>4. TypeOK
  <2>1. files \in [Files -> Files \cup {None, "new"}]
    BY DEF Init
  <2>2. main.at = "connecting" /\ main.op = "getattr" /\ main.pc = 1 /\ main.left = 0
    BY DEF Init, NoRequest
  <2>3. 0 \in 0..MaxChunks /\ 0 \in 0..MaxOpen /\ 0 \in 0..(MaxOpen + 1)
    BY BoundsAssumption
  <2> QED
    BY <1>1, <2>1, <2>2, <2>3 DEF Init, TypeOK
<1> QED
  BY <1>2, <1>3, <1>4 DEF FsInv

\* Where an operation goes after a call: one of the ways, with what it says.
LEMMA StepGoes ==
    ASSUME FsInv, main.at = "calling", NEW goes, NEW answered \in BOOLEAN,
           goes \in Now.yes \cup {Now.no}, Advances(Way(goes), answered)
    PROVE  LET way == Way(goes) IN
           /\ way \in Ways(main.op, main.pc, goes)
           /\ MainShape' /\ UNCHANGED <<main.op, main.from, main.to>>
           /\ main'.at = IF Ending(way) THEN "loop"
                         ELSE IF Now.unlocks THEN "wants lock" ELSE "calling"
           /\ main'.pc = Then(main.pc, way) /\ main'.pc \in DOMAIN sf_ops[main.op]
           /\ main'.left \in 0..MaxChunks
           /\ main'.did = IF answered THEN main.did \cup {Now.call} ELSE main.did
           /\ main'.ret = IF way = "end" THEN "success"
                          ELSE IF way = "error" THEN "error" ELSE main.ret
           /\ opened' = opened + FileThen(main.op, way)
<1> DEFINE way == Way(goes)
<1>1. /\ MainShape /\ main.op \in DOMAIN sf_ops /\ main.pc \in DOMAIN sf_ops[main.op]
      /\ main.left \in 0..MaxChunks /\ opened \in 0..MaxOpen
  BY DEF FsInv, TypeOK
<1>2. /\ Len(sf_ops[main.op]) \in 1..5
      /\ DOMAIN sf_ops[main.op] = 1..Len(sf_ops[main.op])
  BY <1>1, Operations
<1>3. way \in Ways(main.op, main.pc, goes)
  BY DEF Way, Ways
<1>4. way = "chunk" => main.left > 1
  BY <1>1, BoundsAssumption DEF Way
<1>5. way = "on" => main.pc + 1 \in DOMAIN sf_ops[main.op]
  BY <1>1, <1>2 DEF Way
<1> HIDE DEF way
<1>6. /\ main' = [main EXCEPT
             !.at = IF way \in {"end", "error"} THEN "loop"
                    ELSE IF Now.unlocks THEN "wants lock" ELSE main.at,
             !.pc = IF way = "on" THEN main.pc + 1 ELSE main.pc,
             !.left = CASE way \in {"end", "error"} -> 0 [] way = "chunk" -> main.left - 1
                        [] OTHER -> main.left,
             !.did = IF answered THEN main.did \cup {Now.call} ELSE main.did,
             !.ret = CASE way = "end" -> "success" [] way = "error" -> "error"
                       [] OTHER -> main.ret]
      /\ opened' = CASE way \in {"end", "error"} /\ main.op = "release" -> opened - 1
                     [] way = "end" /\ main.op \in Opens -> opened + 1
                     [] OTHER -> opened
  BY DEF Advances, way
<1>7. MainShape' /\ UNCHANGED <<main.op, main.from, main.to>>
  BY <1>1, <1>6 DEF MainShape
<1>8. main'.at = IF Ending(way) THEN "loop"
                 ELSE IF Now.unlocks THEN "wants lock" ELSE "calling"
  BY <1>1, <1>6 DEF MainShape, Ending
<1>9. main'.pc = Then(main.pc, way) /\ main'.pc \in DOMAIN sf_ops[main.op]
  BY <1>1, <1>5, <1>6 DEF MainShape, Then
<1>10. main'.left \in 0..MaxChunks
  <2>1. main'.left = CASE way \in {"end", "error"} -> 0 [] way = "chunk" -> main.left - 1
                        [] OTHER -> main.left
    BY <1>1, <1>6 DEF MainShape
  <2> QED
    BY <1>1, <1>4, <2>1, BoundsAssumption
<1>11. main'.did = IF answered THEN main.did \cup {Now.call} ELSE main.did
  BY <1>1, <1>6 DEF MainShape
<1>12. main'.ret = IF way = "end" THEN "success"
                   ELSE IF way = "error" THEN "error" ELSE main.ret
  BY <1>1, <1>6 DEF MainShape
<1>13. opened' = opened + FileThen(main.op, way)
  BY <1>1, <1>6, BoundsAssumption DEF FileThen, Ending, Opens
<1> QED
  BY <1>3, <1>7, <1>8, <1>9, <1>10, <1>11, <1>12, <1>13 DEF way

\* What the device does with its handles and files for a call that succeeds.
LEMMA DeviceExecutes ==
    ASSUME FsInv, main.at = "calling", Executes
    PROVE  /\ handles' = handles + Adds(Now.call)
           /\ Adds(Now.call) = -1 => handles > 0
           /\ files' \in [Files -> Files \cup {None, "new"}]
<1>1. /\ main.from \in Files /\ main.to \in Files
      /\ files \in [Files -> Files \cup {None, "new"}] /\ handles \in Nat
  <2>1. handles \in 0..(MaxOpen + 1) /\ files \in [Files -> Files \cup {None, "new"}]
    BY DEF FsInv, TypeOK
  <2>2. main.from \in Files /\ main.to \in Files
    BY DEF FsInv, RequestInv, Inside
  <2> QED
    BY <2>1, <2>2, BoundsAssumption
<1>2. CASE Now.call = "CeCreateFile"
  BY <1>1, <1>2 DEF Executes, Adds
<1>3. CASE Now.call = "CeCloseHandle"
  BY <1>1, <1>3 DEF Executes, Adds
<1>4. CASE Now.call = "CeDeleteFile"
  BY <1>1, <1>4 DEF Executes, Adds
<1>5. CASE Now.call = "CeMoveFile"
  BY <1>1, <1>5 DEF Executes, Adds
<1>6. CASE Now.call \notin {"CeCreateFile", "CeCloseHandle", "CeDeleteFile", "CeMoveFile"}
  BY <1>1, <1>6 DEF Executes, Adds
<1> QED
  BY <1>2, <1>3, <1>4, <1>5, <1>6

\* What a call leaves of the request and of what it showed.
LEMMA MovesFs ==
    ASSUME FsInv, main.at = "calling", NEW goes, NEW answered \in BOOLEAN,
           IF answered THEN goes \in Now.yes ELSE goes = Now.no,
           Moves(goes, answered)
    PROVE  /\ MainShape' /\ RequestInv' /\ AnswerInv' /\ SuccessIsTrue'
           /\ main'.at \in {"loop", "wants lock", "calling"}
           /\ main'.op \in DOMAIN sf_ops /\ main'.pc \in DOMAIN sf_ops[main'.op]
           /\ main'.left \in 0..MaxChunks /\ opened' \in 0..MaxOpen
           /\ lock' \in {"nobody", "main", "watchdog"}
           /\ Way(goes) \in Ways(main.op, main.pc, goes)
           /\ opened' = opened + FileThen(main.op, Way(goes))
           /\ (IF Inside THEN Own(main.op, main.pc) ELSE 0)'
              = OwnThen(main.op, main.pc, Way(goes))
<1>1. /\ main.op \in DOMAIN sf_ops /\ main.pc \in DOMAIN sf_ops[main.op]
      /\ opened \in 0..MaxOpen /\ lock \in {"nobody", "main", "watchdog"}
  BY DEF FsInv, TypeOK
<1>2. StepFits(main.op, main.pc)
  BY <1>1, Operations
<1>3. /\ main.from \in Files /\ main.to \in Files
      /\ main.op \in OnHandle => opened > 0
      /\ main.op \in Opens => opened < MaxOpen
  BY DEF FsInv, RequestInv, Inside
<1> DEFINE way == Way(goes)
<1>4. goes \in Now.yes \cup {Now.no} /\ Advances(way, answered)
  BY DEF Moves
<1>5. /\ way \in Ways(main.op, main.pc, goes)
      /\ MainShape' /\ UNCHANGED <<main.op, main.from, main.to>>
      /\ main'.at = IF Ending(way) THEN "loop"
                    ELSE IF Now.unlocks THEN "wants lock" ELSE "calling"
      /\ main'.pc = Then(main.pc, way) /\ main'.pc \in DOMAIN sf_ops[main.op]
      /\ main'.left \in 0..MaxChunks
      /\ main'.did = IF answered THEN main.did \cup {Now.call} ELSE main.did
      /\ main'.ret = IF way = "end" THEN "success"
                     ELSE IF way = "error" THEN "error" ELSE main.ret
      /\ opened' = opened + FileThen(main.op, way)
  BY <1>4, StepGoes
<1>6. lock' \in {"nobody", "main", "watchdog"}
  BY <1>1 DEF Moves
<1> HIDE DEF way
<1>7. Inside' <=> ~Ending(way)
  BY <1>5 DEF Inside
<1>8. opened' \in 0..MaxOpen /\ (~Ending(way) => opened' = opened)
  <2>1. FileThen(main.op, way) \in {-1, 0, 1}
        /\ (FileThen(main.op, way) = -1 => main.op \in OnHandle)
        /\ (FileThen(main.op, way) = 1 => main.op \in Opens)
        /\ (~Ending(way) => FileThen(main.op, way) = 0)
    BY DEF FileThen, OnHandle, Ending
  <2>2. opened' = opened + FileThen(main.op, way)
    BY <1>5
  <2>3. /\ opened \in 0..MaxOpen /\ MaxOpen \in Nat
        /\ FileThen(main.op, way) = -1 => opened > 0
        /\ FileThen(main.op, way) = 1 => opened < MaxOpen
    BY <1>1, <1>3, <2>1, BoundsAssumption
  <2> QED
    BY <2>1, <2>2, <2>3
<1>9. RequestInv'
  BY <1>3, <1>5, <1>7, <1>8 DEF RequestInv
<1>10. Shown(main.op, main.pc) => main.did \cap Asked(main.op) # {}
  BY DEF FsInv, AnswerInv, Inside
<1>11. /\ way = "end" => \/ main.op \in Careless \/ Shown(main.op, main.pc)
                         \/ answered /\ Now.call \in Asked(main.op)
       /\ ~Ending(way) /\ Shown(main.op, Then(main.pc, way)) =>
             Shown(main.op, main.pc) \/ (answered /\ Now.call \in Asked(main.op))
  BY <1>2, <1>5 DEF StepFits, Now
<1>12. AnswerInv'
  BY <1>5, <1>7, <1>10, <1>11 DEF AnswerInv
<1>13. SuccessIsTrue'
  <2>1. CASE way = "end"
    BY <1>5, <1>10, <1>11, <2>1 DEF SuccessIsTrue
  <2>2. CASE way # "end"
    BY <1>5, <2>2 DEF SuccessIsTrue, Ending
  <2> QED
    BY <2>1, <2>2
<1>14. (IF Inside THEN Own(main.op, main.pc) ELSE 0)' = OwnThen(main.op, main.pc, way)
  BY <1>5, <1>7 DEF OwnThen
<1>15. main'.at \in {"loop", "wants lock", "calling"}
  BY <1>5
<1> QED
  BY <1>1, <1>5, <1>6, <1>8, <1>9, <1>12, <1>13, <1>14, <1>15 DEF way

\* A call keeps the books, whether it is answered or not.
LEMMA CallKeepsFs ==
    ASSUME FsInv, CallSucceeds \/ CallFails \/ CallIsLost PROVE FsInv'
<1>1. /\ main.at = "calling" /\ UNCHANGED <<watchdog, alarm, term, session, full>>
  BY DEF CallSucceeds, CallFails, CallIsLost, device
<1>2. /\ main.op \in DOMAIN sf_ops /\ main.pc \in DOMAIN sf_ops[main.op]
      /\ handles \in 0..(MaxOpen + 1) /\ opened \in 0..MaxOpen
      /\ files \in [Files -> Files \cup {None, "new"}]
      /\ watchdog \in {"sleeping", "probing", "giving up", "ended"}
      /\ alarm \in BOOLEAN /\ term \in BOOLEAN /\ full \in BOOLEAN
      /\ session \in {"null", "open", "closed", "freed"}
      /\ link \in {"up", "silent", "stalled"}
  BY DEF FsInv, TypeOK
<1>3. StepFits(main.op, main.pc)
  BY <1>2, Operations
<1>4. link = "up" => handles = opened + Own(main.op, main.pc)
  BY <1>1 DEF FsInv, HandleInv, Inside
<1>5. PICK answered \in BOOLEAN, goes \in Now.yes \cup {Now.no} :
         /\ IF answered THEN goes \in Now.yes ELSE goes = Now.no
         /\ Moves(goes, answered)
         /\ \/ answered /\ CallSucceeds
            \/ ~answered /\ (CallFails \/ CallIsLost)
  <2>1. CASE CallSucceeds
    <3>1. PICK goes \in Now.yes : Moves(goes, TRUE)
      BY <2>1 DEF CallSucceeds
    <3> WITNESS TRUE \in BOOLEAN, goes \in Now.yes \cup {Now.no}
    <3> QED
      BY <2>1, <3>1, Zenon
  <2>2. CASE CallFails \/ CallIsLost
    <3>1. Moves(Now.no, FALSE)
      BY <2>2 DEF CallFails, CallIsLost
    <3> WITNESS FALSE \in BOOLEAN, Now.no \in Now.yes \cup {Now.no}
    <3> QED
      BY <2>2, <3>1, Zenon
  <2> QED
    BY <2>1, <2>2
<1> DEFINE way == Way(goes)
           own == Own(main.op, main.pc)
           own2 == OwnThen(main.op, main.pc, way)
           file == FileThen(main.op, way)
           adds == Adds(Now.call)
<1>6. /\ MainShape' /\ RequestInv' /\ AnswerInv' /\ SuccessIsTrue'
      /\ main'.at \in {"loop", "wants lock", "calling"}
      /\ main'.op \in DOMAIN sf_ops /\ main'.pc \in DOMAIN sf_ops[main'.op]
      /\ main'.left \in 0..MaxChunks /\ opened' \in 0..MaxOpen
      /\ lock' \in {"nobody", "main", "watchdog"}
      /\ way \in Ways(main.op, main.pc, goes)
      /\ opened' = opened + file
      /\ (IF Inside THEN Own(main.op, main.pc) ELSE 0)' = own2
  BY <1>1, <1>5, MovesFs
<1>7. /\ own \in {0, 1} /\ own2 \in {0, 1} /\ file \in {-1, 0, 1} /\ adds \in {-1, 0, 1}
      /\ own = 1 => adds # 1
      /\ answered => own + adds = own2 + file
      /\ ~answered /\ Now.call # "CeCloseHandle" => own = own2 + file
  <2>1. own \in {0, 1} /\ own2 \in {0, 1} /\ file \in {-1, 0, 1} /\ adds \in {-1, 0, 1}
    BY DEF Own, OwnThen, FileThen, Adds
  <2> HIDE DEF way
  <2>2. /\ own = 1 => adds # 1
        /\ answered => own + adds = own2 + file
        /\ ~answered /\ Now.call # "CeCloseHandle" => own = own2 + file
    BY <1>3, <1>5, <1>6 DEF StepFits, Now
  <2> QED
    BY <2>1, <2>2
<1> HIDE DEF way, own, own2, file, adds
<1>8. /\ MaxOpen \in Nat /\ opened \in Int /\ opened' \in Int /\ handles \in Int
      /\ 0 <= opened /\ opened <= MaxOpen /\ 0 <= opened' /\ opened' <= MaxOpen
      /\ 0 <= handles /\ handles <= MaxOpen + 1 /\ opened' = opened + file
  <2>1. opened \in 0..MaxOpen /\ handles \in 0..(MaxOpen + 1)
    BY <1>2
  <2>2. opened' \in 0..MaxOpen
    BY <1>6
  <2>3. opened' = opened + file
    BY <1>6
  <2> QED
    BY <2>1, <2>2, <2>3, BoundsAssumption
<1>9. /\ link' \in {"up", "silent", "stalled"}
      /\ handles' \in 0..(MaxOpen + 1)
      /\ files' \in [Files -> Files \cup {None, "new"}]
      /\ link' = "up" => handles' = opened' + own2
  <2>1. CASE answered
    <3>1. link = "up" /\ link' = "up" /\ Executes
      BY <1>5, <2>1 DEF CallSucceeds
    <3>2. handles' = handles + adds /\ files' \in [Files -> Files \cup {None, "new"}]
      BY <1>1, <3>1, DeviceExecutes DEF adds
    <3>3. handles = opened + own
      BY <1>4, <3>1 DEF own
    <3>4. handles' = opened' + own2
      <4>1. own + adds = own2 + file
        BY <1>7, <2>1
      <4> QED
        BY <1>8, <1>7, <3>2, <3>3, <4>1
    <3>5. handles' \in 0..(MaxOpen + 1)
      BY <1>8, <1>7, <3>4
    <3> QED
      BY <3>1, <3>2, <3>4, <3>5
  <2>2. CASE ~answered /\ CallFails
    <3>1. link = "up" /\ UNCHANGED <<link, handles, files>> /\ Now.call # "CeCloseHandle"
      BY <2>2 DEF CallFails, device
    <3>2. handles = opened + own
      BY <1>4, <3>1 DEF own
    <3>3. own = own2 + file
      BY <1>7, <2>2, <3>1
    <3>4. handles' = opened' + own2
      BY <1>8, <1>7, <3>1, <3>2, <3>3
    <3> QED
      BY <1>2, <3>1, <3>4
  <2>3. CASE ~answered /\ CallIsLost
    <3>1. link' = "silent" /\ ((link = "up" /\ Executes) \/ UNCHANGED <<files, handles>>)
      BY <2>3 DEF CallIsLost
    <3>2. CASE link = "up" /\ Executes
      <4>1. /\ handles' = handles + adds /\ files' \in [Files -> Files \cup {None, "new"}]
            /\ adds = -1 => handles > 0
        BY <1>1, <3>2, DeviceExecutes DEF adds
      <4>2. handles = opened + own
        BY <1>4, <3>2 DEF own
      <4>3. handles' \in 0..(MaxOpen + 1)
        BY <1>8, <1>7, <4>1, <4>2
      <4> QED
        BY <3>1, <4>1, <4>3
    <3> QED
      BY <1>2, <3>1, <3>2
  <2> QED
    BY <1>5, <2>1, <2>2, <2>3
<1>10. HandleInv'
  BY <1>6, <1>9 DEF HandleInv
<1>11. TypeOK'
  BY <1>1, <1>2, <1>6, <1>9 DEF TypeOK
<1> QED
  BY <1>6, <1>10, <1>11 DEF FsInv

\* What FsInv says of the request, of the handles, and of the rest.
MainType ==
    /\ main.at \in {"connecting", "loop", "wants lock", "calling", "uninit",
                    "release", "forget", "exit"}
    /\ main.op \in DOMAIN sf_ops /\ main.pc \in DOMAIN sf_ops[main.op]
    /\ main.left \in 0..MaxChunks
MainInv == MainShape /\ MainType /\ AnswerInv /\ SuccessIsTrue
StoreInv ==
    /\ files \in [Files -> Files \cup {None, "new"}]
    /\ opened \in 0..MaxOpen /\ handles \in 0..(MaxOpen + 1)
ThreadInv ==
    /\ watchdog \in {"sleeping", "probing", "giving up", "ended"}
    /\ lock \in {"nobody", "main", "watchdog"}
    /\ session \in {"null", "open", "closed", "freed"}
    /\ link \in {"up", "silent", "stalled"}
FlagInv == alarm \in BOOLEAN /\ term \in BOOLEAN /\ full \in BOOLEAN
LEMMA FsInvParts ==
    FsInv <=> MainInv /\ StoreInv /\ ThreadInv /\ FlagInv /\ RequestInv /\ HandleInv
BY DEF FsInv, TypeOK, MainInv, MainType, StoreInv, ThreadInv, FlagInv

\* The first step of an operation is one of its steps, with nothing open and
\* nothing shown.
LEMMA FirstStep ==
    \A op \in DOMAIN sf_ops :
        1 \in DOMAIN sf_ops[op] /\ Own(op, 1) = 0 /\ ~Shown(op, 1)
<1> SUFFICES ASSUME NEW op \in DOMAIN sf_ops
             PROVE  1 \in DOMAIN sf_ops[op] /\ Own(op, 1) = 0 /\ ~Shown(op, 1)
  OBVIOUS
<1>1. Len(sf_ops[op]) \in 1..5 /\ DOMAIN sf_ops[op] = 1..Len(sf_ops[op])
  BY Operations
<1>2. 1 \in DOMAIN sf_ops[op]
  <2> DEFINE n == Len(sf_ops[op])
  <2>1. n \in 1..5 /\ DOMAIN sf_ops[op] = 1..n
    BY <1>1
  <2> HIDE DEF n
  <2>2. 1 \in 1..n
    BY <2>1
  <2> QED
    BY <2>1, <2>2
<1>3. Own(op, 1) = 0 /\ ~Shown(op, 1)
  BY DEF Own, Shown
<1> QED
  BY <1>2, <1>3

\* A step that leaves the request and the store alone.
LEMMA QuietFs ==
    ASSUME FsInv, UNCHANGED <<main, files, handles, opened>>,
           link' = "up" => link = "up", ThreadInv', FlagInv'
    PROVE  FsInv'
<1>1. MainInv /\ StoreInv /\ RequestInv /\ HandleInv
  BY FsInvParts
<1>2. MainInv'
  BY <1>1 DEF MainInv, MainShape, MainType, AnswerInv, SuccessIsTrue, Inside
<1>3. StoreInv'
  BY <1>1 DEF StoreInv
<1>4. RequestInv' /\ HandleInv'
  BY <1>1 DEF RequestInv, HandleInv, Inside
<1>5. (MainInv /\ StoreInv /\ ThreadInv /\ FlagInv /\ RequestInv /\ HandleInv)'
  BY <1>2, <1>3, <1>4
<1> QED
  BY <1>5, FsInvParts, PTL

\* A step that only moves the main thread, from and to where no request is under
\* way.
LEMMA IdleFs ==
    ASSUME FsInv, ~Inside, MainShape', MainType', ~Inside', ThreadInv',
           UNCHANGED <<alarm, term, full, link, files, handles, opened>>,
           main.at # "loop" => main'.at \in {"uninit", "release", "forget", "exit"} \/ main'.ret = "none",
           main'.at = "loop" => main'.ret = "none",
           main'.at # "connecting"
    PROVE  FsInv'
<1>1. MainInv /\ StoreInv /\ FlagInv /\ RequestInv /\ HandleInv
  BY FsInvParts
<1>2. MainInv'
  BY DEF MainInv, AnswerInv, SuccessIsTrue
<1>3. StoreInv' /\ FlagInv'
  BY <1>1 DEF StoreInv, FlagInv
<1>4. RequestInv' /\ HandleInv'
  BY <1>1 DEF RequestInv, HandleInv
<1>5. (MainInv /\ StoreInv /\ ThreadInv /\ FlagInv /\ RequestInv /\ HandleInv)'
  BY <1>2, <1>3, <1>4
<1> QED
  BY <1>5, FsInvParts, PTL

\* Every other step leaves them alone.
LEMMA NextFs == FsInv /\ [Next]_vars => FsInv'
<1> SUFFICES ASSUME FsInv, [Next]_vars PROVE FsInv'
  OBVIOUS
<1>1. MainInv /\ StoreInv /\ ThreadInv /\ FlagInv /\ RequestInv /\ HandleInv
  BY FsInvParts
<1>2. CASE Connect
  <2>1. ~Inside /\ main.ret = "none"
    BY <1>2, <1>1 DEF Connect, Inside, MainInv, AnswerInv
  <2>2. MainShape' /\ MainType' /\ ~Inside' /\ main'.ret = "none"
        /\ main'.at \in {"loop", "exit"}
    BY <1>2, <1>1, <2>1 DEF Connect, Inside, MainInv, MainShape, MainType
  <2>3. ThreadInv' /\ UNCHANGED <<alarm, term, full, link, files, handles, opened>>
    BY <1>2, <1>1 DEF Connect, ThreadInv, device
  <2> QED
    BY <2>1, <2>2, <2>3, IdleFs
<1>3. CASE LeaveLoop
  <2>1. "getattr" \in DOMAIN sf_ops /\ 0 \in 0..MaxChunks
    BY BoundsAssumption DEF sf_ops
  <2>2. 1 \in DOMAIN sf_ops["getattr"]
    BY <2>1, FirstStep
  <2>3. ~Inside /\ MainShape' /\ main'.at = "uninit" /\ main'.op = "getattr" /\ main'.pc = 1
        /\ main'.left = 0
    BY <1>3 DEF LeaveLoop, NoRequest, MainShape, Inside
  <2>4. MainType' /\ ~Inside'
    BY <2>1, <2>2, <2>3 DEF MainType, Inside
  <2>5. ThreadInv' /\ UNCHANGED <<alarm, term, full, link, files, handles, opened>>
    BY <1>3, <1>1 DEF LeaveLoop, ThreadInv, device
  <2> QED
    BY <2>3, <2>4, <2>5, IdleFs
<1>4. CASE rapi_disconnect
  <2>1. ~Inside /\ ~Inside' /\ MainShape' /\ MainType'
        /\ main'.at \in {"release", "forget", "exit"}
    BY <1>4, <1>1 DEF rapi_disconnect, Disconnects, Inside, MainInv, MainShape, MainType
  <2>2. ThreadInv' /\ UNCHANGED <<alarm, term, full, link, files, handles, opened>>
    BY <1>4, <1>1 DEF rapi_disconnect, Disconnects, ThreadInv, device
  <2> QED
    BY <2>1, <2>2, IdleFs
<1>5. ASSUME NEW op \in DOMAIN sf_ops, NEW from \in Files, NEW to \in Files,
             NEW left \in IF op \in {"read", "write"} THEN 1..MaxChunks ELSE {0},
             Request(op, from, to, left)
      PROVE  FsInv'
  <2>1. 1 \in DOMAIN sf_ops[op] /\ left \in 0..MaxChunks
    BY FirstStep, BoundsAssumption
  <2>2. Own(op, 1) = 0 /\ ~Shown(op, 1)
    BY FirstStep
  <2>3. /\ main'.at = "wants lock" /\ main'.op = op /\ main'.pc = 1 /\ main'.left = left
        /\ main'.from = from /\ main'.to = to /\ MainShape'
        /\ main.at = "loop" /\ (op \in OnHandle => opened > 0)
        /\ (op \in Opens => opened < MaxOpen)
    BY <1>5 DEF Request, MainShape
  <2>4. UNCHANGED <<watchdog, lock, alarm, term, session, link, full, files, handles, opened>>
    BY <1>5 DEF Request, device
  <2>5. MainInv'
    <3>1. MainType'
      BY <2>1, <2>3 DEF MainType
    <3>2. AnswerInv' /\ SuccessIsTrue'
      BY <2>2, <2>3 DEF AnswerInv, SuccessIsTrue
    <3> QED
      BY <2>3, <3>1, <3>2 DEF MainInv
  <2>6. RequestInv'
    BY <2>3, <2>4 DEF RequestInv
  <2>7. HandleInv'
    <3>1. Inside' /\ ~Inside
      BY <2>3 DEF Inside
    <3>2. link = "up" => handles = opened + 0
      BY <1>1, <3>1 DEF HandleInv
    <3> QED
      BY <2>2, <2>3, <2>4, <3>1, <3>2 DEF HandleInv
  <2>8. StoreInv' /\ ThreadInv' /\ FlagInv'
    BY <1>1, <2>4 DEF StoreInv, ThreadInv, FlagInv
  <2>9. (MainInv /\ StoreInv /\ ThreadInv /\ FlagInv /\ RequestInv /\ HandleInv)'
    BY <2>5, <2>6, <2>7, <2>8
  <2> QED
    BY <2>9, FsInvParts, PTL
<1>6. CASE TakeLock
  <2>1. /\ Inside /\ Inside' /\ main'.at = "calling" /\ MainShape'
        /\ main'.op = main.op /\ main'.pc = main.pc /\ main'.left = main.left
        /\ main'.from = main.from /\ main'.to = main.to /\ main'.did = main.did
    BY <1>6, <1>1 DEF TakeLock, Inside, MainInv, MainShape
  <2>2. /\ UNCHANGED <<watchdog, alarm, term, session, link, full, files, handles, opened>>
        /\ lock' = "main"
    BY <1>6 DEF TakeLock, device
  <2>3. MainInv' /\ RequestInv' /\ HandleInv'
    <3>1. MainType'
      BY <1>1, <2>1 DEF MainInv, MainType
    <3>2. AnswerInv' /\ SuccessIsTrue'
      BY <1>1, <2>1 DEF MainInv, AnswerInv, SuccessIsTrue
    <3>3. RequestInv' /\ HandleInv'
      BY <1>1, <2>1, <2>2 DEF RequestInv, HandleInv
    <3> QED
      BY <2>1, <3>1, <3>2, <3>3 DEF MainInv
  <2>4. StoreInv' /\ ThreadInv' /\ FlagInv'
    BY <1>1, <2>2 DEF StoreInv, ThreadInv, FlagInv
  <2>5. (MainInv /\ StoreInv /\ ThreadInv /\ FlagInv /\ RequestInv /\ HandleInv)'
    BY <2>3, <2>4
  <2> QED
    BY <2>5, FsInvParts, PTL
<1>7. CASE CallSucceeds \/ CallFails \/ CallIsLost
  BY <1>7, CallKeepsFs
<1>8. ASSUME UNCHANGED <<main, files, handles, opened>>, link' = "up" => link = "up",
             ThreadInv', FlagInv'
      PROVE  FsInv'
  BY <1>8, QuietFs
<1>9. CASE Unmount
  <2>1. ThreadInv' /\ UNCHANGED <<main, link, files, handles, opened>>
    BY <1>9, <1>1 DEF Unmount, device, ThreadInv
  <2>2. FlagInv'
    BY <1>9, <1>1, Zenon DEF Unmount, device, FlagInv
  <2> QED
    BY <1>8, <2>1, <2>2
<1>10. CASE Probe
  <2>1. ThreadInv' /\ UNCHANGED <<main, link, files, handles, opened>>
    BY <1>10, <1>1 DEF Probe, device, ThreadInv
  <2>2. FlagInv'
    BY <1>10, <1>1, Zenon DEF Probe, device, FlagInv
  <2> QED
    BY <1>8, <2>1, <2>2
<1>11. ASSUME NEW ok \in BOOLEAN, ProbeEnds(ok) PROVE FsInv'
  <2>1. ThreadInv' /\ UNCHANGED <<main, files, handles, opened>>
        /\ (link' = "up" => link = "up")
    BY <1>11, <1>1 DEF ProbeEnds, ProbeReturns, ThreadInv
  <2>2. FlagInv'
    BY <1>11, <1>1, Zenon DEF ProbeEnds, ProbeReturns, FlagInv
  <2> QED
    BY <1>8, <2>1, <2>2
<1>12. CASE GiveUp \/ AlarmRings
  <2>1. ThreadInv' /\ UNCHANGED <<main, link, files, handles, opened>>
    BY <1>12, <1>1 DEF GiveUp, AlarmRings, device, ThreadInv
  <2>2. FlagInv'
    BY <1>12, <1>1, Zenon DEF GiveUp, AlarmRings, device, FlagInv
  <2> QED
    BY <1>8, <2>1, <2>2
<1>13. CASE Device
  <2>1. ThreadInv' /\ UNCHANGED <<main, files, handles, opened>>
        /\ (link' = "up" => link = "up")
    BY <1>13, <1>1 DEF Device, LinkFalls, LinkStalls, StoreFills, ThreadInv
  <2>2. FlagInv'
    BY <1>13, <1>1, Zenon DEF Device, LinkFalls, LinkStalls, StoreFills, FlagInv
  <2> QED
    BY <1>8, <2>1, <2>2
<1>14. CASE UNCHANGED vars
  <2>1. ThreadInv' /\ UNCHANGED <<main, link, files, handles, opened>>
    BY <1>14, <1>1 DEF vars, ThreadInv
  <2>2. FlagInv'
    BY <1>14, <1>1, Zenon DEF vars, FlagInv
  <2> QED
    BY <1>8, <2>1, <2>2
<1> QED
  BY <1>2, <1>3, <1>4, <1>5, <1>6, <1>7, <1>9, <1>10, <1>11, <1>12, <1>13, <1>14
     DEF Next, SomeRequest

LEMMA FsInvariance == Spec => []FsInv
  BY InitFs, NextFs, PTL DEF Spec

\* TypeOK: every variable stays in its type, so the position in an operation never
\* passes its end and the handle count never its bound.
THEOREM FsTypeCorrect == Spec => []TypeOK
<1>1. FsInv => TypeOK
  BY DEF FsInv
<1> QED
  BY <1>1, FsInvariance, PTL

\* SuccessIsTrue: an operation that looks at its answers reports success only after
\* the device answered that it did what was asked.
THEOREM SuccessIsReal == Spec => []SuccessIsTrue
<1>1. FsInv => SuccessIsTrue
  BY DEF FsInv
<1> QED
  BY <1>1, FsInvariance, PTL

\* HandlesAreFiles: over a connection that never failed, no operation leaves a
\* handle open on the device but that of a file the kernel has open.
THEOREM HandlesBalance == Spec => []HandlesAreFiles
<1>1. FsInv => HandlesAreFiles
  <2> SUFFICES ASSUME FsInv, link = "up", main.at = "loop" PROVE handles = opened
    BY DEF HandlesAreFiles
  <2>1. handles = opened + 0
    BY DEF FsInv, HandleInv, Inside
  <2>2. opened \in Int
    BY BoundsAssumption, FsInvParts DEF StoreInv
  <2> QED
    BY <2>1, <2>2
<1> QED
  BY <1>1, FsInvariance, PTL

=============================================================================
