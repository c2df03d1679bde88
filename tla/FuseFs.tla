------------------------------- MODULE FuseFs -------------------------------
(***************************************************************************)
(* synce-fuse: a device mounted as a file system.  The main thread serves  *)
(* one request of the kernel at a time with remote calls on the session;   *)
(* the watchdog thread probes the device and ends the mount when it does   *)
(* not answer.  g_lock is what keeps the two from calling at once.  Only   *)
(* what calls do to names, handles and the order of steps is kept; a call  *)
(* is answered or not as RapiContext says.                                 *)
(***************************************************************************)
EXTENDS Naturals, Sequences, FiniteSets

CONSTANTS
    Files,     \* names on the device
    None,      \* no file
    Careless,  \* operations that do not look at what the device answers
    MaxOpen,   \* bound: files open at once
    MaxChunks  \* bound: chunks of 4 KB in a read or a write

ASSUME NoneAssumption == None \notin Files
ASSUME BoundsAssumption == MaxOpen \in Nat /\ MaxChunks \in Nat
ASSUME CarelessAssumption ==
    {"release", "truncate", "ftruncate", "utimens"} \subseteq Careless

VARIABLES
    main,      \* the thread that serves the kernel: where it is, and its request
    watchdog,  \* the other thread: "sleeping", "probing", "giving up" or "ended"
    lock,      \* g_lock
    alarm,     \* the alarm is set
    term,      \* SIGTERM came: fuse_main returns when it sees it
    session,   \* g_session: "null", "open", "closed" or "freed"
    link,      \* to the device: "up", "silent", or "stalled" within a message
    full,      \* the device writes nothing and says that all is well
    files,     \* what each name holds
    handles,   \* file handles open on the device
    opened     \* files the kernel has open

vars == <<main, watchdog, lock, alarm, term, session, link, full, files, handles,
          opened>>
device == <<link, full, files, handles>>

-----------------------------------------------------------------------------
(* The operations, as the remote calls they make.  A step says where the   *)
(* operation goes when the call fails (no) and when it succeeds (one of    *)
(* yes): on, to its end or error, to the next chunk, or to the same chunk  *)
(* again; and whether the lock is given back in between.                   *)
Step(f, no, yes) == [call |-> f, no |-> no, yes |-> yes, unlocks |-> FALSE]
Must(f) == Step(f, "error", {"on"})
Try(f) == Step(f, "on", {"on"})
Unlocks(step) == [step EXCEPT !.unlocks = TRUE]

sf_getattr == <<Step("CeGetFileAttributes", "error", {"end", "on"}),
                Step("CeCreateFile", "end", {"on"}), Try("CeGetFileSize"),
                Try("CeGetFileTime"), Try("CeCloseHandle")>>
sf_readdir == <<Must("CeFindAllFiles")>>
sf_statfs == <<Unlocks(Step("CeGetDiskFreeSpaceEx", "on", {"end"})),
               Must("CeGetStoreInformation")>>
sf_open == <<Must("CeCreateFile")>>
sf_read == <<Must("CeSetFilePointer"),
             Step("CeReadFile", "error", {"chunk", "end"})>>
sf_write == <<Must("CeSetFilePointer"),
              Step("CeWriteFile", "error", {"chunk", "again"})>>
sf_release == <<Try("CeCloseHandle")>>
sf_create == <<Must("CeCreateFile")>>
sf_mkdir == <<Must("CeCreateDirectory")>>
sf_unlink == <<Must("CeDeleteFile")>>
sf_rmdir == <<Must("CeRemoveDirectory")>>
\* (Mutants: the destination is deleted after the move; the answer to the move
\* does not count.)
sf_renameDeletesLast == <<Must("CeMoveFile"), Try("CeDeleteFile")>>
sf_renameCareless == <<Try("CeDeleteFile"), Try("CeMoveFile")>>
sf_rename == <<Try("CeDeleteFile"), Must("CeMoveFile")>>
\* With the handle of an open file, and without.
sf_ftruncate == <<Try("CeSetFilePointer"), Try("CeSetEndOfFile")>>
sf_truncate == <<Unlocks(Must("CeCreateFile")), Try("CeSetFilePointer"),
                 Unlocks(Try("CeSetEndOfFile")), Try("CeCloseHandle")>>
\* (Mutant: the handle is not closed.)
sf_utimensLeaks == <<Unlocks(Must("CeCreateFile")), Try("CeSetFileTime")>>
sf_utimens == <<Unlocks(Must("CeCreateFile")), Try("CeSetFileTime"),
                Try("CeCloseHandle")>>

sf_ops ==
    [getattr |-> sf_getattr, readdir |-> sf_readdir, statfs |-> sf_statfs,
     open |-> sf_open, read |-> sf_read, write |-> sf_write,
     release |-> sf_release, create |-> sf_create, mkdir |-> sf_mkdir,
     unlink |-> sf_unlink, rmdir |-> sf_rmdir, rename |-> sf_rename,
     ftruncate |-> sf_ftruncate, truncate |-> sf_truncate, utimens |-> sf_utimens]

\* What the caller of an operation asked for: one of these calls.
Asked(op) ==
    CASE op = "getattr" -> {"CeGetFileAttributes"}
      [] op = "readdir" -> {"CeFindAllFiles"}
      [] op = "statfs" -> {"CeGetDiskFreeSpaceEx", "CeGetStoreInformation"}
      [] op \in {"open", "create"} -> {"CeCreateFile"}
      [] op = "read" -> {"CeReadFile"}
      [] op = "write" -> {"CeWriteFile"}
      [] op = "release" -> {"CeCloseHandle"}
      [] op = "mkdir" -> {"CeCreateDirectory"}
      [] op = "unlink" -> {"CeDeleteFile"}
      [] op = "rmdir" -> {"CeRemoveDirectory"}
      [] op = "rename" -> {"CeMoveFile"}
      [] op \in {"truncate", "ftruncate"} -> {"CeSetEndOfFile"}
      [] op = "utimens" -> {"CeSetFileTime"}

OnHandle == {"read", "write", "release", "ftruncate"}
Opens == {"open", "create"}

NoRequest == [at |-> "connecting", op |-> "getattr", pc |-> 1, left |-> 0, from |-> None,
              to |-> None, source |-> None, did |-> {}, ret |-> "none"]
Now == sf_ops[main.op][main.pc]
Holds(f) == IF f = None THEN None ELSE files[f]
InCall(t) == IF t = "main" THEN main.at = "calling" ELSE watchdog = "probing"

TypeOK ==
    /\ main.at \in {"connecting", "loop", "wants lock", "calling", "uninit",
                    "release", "forget", "exit"}
    /\ main.op \in DOMAIN sf_ops /\ main.pc \in DOMAIN sf_ops[main.op]
    /\ main.left \in 0..MaxChunks
    /\ watchdog \in {"sleeping", "probing", "giving up", "ended"}
    /\ lock \in {"nobody", "main", "watchdog"}
    /\ alarm \in BOOLEAN /\ term \in BOOLEAN /\ full \in BOOLEAN
    /\ session \in {"null", "open", "closed", "freed"}
    /\ link \in {"up", "silent", "stalled"}
    /\ files \in [Files -> Files \cup {None, "new"}]
    /\ opened \in 0..MaxOpen /\ handles \in 0..(MaxOpen + 1)

Init ==
    /\ main = NoRequest
    /\ watchdog = "ended" /\ lock = "nobody" /\ alarm = FALSE /\ term = FALSE
    /\ session = "null" /\ link = "up" /\ full = FALSE
    /\ files \in {h \in [Files -> Files \cup {None}] :
                     \A f \in Files : h[f] \in {f, None}}
    /\ handles = 0 /\ opened = 0

-----------------------------------------------------------------------------
(* The process starts and ends.                                            *)

\* rapi_connect: a session on the device asked for, or the program ends.
Connect ==
    /\ main.at = "connecting"
    /\ \/ /\ link = "up" /\ session' = "open" /\ watchdog' = "sleeping"
          /\ main' = [main EXCEPT !.at = "loop"]
       \/ /\ main' = [main EXCEPT !.at = "exit"] /\ UNCHANGED <<session, watchdog>>
    /\ UNCHANGED <<lock, alarm, term, device, opened>>

\* The user unmounts, or the process is told to end.
Unmount ==
    /\ main.at \in {"loop", "wants lock", "calling"} /\ ~term /\ term' = TRUE
    /\ UNCHANGED <<main, watchdog, lock, alarm, session, device, opened>>

\* fuse_main returns between two requests.
LeaveLoop ==
    /\ main.at = "loop" /\ term
    /\ main' = [NoRequest EXCEPT !.at = "uninit"]
    /\ UNCHANGED <<watchdog, lock, alarm, term, session, device, opened>>

\* rapi_disconnect, which does not take the lock.
Disconnects(from, to, becomes) ==
    /\ main.at = from /\ main' = [main EXCEPT !.at = to] /\ session' = becomes
    /\ UNCHANGED <<watchdog, lock, alarm, term, device, opened>>
rapi_disconnect ==
    \/ Disconnects("uninit", "release", "closed")
    \/ Disconnects("release", "forget", "freed")
    \/ Disconnects("forget", "exit", "null")

-----------------------------------------------------------------------------
(* Requests of the kernel.  The two names of a rename may be one file of   *)
(* the device, which does not tell names apart that differ in case only.   *)
Request(op, from, to, left) ==
    /\ main.at = "loop" /\ ~term
    /\ op \in OnHandle => opened > 0
    /\ op \in Opens => opened < MaxOpen
    /\ op = "rename" => files[from] # None
    /\ main' = [at |-> "wants lock", op |-> op, pc |-> 1, left |-> left, from |-> from,
                to |-> to, source |-> files[from], did |-> {}, ret |-> "none"]
    /\ UNCHANGED <<watchdog, lock, alarm, term, session, device, opened>>

\* pthread_mutex_lock.
TakeLock ==
    /\ main.at = "wants lock" /\ lock = "nobody"
    /\ lock' = "main" /\ main' = [main EXCEPT !.at = "calling"]
    /\ UNCHANGED <<watchdog, alarm, term, session, device, opened>>

\* After a call, the operation is at its next call, at the same one with fewer
\* or as many bytes left, or has returned.
Way(goes) ==
    CASE goes = "on" /\ main.pc = Len(sf_ops[main.op]) -> "end"
      [] goes = "chunk" /\ main.left <= 1 -> "end"
      [] OTHER -> goes
Advances(way, answered) ==
    LET ended == way \in {"end", "error"}
    IN  /\ main' = [main EXCEPT
             !.at = IF ended THEN "loop" ELSE IF Now.unlocks THEN "wants lock" ELSE @,
             !.pc = IF way = "on" THEN @ + 1 ELSE @,
             !.left = CASE ended -> 0 [] way = "chunk" -> @ - 1 [] OTHER -> @,
             !.did = IF answered THEN @ \cup {Now.call} ELSE @,
             !.ret = CASE way = "end" -> "success" [] way = "error" -> "error"
                       [] OTHER -> @]
        /\ opened' = CASE ended /\ main.op = "release" -> opened - 1
                       [] way = "end" /\ main.op \in Opens -> opened + 1
                       [] OTHER -> opened
\* (Mutant: the lock is kept on the way out with an error.)
MovesKeepsLock(goes, answered) ==
    /\ Advances(Way(goes), answered)
    /\ lock' = IF Way(goes) = "end" THEN "nobody" ELSE lock
Moves(goes, answered) ==
    /\ Advances(Way(goes), answered)
    /\ lock' = IF Way(goes) \in {"end", "error"} \/ Now.unlocks THEN "nobody" ELSE lock

\* What a call that succeeds does on the device, and when it can.
Executes ==
    CASE Now.call = "CeCreateFile" ->
            /\ main.op \in Opens \/ files[main.from] # None
            /\ handles' = handles + 1
            /\ files' = [files EXCEPT ![main.from] =
                            IF main.op = "create" \/ (main.op = "open" /\ @ = None)
                            THEN "new" ELSE @]
      [] Now.call = "CeCloseHandle" ->
            handles > 0 /\ handles' = handles - 1 /\ UNCHANGED files
      [] Now.call = "CeDeleteFile" ->
            LET f == IF main.op = "rename" THEN main.to ELSE main.from
            IN  /\ files[f] # None /\ files' = [files EXCEPT ![f] = None]
                /\ UNCHANGED handles
      [] Now.call = "CeMoveFile" ->
            /\ files[main.from] # None /\ files[main.to] = None
            /\ files' = [files EXCEPT ![main.from] = None, ![main.to] = files[main.from]]
            /\ UNCHANGED handles
      [] OTHER -> UNCHANGED <<files, handles>>

\* The device answers that the call succeeded; that it failed, which it does not
\* say of a handle to close; or the connection fails, the call executed or not.
CallSucceeds ==
    /\ main.at = "calling" /\ link = "up" /\ Executes
    /\ \E goes \in Now.yes : /\ goes = "again" => full
                             /\ goes = "chunk" /\ main.op = "write" => ~full
                             /\ Moves(goes, TRUE)
    /\ UNCHANGED <<watchdog, alarm, term, session, link, full>>
CallFails ==
    /\ main.at = "calling" /\ link = "up" /\ Now.call # "CeCloseHandle"
    /\ Moves(Now.no, FALSE)
    /\ UNCHANGED <<watchdog, alarm, term, session, device>>
CallIsLost ==
    /\ main.at = "calling" /\ link # "stalled"
    /\ link' = "silent" /\ Moves(Now.no, FALSE)
    /\ (link = "up" /\ Executes) \/ UNCHANGED <<files, handles>>
    /\ UNCHANGED <<watchdog, alarm, term, session, full>>

-----------------------------------------------------------------------------
(* The watchdog.                                                           *)

\* It wakes and finds the lock free: pthread_mutex_trylock.  When the lock is
\* taken it sleeps again, which changes nothing.  (Mutant: it does not look at
\* the lock.)
ProbeAnyway ==
    /\ watchdog = "sleeping" /\ main.at # "exit" /\ session = "open"
    /\ lock' = "watchdog" /\ alarm' = TRUE /\ watchdog' = "probing"
    /\ UNCHANGED <<main, term, session, device, opened>>
Probe ==
    /\ watchdog = "sleeping" /\ main.at # "exit" /\ lock = "nobody"
    /\ IF session = "null"
       THEN watchdog' = "giving up" /\ UNCHANGED <<lock, alarm>>
       ELSE lock' = "watchdog" /\ alarm' = TRUE /\ watchdog' = "probing"
    /\ UNCHANGED <<main, term, session, device, opened>>

\* The probe is answered or not; without an answer the watchdog gives up.
\* (Mutant: a probe without an answer is tried again.)
ProbeReturns(ok) ==
    /\ watchdog = "probing" /\ main.at # "exit"
    /\ IF ok THEN link = "up" /\ UNCHANGED link ELSE link # "stalled" /\ link' = "silent"
    /\ lock' = "nobody"
    /\ UNCHANGED <<main, term, session, full, files, handles, opened>>
ProbeEndsPatient(ok) ==
    ProbeReturns(ok) /\ alarm' = FALSE /\ watchdog' = "sleeping"
ProbeEnds(ok) ==
    /\ ProbeReturns(ok) /\ alarm' = FALSE
    /\ watchdog' = IF ok THEN "sleeping" ELSE "giving up"

GiveUp ==
    /\ watchdog = "giving up" /\ main.at # "exit"
    /\ watchdog' = "ended" /\ term' = TRUE
    /\ UNCHANGED <<main, lock, alarm, session, device, opened>>

\* sigalrm_handler: the probe took longer than eight seconds.
AlarmRings ==
    /\ alarm /\ main.at # "exit"
    /\ alarm' = FALSE /\ term' = TRUE
    /\ UNCHANGED <<main, watchdog, lock, session, device, opened>>

-----------------------------------------------------------------------------
(* The device goes out of reach, or stops within a message; its store is   *)
(* full.                                                                   *)
LinkFalls == link = "up" /\ link' = "silent" /\ UNCHANGED <<full, files, handles>>
LinkStalls ==
    /\ link = "up" /\ (InCall("main") \/ InCall("watchdog"))
    /\ link' = "stalled" /\ UNCHANGED <<full, files, handles>>
StoreFills == ~full /\ full' = TRUE /\ UNCHANGED <<link, files, handles>>
Device ==
    /\ main.at # "exit" /\ (LinkFalls \/ LinkStalls \/ StoreFills)
    /\ UNCHANGED <<main, watchdog, lock, alarm, term, session, opened>>

SomeRequest ==
    \E op \in DOMAIN sf_ops, from, to \in Files :
       \E left \in IF op \in {"read", "write"} THEN 1..MaxChunks ELSE {0} :
          /\ op # "rename" => to = from
          /\ Request(op, from, to, left)

Next ==
    \/ Connect \/ Unmount \/ LeaveLoop \/ rapi_disconnect
    \/ SomeRequest \/ TakeLock \/ CallSucceeds \/ CallFails \/ CallIsLost
    \/ Probe \/ (\E ok \in BOOLEAN : ProbeEnds(ok)) \/ GiveUp \/ AlarmRings
    \/ Device

Spec == Init /\ [][Next]_vars

\* Each thread goes on when it can, and a call with a connection that did not
\* stop within a message ends.  The watchdog finds the lock free now and then,
\* and the kernel's lock is granted now and then: neither can be starved for
\* ever by a thread that sleeps five seconds, or by one that answers a request
\* before the next comes.
FairSpec ==
    /\ Spec
    /\ WF_vars(Connect) /\ WF_vars(LeaveLoop) /\ WF_vars(rapi_disconnect)
    /\ SF_vars(TakeLock) /\ WF_vars(CallSucceeds \/ CallFails \/ CallIsLost)
    /\ SF_vars(Probe) /\ WF_vars(\E ok \in BOOLEAN : ProbeEnds(ok))
    /\ WF_vars(GiveUp) /\ WF_vars(AlarmRings)

-----------------------------------------------------------------------------
(* Properties.                                                             *)

\* The session serves one call at a time: while the device is mounted, the two
\* threads are never in a remote call at once, and whoever is in one has the lock.
OneCallAtATime ==
    main.at \in {"loop", "wants lock", "calling"} =>
       /\ ~(InCall("main") /\ InCall("watchdog"))
       /\ \A t \in {"main", "watchdog"} : InCall(t) <=> lock = t

\* Success means that the device did what was asked, but for the operations
\* that do not look at the answer.
SuccessIsTrue ==
    main.at = "loop" /\ main.ret = "success" /\ main.op \notin Careless =>
       main.did \cap Asked(main.op) # {}

\* A connection that never failed leaves no handle open on the device but those
\* of the files the kernel has open.
HandlesAreFiles ==
    link = "up" /\ main.at = "loop" => handles = opened

\* Whatever a rename does to its destination, what the source held is at one of
\* the two names, also when the connection fails in the middle; unless the
\* destination is the source under another name, which is deleted.
RenameKeepsSource ==
    main.op = "rename" /\ main.at \in {"wants lock", "calling", "loop"}
       /\ main.source # None /\ main.from # main.to =>
       main.source \in {Holds(main.from), Holds(main.to)}

\* Every request of the kernel is answered, unless the device stops within a
\* message or accepts writes that write nothing.
RequestsEnd ==
    main.at \in {"wants lock", "calling"} ~>
       main.at \in {"loop", "exit"} \/ link = "stalled" \/ full

\* A device that went out of reach is unmounted, also when nothing asks for a
\* file.
GoneIsUnmounted == link = "silent" ~> main.at = "exit"

\* synce-fuse.c: "RAPI is not re-entrant, mutex protects us".
MutexProtects == session \in {"closed", "freed"} => watchdog # "probing"
=============================================================================
