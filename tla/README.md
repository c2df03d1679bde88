# A verification development for SynCE

SynCE connects Windows CE and Windows Mobile devices to a Linux host. This
directory has TLA+ models of its connection manager `dccm`, of the client library
`librapi`, of the FUSE file system and of the command-line tools, the TLC
configurations that check them on small instances, and TLAPS proofs about the
parts on which the others rest.

    tlc -config RndisSafety.cfg MCSynceDeviceRndis     # any run: see "Runs"
    tlapm DeviceManagerProofs.tla                      # any *Proofs module

Source paths below are relative to `src/`. The build modelled is the one with GDBus
and GUdev (`USE_GDBUS`, `HAVE_GUDEV`, and with them `ENABLE_UDEV_SUPPORT`).

## 1. The system

| Component | Source | State | Operations | Modelled in |
|---|---|---|---|---|
| Device manager | `dccm/synce-device-manager.c` | list of entries (path, addresses, pending, server, object, retry timer), interface timer | announce, probe addresses, open sockets, accept connections, retry, drop | `DeviceManager` |
| Manager control | `dccm/synce-device-manager-control.c` | none | `DeviceConnected`, `DeviceDisconnected` from the udev scripts | the action `DeviceConnected` of `DeviceManager` |
| Device object, base | `dccm/synce-device.c` | control connection, control state, password flags and call, broker table, object path | password call, going on the bus, removal | `SynceDevice` |
| WM5/6 device object | `dccm/synce-device-rndis.c` | connections whose id is being read | handshake, description, verdicts, `RequestConnection`, connections from the device | `SynceDeviceRndis` |
| Legacy device object | `dccm/synce-device-legacy.c` | password, ping counter | the same, with pings and with connections made to the device | `SynceDeviceLegacy` |
| Connection broker | `dccm/synce-connection-broker.c` | call, connection, Unix socket | take a connection, hand over its descriptor | `ConnectionBroker` |
| RAPI context, buffer | `lib/rapi/support/` | socket, chosen protocol, two error codes, the reply being read | connect, call, wait, disconnect | `RapiContext` |
| RAPI calls | `lib/rapi/rapi_api.c`, `backend_ops_1/`, `backend_ops_2/` | none of their own | 63 functions in two protocol versions | `RapiCalls`, `RapiApi`, `RapiOps1`, `RapiOps2` |
| RAPI2 objects | `lib/rapi/rapi2_api.c` | desktop, device list, enumerators, sessions, sinks, reference counts | get, enumerate, find, advise, create session, follow the daemon | `RapiDesktop` |
| File system | `fuse/synce-fuse.c` | session, lock, watchdog thread | FUSE operations, probe, alarm, unmount | `FuseFs` |
| Tools | `tools/*.c` | references, handles, exit status | find a device, make calls, give back | `RapiTools`, `ToolScripts` |
| Daemon | `dccm/main.c`, `log.c` | bus name | start, stop | not modelled |
| Utilities | `lib/utils/` | none | strings, times, hash table, configuration, sockets | not modelled |
| Kernel module | `kmod/` | - | RNDIS commands | not modelled |
| GUI, Python binding | `synce-gui.py`, `python/` | - | programs over the library | not modelled |
| Scripts | `scripts/`, `bluetooth/` | - | announce devices | seen as the environment |

How they interact. A udev script announces a device (path, addresses) to the
manager. The manager probes the local address with a timer, listens there on two
ports, and, for RNDIS, sends the device a trigger until it connects. The first
connection becomes the control connection of a device object, which shakes hands,
reads the device's description, goes on the bus, and asks for a password if there
is one. A client that wants to talk to the device calls `RequestConnection`: a
broker is recorded under an id, the device is asked to open a connection with that
id (a legacy device is connected to instead), and when the connection is there its
descriptor goes to the client over a Unix socket. udev's "remove" event, or pings
without a reply, end the object and its entry.

On the client's side a desktop object follows the manager's signals with a list of
device objects. An application keeps one of them, makes a session on it, and the
session's context gets a connection (from the broker, or over ppp) on which it
writes one command at a time and waits for the reply. The file system is one such
application with two threads on one session; each tool is one without threads.

What is hard. The daemon is one process with one main loop, so handlers do not
interleave inside, but everything between them does: reads that end short, after a
state change, or after the object is gone; requests and connections that cross;
writes that fail after state was changed; timers that fire after what they refer
to; events that come before anybody listens for them. In the library it is the call
that is given up while the device still executes it, and the objects that free each
other; in the file system two threads, a lock and an alarm; in the tools the way out
after the seventh of nine calls failed. PROJECT.json lists each such point at its
line under `hazards`, with the property that would catch it.

## 2. The modules

### dccm

`ConnectionBroker`: the broker objects of one device and the hash table
`priv->requests`. A broker is named by the call it was created for; `requests`,
`brokerCtx`, `brokerServer` are the sets of calls whose broker is in the table, has
a non-NULL `ctx`, listens. `rqAnswer` is what the caller got, with `"twice"` for a
second reply to one invocation. `Lookup` is the hash table's lookup by id.

`SynceDevice` extends it with the base class: `state`, `pwFlags` (with the header's
numbers, as the flags are tested with `&`), `pwKey`, `pwCtx`, and the control
connection. `rd` is the read outstanding, `wire` the device's next message. One
action stands for one handler; `ReadCompletes` is the part all read callbacks share
(the message, and the read the handler starts). `ProvidePassword` and
`ProvidePasswordRefused` are the D-Bus method, `Dispose` the object's end.

`SynceDeviceRndis` and `SynceDeviceLegacy` each extend `SynceDevice` with their
class: one action per control state of `conn_event_cb` (`HandshakeEvent`,
`InfoSizeEvent`, `InfoEvent`, `VerdictEvent`, `UnlockEvent`, `PingReplyEvent`), the
D-Bus method `RequestConnection`, the callbacks of client connections, and
`DeviceRemoved`. `SendPing` is the legacy class's timer.

`DeviceContract` is what a client may rely on: it knows locks, calls, answers and
connections, and no reads, ids, tables or flags. Both device classes implement it
(`KeepsContract`, by `INSTANCE DeviceContract WITH ...` at the end of each).

`DeviceManager` is the list of entries. `position` is an entry's place in
`priv->devices` (0: not in it), the other variables are fields of the entry as sets
or functions; entries are reused as memory is. `CheckInterface` is one pass of the
timer over the list: `probed` is how far it got, `ok` for which entries the sockets
could be opened, and `Tried` accounts for entries that find their address taken by
one earlier in the same pass. The device object between its creation and its object
path is one step here and all of `SynceDeviceRndis` there.

### librapi

`RapiCalls` turns a remote call into data. Every function of the library is made
from one mould: refuse bad arguments, begin a command, exchange one message, read
the reply word by word, return a value. A record says how one function fills the
mould: its command, through which exchange it goes, what it returns when there is no
answer, and the reads of the reply in their order, each with what follows when the
reply ends before it. `Returns`, `LastErrorRead` and `HeaderSays` say what such a
reader makes of a reply, `WholeReplies` what the device writes, `CutReplies` what is
left of that. `RapiOps1` and `RapiOps2` are the functions of `backend_ops_1/` and
`backend_ops_2/`, one definition each, `RapiApi` the two interfaces in front of them.

`RapiContext` makes the calls: `Connect` with the choice of the protocol, the
commands (`SentCall`, `UnsentCall`) and the answers without one, the replies
(`ReadFirst` and `ReadSecond` for `CeRapiInvoke`, `ReadReply` for all others),
`NoAnswer` after 120 seconds, an error or the end of the stream. The device takes a
command and answers with all of it, a part, or a message of which the rest comes
later or never. Commands of a closed connection may still be executed
(`ServeOrphan`).

`RemoteCall` is what a call promises (executed at most once; success is told after
it was done, failure leaves both open). `RapiContext` implements it for every
function but those in `Untrusted`.

`RapiDesktop` has one client process with its main loop: `desktop`, `device`, `enum`
and `session` are the objects with their counts, `signals` what the main loop has not
dispatched, `doing` where its thread is inside a handler that waits for the daemon,
walks the list or tells sinks. The daemon goes on meanwhile. `broken` is what use of
freed memory did.

### The programs

`FuseFs` has the thread that serves the kernel (`main`), the watchdog thread, the lock
and the alarm. Each file operation is a sequence of steps, `sf_ops[op]`; a step says
what follows failure and success of its call, and whether the lock is given back.

`ToolScripts` has the tools as scripts of calls, with the label that follows each
outcome; `RapiTools` runs a script between finding a device and giving everything
back, the part that all tools repeat. Two of them, `pcat` and `pbackup`, are of another
mould (`Early`): they release the enumeration before they know its outcome, and end
with success when they are only asked how they are used (`pcat.c:47`), where the
others' `handle_parameters` ends with the failure that the status began as.

`MC*` give TLC its tables, its symmetry, and, in `MCRapiDesktop`, a restriction of the
next-state relation (section 5); `*Proofs` have the proofs.

### Abstractions

* dccm's messages are words, named for what the protocol makes of them, descriptions
  ("malformed", or the password key they carry) and "short", any read that did not
  return the number of bytes asked for. Their bytes, and the fields of a
  description, are left out. A message longer than the read is two messages, so one
  pending message is enough (exact-length reads on a stream).
* Undefined behaviour is a choice: what freeing an unset pointer does (answered or
  stopped), what a callback does to a freed object (nothing, or stopped), what is in
  a buffer that was never written (any word), how a freed string compares. The
  properties hold whichever happens, or say that it does not; where the code's own
  words say otherwise, a run refutes them (section 5).
* Writes succeed while the link is up, and may or may not once it is down.
* `DeviceSend` sends any word at any time, also what no device would. A device that
  is asked for a connection uses the id once. It may also open a connection that
  reads as id 0, as one does that starts again without leaving.
* In `DeviceManager` a path is announced again only after its removal was
  dispatched (the scripts run long after the kernel's event), and a local address
  exists while a device that uses it is plugged in.
* In `RapiContext` the arguments of a call and what it stores through pointers are
  left out; a reply is the sequence of the words that the function's reads look at.
  A device answers a command that it understands with the words of its version.
* In `RapiDesktop` calls on the bus fail only because the daemon is absent. A path
  stands for the device's GUID too. Enumerators and sessions have one reference, the
  application's: their counts beyond it are the same increments as a device's.
* In `FuseFs` the device `-d` chooses, and what directories and attributes contain,
  are left out. A rename may be from a name to itself: names that differ in case only
  are two names for the kernel and one file on the device.
* In the tools a name that does not convert is a choice of the script where the tool
  goes another way than after a failed call; local memory suffices. A call that closes
  a handle may be refused over a good link, and the handle then counts as given back:
  nobody asks twice.
* In `SynceDeviceLegacy` a client may be given its connection without the password
  being sent first, also when one is set: an empty one counts as none in the code
  (`dccm/synce-device-legacy.c:506`).
* `create_device` has an exit that frees the entry's server and keeps the pointer
  (`dccm/synce-device-manager.c:324`). `CreateDevice` has no step for it: an entry is
  tried while it has no server, and once the server is made only the adding of a bound
  socket can fail, which GLib refuses for a closed one alone.

## 3. Runs

Nine runs pass, three must fail (section 5).

| Run | Bounds | Shows |
|---|---|---|
| `RndisSafety` | 2 requests, 3 connections, 3 password calls | all safety properties of the WM5/6 object, the inductive invariant, the contract |
| `RndisLiveness` | 2 requests, 2 connections, 1 password call | verdicts and connections that arrived reach their callers |
| `Legacy` | 2 requests, 2 password calls, `MaxPings` 2 | safety of the legacy object, the same contract; a dead device is dropped |
| `ManagerSafety` | 2 entries, 2 paths, 2 addresses, `MaxTries` 1 | the list's inductive invariant and what it implies |
| `ManagerLiveness` | 2 entries, 2 paths, 1 address, `MaxTries` 2 | waiting entries are served, retries end |
| `RapiContext` | every function, `MaxCalls` 2, `Followers` 2 | own answers, true answers, explained failures, calls end, the contract |
| `RapiDesktop` | 1 path, 3 objects, 2 enumerators, 1 session, 1 sink, `MaxMoves` 2, `MaxInits` 2, `MaxHeld` 1, `SeqMax` 4 | counts equal holders, nothing dangles, a device gets listed |
| `FuseFs` | 2 names, `MaxOpen` 1, `MaxChunks` 2 | one call at a time, success is true, handles and files survive, requests end, a gone device is unmounted |
| `RapiTools` | every tool, `MaxDevices` 2, `MaxItems` 3, `MaxDepth` 3 | exit status, references, handles, end |

Deadlock is not checked: a device that is gone, a daemon, a client, a mount and a
tool that have ended are ends.

Why the bounds are enough.

* dccm. Two requests cross in every order with their connections; the third connection
  is one that nobody asked for, or a second one for a broker. Three password calls are
  one that is refused by the device, one in progress and one that is refused because of
  it. Ids are not bounded: each call is made once, so they end by themselves. `MaxPings`
  is 3 in the code; with 2 a ping may go unanswered and the next be one too many, with a
  reply that sets the count back in between. The legacy run leaves out the word for a
  size that is too small, which ends the handshake as any other misplaced word does.
  `MaxTries` is 10 in the code; retries are counted alike whatever the limit. Two
  entries are enough for an entry and one that follows it, replaces it, or competes with
  it for its address; two addresses are what it takes for one path to be in the list
  twice with an object each. For `RndisSafety`'s and `ManagerSafety`'s properties the
  proofs make the bounds irrelevant.
* `RapiContext`. The first call is any function, so that each meets each of its
  replies; the second is one of `Followers`, one with a single message and the one
  with two, which is what a late reply needs to be taken for another's. `OsVersions`
  has one version on each side of the change of protocol. `VersionsAssumption` says
  that on the versions taken the code chooses the protocol that the device speaks;
  for 6.0 it does not (hazard at `rapi_context.c:645`), and of a device spoken to in
  the wrong protocol nothing can be said. `ReadersAssumption` and `AnswersAssumption`
  say that the readers fit the devices: but for the functions named in `Untrusted`
  and `Misread`, no reply to a command that was not done reads as success, no failure
  to get a reply does, and no whole reply of a command that was done reads as
  failure. TLC evaluates them on the rows of all functions in both versions, over
  every whole and cut reply; the steps of the context are checked, and proved, from
  there.
* `RapiDesktop`. Three objects are a device listed, listed again and one kept from
  before; two moves of the daemon are a device that comes and goes, or a stop and a
  start, around any step of the client. `SeqMax` 4 makes the numbers of the sinks run
  over. Two desktops (`MaxInits` 2), one after the other, are those of a client that
  gives the first up: a signal may find its desktop gone (`DesktopIsGone`), when the
  first one's proxy was replaced by a second arrival of the daemon and nobody
  disconnected its handler, and the second desktop may meet what the first left
  behind (`LeftBehind`).
* `FuseFs`, `RapiTools`. Chunks, items and depth are loops and recursion: 0, 1 and
  more turns. Two names are the two of a rename; two devices the one asked for and
  another before or after it.

The properties, by what would break them:

* `AnsweredOnce`, `DeliveredToRequester`, `OpenedIsAnswered`: ids, the broker table,
  failed writes that leave brokers behind, connections that come late.
* `UnlockedByVerdict`, `VerdictDelivered`, `PasswordForConnections`: one password at a
  time; the state follows the device's verdict and nothing else; the caller who is
  told is the one who asked.
* `DeadDeviceLeaves`: pings that are not answered drop the device.
* `ListedIsAnnounced`, `NothingOutlivesEntry`, `AddressOwned`, `FreeAddressIsTaken`,
  `RetriesEnd`: timers, servers and announcements fit the list.
* `IndInv` (of `SynceDeviceRndis` and of `DeviceManager`): what these rest on,
  checked because it is proved.
* `AnswerIsOwn`: a late reply. `DoneIsTold`, `FailureIsExplained`: replies read word
  by word by 63 functions in two versions, called through two interfaces; each
  exception is named in `MCRapiContext` (`Untrusted`: a value that looks like
  success after a failure; `Unexplained`: neither error code is set; `Misread`:
  `CeSetEndOfFile` of version 2 reads its reply as one of version 1). `CallsEnd`:
  except for a message that stops in the middle, which is waited for without a
  limit.
* `RefsAreHolders`, `NothingDangles`, `KeptDesktopIsSafe`, `DeviceIsListed`: counts kept
  by hand, a list walked while its owner goes. `KeptDesktopIsSafe` names its one
  exception, the handler left behind by an earlier desktop (`rapi2_api.c:1948`: a
  proxy is replaced without disconnecting its handler).
* `OneCallAtATime`, `SuccessIsTrue` (but for `Careless` operations, which do not look
  at the answer), `HandlesAreFiles`, `RenameKeepsSource` (if the
  names are those of two files), `RequestsEnd`, `GoneIsUnmounted`.
* `ExitIsTrue`, `HandlesClosed`, `ReferencesBalance`, `ToolEnds`. `Optimists` begin
  with the status of success, `Lenient` ignore some failures (a directory's listing
  goes on when one entry fails), `Leaky` leave a handle open on one way out or more:
  the recursive listing and the dump of the registry never close a subkey,
  `synce-database` may leave its enumeration open, and `synce-list-programs` leaves the
  key of each program whose name does not convert
  (`tools/synce-list-programs.c:212`).

What the properties exempt is in the models all the same, and PROJECT.json lists each
case as a hazard of its own with a note: the hang of an operation whose device stops
within a message, writes that write nothing, the destination of a rename, the
`Careless` operations, `Lenient` and `Leaky` tools, references given back before they
were taken, and what a desktop that went leaves behind.

Each property has a mutant in PROJECT.json: a changed definition, kept beside the
original and marked `(Mutant: ...)`, that breaks it.

## 4. Fairness

`FairSpec` of each module assumes weak fairness of what a main loop does with
sources that are ready: the callback of a completed read, timers, udev events,
accepted connections, signals. Nothing is assumed of devices, links, udev scripts,
the daemon (seen from a client) or users. Beyond that:

* `DeviceManager`: a pass of the interface check is assumed to get its own sockets
  infinitely often (a pass that does not returns early and is run again 100 ms
  later); nothing is assumed of the sockets of `create_device`.
* `SynceDeviceLegacy`: an attempt to connect ends, as a TCP connect does.
* `RapiContext`: the thread that waits goes on when it can, for `poll` returns after
  120 seconds at the latest. Nothing is assumed of the device.
* `FuseFs`: each thread goes on when it can, and a call ends whose connection did not
  stop within a message (that is `CallsEnd`). Strong fairness of `TakeLock` and
  `Probe`: the mutex is free between any two requests, the watchdog tries it every
  five seconds, and neither loses to the other for ever.
* `RapiTools`: a tool goes on.

## 5. Where the code and its own words differ

Each is a run that must fail, and a finding in PROJECT.json.

| Run | The code says | What happens |
|---|---|---|
| `RndisUnlock` | "wm6 - password entered on device" (`dccm/synce-device-rndis.c:404`) | a short read is taken for the device's word: a broken connection can count as unlocking |
| `DesktopStale` | "enumerate all connected devices" (`lib/rapi/rapi2_api.c:2563`) | a device that connects between the subscription and the first listing is listed twice, the second time for ever (below) |
| `FuseMutex` | "RAPI is not re-entrant, mutex protects us" (`fuse/synce-fuse.c:645`) | at the end of main the session is closed and freed while the watchdog may be in a call on it |

The trace of `DesktopStale`: no device is there; the client subscribes; a device
connects; the daemon answers the client with a list that has it; the device goes; its
"Connected" signal, which waited, adds a second object to the list; its "Disconnected"
signal removes the first, and the second stays. There is another way to the same end:
the paths of listed devices are freed text (`l.2013`), and a signal's path may not be
found among them. `MCRapiDesktop` leaves that way out, so that what the run finds is
the order of the steps: in `ReadableSpec` a freed path reads as it did before. Each of
its behaviours is one of `RapiDesktop!Spec`.

Other points where the modelled code may surprise; the models have the steps, except
where said, and no run is spent on them:

* A refused `ProvidePassword` frees a pointer that was not set
  (`dccm/synce-device.c:172`), a refused `RequestConnection` of a legacy device uses a
  broker that was not (`dccm/synce-device-legacy.c:547`).
* A password whose write fails, or whose verdict does not come, leaves the attempt
  recorded: later calls are refused (`dccm/synce-device.c:160`,
  `dccm/synce-device-rndis.c:377`).
* `create_device` clears the pending mark before its sockets fail, and nothing tries
  again (`dccm/synce-device-manager.c:267`).
* A device unplugged before it has an object keeps its entry (`l.433`).
* `send_ping` replaces the buffer under an outstanding read
  (`dccm/synce-device-legacy.c:73`).
* The password's length is written as eight bytes where the protocol has two, on a
  64-bit machine (`dccm/synce-device.c:156`), and the list of object paths is
  allocated with a byte per entry (`dccm/synce-device-manager.c:475`); message bytes
  and memory layout are not modelled.
* A legacy device is connected to while the main loop waits
  (`dccm/synce-device-legacy.c:512`), which holds up every other device; time inside a
  handler is not modelled.
* A device that answers in the middle of a message and stops blocks its caller, and
  with it the mount, for as long as the connection lasts.

## 6. Proofs

All theorems hold for every value of the constants that satisfies the named
assumptions. TLC checks each inductive invariant on the small instance first. Every
safety property that a passing run checks is a theorem.

`SynceDeviceRndisProofs` assumes `NoConnAssumption`, `NoCallAssumption`,
`WordsAssumption`: NULL and the special messages are different from everything else.

| Theorem | Statement |
|---|---|
| `Invariance` | `Spec => []IndInv` |
| `TypeCorrect`, `CallsAnsweredOnce`, `WaitingRequestsKept`, `ConnectionsDelivered`, `UnlockingIsByVerdict`, `CheckingIsSomeonesCall`, `ReadsFit` | `Spec => []` of each invariant |
| `AssertionHolds` | `Spec => NoAssertion` |
| `ImplementsContract` | `Spec => KeepsContract` |

None of the properties is inductive. `IndInv` adds what they rest on:

* `PasswordInv`: control state, key, flags, the call in progress and the read
  outstanding fit together. Without it a verdict could arrive with nobody asking.
* `IdInv`: ids are given out once, in increasing order, and the device holds or has
  used each at most once. This is why connections cannot reach the wrong broker.
* `BrokerInv`: what a broker holds follows from what its call was answered.
* `ZombieInv`: a broker that a failed write left behind has an id that the device
  never saw, so that no connection reaches it and its caller is not answered again.

`TypeStep`, `PasswordStep` and `RequestStep` prove that a step keeps each part, with a
lemma per group of actions; `OneBrokerPerId` and `FoundIsFree` say that a lookup finds
at most one broker and that it has no connection, which gives `AssertionHolds` at
once. `NextContract` maps every step to a step of the contract or a stutter.

`DeviceManagerProofs` assumes that the entries are finitely many
(`EntriesAssumption`), `MaxTriesAssumption` and that NULL is no path or address.

| Theorem | Statement |
|---|---|
| `ManagerInvariance` | `Spec => []IndInv` |
| `PendingProbed`, `AnnouncementsFit`, `EntriesFreedAlone`, `AddressesOwned` | `Spec => []` of `PendingIsProbed`, `ListedIsAnnounced`, `NothingOutlivesEntry`, `AddressOwned` |

Its `IndInv` adds to the properties that the places of the list are the numbers from
1 to its length, each taken once (`PlacesDiffer`), and that objects on the bus have
different paths (`PathsDiffer`). The first is what makes a pass of the timer well
defined: "an earlier entry of the same pass" must mean something for `Tried` to keep
two entries off one address. Appending and removing keep it by counting
(`ConnectedList`, `DisconnectedList`). The second is what lets a removal signal name
one entry.

`RapiContextProofs` assumes that a command decides how many messages answer it
(`RapiAssumption`) and that the chosen protocol is the device's
(`VersionsAssumption`).

| Theorem | Statement |
|---|---|
| `RepliesAreOwn` | `Spec => []AnswerIsOwn` |
| `QuietBetweenCalls` | `Spec => []Quiet`: who waits for nothing has an empty connection |

Its invariant `OwnInv` says that what is on the connection belongs to the call that
waits, and is at most what that call still expects. This holds because every way to
give up a call closes the socket (`NoAnswer`), and because both ends agree on how
many messages answer a command; the two assumptions are needed for the second.

`RapiContractProofs` adds `ReadersAssumption` and `AnswersAssumption`: with them, the
table of functions is any table whose readers fit the devices.

| Theorem | Statement |
|---|---|
| `CallsKeepPromise` | `Spec => KeepsContract` |
| `DoneNotDenied` | `Spec => []DoneIsTold` |
| `CallsTypeCorrect` | `Spec => []TypeOK` |
| `FailuresExplained` | `Spec => []FailureIsExplained` |

Its invariant, on top of `OwnInv`, has three parts. `NumbersInv`: calls are numbered
in the order in which they are made, and nothing on either side has a number from the
future. `OnceInv`: a command that waits anywhere, on the connection or among the
orphans that a device may still take from a connection now closed, was not served before.
`TruthInv`: an answer on its way, or the value kept from the first of two messages,
agrees with what the device did. The division of labour is that TLC evaluates, row by
row, that each function reads its own answer right, and the proof shows that the
context brings each function its own answer.

The last two theorems are about error codes. `CodesAssumption` says that the codes in
the table, and what replies hold, are numbers; `ExplanationsAssumption` what TLC
evaluates of each row: that one which is not listed among `Unexplained` or `Misread`
says why it fails, when it is not connected, refuses its arguments, or reads failure
out of a whole reply. `CodesInv` (the codes are numbers; there is a table exactly in an
initialized context) is what a code means in whatever order calls, replies and broken
links come; with `OwnInv`, which makes the reply that is read a reply to this function,
each way in which a call can end in failure is one of the assumption's.

`SynceDeviceLegacyProofs` assumes what the RNDIS proofs do, and besides
`MaxPingsAssumption` and `OneConnectionPerCall` (a legacy object makes a connection for
each request itself).

| Theorem | Statement |
|---|---|
| `Invariance` | `Spec => []IndInv` |
| `TypeCorrect`, `CallsAnsweredOnce`, `PasswordIsTaken` | `Spec => []` of `TypeOK`, `AnsweredOnce`, `PasswordForConnections` |
| `ImplementsContract` | `Spec => KeepsContract` |

Its `IndInv` is defined with the proofs. `PhaseInv` ties the password, the flags and
the caller to the control state: before the description nobody can have asked, and a
connected device has the password that it took. `PingInv`: pings belong to a connected
device, and a live object has fewer than `MaxPings` unanswered, without which the
count has no type. `RequestInv` and `IdInv` are those of the RNDIS proofs without a
table that connections are looked up in: `ImplementsContract` shows that the two
objects, which share the base class and differ in who opens the connection, keep one
promise to the clients.

`FuseFsProofs` assumes that None is no file (`NoneAssumption`), that the bounds are
numbers (`BoundsAssumption`), and that `release`, `truncate`, `ftruncate` and `utimens`
are among those that do not look at the answer they depend on (`CarelessAssumption`).

| Theorem | Statement |
|---|---|
| `LockProtects` | `Spec => []OneCallAtATime` |
| `RenamesKeepSource` | `Spec => []RenameKeepsSource` |
| `FsTypeCorrect` | `Spec => []TypeOK` |
| `SuccessIsReal` | `Spec => []SuccessIsTrue` |
| `HandlesBalance` | `Spec => []HandlesAreFiles` |

`LockInv` says of every moment, also before mounting and after unmounting, that the
lock is held by exactly the thread that is in a call, and that there is no watchdog
before there is a session; the property itself is about the mounted time only. (The
run `FuseMutex` shows the moment at the end of `main` that no lock covers.)
`RenameInv` follows a rename through its two calls: until the second has been made,
the source is untouched, if the names are those of two files. (If they are one file,
the first call deletes it, and the second has nothing to move.) The last three theorems share `FsInv`, since a handle that is
open, an answer that was given and the place of the thread are only right together.
`RequestInv` keeps what the guard of an operation saw until it returns (without it,
closing a file could leave -1 of them). `HandleInv` counts: over a link that is up, the
device's handles are the kernel's files and what the operation has open at its place
(`Own`). `AnswerInv` says which places an operation only reaches with an answer.

`RapiToolsProofs` assumes that each tool has a script (`ToolsAssumption`) and that the
tools which the run lists as lenient or leaky are (`LenientAssumption`,
`LeakyAssumption`): the theorems hold for any larger sets. `HelpAssumption` says that
being asked for its usage is not being asked for a device.

| Theorem | Statement |
|---|---|
| `ToolsGiveBack` | `Spec => []ReferencesBalance` |
| `SuccessOfTools` | `Spec => []ExitIsTrue` |
| `ToolsCloseHandles` | `Spec => []HandlesClosed` |

Its `RefsInv` adds what a tool holds at each place of its main: nothing or the
enumeration while it looks for its device (`SearchInv`), then its device, and its
session until the first of the releases (`OwnerInv`).

The other two are about the scripts and use `ToolInv`. The lemma `Discipline` goes
through the table, script by script: each place has a number of handles that are open
there (`Held`), each step leads to places that exist and whose numbers fit, and after
a failed call of its work a tool that is not lenient can only get to places that end
in failure (`Doomed`). What the walk adds is the stack: functions of a script call one
another, also recursively. `PlaceInv` says that every return address is a place,
`WorkInv` that after a failure each frame returns to a doomed place, and `HandleInv`
that the handles are those of the place and of every frame below, a sum along the
stack. The sum is written with a function `w` over the stack that the proof extends
and shortens with it (the run that checked `ToolInv` quantified `w` over 0..2, which
the scripts' handles do not exceed).

`RapiDesktopProofs` assumes `DesktopAssumption`: memory and sinks are finite, memory is
numbered, and there are more ticket numbers than sinks.

| Theorem | Statement |
|---|---|
| `Invariance` | `Spec => []IndInv` |
| `CountsAreRight` | `Spec => []RefsAreHolders` |
| `NoneDangles` | `Spec => []NothingDangles` |
| `KeptDesktopSafe` | `Spec => []KeptDesktopIsSafe` |
| `DesktopTypeCorrect` | `Spec => []TypeOK` |

Its `IndInv` has `CountsRight`, the equations themselves, which hold also in the step
that breaks the client; the properties only promise them before. Alone they are not inductive. `Shapes`
adds that the list names no device twice and that a free enumerator is empty, or one
reference could not be told from two. `Roles` adds what a device is to those that
have it: a listed one is connected, the one that sinks are being told of is listed or
is kept alive by the list's last reference. `Proxies` and `Present` tie
the counts to the bus: the desktop is there exactly while it listens, and a signal is
addressed either to its proxy, to one of the proxies for the list, or to nobody. From
these `KeptDesktopIsSafe` follows: a handler that runs without its desktop finds either
no desktop, which then nobody holds, or a newer one, and then it was left behind. The
lemmas `DevicesGone`, `DevicesGiven` and `CountsFollow` do the counting once; each
AddRef and Release of an action is an application of them.

`DesktopTypeCorrect` uses `TypeInv` on top. Most of it is as its name says; what is not
is `SinksInv`, that each sink in the table has the number it is listed under, once.
That makes the table no larger than the sinks there are, so that a number is free
(`NumberFree`, by counting), the loop of `Advise` comes round to it (`Turns`) and
stops at one (`SinkNumberFree`), for any `SeqMax` and from any last number. `HeldInv`
says that a new desktop comes with room for its first user's reference.

Only model-checked: liveness (`VerdictDelivered`, `OpenedIsAnswered`,
`DeadDeviceLeaves`, `FreeAddressIsTaken`, `RetriesEnd`, `CallsEnd`, `DeviceIsListed`,
`RequestsEnd`, `GoneIsUnmounted`, `ToolEnds`), which rests on fairness and is out of
the prover's reach. The rows of the table of functions are evaluated, not proved: the
assumptions about them in `RapiContext` hold of the table in `RapiCalls`, `RapiOps1`
and `RapiOps2`, and TLC evaluates them in every run of it.

## 7. Plan

Done: the WM5/6 device object with its brokers, contract and proofs; the device
manager with proofs; the legacy device object, its contract and proofs; the RAPI
context, with every remote call as data, its contract and proofs; the RAPI2 objects,
the file system and the tools, with proofs of every safety property of each.

To model next, if at all: the hash table and the time conversions of `lib/utils` as
functions against reference definitions.

## 8. Not modelled

* Generated D-Bus code (`*-dbus.c`), and `lib/utils`: pure data handling, except the
  sockets, which are the connections of `RapiContext` seen from its callers.
* The daemon's start and shutdown, its log and the modem's chat script: sequential,
  without state of the protocol.
* The contents of messages: wide strings, structures, byte order, sizes. A property
  about them would be a property of each function's layout, and the layout on the
  device is not in the repository.
* `CeRapiInvoke`'s stream object: a pipe to a program on the device, of which the
  repository has one end.
* The kernel driver: the scheduling of the kernel is not in the repository.
* GUI, Python binding and scripts: programs over the library; the scripts' calls are
  the environment of `DeviceManager`.
