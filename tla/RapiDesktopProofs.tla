-------------------------- MODULE RapiDesktopProofs --------------------------
(***************************************************************************)
(* Proofs about RapiDesktop, for any number of devices, enumerators,       *)
(* sessions and sinks, and any moves of the daemon: the counts are right,  *)
(* nothing that is referred to is freed, what a client that keeps the      *)
(* desktop has to fear, and the types, with the numbers of the sinks.      *)
(***************************************************************************)
EXTENDS RapiDesktop, FiniteSetTheorems, SequenceTheorems, WellFoundedInduction, TLAPS

----------------------------------------------------------------------------
(* The invariant.                                                          *)

DesktopShape ==
    /\ DOMAIN desktop = DOMAIN NoDesktop
    /\ desktop.devices \in Seq(Objects) /\ IsInjective(desktop.devices)
DeviceShape ==
    DOMAIN device = Objects /\ \A o \in Objects : DOMAIN device[o] = DOMAIN Free
EnumShape ==
    /\ DOMAIN enum = Enums
    /\ \A e \in Enums :
          /\ DOMAIN enum[e] = DOMAIN NoEnum
          /\ enum[e].devices \in Seq(Objects)
          /\ enum[e].refcount = 0 => enum[e].devices = <<>>
SessionShape ==
    /\ DOMAIN session = Sessions
    /\ \A s \in Sessions :
          /\ DOMAIN session[s] = DOMAIN NoSession
          /\ session[s].refcount \in {0, 1}
          /\ session[s].refcount > 0 => session[s].device \in Objects
HeldShape ==
    /\ DOMAIN held = {"desktop", "device"}
    /\ held.desktop \in Nat /\ held.device \in [Objects -> Nat]
DoingShape == DOMAIN doing = DOMAIN Idle
Shapes ==
    DesktopShape /\ DeviceShape /\ EnumShape /\ SessionShape /\ HeldShape /\ DoingShape

\* The counts, also after something broke.
Lives == {o \in Objects : Live(o)}
CountsRight ==
    /\ \A o \in Objects : device[o].refcount = Holders(o)
    /\ desktop.refcount = held.desktop + Cardinality(Lives)

\* What the list, the thread and the sessions know of a device is true of it.
Roles ==
    /\ \A o \in Listed : device[o].status = "connected"
    /\ Doing("telling") =>
          /\ doing.object \in Objects
          /\ doing.object \in Listed \/ device[doing.object].status = "disconnected"
    /\ Doing("removing") => doing.left \subseteq Listed
    /\ \A s \in Sessions :
          session[s].refcount > 0 => session[s].info = device[session[s].device].info

\* A signal of the bus is for the desktop there is, or for nobody; a signal of
\* the daemon is never for the proxy of the bus.
Signals == [name : {"Connected", "Disconnected", "Online", "Offline"},
            path : Paths \cup {None}, to : Nat]
Addressed(m) ==
    /\ m.to \in 1..desktop.made
    /\ m.name \in {"Online", "Offline"} => m.to = desktop.dbus_proxy \/ m.to \notin desktop.handlers
    /\ m.name \in {"Connected", "Disconnected"} => m.to # desktop.dbus_proxy
Proxies ==
    /\ desktop.made \in Nat
    /\ desktop.dbus_proxy \in Nat /\ desktop.dbus_proxy <= desktop.made
    /\ desktop.handlers \subseteq 1..desktop.made
    /\ desktop.dbus_proxy = 0 => desktop.refcount = 0
    /\ signals \in Seq(Signals)
    /\ \A i \in DOMAIN signals : Addressed(signals[i])
    /\ doing.what \in {"asking for the owner", "asking for the list", "listing"} =>
          desktop.dbus_proxy # 0

\* There is a desktop as long as it listens to the bus.
Present == desktop.exists \in BOOLEAN /\ (desktop.exists <=> desktop.dbus_proxy # 0)

Inv == Present /\ Shapes /\ CountsRight /\ Roles /\ Proxies
IndInv == Inv /\ KeptDesktopIsSafe
----------------------------------------------------------------------------
(* The list.                                                               *)

LEMMA AppendedList ==
    ASSUME NEW s \in Seq(Objects), IsInjective(s), NEW o \in Objects, o \notin ToSet(s)
    PROVE  /\ Append(s, o) \in Seq(Objects) /\ IsInjective(Append(s, o))
           /\ ToSet(Append(s, o)) = ToSet(s) \cup {o}
<1> DEFINE t == Append(s, o)
<1>1. /\ t \in Seq(Objects) /\ Len(t) = Len(s) + 1 /\ DOMAIN t = 1..(Len(s) + 1)
      /\ DOMAIN s = 1..Len(s) /\ Len(s) \in Nat
      /\ \A i \in 1..Len(s) : t[i] = s[i] /\ s[i] \in Objects
      /\ t[Len(s) + 1] = o
  OBVIOUS
<1> HIDE DEF t
<1>2. IsInjective(t)
  BY <1>1 DEF IsInjective, ToSet
<1>3. ToSet(t) = ToSet(s) \cup {o}
  BY <1>1 DEF ToSet
<1> QED
  BY <1>1, <1>2, <1>3 DEF t

LEMMA ShortenedList ==
    ASSUME NEW s \in Seq(Objects), IsInjective(s), NEW i \in DOMAIN s
    PROVE  /\ RemoveAt(s, i) \in Seq(Objects) /\ IsInjective(RemoveAt(s, i))
           /\ ToSet(RemoveAt(s, i)) = ToSet(s) \ {s[i]}
<1> DEFINE t == RemoveAt(s, i)
           n == Len(s)
<1>1. /\ n \in Nat /\ i \in 1..n /\ DOMAIN s = 1..n
      /\ \A j \in 1..n : s[j] \in Objects
  OBVIOUS
<1>2. /\ t \in Seq(Objects) /\ Len(t) = n - 1
      /\ \A j \in 1..(n - 1) : t[j] = IF j < i THEN s[j] ELSE s[j + 1]
  <2> DEFINE a == SubSeq(s, 1, i - 1)
             c == SubSeq(s, i + 1, n)
  <2>1. a \in Seq(Objects) /\ Len(a) = i - 1 /\ \A j \in 1..(i - 1) : a[j] = s[j]
    BY <1>1, SubSeqProperties
  <2>2. c \in Seq(Objects) /\ Len(c) = n - i /\ \A j \in 1..(n - i) : c[j] = s[i + j]
    <3>1. \A j \in (i + 1)..n : s[j] \in Objects
      BY <1>1
    <3>2. c \in Seq(Objects) /\ Len(c) = IF i + 1 <= n THEN n - (i + 1) + 1 ELSE 0
      BY <1>1, <3>1, SubSeqProperties
    <3>3. \A j \in 1..(n - (i + 1) + 1) : c[j] = s[(i + 1) + j - 1]
      BY <1>1, <3>1, SubSeqProperties
    <3>4. \A j \in 1..(n - i) : c[j] = s[i + j]
      <4> HIDE DEF c
      <4> TAKE j \in 1..(n - i)
      <4>1. j \in 1..(n - (i + 1) + 1) /\ (i + 1) + j - 1 = i + j
        BY <1>1
      <4> QED
        BY <3>3, <4>1
    <3> QED
      BY <1>1, <3>2, <3>4
  <2>3. t = a \o c
    BY DEF RemoveAt
  <2> HIDE DEF a, c, t, n
  <2>4. /\ t \in Seq(Objects) /\ Len(t) = (i - 1) + (n - i)
        /\ \A j \in 1..((i - 1) + (n - i)) : t[j] = IF j <= i - 1 THEN a[j] ELSE c[j - (i - 1)]
    <3>1. a \in Seq(Objects) /\ c \in Seq(Objects)
      BY <2>1, <2>2
    <3>2. /\ a \o c \in Seq(Objects) /\ Len(a \o c) = Len(a) + Len(c)
          /\ \A j \in 1..(Len(a) + Len(c)) :
                (a \o c)[j] = IF j <= Len(a) THEN a[j] ELSE c[j - Len(a)]
      BY <3>1, ConcatProperties
    <3> QED
      BY <2>1, <2>2, <2>3, <3>2
  <2>5. ASSUME NEW j \in 1..(n - 1) PROVE t[j] = IF j < i THEN s[j] ELSE s[j + 1]
    <3>1. j \in 1..((i - 1) + (n - i))
      BY <1>1
    <3>2. CASE j < i
      BY <1>1, <2>1, <2>4, <3>1, <3>2
    <3>3. CASE j >= i
      <4>1. j - (i - 1) \in 1..(n - i) /\ i + (j - (i - 1)) = j + 1
        BY <1>1, <3>3
      <4>2. t[j] = c[j - (i - 1)]
        BY <1>1, <2>4, <3>1, <3>3
      <4>3. c[j - (i - 1)] = s[j + 1]
        BY <2>2, <4>1
      <4> QED
        BY <1>1, <3>3, <4>2, <4>3
    <3> QED
      BY <1>1, <3>2, <3>3
  <2> QED
    BY <1>1, <2>4, <2>5
<1>3. DOMAIN t = 1..(n - 1)
  BY <1>2
<1> HIDE DEF t, n
<1> DEFINE from(j) == IF j < i THEN j ELSE j + 1
<1>4. IsInjective(t)
  <2> SUFFICES ASSUME NEW j \in 1..(n - 1), NEW k \in 1..(n - 1), t[j] = t[k] PROVE j = k
    BY <1>3 DEF IsInjective
  <2>1. from(j) \in 1..n /\ from(k) \in 1..n /\ (from(j) = from(k) => j = k)
    BY <1>1
  <2>2. s[from(j)] = s[from(k)]
    BY <1>2
  <2> HIDE DEF from
  <2>3. from(j) = from(k)
    BY <1>1, <2>1, <2>2 DEF IsInjective
  <2> QED
    BY <2>1, <2>3
<1>5. ToSet(t) \subseteq ToSet(s) \ {s[i]}
  <2>1. ASSUME NEW j \in 1..(n - 1) PROVE t[j] \in ToSet(s) \ {s[i]}
    <3>1. from(j) \in 1..n /\ from(j) # i
      BY <1>1
    <3>2. t[j] = s[from(j)]
      BY <1>2
    <3> HIDE DEF from
    <3>3. s[from(j)] # s[i]
      BY <1>1, <3>1 DEF IsInjective
    <3> QED
      BY <1>1, <3>1, <3>2, <3>3 DEF ToSet
  <2> QED
    BY <1>3, <2>1 DEF ToSet
<1>6. ASSUME NEW j \in 1..n, s[j] # s[i] PROVE s[j] \in ToSet(t)
  <2>1. CASE j < i
    BY <1>1, <1>2, <1>3, <2>1 DEF ToSet
  <2>2. CASE j > i
    <3>1. j - 1 \in 1..(n - 1) /\ t[j - 1] = s[j]
      BY <1>1, <1>2, <2>2
    <3> QED
      BY <3>1, <1>3 DEF ToSet
  <2> QED
    BY <1>1, <1>6, <2>1, <2>2
<1>7. ToSet(s) \ {s[i]} \subseteq ToSet(t)
  BY <1>1, <1>6 DEF ToSet
<1> QED
  BY <1>2, <1>4, <1>5, <1>7 DEF t

----------------------------------------------------------------------------
(* The counts.                                                             *)

One(P) == IF P THEN 1 ELSE 0
EnumsOf(o) == {e \in Enums : o \in ToSet(enum[e].devices)}
SessionsOf(o) == {s \in Sessions : session[s].refcount > 0 /\ session[s].device = o}
Ends(o) ==
    /\ Doing("telling") /\ doing.object = o
    /\ o \notin Listed /\ device[o].status = "disconnected"

LEMMA HoldersSum ==
    ASSUME NEW o \in Objects
    PROVE  /\ Holders(o) = held.device[o] + One(o \in Listed) + Cardinality(EnumsOf(o))
                           + Cardinality(SessionsOf(o)) + One(Ends(o))
           /\ Holders(o)' = held'.device[o] + One(o \in Listed') + Cardinality(EnumsOf(o)')
                           + Cardinality(SessionsOf(o)') + One(Ends(o)')
<1>1. Cardinality({o}) = 1
  BY FS_Singleton
<1> QED
  BY <1>1 DEF Holders, Count, One, EnumsOf, SessionsOf, Ends

\* What is counted is finite.
LEMMA FiniteParts ==
    ASSUME NEW o \in Objects
    PROVE  /\ IsFiniteSet(EnumsOf(o)) /\ Cardinality(EnumsOf(o)) \in Nat
           /\ IsFiniteSet(SessionsOf(o)) /\ Cardinality(SessionsOf(o)) \in Nat
<1>1. EnumsOf(o) \in SUBSET Enums /\ SessionsOf(o) \in SUBSET Sessions
  BY DEF EnumsOf, SessionsOf
<1>2. IsFiniteSet(EnumsOf(o)) /\ IsFiniteSet(SessionsOf(o))
  BY <1>1, FS_Subset, DesktopAssumption
<1> QED
  BY <1>2, FS_CardinalityType

LEMMA FiniteLives == IsFiniteSet(Lives) /\ Cardinality(Lives) \in Nat
<1>1. Lives \in SUBSET Objects
  BY DEF Lives
<1>2. IsFiniteSet(Lives)
  BY <1>1, FS_Subset, DesktopAssumption
<1> QED
  BY <1>2, FS_CardinalityType

\* Each reference that there is has been counted.
LEMMA Referred ==
    ASSUME Shapes, CountsRight, NEW o \in Objects
    PROVE  /\ device[o].refcount \in Nat
           /\ device[o].refcount >= held.device[o] + One(o \in Listed) + One(EnumsOf(o) # {})
                                   + One(SessionsOf(o) # {}) + One(Ends(o))
<1>1. held.device[o] \in Nat
  BY DEF Shapes, HeldShape
<1>2. /\ Cardinality(EnumsOf(o)) \in Nat /\ Cardinality(SessionsOf(o)) \in Nat
      /\ Cardinality(EnumsOf(o)) >= One(EnumsOf(o) # {})
      /\ Cardinality(SessionsOf(o)) >= One(SessionsOf(o) # {})
  BY FiniteParts, FS_EmptySet DEF One
<1>3. device[o].refcount = held.device[o] + One(o \in Listed) + Cardinality(EnumsOf(o))
                           + Cardinality(SessionsOf(o)) + One(Ends(o))
  BY HoldersSum DEF CountsRight
<1>4. \A p \in BOOLEAN : One(p) \in {0, 1}
  BY DEF One
<1>5. One(o \in Listed) \in Nat /\ One(Ends(o)) \in Nat /\ One(EnumsOf(o) # {}) \in Nat
      /\ One(SessionsOf(o) # {}) \in Nat
  BY DEF One
<1> QED
  BY <1>1, <1>2, <1>3, <1>5

\* So that what is listed, or in an enumerator, or of a session, lives.
LEMMA ReferredLive ==
    ASSUME Shapes, CountsRight
    PROVE  /\ \A o \in Objects : device[o].refcount \in Nat
           /\ \A o \in Objects :
                 \/ held.device[o] > 0 \/ o \in Listed \/ Ends(o)
                 \/ \E e \in Enums : o \in ToSet(enum[e].devices)
                 \/ \E s \in Sessions : session[s].refcount > 0 /\ session[s].device = o
                 => Live(o)
           /\ Listed \subseteq Lives
<1>1. Listed \subseteq Objects
  <2>1. \A i \in DOMAIN desktop.devices : desktop.devices[i] \in Objects
    BY DEF Shapes, DesktopShape
  <2> QED
    BY <2>1 DEF Listed, ToSet
<1>2. ASSUME NEW o \in Objects PROVE device[o].refcount \in Nat
  BY <1>2, Referred
<1>3. ASSUME NEW o \in Objects,
             \/ held.device[o] > 0 \/ o \in Listed \/ Ends(o)
             \/ \E e \in Enums : o \in ToSet(enum[e].devices)
             \/ \E s \in Sessions : session[s].refcount > 0 /\ session[s].device = o
      PROVE  Live(o)
  <2>1. held.device[o] \in Nat
    BY DEF Shapes, HeldShape
  <2>2. held.device[o] > 0 \/ o \in Listed \/ Ends(o) \/ EnumsOf(o) # {} \/ SessionsOf(o) # {}
    BY <1>3 DEF EnumsOf, SessionsOf
  <2> QED
    BY <2>1, <2>2, Referred DEF One, Live
<1> QED
  BY <1>1, <1>2, <1>3 DEF Lives

----------------------------------------------------------------------------
(* References on the desktop.                                              *)

\* What giving back references makes of the desktop: it stays, with its list
\* and its proxies, or it is gone.
DesktopKept ==
    /\ DOMAIN desktop' = DOMAIN NoDesktop
    /\ desktop'.devices \in Seq(Objects) /\ IsInjective(desktop'.devices)
    /\ desktop'.made = desktop.made
    /\ \/ /\ desktop'.dbus_proxy = desktop.dbus_proxy
          /\ desktop'.handlers \subseteq desktop.handlers
          /\ desktop.dbus_proxy = 0 => desktop'.refcount = 0
       \/ /\ desktop'.dbus_proxy = 0 /\ desktop'.refcount = 0
          /\ desktop'.handlers \subseteq desktop.handlers \ {desktop.dbus_proxy}

\* d is there if the desktop is.
AsPresent(d) == d.exists = desktop.exists

\* One reference less, of an application or a device, on the desktop d that the
\* list of which may just have been shortened.
LEMMA ReleasedDesktop ==
    ASSUME NEW d, DOMAIN d = DOMAIN NoDesktop, d.refcount \in Nat, d.refcount > 0,
           d.devices \in Seq(Objects), IsInjective(d.devices),
           d.refcount = 1 => ToSet(d.devices) = {},
           d.made = desktop.made, AsPresent(d),
           d.dbus_proxy = desktop.dbus_proxy, d.handlers = desktop.handlers,
           desktop.dbus_proxy # 0, Present, desktop' = DesktopRelease(d)
    PROVE  /\ DesktopKept /\ Present' /\ desktop'.refcount = d.refcount - 1
           /\ Listed' = ToSet(d.devices)
<1>1. CASE d.refcount > 1
  <2>1. desktop' = [d EXCEPT !.refcount = d.refcount - 1]
    BY <1>1 DEF DesktopRelease
  <2>2. /\ DOMAIN desktop' = DOMAIN NoDesktop /\ desktop'.refcount = d.refcount - 1
        /\ desktop'.devices = d.devices /\ desktop'.made = d.made
        /\ desktop'.dbus_proxy = d.dbus_proxy /\ desktop'.handlers = d.handlers
    BY <2>1 DEF NoDesktop
  <2>3. desktop'.exists = d.exists
    BY <2>1, Zenon DEF NoDesktop
  <2>4. Present'
    BY <2>2, <2>3, Zenon DEF Present, AsPresent
  <2> QED
    BY <2>2, <2>4 DEF DesktopKept, Listed
<1>2. CASE d.refcount = 1
  <2>1. desktop' = [NoDesktop EXCEPT !.handlers = d.handlers \ {d.dbus_proxy, d.dev_mgr_proxy},
                                     !.made = d.made, !.inits = d.inits]
    BY <1>2 DEF DesktopRelease
  <2>2. /\ DOMAIN desktop' = DOMAIN NoDesktop /\ desktop'.refcount = 0
        /\ desktop'.devices = <<>> /\ desktop'.made = d.made
        /\ desktop'.dbus_proxy = 0
        /\ desktop'.handlers = d.handlers \ {d.dbus_proxy, d.dev_mgr_proxy}
    BY <2>1 DEF NoDesktop
  <2>3. ToSet(<<>>) = {} /\ IsInjective(<<>>) /\ <<>> \in Seq(Objects)
    BY DEF ToSet, IsInjective
  <2>4. desktop'.exists = FALSE
    BY <2>1, Zenon DEF NoDesktop
  <2>5. Present'
    BY <2>2, <2>4, Zenon DEF Present
  <2>6. Listed' = ToSet(d.devices)
    BY <1>2, <2>2, <2>3 DEF Listed
  <2>7. DesktopKept
    BY <2>2, <2>3 DEF DesktopKept
  <2> QED
    BY <1>2, <2>2, <2>5, <2>6, <2>7
<1> QED
  BY <1>1, <1>2

\* The signals that there are: those before, less the first if it was dispatched.
SignalsKept == signals' = signals \/ (signals # <<>> /\ signals' = Tail(signals))

LEMMA SignalsLeft ==
    ASSUME signals \in Seq(Signals), SignalsKept
    PROVE  /\ signals' \in Seq(Signals)
           /\ \A i \in DOMAIN signals' : \E j \in DOMAIN signals : signals'[i] = signals[j]
<1>1. CASE signals' = signals
  BY <1>1
<1>2. CASE signals # <<>> /\ signals' = Tail(signals)
  <2>1. /\ signals' \in Seq(Signals) /\ Len(signals') = Len(signals) - 1
        /\ \A i \in 1..Len(signals') : signals'[i] = signals[i + 1]
    BY <1>2, HeadTailProperties
  <2>2. DOMAIN signals = 1..Len(signals) /\ Len(signals) \in Nat
    OBVIOUS
  <2>3. DOMAIN signals' = 1..Len(signals')
    BY <2>1
  <2> QED
    BY <2>1, <2>2, <2>3
<1> QED
  BY <1>1, <1>2 DEF SignalsKept

\* The proxies and the signals then stay right.
LEMMA ProxiesKept ==
    ASSUME Proxies, DesktopKept,
           SignalsKept,
           \/ doing'.what \in {"nothing", "telling", "removing"}
           \/ desktop'.dbus_proxy # 0
    PROVE  Proxies'
<1>1. signals' \in Seq(Signals) /\ \A i \in DOMAIN signals' : \E j \in DOMAIN signals : signals'[i] = signals[j]
  BY SignalsLeft DEF Proxies
<1>2. ASSUME NEW i \in DOMAIN signals' PROVE Addressed(signals[i])'
  <2>1. PICK j \in DOMAIN signals : signals'[i] = signals[j]
    BY <1>1
  <2>2. desktop.made \in Nat /\ Addressed(signals[j])
    BY DEF Proxies
  <2>3. PICK m : m = signals'[i]
    OBVIOUS
  <2>4. /\ m.to \in 1..desktop.made
        /\ m.name \in {"Online", "Offline"} => m.to = desktop.dbus_proxy \/ m.to \notin desktop.handlers
        /\ m.name \in {"Connected", "Disconnected"} => m.to # desktop.dbus_proxy
    BY <2>1, <2>2, <2>3 DEF Addressed
  <2>5. m.to # 0
    BY <2>2, <2>4
  <2>6. /\ m.to \in 1..desktop'.made
        /\ m.name \in {"Online", "Offline"} => m.to = desktop'.dbus_proxy \/ m.to \notin desktop'.handlers
        /\ m.name \in {"Connected", "Disconnected"} => m.to # desktop'.dbus_proxy
    BY <2>4, <2>5 DEF DesktopKept
  <2> QED
    BY <2>3, <2>6 DEF Addressed
<1>3. /\ desktop.made \in Nat /\ desktop.dbus_proxy \in Nat /\ desktop.dbus_proxy <= desktop.made
      /\ desktop.handlers \subseteq 1..desktop.made
  BY DEF Proxies
<1>4. /\ desktop'.made \in Nat /\ desktop'.dbus_proxy \in Nat
      /\ desktop'.dbus_proxy <= desktop'.made
      /\ desktop'.dbus_proxy = 0 => desktop'.refcount = 0
  BY <1>3 DEF DesktopKept
<1>5. desktop'.handlers \subseteq 1..desktop'.made
  BY <1>3 DEF DesktopKept
<1>6. doing'.what \in {"asking for the owner", "asking for the list", "listing"} =>
            desktop'.dbus_proxy # 0
  OBVIOUS
<1> QED
  BY <1>1, <1>2, <1>4, <1>5, <1>6 DEF Proxies

----------------------------------------------------------------------------
(* References on devices.                                                  *)

LEMMA LivesWithout ==
    ASSUME NEW G \in SUBSET Lives
    PROVE  /\ Cardinality(G) \in Nat /\ Cardinality(G) <= Cardinality(Lives)
           /\ Cardinality(G) = 0 <=> G = {}
           /\ Cardinality(G) = Cardinality(Lives) => G = Lives
           /\ Cardinality(Lives \ G) = Cardinality(Lives) - Cardinality(G)
<1>1. IsFiniteSet(Lives)
  BY FiniteLives
<1>2. /\ IsFiniteSet(G) /\ Cardinality(G) <= Cardinality(Lives)
      /\ Cardinality(G) = Cardinality(Lives) => G = Lives
  BY <1>1, FS_Subset
<1>3. Cardinality(G) \in Nat /\ (Cardinality(G) = 0 <=> G = {})
  BY <1>2, FS_CardinalityType, FS_EmptySet
<1>4. Lives \cap G = G
  OBVIOUS
<1>5. Cardinality(Lives \ G) = Cardinality(Lives) - Cardinality(Lives \cap G)
  BY <1>1, FS_Difference
<1> QED
  BY <1>2, <1>3, <1>4, <1>5

\* The devices of G go, with their references on the desktop; d is the desktop
\* with all but one of these given back.
LEMMA DevicesGone ==
    ASSUME Inv, NEW G \in SUBSET Lives, G # {},
           NEW d, DOMAIN d = DOMAIN NoDesktop,
           d.refcount = desktop.refcount - (Cardinality(G) - 1),
           d.devices \in Seq(Objects), IsInjective(d.devices),
           ToSet(d.devices) \subseteq Lives \ G,
           d.made = desktop.made, AsPresent(d),
           d.dbus_proxy = desktop.dbus_proxy, d.handlers = desktop.handlers,
           desktop' = DesktopRelease(d)
    PROVE  /\ DesktopKept /\ Present' /\ Listed' = ToSet(d.devices)
           /\ desktop'.refcount = desktop.refcount - Cardinality(G)
<1>1. /\ Cardinality(G) \in Nat /\ Cardinality(G) <= Cardinality(Lives) /\ Cardinality(G) # 0
      /\ Cardinality(G) = Cardinality(Lives) => G = Lives
  <2>1. Cardinality(G) \in Nat
    BY LivesWithout
  <2>2. Cardinality(G) <= Cardinality(Lives)
    BY LivesWithout
  <2>3. Cardinality(G) = 0 <=> G = {}
    BY LivesWithout
  <2>4. Cardinality(G) = Cardinality(Lives) => G = Lives
    BY LivesWithout
  <2> QED
    BY <2>1, <2>2, <2>3, <2>4
<1>2. Cardinality(Lives) \in Nat
  BY FiniteLives
<1>3. held.desktop \in Nat /\ desktop.refcount = held.desktop + Cardinality(Lives)
  BY DEF Inv, Shapes, HeldShape, CountsRight
<1>4. desktop.dbus_proxy # 0
  <2>1. desktop.refcount # 0
    BY <1>1, <1>2, <1>3
  <2>2. desktop.dbus_proxy = 0 => desktop.refcount = 0
    BY Zenon DEF Inv, Proxies
  <2> QED
    BY <2>1, <2>2
<1>5. d.refcount \in Nat /\ d.refcount > 0
  BY <1>1, <1>2, <1>3
<1>6. d.refcount = 1 => ToSet(d.devices) = {}
  BY <1>1, <1>2, <1>3
<1>7. Present
  BY DEF Inv
<1>8. /\ DesktopKept /\ Present' /\ desktop'.refcount = d.refcount - 1
      /\ Listed' = ToSet(d.devices)
  BY <1>4, <1>5, <1>6, <1>7, ReleasedDesktop
<1>9. desktop'.refcount = desktop.refcount - Cardinality(G)
  BY <1>1, <1>2, <1>3, <1>8
<1> QED
  BY <1>8, <1>9, Zenon

\* One reference on each device of S was given back.
Given(S) ==
    /\ DOMAIN device' = Objects
    /\ \A x \in Objects : DOMAIN device'[x] = DOMAIN Free
    /\ \A x \in Objects : device'[x].refcount = device[x].refcount - One(x \in S)
    /\ \A x \in Objects :
          \/ device'[x].info = device[x].info /\ device'[x].status = device[x].status
          \/ device'[x].refcount = 0 /\ device'[x].status = "none"
    /\ DesktopKept /\ Present' /\ Listed' = Listed
    /\ desktop'.refcount = held.desktop + Cardinality(Lives')

LEMMA DevicesGiven ==
    ASSUME Inv, NEW S \in SUBSET Lives,
           \A x \in S \cap Listed : device[x].refcount > 1,
           DOMAIN device' = Objects,
           \A x \in Objects : device'[x] =
                IF x \notin S THEN device[x]
                ELSE IF device[x].refcount = 1 THEN Free
                ELSE [device[x] EXCEPT !.refcount = @ - 1],
           NEW G, G = {x \in S : device[x].refcount = 1},
           G = {} => desktop' = desktop,
           NEW d, G # {} =>
              /\ DOMAIN d = DOMAIN NoDesktop
              /\ d.refcount = desktop.refcount - (Cardinality(G) - 1)
              /\ d.devices = desktop.devices
              /\ d.made = desktop.made /\ AsPresent(d)
              /\ d.dbus_proxy = desktop.dbus_proxy /\ d.handlers = desktop.handlers
              /\ desktop' = DesktopRelease(d)
    PROVE  Given(S)
<1>1. /\ Shapes /\ CountsRight /\ Proxies /\ Present
      /\ \A x \in Objects : device[x].refcount \in Nat
      /\ Listed \subseteq Lives
  BY ReferredLive DEF Inv
<1>2. S \subseteq Objects /\ \A x \in S : device[x].refcount > 0
  BY DEF Lives, Live
<1>3. \A x \in Objects : DOMAIN device[x] = DOMAIN Free
  BY <1>1 DEF Shapes, DeviceShape
<1>4. \A x \in Objects : DOMAIN device'[x] = DOMAIN Free
  BY <1>3 DEF Free
<1>5. \A x \in Objects : device'[x].refcount = device[x].refcount - One(x \in S)
  BY <1>1, <1>2, <1>3 DEF Free, One
<1>6. \A x \in Objects :
          \/ device'[x].info = device[x].info /\ device'[x].status = device[x].status
          \/ device'[x].refcount = 0 /\ device'[x].status = "none"
  BY <1>3 DEF Free
<1>7. Lives' = Lives \ G
  BY <1>1, <1>2, <1>5 DEF Lives, Live, One
<1>8. G \in SUBSET Lives
  OBVIOUS
<1>9. /\ Cardinality(Lives \ G) = Cardinality(Lives) - Cardinality(G)
      /\ Cardinality(G) \in Nat /\ Cardinality(Lives) \in Nat
      /\ Cardinality(G) = 0 <=> G = {}
  BY <1>8, LivesWithout, FiniteLives
<1>10. /\ held.desktop \in Nat /\ desktop.refcount = held.desktop + Cardinality(Lives)
       /\ desktop.devices \in Seq(Objects) /\ IsInjective(desktop.devices)
       /\ DOMAIN desktop = DOMAIN NoDesktop
       /\ desktop.dbus_proxy = 0 => desktop.refcount = 0
  BY <1>1 DEF Shapes, HeldShape, DesktopShape, CountsRight, Proxies
<1>11. /\ DesktopKept /\ Present' /\ Listed' = Listed
       /\ desktop'.refcount = desktop.refcount - Cardinality(G)
  <2>1. CASE G = {}
    <3>1. desktop' = desktop
      BY <2>1
    <3>2. Present'
      BY <1>1, <3>1 DEF Present
    <3>3. Listed' = Listed
      BY <3>1 DEF Listed
    <3>4. DesktopKept
      BY <1>10, <3>1 DEF DesktopKept
    <3> QED
      BY <1>9, <1>10, <2>1, <3>1, <3>2, <3>3, <3>4
  <2>2. CASE G # {}
    <3>1. ToSet(d.devices) = Listed
      BY <2>2 DEF Listed
    <3>2. ToSet(d.devices) \subseteq Lives \ G
      BY <1>1, <3>1
    <3>3. AsPresent(d)
      BY <2>2, Zenon
    <3>4. d.devices \in Seq(Objects) /\ IsInjective(d.devices)
      BY <1>10, <2>2
    <3>5. /\ DOMAIN d = DOMAIN NoDesktop /\ d.refcount = desktop.refcount - (Cardinality(G) - 1)
          /\ d.made = desktop.made /\ d.dbus_proxy = desktop.dbus_proxy
          /\ d.handlers = desktop.handlers /\ desktop' = DesktopRelease(d)
      BY <2>2
    <3> QED
      BY <1>8, <2>2, <3>1, <3>2, <3>3, <3>4, <3>5, DevicesGone
  <2> QED
    BY <2>1, <2>2
<1>12. desktop'.refcount = held.desktop + Cardinality(Lives')
  BY <1>7, <1>9, <1>10, <1>11
<1> QED
  BY <1>4, <1>5, <1>6, <1>11, <1>12 DEF Given

LEMMA DeviceGiven ==
    ASSUME Inv, NEW o \in Objects, Live(o), o \in Listed => device[o].refcount > 1,
           DeviceRelease(o)
    PROVE  Given({o})
<1> DEFINE G == {x \in {o} : device[x].refcount = 1}
<1>1. /\ \A x \in Objects : device[x].refcount \in Nat
      /\ DOMAIN device = Objects /\ DOMAIN desktop = DOMAIN NoDesktop
  BY ReferredLive DEF Inv, Shapes, DeviceShape, DesktopShape
<1>2. device[o].refcount > 0
  BY DEF Live
<1>3. {o} \in SUBSET Lives
  BY DEF Lives
<1>4. DOMAIN device' = Objects
  BY <1>1 DEF DeviceRelease
<1>5. \A x \in Objects : device'[x] =
                IF x \notin {o} THEN device[x]
                ELSE IF device[x].refcount = 1 THEN Free
                ELSE [device[x] EXCEPT !.refcount = @ - 1]
  BY <1>1, <1>2 DEF DeviceRelease
<1>6. G = {} => desktop' = desktop
  BY <1>1, <1>2 DEF DeviceRelease
<1>7. CASE G # {}
  <2>1. G = {o} /\ device[o].refcount = 1
    BY <1>7
  <2>2. Cardinality(G) = 1
    BY <2>1, FS_Singleton
  <2>3. desktop.refcount = desktop.refcount - (Cardinality(G) - 1)
    <3>1. desktop.refcount \in Int
      BY FiniteLives DEF Inv, Shapes, HeldShape, CountsRight
    <3> QED
      BY <2>2, <3>1
  <2>4. desktop' = DesktopRelease(desktop) /\ AsPresent(desktop)
    BY <2>1 DEF DeviceRelease, AsPresent
  <2> HIDE DEF G
  <2>5. G = {x \in {o} : device[x].refcount = 1}
    BY DEF G
  <2> QED
    BY <1>1, <1>3, <1>4, <1>5, <1>6, <1>7, <2>3, <2>4, <2>5, DevicesGiven
<1>8. CASE G = {}
  <2> HIDE DEF G
  <2>1. G = {x \in {o} : device[x].refcount = 1}
    BY DEF G
  <2>2. \A x \in {o} \cap Listed : device[x].refcount > 1
    OBVIOUS
  <2> QED
    BY <1>3, <1>4, <1>5, <1>6, <1>8, <2>1, <2>2, DevicesGiven
<1> QED
  BY <1>7, <1>8

LEMMA SequenceGiven ==
    ASSUME Inv, NEW os, ToSet(os) \subseteq Lives,
           \A x \in ToSet(os) \cap Listed : device[x].refcount > 1,
           Releases(os)
    PROVE  Given(ToSet(os))
<1> DEFINE S == ToSet(os)
           G == {x \in S : device[x].refcount = 1}
           d == [desktop EXCEPT !.refcount = @ - (Cardinality(G) - 1)]
<1>1. DOMAIN device' = Objects
  BY DEF Releases
<1>2. \A x \in Objects : device'[x] =
                IF x \notin S THEN device[x]
                ELSE IF device[x].refcount = 1 THEN Free
                ELSE [device[x] EXCEPT !.refcount = @ - 1]
  BY DEF Releases
<1>3. desktop' = IF Cardinality(G) = 0 THEN desktop ELSE DesktopRelease(d)
  BY DEF Releases
<1>4. DOMAIN desktop = DOMAIN NoDesktop
  BY DEF Inv, Shapes, DesktopShape
<1>5. AsPresent(d)
  BY <1>4, Zenon DEF NoDesktop, AsPresent
<1>6. /\ DOMAIN d = DOMAIN NoDesktop
      /\ d.refcount = desktop.refcount - (Cardinality(G) - 1)
      /\ d.devices = desktop.devices /\ d.made = desktop.made
      /\ d.dbus_proxy = desktop.dbus_proxy /\ d.handlers = desktop.handlers
  BY <1>4 DEF NoDesktop
<1> HIDE DEF d
<1>7. S \in SUBSET Lives /\ G \in SUBSET Lives
  OBVIOUS
<1>8. Cardinality(G) = 0 <=> G = {}
  BY <1>7, LivesWithout
<1>9. G = {} => desktop' = desktop
  BY <1>3, <1>8
<1>10. G # {} =>
              /\ DOMAIN d = DOMAIN NoDesktop
              /\ d.refcount = desktop.refcount - (Cardinality(G) - 1)
              /\ d.devices = desktop.devices
              /\ d.made = desktop.made /\ AsPresent(d)
              /\ d.dbus_proxy = desktop.dbus_proxy /\ d.handlers = desktop.handlers
              /\ desktop' = DesktopRelease(d)
  <2>1. G # {} => desktop' = DesktopRelease(d)
    BY <1>3, <1>8
  <2> QED
    BY <1>5, <1>6, <2>1, Zenon
<1>11. G = {x \in S : device[x].refcount = 1} /\ \A x \in S \cap Listed : device[x].refcount > 1
  OBVIOUS
<1> HIDE DEF S, G
<1>12. Given(S)
  BY <1>1, <1>2, <1>7, <1>9, <1>10, <1>11, DevicesGiven
<1> QED
  BY <1>12 DEF S

----------------------------------------------------------------------------
(* The counts after a step.                                                *)

\* All that refers to device x, but for the application.
OthersOf(x) ==
    One(x \in Listed) + Cardinality(EnumsOf(x)) + Cardinality(SessionsOf(x)) + One(Ends(x))

LEMMA OthersAreNumbers ==
    ASSUME NEW x \in Objects
    PROVE  OthersOf(x) \in Nat /\ OthersOf(x)' \in Nat
<1>1. One(x \in Listed) \in Nat /\ One(Ends(x)) \in Nat
      /\ One(x \in Listed') \in Nat /\ One(Ends(x)') \in Nat
  BY DEF One
<1>2. Cardinality(EnumsOf(x)) \in Nat /\ Cardinality(SessionsOf(x)) \in Nat
  BY FiniteParts
<1>3. EnumsOf(x)' \in SUBSET Enums /\ SessionsOf(x)' \in SUBSET Sessions
  BY DEF EnumsOf, SessionsOf
<1>4. Cardinality(EnumsOf(x)') \in Nat /\ Cardinality(SessionsOf(x)') \in Nat
  BY <1>3, FS_Subset, FS_CardinalityType, DesktopAssumption
<1> QED
  BY <1>1, <1>2, <1>4 DEF OthersOf

\* Counts that were right stay right when they change as the holders do.
LEMMA CountsFollow ==
    ASSUME Shapes, CountsRight,
           \A x \in Objects : held'.device[x] \in Nat,
           \A x \in Objects : device'[x].refcount = device[x].refcount
                + (held'.device[x] - held.device[x]) + (OthersOf(x)' - OthersOf(x)),
           desktop'.refcount = held'.desktop + Cardinality(Lives')
    PROVE  CountsRight'
<1>1. ASSUME NEW x \in Objects PROVE device'[x].refcount = Holders(x)'
  <2>1. device[x].refcount = held.device[x] + OthersOf(x) /\ held.device[x] \in Nat
    <3>1. held.device[x] \in Nat
      BY DEF Shapes, HeldShape
    <3>2. Holders(x) = held.device[x] + OthersOf(x)
      <4>1. Cardinality(EnumsOf(x)) \in Nat /\ Cardinality(SessionsOf(x)) \in Nat
            /\ One(x \in Listed) \in Nat /\ One(Ends(x)) \in Nat
        BY FiniteParts DEF One
      <4> QED
        BY <3>1, <4>1, HoldersSum DEF OthersOf
    <3> QED
      BY <3>1, <3>2 DEF CountsRight
  <2>2. Holders(x)' = held'.device[x] + OthersOf(x)'
    <3>1. EnumsOf(x)' \in SUBSET Enums /\ SessionsOf(x)' \in SUBSET Sessions
      BY DEF EnumsOf, SessionsOf
    <3>2. Cardinality(EnumsOf(x)') \in Nat /\ Cardinality(SessionsOf(x)') \in Nat
      BY <3>1, FS_Subset, FS_CardinalityType, DesktopAssumption
    <3>3. One(x \in Listed') \in Nat /\ One(Ends(x)') \in Nat
      BY DEF One
    <3> QED
      BY <3>2, <3>3, HoldersSum DEF OthersOf
  <2>3. OthersOf(x) \in Nat /\ OthersOf(x)' \in Nat
    BY OthersAreNumbers
  <2>4. held'.device[x] \in Nat
    OBVIOUS
  <2>5. device'[x].refcount = device[x].refcount
                + (held'.device[x] - held.device[x]) + (OthersOf(x)' - OthersOf(x))
    OBVIOUS
  <2> QED
    BY <2>1, <2>2, <2>3, <2>4, <2>5
<1> QED
  BY <1>1 DEF CountsRight

\* The thread does not change what it is telling of.
SameTopic ==
    /\ doing'.what = doing.what /\ doing'.object = doing.object
    /\ DOMAIN doing' = DOMAIN Idle
    /\ doing.what \in {"nothing", "telling"}

LEMMA RunningKeepsTopic ==
    ASSUME Inv, Running, doing' = doing
    PROVE  SameTopic
  BY DEF Inv, Shapes, DoingShape, Running, Doing, SameTopic

\* What the thread tells of lives until it was told.
LEMMA TopicLives ==
    ASSUME Inv, Doing("telling")
    PROVE  /\ doing.object \in Objects /\ Live(doing.object)
           /\ doing.object \in Listed <=> device[doing.object].status # "disconnected"
           /\ Ends(doing.object) <=> device[doing.object].status = "disconnected"
<1>1. /\ doing.object \in Objects
      /\ doing.object \in Listed \/ device[doing.object].status = "disconnected"
      /\ doing.object \in Listed => device[doing.object].status = "connected"
  BY DEF Inv, Roles
<1>2. Ends(doing.object) <=> device[doing.object].status = "disconnected"
  BY <1>1 DEF Ends
<1>3. Shapes /\ CountsRight
  BY DEF Inv
<1> QED
  BY <1>1, <1>2, <1>3, ReferredLive

LEMMA Untouched ==
    ASSUME Inv, UNCHANGED <<desktop, device, enum, session, doing, held, signals>>
    PROVE  Inv'
<1>1. Shapes' /\ Roles'
  BY DEF Inv, Shapes, DesktopShape, DeviceShape, EnumShape, SessionShape, HeldShape, DoingShape,
     Roles, Listed, Doing
<1>2. CountsRight'
  BY DEF Inv, CountsRight, Holders, Count, Lives, Live, Listed, Doing
<1>3. Proxies' /\ Present'
  BY DEF Inv, Proxies, Addressed, Present
<1> QED
  BY <1>1, <1>2, <1>3 DEF Inv

----------------------------------------------------------------------------
(* The application, and a sink, take a reference on a device.              *)

LEMMA ReferenceTaken ==
    ASSUME Inv, NEW o \in Objects, Live(o), SameTopic,
           device' = [device EXCEPT ![o].refcount = @ + 1],
           held' = [held EXCEPT !.device[o] = @ + 1],
           UNCHANGED <<desktop, enum, session, signals>>
    PROVE  Inv'
<1>1. Shapes /\ CountsRight /\ Proxies /\ Roles /\ Present
  BY DEF Inv
<1>2. /\ DOMAIN device = Objects /\ \A x \in Objects : DOMAIN device[x] = DOMAIN Free
      /\ DOMAIN held = {"desktop", "device"}
      /\ held.desktop \in Nat /\ held.device \in [Objects -> Nat]
  BY <1>1 DEF Shapes, DeviceShape, HeldShape
<1>3. \A x \in Objects : device[x].refcount \in Nat
  BY <1>1, ReferredLive
<1>4. /\ DOMAIN device' = Objects /\ \A x \in Objects : DOMAIN device'[x] = DOMAIN Free
      /\ \A x \in Objects :
            /\ device'[x].refcount = device[x].refcount + One(x = o)
            /\ device'[x].status = device[x].status /\ device'[x].info = device[x].info
  BY <1>2, <1>3 DEF Free, One
<1>5. /\ DOMAIN held' = {"desktop", "device"} /\ held'.desktop = held.desktop
      /\ held'.device \in [Objects -> Nat]
      /\ \A x \in Objects : held'.device[x] = held.device[x] + One(x = o)
  BY <1>2 DEF One
<1>6. Shapes'
  BY <1>1, <1>2, <1>4, <1>5 DEF Shapes, DesktopShape, DeviceShape, EnumShape, SessionShape,
     HeldShape, DoingShape, SameTopic
<1>7. ASSUME NEW x \in Objects PROVE OthersOf(x)' = OthersOf(x)
  <2>1. EnumsOf(x)' = EnumsOf(x) /\ SessionsOf(x)' = SessionsOf(x) /\ Listed' = Listed
    BY DEF EnumsOf, SessionsOf, Listed
  <2>2. Ends(x)' <=> Ends(x)
    BY <1>4, <2>1 DEF Ends, Doing, SameTopic
  <2> QED
    BY <2>1, <2>2 DEF OthersOf, One
<1>8. CountsRight'
  <2>1. Lives' = Lives
    BY <1>3, <1>4 DEF Lives, Live, One
  <2>2. desktop'.refcount = held'.desktop + Cardinality(Lives')
    BY <1>1, <1>5, <2>1 DEF CountsRight
  <2>3. ASSUME NEW x \in Objects
        PROVE  device'[x].refcount = device[x].refcount
                + (held'.device[x] - held.device[x]) + (OthersOf(x)' - OthersOf(x))
    <3>1. held.device[x] \in Nat /\ OthersOf(x) \in Nat /\ One(x = o) \in Nat
      BY <1>2, OthersAreNumbers DEF One
    <3> QED
      BY <1>3, <1>4, <1>5, <1>7, <3>1
  <2>4. \A x \in Objects : held'.device[x] \in Nat
    BY <1>5
  <2> QED
    BY <1>1, <2>2, <2>3, <2>4, CountsFollow
<1>9. Roles'
  <2>1. \A s \in Sessions : session[s].refcount > 0 => session[s].device \in Objects
    BY <1>1 DEF Shapes, SessionShape
  <2> QED
    BY <1>1, <1>4, <2>1 DEF Roles, Listed, Doing, SameTopic
<1>10. Proxies' /\ Present'
  BY <1>1 DEF Proxies, Addressed, Present, SameTopic
<1> QED
  BY <1>6, <1>8, <1>9, <1>10 DEF Inv

LEMMA TellSinkKeeps ==
    ASSUME Inv, NEW n, TellSink(n) PROVE Inv'
<1>1. Doing("telling") /\ doing.object \in Objects /\ Live(doing.object)
  BY TopicLives DEF TellSink
<1>2. SameTopic
  BY <1>1 DEF TellSink, SameTopic, Doing, Inv, Shapes, DoingShape, Idle
<1>3. PICK o \in Objects : o = doing.object
  BY <1>1
<1> QED
  BY <1>1, <1>2, <1>3, ReferenceTaken DEF TellSink

Below == {ss \in Nat \X Nat : ss[1] < ss[2]}

\* The first place of a sequence that passes a test.
LEMMA FirstPlace ==
    ASSUME NEW n \in Nat, NEW I \in SUBSET (1..n)
    PROVE  LET first == IF I # {} THEN Min(I) ELSE 0 IN
           /\ first \in I \/ (first = 0 /\ I = {})
           /\ \A i \in I : first <= i
<1>1. CASE I # {}
  <2>1. IsWellFoundedOn(Below, Nat)
    BY NatLessThanWellFounded, Zenon DEF OpToRel, Below
  <2>2. I \subseteq Nat
    OBVIOUS
  <2>3. PICK i \in I : \A j \in I : <<j, i>> \notin Below
    BY <1>1, <2>1, <2>2, WFMin
  <2>4. \A j \in I : i <= j
    <3>1. \A a, b \in Nat : a < b => <<a, b>> \in Below
      <4> TAKE a, b \in Nat
      <4>1. PICK ss : ss = <<a, b>>
        OBVIOUS
      <4>2. ss \in Nat \X Nat /\ ss[1] = a /\ ss[2] = b
        BY <4>1
      <4> QED
        BY <4>1, <4>2 DEF Below
    <3>2. \A j \in I : ~(j < i)
      BY <2>2, <2>3, <3>1, Zenon
    <3> QED
      BY <2>2, <3>2
  <2>5. Min(I) \in I /\ \A j \in I : Min(I) <= j
    BY <2>4 DEF Min
  <2> QED
    BY <1>1, <2>5
<1>2. CASE I = {}
  BY <1>2
<1> QED
  BY <1>1, <1>2

LEMMA FindDeviceKeeps ==
    ASSUME Inv, broken = "no", NEW p, FindDevice(p) PROVE Inv'
<1> DEFINE I == {i \in 1..Len(desktop.devices) : device[desktop.devices[i]].info \in {p, None}}
           first == IF I # {} THEN Min(I) ELSE 0
           o == desktop.devices[first]
<1>1. /\ first = SelectInSeq(desktop.devices, LAMBDA x : device[x].info \in {p, None})
  BY DEF SelectInSeq
<1>2. desktop.devices \in Seq(Objects)
  BY DEF Inv, Shapes, DesktopShape
<1>3. Len(desktop.devices) \in Nat /\ I \in SUBSET (1..Len(desktop.devices))
  BY <1>2
<1>4. first \in I \/ first = 0
  BY <1>3, FirstPlace
<1>5. first # 0
  BY <1>1 DEF FindDevice
<1>6. first \in 1..Len(desktop.devices)
  BY <1>3, <1>4, <1>5
<1>7. o \in Objects /\ o \in Listed
  <2> HIDE DEF first
  <2>1. first \in DOMAIN desktop.devices
    BY <1>2, <1>6
  <2> QED
    BY <1>2, <2>1 DEF Listed, ToSet
<1>8. Live(o)
  BY <1>7, ReferredLive DEF Inv
<1>9. SameTopic
  BY RunningKeepsTopic DEF FindDevice
<1>10. CASE device[o].info = None
  <2>1. UNCHANGED <<desktop, device, enum, session, doing, held, signals>>
    BY <1>1, <1>10 DEF FindDevice
  <2> QED
    BY <2>1, Untouched
<1>11. CASE device[o].info # None
  <2>1. /\ device' = [device EXCEPT ![o].refcount = @ + 1]
        /\ held' = [held EXCEPT !.device[o] = @ + 1]
        /\ UNCHANGED <<desktop, enum, session, signals>>
    BY <1>1, <1>11 DEF FindDevice
  <2> HIDE DEF o
  <2> QED
    BY <1>7, <1>8, <1>9, <2>1, ReferenceTaken
<1> QED
  BY <1>10, <1>11

\* What the application reaches, lives.
LEMMA ReachableLives ==
    ASSUME Inv, NEW o \in Objects, Reachable(o) PROVE Live(o)
  BY ReferredLive DEF Inv, Reachable

LEMMA DeviceAddRefKeeps ==
    ASSUME Inv, NEW o \in Objects, DeviceAddRef(o) PROVE Inv'
<1>1. Live(o)
  BY ReachableLives DEF DeviceAddRef
<1>2. SameTopic
  BY RunningKeepsTopic DEF DeviceAddRef
<1> QED
  BY <1>1, <1>2, ReferenceTaken DEF DeviceAddRef

LEMMA SessionGetDeviceKeeps ==
    ASSUME Inv, NEW s \in Sessions, SessionGetDevice(s) PROVE Inv'
<1>1. PICK o \in Objects : o = session[s].device
  BY DEF Inv, Shapes, SessionShape, SessionGetDevice
<1>2. Live(o)
  BY <1>1, ReferredLive DEF Inv, SessionGetDevice
<1>3. SameTopic
  BY RunningKeepsTopic DEF SessionGetDevice
<1>4. /\ device' = [device EXCEPT ![o].refcount = @ + 1]
      /\ held' = [held EXCEPT !.device[o] = @ + 1]
      /\ UNCHANGED <<desktop, enum, session, signals>>
  BY <1>1 DEF SessionGetDevice
<1> QED
  BY <1>2, <1>3, <1>4, ReferenceTaken

----------------------------------------------------------------------------
(* Sessions.                                                               *)

LEMMA CreateSessionKeeps ==
    ASSUME Inv, NEW s \in Sessions, NEW o \in Objects, CreateSession(s, o) PROVE Inv'
<1>1. Shapes /\ CountsRight /\ Proxies /\ Roles /\ Present /\ Live(o)
  BY ReachableLives DEF Inv, CreateSession
<1>2. SameTopic
  BY RunningKeepsTopic DEF CreateSession
<1>3. /\ DOMAIN device = Objects /\ \A x \in Objects : DOMAIN device[x] = DOMAIN Free
      /\ \A x \in Objects : device[x].refcount \in Nat
      /\ DOMAIN session = Sessions /\ held.device \in [Objects -> Nat]
      /\ \A t \in Sessions : /\ DOMAIN session[t] = DOMAIN NoSession
                             /\ session[t].refcount \in {0, 1}
                             /\ session[t].refcount > 0 => session[t].device \in Objects
  BY <1>1, ReferredLive DEF Shapes, DeviceShape, SessionShape, HeldShape
<1>4. /\ device' = [device EXCEPT ![o].refcount = @ + 1]
      /\ session' = [session EXCEPT ![s] = [refcount |-> 1, device |-> o,
                                            info |-> device[o].info, with |-> None]]
      /\ session[s].refcount = 0
      /\ UNCHANGED <<signals, desktop, enum, doing, held>>
  BY DEF CreateSession
<1>5. /\ DOMAIN device' = Objects /\ \A x \in Objects : DOMAIN device'[x] = DOMAIN Free
      /\ \A x \in Objects :
            /\ device'[x].refcount = device[x].refcount + One(x = o)
            /\ device'[x].status = device[x].status /\ device'[x].info = device[x].info
  BY <1>3, <1>4 DEF Free, One
<1>6. /\ DOMAIN session' = Sessions
      /\ \A t \in Sessions : t # s => session'[t] = session[t]
      /\ session'[s].refcount = 1 /\ session'[s].device = o
      /\ session'[s].info = device[o].info /\ DOMAIN session'[s] = DOMAIN NoSession
  BY <1>3, <1>4 DEF NoSession
<1>7. Shapes'
  <2>1. SessionShape'
    BY <1>3, <1>6 DEF SessionShape
  <2> QED
    BY <1>1, <1>4, <1>5, <2>1 DEF Shapes, DesktopShape, DeviceShape, EnumShape, HeldShape, DoingShape
<1>8. ASSUME NEW x \in Objects PROVE OthersOf(x)' = OthersOf(x) + One(x = o)
  <2>1. EnumsOf(x)' = EnumsOf(x) /\ Listed' = Listed
    BY <1>4 DEF EnumsOf, Listed
  <2>2. Ends(x)' <=> Ends(x)
    BY <1>4, <1>5, <2>1 DEF Ends, Doing
  <2>3. SessionsOf(x)' = IF x = o THEN SessionsOf(x) \cup {s} ELSE SessionsOf(x)
    BY <1>3, <1>4, <1>6 DEF SessionsOf
  <2>4. s \notin SessionsOf(x)
    BY <1>4 DEF SessionsOf
  <2>5. Cardinality(SessionsOf(x)') = Cardinality(SessionsOf(x)) + One(x = o)
    <3>1. IsFiniteSet(SessionsOf(x)) /\ Cardinality(SessionsOf(x)) \in Nat
      BY FiniteParts
    <3>2. Cardinality(SessionsOf(x) \cup {s}) = Cardinality(SessionsOf(x)) + 1
      BY <2>4, <3>1, FS_AddElement
    <3> QED
      BY <2>3, <3>1, <3>2 DEF One
  <2>6. Cardinality(SessionsOf(x)) \in Nat /\ Cardinality(EnumsOf(x)) \in Nat /\ One(x = o) \in Nat
        /\ One(x \in Listed) \in Nat /\ One(Ends(x)) \in Nat
    BY FiniteParts DEF One
  <2>7. One(Ends(x)') = One(Ends(x)) /\ One(x \in Listed') = One(x \in Listed)
    BY <2>1, <2>2 DEF One
  <2> QED
    BY <2>1, <2>5, <2>6, <2>7 DEF OthersOf
<1>9. CountsRight'
  <2>1. Lives' = Lives
    BY <1>1, <1>3, <1>5 DEF Lives, Live, One
  <2>2. desktop'.refcount = held'.desktop + Cardinality(Lives')
    BY <1>1, <1>4, <2>1 DEF CountsRight
  <2>3. ASSUME NEW x \in Objects
        PROVE  device'[x].refcount = device[x].refcount
                + (held'.device[x] - held.device[x]) + (OthersOf(x)' - OthersOf(x))
    <3>1. held.device[x] \in Nat /\ OthersOf(x) \in Nat /\ One(x = o) \in Nat
      BY <1>3, OthersAreNumbers DEF One
    <3> QED
      BY <1>3, <1>4, <1>5, <1>8, <3>1
  <2>4. \A x \in Objects : held'.device[x] \in Nat
    BY <1>3, <1>4
  <2> QED
    BY <1>1, <2>2, <2>3, <2>4, CountsFollow
<1>10. Roles'
  <2>1. \A t \in Sessions :
          session'[t].refcount > 0 => session'[t].info = device'[session'[t].device].info
    BY <1>1, <1>3, <1>5, <1>6 DEF Roles
  <2> QED
    BY <1>1, <1>4, <1>5, <2>1 DEF Roles, Listed, Doing
<1>11. Proxies' /\ Present'
  BY <1>1, <1>4 DEF Proxies, Addressed, Present
<1> QED
  BY <1>7, <1>9, <1>10, <1>11 DEF Inv

\* A session that connects or disconnects keeps what is counted.
LEMMA SessionConnects ==
    ASSUME Inv, NEW s \in Sessions, SessionInit(s) \/ SessionUninit(s) PROVE Inv'
<1>1. PICK p : session' = [session EXCEPT ![s].with = p]
  BY DEF SessionInit, SessionUninit
<1>2. UNCHANGED <<signals, desktop, device, enum, doing, held>>
  BY DEF SessionInit, SessionUninit
<1>3. Shapes /\ CountsRight /\ Proxies /\ Roles /\ Present
  BY DEF Inv
<1>4. /\ DOMAIN session' = Sessions
      /\ \A t \in Sessions :
            /\ DOMAIN session'[t] = DOMAIN NoSession
            /\ session'[t].refcount = session[t].refcount
            /\ session'[t].device = session[t].device /\ session'[t].info = session[t].info
  BY <1>1, <1>3 DEF Shapes, SessionShape, NoSession
<1>5. Shapes'
  BY <1>2, <1>3, <1>4 DEF Shapes, DesktopShape, DeviceShape, EnumShape, SessionShape,
     HeldShape, DoingShape
<1>6. CountsRight'
  BY <1>2, <1>3, <1>4 DEF CountsRight, Holders, Count, Lives, Live, Listed, Doing
<1>7. Roles'
  BY <1>2, <1>3, <1>4 DEF Roles, Listed, Doing
<1>8. Proxies' /\ Present'
  BY <1>2, <1>3 DEF Proxies, Addressed, Present
<1> QED
  BY <1>5, <1>6, <1>7, <1>8 DEF Inv

----------------------------------------------------------------------------
(* The application gives back references on devices.                       *)

\* What has sessions after a step has not been freed by it.
LEMMA StillReferred ==
    ASSUME SessionShape', HeldShape', CountsRight', NEW o \in Objects, SessionsOf(o)' # {}
    PROVE  device'[o].refcount # 0
<1>1. held'.device[o] \in Nat
  BY DEF HeldShape
<1>2. EnumsOf(o)' \in SUBSET Enums /\ SessionsOf(o)' \in SUBSET Sessions
  BY DEF EnumsOf, SessionsOf
<1>3. IsFiniteSet(EnumsOf(o)') /\ IsFiniteSet(SessionsOf(o)')
  BY <1>2, FS_Subset, DesktopAssumption
<1>4. Cardinality(EnumsOf(o)') \in Nat /\ Cardinality(SessionsOf(o)') \in Nat
      /\ Cardinality(SessionsOf(o)') # 0
  BY <1>3, FS_CardinalityType, FS_EmptySet
<1>5. One(o \in Listed') \in Nat /\ One(Ends(o)') \in Nat
  BY DEF One
<1>6. device'[o].refcount = held'.device[o] + One(o \in Listed') + Cardinality(EnumsOf(o)')
                           + Cardinality(SessionsOf(o)') + One(Ends(o)')
  BY HoldersSum DEF CountsRight
<1> QED
  BY <1>1, <1>4, <1>5, <1>6

LEMMA ReferencesGiven ==
    ASSUME Inv, NEW S \in SUBSET Objects, Given(S), SameTopic, signals' = signals,
           \A x \in S : device[x].refcount > One(x \in Listed) + One(Ends(x)),
           EnumShape', SessionShape', HeldShape', held'.desktop = held.desktop,
           \A x \in Objects :
                (held'.device[x] - held.device[x])
                + (Cardinality(EnumsOf(x)') - Cardinality(EnumsOf(x)))
                + (Cardinality(SessionsOf(x)') - Cardinality(SessionsOf(x))) = 0 - One(x \in S),
           \A t \in Sessions : session'[t].refcount > 0 =>
                /\ session[t].refcount > 0 /\ session'[t].device = session[t].device
                /\ session'[t].info = session[t].info
    PROVE  Inv'
<1>1. /\ Shapes /\ CountsRight /\ Proxies /\ Roles
      /\ \A x \in Objects : device[x].refcount \in Nat
      /\ \A x \in Objects : x \in Listed \/ Ends(x) => device[x].refcount # 0
  BY ReferredLive DEF Inv, Live
<1>2. /\ DOMAIN device' = Objects /\ \A x \in Objects : DOMAIN device'[x] = DOMAIN Free
      /\ \A x \in Objects : device'[x].refcount = device[x].refcount - One(x \in S)
      /\ \A x \in Objects :
            \/ device'[x].info = device[x].info /\ device'[x].status = device[x].status
            \/ device'[x].refcount = 0 /\ device'[x].status = "none"
  BY DEF Given
<1>3. /\ DesktopKept /\ Present' /\ Listed' = Listed
      /\ desktop'.refcount = held.desktop + Cardinality(Lives')
  BY DEF Given
<1>4. /\ DOMAIN desktop' = DOMAIN NoDesktop
      /\ desktop'.devices \in Seq(Objects) /\ IsInjective(desktop'.devices)
  BY <1>3 DEF DesktopKept
<1>5. Shapes'
  BY <1>2, <1>4 DEF Shapes, DesktopShape, DeviceShape, DoingShape, SameTopic
<1>6. ASSUME NEW x \in Objects, x \in Listed \/ Ends(x)
      PROVE  device'[x].refcount # 0 /\ device'[x].status = device[x].status
  <2>1. CASE x \in S
    <3>1. device[x].refcount > 1
      BY <1>1, <1>6, <2>1 DEF One
    <3> QED
      BY <1>1, <1>2, <2>1, <3>1 DEF One
  <2>2. CASE x \notin S
    BY <1>1, <1>2, <1>6, <2>2 DEF One
  <2> QED
    BY <2>1, <2>2
<1>7. \A x \in Objects : Ends(x)' <=> Ends(x)
  <2>1. ASSUME NEW x \in Objects, Ends(x) PROVE Ends(x)'
    BY <1>3, <1>6, <2>1 DEF Ends, Doing, SameTopic
  <2>2. ASSUME NEW x \in Objects, Ends(x)' PROVE Ends(x)
    BY <1>2, <1>3, <2>2 DEF Ends, Doing, SameTopic
  <2> QED
    BY <2>1, <2>2
<1>8. CountsRight'
  <2>1. ASSUME NEW x \in Objects
        PROVE  /\ device'[x].refcount = device[x].refcount
                    + (held'.device[x] - held.device[x]) + (OthersOf(x)' - OthersOf(x))
               /\ held'.device[x] \in Nat
    <3>1. /\ One(x \in Listed') = One(x \in Listed) /\ One(Ends(x)') = One(Ends(x))
          /\ One(x \in Listed) \in Nat /\ One(Ends(x)) \in Nat /\ One(x \in S) \in Nat
      BY <1>3, <1>7 DEF One
    <3>2. EnumsOf(x)' \in SUBSET Enums /\ SessionsOf(x)' \in SUBSET Sessions
      BY DEF EnumsOf, SessionsOf
    <3>3. /\ Cardinality(EnumsOf(x)') \in Nat /\ Cardinality(SessionsOf(x)') \in Nat
          /\ Cardinality(EnumsOf(x)) \in Nat /\ Cardinality(SessionsOf(x)) \in Nat
      BY <3>2, FiniteParts, FS_Subset, FS_CardinalityType, DesktopAssumption
    <3>4. held.device[x] \in Nat /\ held'.device[x] \in Nat
      BY <1>1 DEF Shapes, HeldShape
    <3>5. OthersOf(x)' - OthersOf(x) =
                (Cardinality(EnumsOf(x)') - Cardinality(EnumsOf(x)))
                + (Cardinality(SessionsOf(x)') - Cardinality(SessionsOf(x)))
      BY <3>1, <3>3 DEF OthersOf
    <3>6. device'[x].refcount = device[x].refcount - One(x \in S) /\ device[x].refcount \in Nat
      BY <1>1, <1>2
    <3>7. (held'.device[x] - held.device[x])
                + (Cardinality(EnumsOf(x)') - Cardinality(EnumsOf(x)))
                + (Cardinality(SessionsOf(x)') - Cardinality(SessionsOf(x))) = 0 - One(x \in S)
      OBVIOUS
    <3> QED
      BY <3>1, <3>3, <3>4, <3>5, <3>6, <3>7
  <2>2. desktop'.refcount = held'.desktop + Cardinality(Lives')
    BY <1>3
  <2> QED
    BY <1>1, <2>1, <2>2, CountsFollow
<1>9. Roles'
  <2>1. ASSUME NEW t \in Sessions, session'[t].refcount > 0
        PROVE  session'[t].info = device'[session'[t].device].info
    <3>1. PICK o \in Objects : o = session'[t].device
      BY <2>1 DEF SessionShape
    <3>2. SessionsOf(o)' # {}
      BY <2>1, <3>1 DEF SessionsOf
    <3>3. device'[o].refcount # 0
      BY <1>8, <3>2, StillReferred
    <3>4. session[t].info = device[o].info /\ session'[t].info = session[t].info
      BY <1>1, <2>1, <3>1 DEF Roles
    <3> QED
      BY <1>2, <3>1, <3>3, <3>4
  <2>2. \A o \in Listed' : device'[o].status = "connected"
    <3>1. Listed \subseteq Objects
      BY <1>1, ReferredLive DEF Lives
    <3> QED
      BY <1>1, <1>3, <1>6, <3>1 DEF Roles
  <2>3. Doing("telling")' =>
          /\ doing'.object \in Objects
          /\ doing'.object \in Listed' \/ device'[doing'.object].status = "disconnected"
    <3>1. Doing("telling")' => Doing("telling") /\ doing'.object = doing.object
      BY DEF Doing, SameTopic
    <3>2. Doing("telling") =>
            /\ doing.object \in Objects
            /\ doing.object \in Listed \/ Ends(doing.object)
      BY TopicLives
    <3>3. Doing("telling") => device[doing.object].status = "disconnected" \/ doing.object \in Listed
      BY <1>1 DEF Roles
    <3> QED
      BY <1>3, <1>6, <3>1, <3>2, <3>3
  <2>4. ~Doing("removing")'
    BY DEF Doing, SameTopic
  <2> QED
    BY <2>1, <2>2, <2>3, <2>4 DEF Roles
<1>10. Proxies'
  <2>1. doing'.what \in {"nothing", "telling", "removing"}
    BY DEF SameTopic
  <2> QED
    BY <1>1, <1>3, <2>1, ProxiesKept DEF SignalsKept
<1> QED
  BY <1>3, <1>5, <1>8, <1>9, <1>10 DEF Inv

LEMMA AppDeviceReleaseKeeps ==
    ASSUME Inv, NEW o \in Objects, AppDeviceRelease(o) PROVE Inv'
<1>1. Shapes /\ CountsRight /\ SameTopic
  BY RunningKeepsTopic DEF Inv, AppDeviceRelease
<1>2. /\ DOMAIN held = {"desktop", "device"}
      /\ held.desktop \in Nat /\ held.device \in [Objects -> Nat]
  BY <1>1 DEF Shapes, HeldShape
<1>3. held' = [held EXCEPT !.device[o] = @ - 1] /\ held.device[o] > 0
      /\ DeviceRelease(o) /\ UNCHANGED <<signals, enum, session>>
  BY DEF AppDeviceRelease
<1>4. /\ DOMAIN held' = {"desktop", "device"} /\ held'.desktop = held.desktop
      /\ held'.device \in [Objects -> Nat]
      /\ \A x \in Objects : held'.device[x] = held.device[x] - One(x \in {o})
  BY <1>2, <1>3 DEF One
<1>5. device[o].refcount > One(o \in Listed) + One(Ends(o)) /\ device[o].refcount \in Nat
  <2>1. /\ One(o \in Listed) \in Nat /\ One(Ends(o)) \in Nat
        /\ One(EnumsOf(o) # {}) \in Nat /\ One(SessionsOf(o) # {}) \in Nat
    BY DEF One
  <2>2. /\ device[o].refcount \in Nat
        /\ device[o].refcount >= held.device[o] + One(o \in Listed) + One(EnumsOf(o) # {})
                                   + One(SessionsOf(o) # {}) + One(Ends(o))
    BY <1>1, Referred
  <2>3. held.device[o] \in Nat /\ held.device[o] > 0
    BY <1>2, <1>3
  <2> QED
    BY <2>1, <2>2, <2>3
<1>6. Given({o})
  <2>1. Live(o) /\ (o \in Listed => device[o].refcount > 1)
    BY <1>5 DEF Live, One
  <2> QED
    BY <1>3, <2>1, DeviceGiven
<1>7. EnumShape' /\ SessionShape' /\ HeldShape'
  BY <1>1, <1>2, <1>3, <1>4 DEF Shapes, EnumShape, SessionShape, HeldShape
<1>8. ASSUME NEW x \in Objects
      PROVE  (held'.device[x] - held.device[x])
                + (Cardinality(EnumsOf(x)') - Cardinality(EnumsOf(x)))
                + (Cardinality(SessionsOf(x)') - Cardinality(SessionsOf(x))) = 0 - One(x \in {o})
  <2>1. EnumsOf(x)' = EnumsOf(x) /\ SessionsOf(x)' = SessionsOf(x)
    BY <1>3 DEF EnumsOf, SessionsOf
  <2>2. Cardinality(EnumsOf(x)) \in Nat /\ Cardinality(SessionsOf(x)) \in Nat
    BY FiniteParts
  <2>3. held.device[x] \in Nat /\ One(x \in {o}) \in Nat
    BY <1>2 DEF One
  <2> QED
    BY <1>4, <2>1, <2>2, <2>3
<1>9. \A t \in Sessions : session'[t].refcount > 0 =>
          /\ session[t].refcount > 0 /\ session'[t].device = session[t].device
          /\ session'[t].info = session[t].info
  BY <1>3
<1>10. \A x \in {o} : device[x].refcount > One(x \in Listed) + One(Ends(x))
  BY <1>5
<1> QED
  BY <1>1, <1>3, <1>4, <1>6, <1>7, <1>8, <1>9, <1>10, ReferencesGiven

LEMMA SessionReleaseKeeps ==
    ASSUME Inv, NEW s \in Sessions, SessionRelease(s) PROVE Inv'
<1>1. Shapes /\ CountsRight /\ SameTopic
  BY RunningKeepsTopic DEF Inv, SessionRelease
<1>2. /\ DOMAIN session = Sessions /\ held.device \in [Objects -> Nat]
      /\ \A t \in Sessions : /\ DOMAIN session[t] = DOMAIN NoSession
                             /\ session[t].refcount \in {0, 1}
                             /\ session[t].refcount > 0 => session[t].device \in Objects
  BY <1>1 DEF Shapes, SessionShape, HeldShape
<1>3. PICK o \in Objects : o = session[s].device
  BY <1>2 DEF SessionRelease
<1>4. session' = [session EXCEPT ![s] = NoSession] /\ session[s].refcount > 0
      /\ DeviceRelease(o) /\ UNCHANGED <<signals, enum, held>>
  BY <1>3 DEF SessionRelease
<1>5. /\ DOMAIN session' = Sessions
      /\ \A t \in Sessions : t # s => session'[t] = session[t]
      /\ session'[s] = NoSession
  BY <1>2, <1>4
<1>6. s \in SessionsOf(o)
  BY <1>3, <1>4 DEF SessionsOf
<1>7. device[o].refcount > One(o \in Listed) + One(Ends(o)) /\ device[o].refcount \in Nat
  <2>1. /\ One(o \in Listed) \in Nat /\ One(Ends(o)) \in Nat
        /\ One(EnumsOf(o) # {}) \in Nat /\ One(SessionsOf(o) # {}) = 1
    BY <1>6 DEF One
  <2>2. /\ device[o].refcount \in Nat
        /\ device[o].refcount >= held.device[o] + One(o \in Listed) + One(EnumsOf(o) # {})
                                   + One(SessionsOf(o) # {}) + One(Ends(o))
    BY <1>1, Referred
  <2>3. held.device[o] \in Nat
    BY <1>2
  <2> QED
    BY <2>1, <2>2, <2>3
<1>8. Given({o})
  <2>1. Live(o) /\ (o \in Listed => device[o].refcount > 1)
    BY <1>7 DEF Live, One
  <2> QED
    BY <1>4, <2>1, DeviceGiven
<1>9. EnumShape' /\ SessionShape' /\ HeldShape'
  <2>1. SessionShape'
    BY <1>2, <1>5 DEF SessionShape, NoSession
  <2> QED
    BY <1>1, <1>4, <2>1 DEF Shapes, EnumShape, HeldShape
<1>10. ASSUME NEW x \in Objects
      PROVE  (held'.device[x] - held.device[x])
                + (Cardinality(EnumsOf(x)') - Cardinality(EnumsOf(x)))
                + (Cardinality(SessionsOf(x)') - Cardinality(SessionsOf(x))) = 0 - One(x \in {o})
  <2>1. EnumsOf(x)' = EnumsOf(x)
    BY <1>4 DEF EnumsOf
  <2>2. IsFiniteSet(SessionsOf(x)) /\ Cardinality(EnumsOf(x)) \in Nat
        /\ Cardinality(SessionsOf(x)) \in Nat
    BY FiniteParts
  <2>3. held.device[x] \in Nat /\ held' = held
    BY <1>2, <1>4
  <2>4. SessionsOf(x)' = SessionsOf(x) \ {s}
    BY <1>5 DEF SessionsOf, NoSession
  <2>5. s \in SessionsOf(x) <=> x = o
    BY <1>3, <1>4 DEF SessionsOf
  <2>6. Cardinality(SessionsOf(x) \ {s})
          = IF s \in SessionsOf(x) THEN Cardinality(SessionsOf(x)) - 1 ELSE Cardinality(SessionsOf(x))
    BY <2>2, FS_RemoveElement
  <2>7. One(x \in {o}) = IF s \in SessionsOf(x) THEN 1 ELSE 0
    BY <2>5 DEF One
  <2> QED
    BY <2>1, <2>2, <2>3, <2>4, <2>6, <2>7
<1>11. \A t \in Sessions : session'[t].refcount > 0 =>
          /\ session[t].refcount > 0 /\ session'[t].device = session[t].device
          /\ session'[t].info = session[t].info
  BY <1>5 DEF NoSession
<1>12. (\A x \in {o} : device[x].refcount > One(x \in Listed) + One(Ends(x)))
       /\ held'.desktop = held.desktop
  BY <1>4, <1>7
<1> QED
  BY <1>1, <1>4, <1>8, <1>9, <1>10, <1>11, <1>12, ReferencesGiven

LEMMA EnumReleaseKeeps ==
    ASSUME Inv, NEW e \in Enums, EnumRelease(e) PROVE Inv'
<1> DEFINE S == ToSet(enum[e].devices)
<1>1. Shapes /\ CountsRight /\ SameTopic
  BY RunningKeepsTopic DEF Inv, EnumRelease
<1>2. /\ DOMAIN enum = Enums /\ held.device \in [Objects -> Nat]
      /\ \A f \in Enums : /\ DOMAIN enum[f] = DOMAIN NoEnum
                          /\ enum[f].devices \in Seq(Objects)
                          /\ enum[f].refcount = 0 => enum[f].devices = <<>>
  BY <1>1 DEF Shapes, EnumShape, HeldShape
<1>3. enum' = [enum EXCEPT ![e] = NoEnum] /\ Releases(enum[e].devices)
      /\ UNCHANGED <<signals, session, held>>
  BY DEF EnumRelease
<1>4. /\ DOMAIN enum' = Enums
      /\ \A f \in Enums : f # e => enum'[f] = enum[f]
      /\ enum'[e] = NoEnum
  BY <1>2, <1>3
<1>5. S \in SUBSET Objects
  BY <1>2 DEF ToSet
<1>6. \A x \in S : e \in EnumsOf(x)
  BY DEF EnumsOf
<1>7. ASSUME NEW x \in S
      PROVE  device[x].refcount > One(x \in Listed) + One(Ends(x)) /\ device[x].refcount \in Nat
  <2> HIDE DEF S
  <2>1. /\ One(x \in Listed) \in Nat /\ One(Ends(x)) \in Nat
        /\ One(EnumsOf(x) # {}) = 1 /\ One(SessionsOf(x) # {}) \in Nat
    BY <1>6 DEF One
  <2>2. /\ device[x].refcount \in Nat
        /\ device[x].refcount >= held.device[x] + One(x \in Listed) + One(EnumsOf(x) # {})
                                   + One(SessionsOf(x) # {}) + One(Ends(x))
    BY <1>1, <1>5, Referred
  <2>3. held.device[x] \in Nat
    BY <1>2, <1>5
  <2> QED
    BY <2>1, <2>2, <2>3
<1>8. Given(S)
  <2>1. S \subseteq Lives
    BY <1>5, <1>7 DEF Lives, Live, One
  <2>2. \A x \in S \cap Listed : device[x].refcount > 1
    BY <1>7 DEF One
  <2>3. PICK os : os = enum[e].devices
    OBVIOUS
  <2> QED
    BY <1>3, <2>1, <2>2, <2>3, SequenceGiven
<1>9. EnumShape' /\ SessionShape' /\ HeldShape'
  <2>1. /\ NoEnum.devices = <<>> /\ NoEnum.refcount = 0
        /\ NoEnum.devices \in Seq(Objects)
    BY DEF NoEnum
  <2>2. EnumShape'
    BY <1>2, <1>4, <2>1 DEF EnumShape
  <2> QED
    BY <1>1, <1>3, <2>2 DEF Shapes, SessionShape, HeldShape
<1> HIDE DEF S
<1>10. ASSUME NEW x \in Objects
      PROVE  (held'.device[x] - held.device[x])
                + (Cardinality(EnumsOf(x)') - Cardinality(EnumsOf(x)))
                + (Cardinality(SessionsOf(x)') - Cardinality(SessionsOf(x))) = 0 - One(x \in S)
  <2>1. SessionsOf(x)' = SessionsOf(x)
    BY <1>3 DEF SessionsOf
  <2>2. IsFiniteSet(EnumsOf(x)) /\ Cardinality(EnumsOf(x)) \in Nat
        /\ Cardinality(SessionsOf(x)) \in Nat
    BY FiniteParts
  <2>3. held.device[x] \in Nat /\ held' = held
    BY <1>2, <1>3
  <2>4. EnumsOf(x)' = EnumsOf(x) \ {e}
    <3>1. ToSet(<<>>) = {} /\ NoEnum.devices = <<>>
      BY DEF ToSet, NoEnum
    <3> QED
      BY <1>4, <3>1 DEF EnumsOf
  <2>5. e \in EnumsOf(x) <=> x \in S
    BY DEF EnumsOf, S
  <2>6. Cardinality(EnumsOf(x) \ {e})
          = IF e \in EnumsOf(x) THEN Cardinality(EnumsOf(x)) - 1 ELSE Cardinality(EnumsOf(x))
    BY <2>2, FS_RemoveElement
  <2>7. One(x \in S) = IF e \in EnumsOf(x) THEN 1 ELSE 0
    BY <2>5 DEF One
  <2> QED
    BY <2>1, <2>2, <2>3, <2>4, <2>6, <2>7
<1>11. \A t \in Sessions : session'[t].refcount > 0 =>
          /\ session[t].refcount > 0 /\ session'[t].device = session[t].device
          /\ session'[t].info = session[t].info
  BY <1>3
<1>12. held'.desktop = held.desktop
  BY <1>3
<1> QED
  BY <1>1, <1>3, <1>5, <1>7, <1>8, <1>9, <1>10, <1>11, <1>12, ReferencesGiven

----------------------------------------------------------------------------
(* Enumerators.                                                            *)

\* An enumerator that was free takes references on the devices of a list.
LEMMA EnumFilled ==
    ASSUME Inv, SameTopic, NEW e \in Enums, enum[e].refcount = 0,
           NEW os \in Seq(Objects), ToSet(os) \subseteq Lives,
           device' = AddRefs(os),
           NEW r, r.devices = os, r.refcount = 1, DOMAIN r = DOMAIN NoEnum,
           enum' = [enum EXCEPT ![e] = r],
           UNCHANGED <<signals, desktop, session, doing, held>>
    PROVE  Inv'
<1> DEFINE S == ToSet(os)
<1>1. /\ Shapes /\ CountsRight /\ Proxies /\ Roles /\ Present
      /\ \A x \in Objects : device[x].refcount \in Nat
  BY ReferredLive DEF Inv
<1>2. /\ DOMAIN enum = Enums /\ held.device \in [Objects -> Nat]
      /\ \A f \in Enums : /\ DOMAIN enum[f] = DOMAIN NoEnum
                          /\ enum[f].devices \in Seq(Objects)
                          /\ enum[f].refcount = 0 => enum[f].devices = <<>>
      /\ DOMAIN device = Objects /\ \A x \in Objects : DOMAIN device[x] = DOMAIN Free
  BY <1>1 DEF Shapes, EnumShape, HeldShape, DeviceShape
<1>3. /\ DOMAIN enum' = Enums
      /\ \A f \in Enums : f # e => enum'[f] = enum[f]
      /\ enum'[e] = r
  BY <1>2
<1>4. S \in SUBSET Lives /\ S \in SUBSET Objects
  BY DEF Lives
<1>5. /\ DOMAIN device' = Objects /\ \A x \in Objects : DOMAIN device'[x] = DOMAIN Free
      /\ \A x \in Objects :
            /\ device'[x].refcount = device[x].refcount + One(x \in S)
            /\ device'[x].status = device[x].status /\ device'[x].info = device[x].info
  BY <1>1, <1>2 DEF AddRefs, Free, One
<1>6. Shapes'
  <2>1. EnumShape'
    BY <1>2, <1>3 DEF EnumShape
  <2> QED
    BY <1>1, <1>5, <2>1 DEF Shapes, DesktopShape, DeviceShape, SessionShape, HeldShape, DoingShape
<1>7. ASSUME NEW x \in Objects PROVE OthersOf(x)' = OthersOf(x) + One(x \in S)
  <2>1. SessionsOf(x)' = SessionsOf(x) /\ Listed' = Listed
    BY DEF SessionsOf, Listed
  <2>2. Ends(x)' <=> Ends(x)
    BY <1>5, <2>1 DEF Ends, Doing
  <2>3. ToSet(<<>>) = {}
    BY DEF ToSet
  <2>4. e \notin EnumsOf(x)
    BY <1>2, <2>3 DEF EnumsOf
  <2>5. EnumsOf(x)' = IF x \in S THEN EnumsOf(x) \cup {e} ELSE EnumsOf(x)
    BY <1>3, <2>4 DEF EnumsOf
  <2>6. Cardinality(EnumsOf(x)') = Cardinality(EnumsOf(x)) + One(x \in S)
    <3>1. IsFiniteSet(EnumsOf(x)) /\ Cardinality(EnumsOf(x)) \in Nat
      BY FiniteParts
    <3>2. Cardinality(EnumsOf(x) \cup {e}) = Cardinality(EnumsOf(x)) + 1
      BY <2>4, <3>1, FS_AddElement
    <3> QED
      BY <2>5, <3>1, <3>2 DEF One
  <2>7. Cardinality(SessionsOf(x)) \in Nat /\ Cardinality(EnumsOf(x)) \in Nat /\ One(x \in S) \in Nat
        /\ One(x \in Listed) \in Nat /\ One(Ends(x)) \in Nat
    BY FiniteParts DEF One
  <2>8. One(Ends(x)') = One(Ends(x)) /\ One(x \in Listed') = One(x \in Listed)
    BY <2>1, <2>2 DEF One
  <2> QED
    BY <2>1, <2>6, <2>7, <2>8 DEF OthersOf
<1> HIDE DEF S
<1>8. CountsRight'
  <2>1. Lives' = Lives
    BY <1>1, <1>4, <1>5 DEF Lives, Live, One
  <2>2. desktop'.refcount = held'.desktop + Cardinality(Lives')
    BY <1>1, <2>1 DEF CountsRight
  <2>3. ASSUME NEW x \in Objects
        PROVE  device'[x].refcount = device[x].refcount
                + (held'.device[x] - held.device[x]) + (OthersOf(x)' - OthersOf(x))
    <3>1. held.device[x] \in Nat /\ OthersOf(x) \in Nat /\ One(x \in S) \in Nat
      BY <1>2, OthersAreNumbers DEF One
    <3> QED
      BY <1>1, <1>5, <1>7, <3>1
  <2>4. \A x \in Objects : held'.device[x] \in Nat
    BY <1>2
  <2> QED
    BY <1>1, <2>2, <2>3, <2>4, CountsFollow
<1>9. Roles'
  <2>1. \A t \in Sessions : session[t].refcount > 0 => session[t].device \in Objects
    BY <1>1 DEF Shapes, SessionShape
  <2>2. Listed \subseteq Objects /\ Listed' = Listed
    BY <1>1, ReferredLive DEF Lives, Listed
  <2> QED
    BY <1>1, <1>5, <2>1, <2>2 DEF Roles, Doing
<1>10. Proxies' /\ Present'
  BY <1>1 DEF Proxies, Addressed, Present
<1> QED
  BY <1>6, <1>8, <1>9, <1>10 DEF Inv

LEMMA EnumDevicesKeeps ==
    ASSUME Inv, NEW e \in Enums, EnumDevices(e) PROVE Inv'
<1>1. SameTopic
  BY RunningKeepsTopic DEF EnumDevices
<1>2. PICK os \in Seq(Objects) : os = desktop.devices
  BY DEF Inv, Shapes, DesktopShape
<1>3. ToSet(os) \subseteq Lives
  BY <1>2, ReferredLive DEF Inv, Listed
<1>4. PICK r : r = [refcount |-> 1, devices |-> os, current |-> 1]
  OBVIOUS
<1>5. r.devices = os /\ r.refcount = 1 /\ DOMAIN r = DOMAIN NoEnum
  BY <1>4 DEF NoEnum
<1>6. /\ enum[e].refcount = 0 /\ device' = AddRefs(os) /\ enum' = [enum EXCEPT ![e] = r]
      /\ UNCHANGED <<signals, desktop, session, doing, held>>
  BY <1>2, <1>4 DEF EnumDevices
<1> QED
  BY <1>1, <1>3, <1>5, <1>6, EnumFilled

LEMMA EnumCloneKeeps ==
    ASSUME Inv, NEW e \in Enums, NEW f \in Enums, EnumClone(e, f) PROVE Inv'
<1>1. SameTopic
  BY RunningKeepsTopic DEF EnumClone
<1>2. DOMAIN enum[e] = DOMAIN NoEnum
  BY DEF Inv, Shapes, EnumShape
<1>3. PICK os \in Seq(Objects) : os = enum[e].devices
  BY DEF Inv, Shapes, EnumShape
<1>4. ToSet(os) \subseteq Lives
  <2>1. ToSet(os) \subseteq Objects
    BY DEF ToSet
  <2> QED
    BY <1>3, <2>1, ReferredLive DEF Inv, Lives
<1>5. PICK r : r = [enum[e] EXCEPT !.refcount = 1, !.current = 1]
  OBVIOUS
<1>6. r.devices = os /\ r.refcount = 1 /\ DOMAIN r = DOMAIN NoEnum
  BY <1>2, <1>3, <1>5 DEF NoEnum
<1>7. /\ enum[f].refcount = 0 /\ device' = AddRefs(os) /\ enum' = [enum EXCEPT ![f] = r]
      /\ UNCHANGED <<signals, desktop, session, doing, held>>
  BY <1>3, <1>5 DEF EnumClone
<1> QED
  BY <1>1, <1>4, <1>6, <1>7, EnumFilled

LEMMA EnumMoveKeeps ==
    ASSUME Inv, NEW e \in Enums, EnumMove(e) PROVE Inv'
<1>1. PICK c : enum' = [enum EXCEPT ![e].current = c]
  BY DEF EnumMove
<1>2. UNCHANGED <<signals, desktop, device, session, doing, held>>
  BY DEF EnumMove
<1>3. Shapes /\ CountsRight /\ Proxies /\ Roles /\ Present
  BY DEF Inv
<1>4. /\ DOMAIN enum' = Enums
      /\ \A f \in Enums :
            /\ DOMAIN enum'[f] = DOMAIN NoEnum
            /\ enum'[f].refcount = enum[f].refcount /\ enum'[f].devices = enum[f].devices
  BY <1>1, <1>3 DEF Shapes, EnumShape, NoEnum
<1>5. Shapes'
  BY <1>2, <1>3, <1>4 DEF Shapes, DesktopShape, DeviceShape, EnumShape, SessionShape,
     HeldShape, DoingShape
<1>6. CountsRight'
  <2>1. \A x \in Objects : EnumsOf(x)' = EnumsOf(x)
    BY <1>4 DEF EnumsOf
  <2>2. \A x \in Objects : Holders(x)' = Holders(x)
    BY <1>2, <2>1 DEF Holders, EnumsOf, Count, Listed, Doing
  <2> QED
    BY <1>2, <1>3, <2>2 DEF CountsRight, Lives, Live
<1>7. Roles' /\ Proxies' /\ Present'
  BY <1>2, <1>3 DEF Roles, Listed, Doing, Proxies, Addressed, Present
<1> QED
  BY <1>5, <1>6, <1>7 DEF Inv

----------------------------------------------------------------------------
(* After the sinks were told.                                              *)

LEMMA ToldKeeps ==
    ASSUME Inv, Told PROVE Inv'
<1> DEFINE o == doing.object
<1>1. /\ Shapes /\ CountsRight /\ Proxies /\ Roles /\ Present
      /\ \A x \in Objects : device[x].refcount \in Nat
      /\ Listed \subseteq Objects
  BY ReferredLive DEF Inv, Lives
<1>2. /\ o \in Objects /\ Live(o) /\ Doing("telling")
      /\ o \in Listed <=> device[o].status # "disconnected"
      /\ Ends(o) <=> device[o].status = "disconnected"
  BY TopicLives DEF Told
<1>3. doing' = Idle /\ UNCHANGED <<signals, enum, session, held>>
  BY DEF Told
<1>4. DOMAIN doing' = DOMAIN Idle /\ ~Doing("telling")' /\ ~Doing("removing")'
      /\ doing'.what = "nothing"
  BY <1>3 DEF Idle, Doing
<1>5. \A x \in Objects : ~Ends(x)'
  BY <1>4 DEF Ends
<1>6. \A x \in Objects : Ends(x) => x = o
  BY DEF Ends
<1>7. ASSUME NEW x \in Objects
      PROVE  EnumsOf(x)' = EnumsOf(x) /\ SessionsOf(x)' = SessionsOf(x)
  BY <1>3 DEF EnumsOf, SessionsOf
<1>8. CASE device[o].status = "disconnected"
  <2>1. DeviceRelease(o)
    BY <1>8 DEF Told
  <2>2. Given({o})
    <3>1. PICK x \in Objects : x = o
      BY <1>2
    <3> QED
      BY <1>2, <1>8, <2>1, <3>1, DeviceGiven
  <2>3. /\ DOMAIN device' = Objects /\ \A x \in Objects : DOMAIN device'[x] = DOMAIN Free
        /\ \A x \in Objects : device'[x].refcount = device[x].refcount - One(x \in {o})
        /\ \A x \in Objects :
              \/ device'[x].info = device[x].info /\ device'[x].status = device[x].status
              \/ device'[x].refcount = 0 /\ device'[x].status = "none"
        /\ DesktopKept /\ Present' /\ Listed' = Listed
        /\ desktop'.refcount = held.desktop + Cardinality(Lives')
    BY <2>2 DEF Given
  <2>4. /\ DOMAIN desktop' = DOMAIN NoDesktop
        /\ desktop'.devices \in Seq(Objects) /\ IsInjective(desktop'.devices)
    BY <2>3 DEF DesktopKept
  <2>5. Shapes'
    BY <1>1, <1>3, <1>4, <2>3, <2>4 DEF Shapes, DesktopShape, DeviceShape, EnumShape,
       SessionShape, HeldShape, DoingShape
  <2>6. CountsRight'
    <3>1. ASSUME NEW x \in Objects
          PROVE  /\ device'[x].refcount = device[x].refcount
                      + (held'.device[x] - held.device[x]) + (OthersOf(x)' - OthersOf(x))
                 /\ held'.device[x] \in Nat
      <4>1. /\ One(x \in Listed') = One(x \in Listed) /\ One(x \in Listed) \in Nat
            /\ One(Ends(x)') = 0 /\ One(Ends(x)) = One(x \in {o})
        BY <1>2, <1>5, <1>6, <1>8, <2>3 DEF One
      <4>2. Cardinality(EnumsOf(x)) \in Nat /\ Cardinality(SessionsOf(x)) \in Nat
            /\ One(x \in {o}) \in Nat
        BY FiniteParts DEF One
      <4>3. OthersOf(x)' - OthersOf(x) = 0 - One(x \in {o})
        BY <1>7, <4>1, <4>2 DEF OthersOf
      <4>4. held.device[x] \in Nat /\ held' = held
        BY <1>1, <1>3 DEF Shapes, HeldShape
      <4> QED
        BY <1>1, <2>3, <4>2, <4>3, <4>4
    <3>2. desktop'.refcount = held'.desktop + Cardinality(Lives')
      BY <1>3, <2>3
    <3> QED
      BY <1>1, <3>1, <3>2, CountsFollow
  <2>7. Roles'
    <3>1. ASSUME NEW t \in Sessions, session'[t].refcount > 0
          PROVE  session'[t].info = device'[session'[t].device].info
      <4>1. PICK x \in Objects : x = session'[t].device
        BY <2>5, <3>1 DEF Shapes, SessionShape
      <4>2. SessionsOf(x)' # {}
        BY <3>1, <4>1 DEF SessionsOf
      <4>3. device'[x].refcount # 0
        BY <2>5, <2>6, <4>2, StillReferred DEF Shapes
      <4>4. session'[t].info = device[x].info
        BY <1>1, <1>3, <3>1, <4>1 DEF Roles
      <4> QED
        BY <2>3, <4>1, <4>3, <4>4
    <3>2. \A x \in Listed : device[x].status = "connected" /\ device[x].refcount # 0 /\ x # o
      BY <1>1, <1>2, <1>8, ReferredLive DEF Roles, Live
    <3>3. \A x \in Listed' : device'[x].status = "connected"
      BY <1>1, <2>3, <3>2 DEF One
    <3> QED
      BY <1>4, <3>1, <3>3 DEF Roles
  <2>8. Proxies'
    BY <1>1, <1>3, <1>4, <2>3, ProxiesKept DEF SignalsKept
  <2> QED
    BY <2>3, <2>5, <2>6, <2>7, <2>8 DEF Inv
<1>9. CASE device[o].status # "disconnected"
  <2>1. UNCHANGED <<device, desktop>>
    BY <1>9 DEF Told
  <2>2. \A x \in Objects : ~Ends(x)
    BY <1>2, <1>6, <1>9
  <2>3. Shapes'
    BY <1>1, <1>3, <1>4, <2>1 DEF Shapes, DesktopShape, DeviceShape, EnumShape,
       SessionShape, HeldShape, DoingShape
  <2>4. CountsRight'
    <3>1. ASSUME NEW x \in Objects
          PROVE  /\ device'[x].refcount = device[x].refcount
                      + (held'.device[x] - held.device[x]) + (OthersOf(x)' - OthersOf(x))
                 /\ held'.device[x] \in Nat
      <4>1. /\ One(x \in Listed') = One(x \in Listed) /\ One(x \in Listed) \in Nat
            /\ One(Ends(x)') = One(Ends(x)) /\ One(Ends(x)) \in Nat
        BY <1>5, <2>1, <2>2 DEF One, Listed
      <4>2. OthersOf(x)' = OthersOf(x) /\ OthersOf(x) \in Nat
        BY <1>7, <4>1, OthersAreNumbers DEF OthersOf
      <4>3. held.device[x] \in Nat /\ held' = held
        BY <1>1, <1>3 DEF Shapes, HeldShape
      <4> QED
        BY <1>1, <2>1, <4>2, <4>3
    <3>2. desktop'.refcount = held'.desktop + Cardinality(Lives')
      BY <1>1, <1>3, <2>1 DEF CountsRight, Lives, Live
    <3> QED
      BY <1>1, <3>1, <3>2, CountsFollow
  <2>5. Roles'
    BY <1>1, <1>3, <1>4, <2>1 DEF Roles, Listed
  <2>6. Proxies' /\ Present'
    BY <1>1, <1>3, <1>4, <2>1 DEF Proxies, Addressed, Present
  <2> QED
    BY <2>3, <2>4, <2>5, <2>6 DEF Inv
<1> QED
  BY <1>8, <1>9

----------------------------------------------------------------------------
(* The desktop.                                                            *)

\* The thread goes on with what it told, or tells of nothing before and after.
TopicKept ==
    /\ DOMAIN doing' = DOMAIN Idle
    /\ \/ SameTopic
       \/ /\ ~Doing("telling") /\ ~Doing("telling")'
          /\ Doing("removing")' => doing'.left \subseteq Listed'

\* References on the desktop come and go; its devices stay.
LEMMA DesktopOnly ==
    ASSUME Inv, UNCHANGED <<device, enum, session>>, TopicKept,
           DOMAIN held' = {"desktop", "device"}, held'.desktop \in Nat, held'.device = held.device,
           DOMAIN desktop' = DOMAIN NoDesktop,
           desktop'.devices \in Seq(Objects), IsInjective(desktop'.devices), Listed' = Listed,
           desktop'.refcount = desktop.refcount + (held'.desktop - held.desktop)
    PROVE  Shapes' /\ CountsRight' /\ Roles'
<1>1. Shapes /\ CountsRight /\ Roles
  BY DEF Inv
<1>2. Shapes'
  BY <1>1 DEF Shapes, DesktopShape, DeviceShape, EnumShape, SessionShape, HeldShape, DoingShape,
     TopicKept
<1>3. CountsRight'
  <2>1. ASSUME NEW x \in Objects
        PROVE  /\ device'[x].refcount = device[x].refcount
                    + (held'.device[x] - held.device[x]) + (OthersOf(x)' - OthersOf(x))
               /\ held'.device[x] \in Nat
    <3>1. Ends(x)' <=> Ends(x)
      BY DEF Ends, TopicKept, SameTopic, Doing
    <3>2. One(Ends(x)') = One(Ends(x)) /\ One(x \in Listed') = One(x \in Listed)
      BY <3>1 DEF One
    <3>3. EnumsOf(x)' = EnumsOf(x) /\ SessionsOf(x)' = SessionsOf(x)
      BY DEF EnumsOf, SessionsOf
    <3>4. OthersOf(x)' = OthersOf(x) /\ OthersOf(x) \in Nat
      BY <3>2, <3>3, OthersAreNumbers DEF OthersOf
    <3>5. held.device[x] \in Nat /\ device[x].refcount \in Nat
      BY <1>1, ReferredLive DEF Shapes, HeldShape
    <3> QED
      BY <3>4, <3>5
  <2>2. desktop'.refcount = held'.desktop + Cardinality(Lives')
    <3>1. Lives' = Lives
      BY DEF Lives, Live
    <3>2. /\ held.desktop \in Nat /\ Cardinality(Lives) \in Nat
          /\ desktop.refcount = held.desktop + Cardinality(Lives)
      BY <1>1, FiniteLives DEF Shapes, HeldShape, CountsRight
    <3> QED
      BY <3>1, <3>2
  <2> QED
    BY <1>1, <2>1, <2>2, CountsFollow
<1>4. Roles'
  <2>1. CASE SameTopic
    BY <1>1, <2>1 DEF Roles, SameTopic, Doing
  <2>2. CASE /\ ~Doing("telling") /\ ~Doing("telling")'
             /\ Doing("removing")' => doing'.left \subseteq Listed'
    BY <1>1, <2>2 DEF Roles
  <2> QED
    BY <2>1, <2>2 DEF TopicKept
<1> QED
  BY <1>2, <1>3, <1>4

\* One proxy more, with a handler: the bus's of a new desktop, or the device
\* manager's of the desktop there is.
LEMMA ProxyMade ==
    ASSUME Proxies, SignalsKept,
           desktop'.made = desktop.made + 1,
           desktop'.handlers = desktop.handlers \cup {desktop'.made},
           \/ desktop'.dbus_proxy = desktop.dbus_proxy
           \/ desktop.dbus_proxy = 0 /\ desktop'.dbus_proxy = desktop'.made,
           desktop'.dbus_proxy # 0
    PROVE  Proxies'
<1>1. signals' \in Seq(Signals) /\ \A i \in DOMAIN signals' : \E j \in DOMAIN signals : signals'[i] = signals[j]
  BY SignalsLeft DEF Proxies
<1>2. /\ desktop.made \in Nat /\ desktop.dbus_proxy \in Nat /\ desktop.dbus_proxy <= desktop.made
      /\ desktop.handlers \subseteq 1..desktop.made
  BY DEF Proxies
<1>3. ASSUME NEW i \in DOMAIN signals' PROVE Addressed(signals[i])'
  <2>1. PICK j \in DOMAIN signals : signals'[i] = signals[j]
    BY <1>1
  <2>2. Addressed(signals[j])
    BY DEF Proxies
  <2>3. PICK m : m = signals'[i]
    OBVIOUS
  <2>4. /\ m.to \in 1..desktop.made
        /\ m.name \in {"Online", "Offline"} => m.to = desktop.dbus_proxy \/ m.to \notin desktop.handlers
        /\ m.name \in {"Connected", "Disconnected"} => m.to # desktop.dbus_proxy
    BY <2>1, <2>2, <2>3 DEF Addressed
  <2>5. m.to \in 1..desktop'.made /\ m.to # desktop'.made /\ m.to # 0
    BY <1>2, <2>4
  <2>6. /\ m.name \in {"Online", "Offline"} => m.to = desktop'.dbus_proxy \/ m.to \notin desktop'.handlers
        /\ m.name \in {"Connected", "Disconnected"} => m.to # desktop'.dbus_proxy
    BY <2>4, <2>5
  <2> QED
    BY <2>3, <2>5, <2>6 DEF Addressed
<1>4. /\ desktop'.made \in Nat /\ desktop'.dbus_proxy \in Nat
      /\ desktop'.dbus_proxy <= desktop'.made
  BY <1>2
<1>5. desktop'.handlers \subseteq 1..desktop'.made
  BY <1>2
<1> QED
  BY <1>1, <1>3, <1>4, <1>5 DEF Proxies

LEMMA DesktopGetKeeps ==
    ASSUME Inv, DesktopGet PROVE Inv'
<1>1. Shapes /\ CountsRight /\ Proxies /\ Present /\ SameTopic
  BY RunningKeepsTopic DEF Inv, DesktopGet
<1>2. /\ DOMAIN desktop = DOMAIN NoDesktop
      /\ desktop.devices \in Seq(Objects) /\ IsInjective(desktop.devices)
      /\ DOMAIN held = {"desktop", "device"} /\ held.desktop \in Nat
      /\ desktop.refcount \in Int
  BY <1>1, FiniteLives DEF Shapes, DesktopShape, HeldShape, CountsRight
<1>3. /\ desktop' = [desktop EXCEPT !.refcount = @ + 1]
      /\ held' = [held EXCEPT !.desktop = @ + 1]
      /\ UNCHANGED <<signals, device, enum, session, doing>>
  BY DEF DesktopGet, DesktopAddRef
<1>4. /\ DOMAIN desktop' = DOMAIN NoDesktop /\ desktop'.refcount = desktop.refcount + 1
      /\ desktop'.devices = desktop.devices /\ desktop'.made = desktop.made
      /\ desktop'.dbus_proxy = desktop.dbus_proxy /\ desktop'.handlers = desktop.handlers
  BY <1>2, <1>3 DEF NoDesktop
<1>5. DOMAIN held' = {"desktop", "device"} /\ held'.desktop = held.desktop + 1
      /\ held'.device = held.device
  BY <1>2, <1>3
<1>6. Listed' = Listed
  BY <1>4 DEF Listed
<1>7. Shapes' /\ CountsRight' /\ Roles'
  <2>1. TopicKept
    BY <1>1 DEF TopicKept, SameTopic
  <2> QED
    BY <1>2, <1>3, <1>4, <1>5, <1>6, <2>1, DesktopOnly
<1>8. desktop.dbus_proxy # 0
  BY <1>1, Zenon DEF DesktopGet, Present
<1>9. DesktopKept
  BY <1>2, <1>4, <1>8 DEF DesktopKept
<1>10. Proxies'
  BY <1>1, <1>3, <1>4, <1>8, <1>9, ProxiesKept DEF SignalsKept
<1>11. Present'
  <2>1. desktop'.exists = desktop.exists
    BY <1>2, <1>3, Zenon DEF NoDesktop
  <2> QED
    BY <1>1, <1>4, <2>1, Zenon DEF Present
<1> QED
  BY <1>7, <1>10, <1>11 DEF Inv

LEMMA AppDesktopReleaseKeeps ==
    ASSUME Inv, AppDesktopRelease PROVE Inv'
<1>1. Shapes /\ CountsRight /\ Proxies /\ Present /\ SameTopic /\ Listed \subseteq Lives
  BY RunningKeepsTopic, ReferredLive DEF Inv, AppDesktopRelease
<1>2. /\ DOMAIN desktop = DOMAIN NoDesktop
      /\ desktop.devices \in Seq(Objects) /\ IsInjective(desktop.devices)
      /\ DOMAIN held = {"desktop", "device"} /\ held.desktop \in Nat
      /\ desktop.refcount = held.desktop + Cardinality(Lives) /\ Cardinality(Lives) \in Nat
  BY <1>1, FiniteLives DEF Shapes, DesktopShape, HeldShape, CountsRight
<1>3. /\ desktop' = DesktopRelease(desktop) /\ held.desktop > 0
      /\ held' = [held EXCEPT !.desktop = @ - 1]
      /\ UNCHANGED <<signals, device, enum, session, doing>>
  BY DEF AppDesktopRelease
<1>4. DOMAIN held' = {"desktop", "device"} /\ held'.desktop = held.desktop - 1
      /\ held'.device = held.device
  BY <1>2, <1>3
<1>5. desktop.refcount \in Nat /\ desktop.refcount > 0
  BY <1>2, <1>3
<1>6. desktop.refcount = 1 => ToSet(desktop.devices) = {}
  <2>1. desktop.refcount = 1 => Cardinality(Lives) = 0
    BY <1>2, <1>3
  <2>2. Cardinality(Lives) = 0 => Lives = {}
    BY FiniteLives, FS_EmptySet
  <2> QED
    BY <1>1, <2>1, <2>2 DEF Listed
<1>7. desktop.dbus_proxy # 0
  <2>1. desktop.dbus_proxy = 0 => desktop.refcount = 0
    BY <1>1 DEF Proxies
  <2> QED
    BY <1>5, <2>1
<1>8. /\ DesktopKept /\ Present' /\ desktop'.refcount = desktop.refcount - 1
      /\ Listed' = ToSet(desktop.devices)
  <2>1. AsPresent(desktop)
    BY DEF AsPresent
  <2> QED
    BY <1>1, <1>2, <1>3, <1>5, <1>6, <1>7, <2>1, ReleasedDesktop
<1>9. Shapes' /\ CountsRight' /\ Roles'
  <2>1. TopicKept
    BY <1>1 DEF TopicKept, SameTopic
  <2>2. /\ DOMAIN desktop' = DOMAIN NoDesktop /\ Listed' = Listed
        /\ desktop'.devices \in Seq(Objects) /\ IsInjective(desktop'.devices)
    BY <1>8 DEF DesktopKept, Listed
  <2>3. held'.desktop \in Nat /\ desktop'.refcount = desktop.refcount + (held'.desktop - held.desktop)
    BY <1>2, <1>3, <1>4, <1>8
  <2> QED
    BY <1>3, <1>4, <2>1, <2>2, <2>3, DesktopOnly
<1>10. Proxies'
  <2>1. doing'.what \in {"nothing", "telling", "removing"}
    BY <1>1 DEF SameTopic
  <2> QED
    BY <1>1, <1>3, <1>8, <2>1, ProxiesKept DEF SignalsKept
<1> QED
  BY <1>8, <1>9, <1>10 DEF Inv

\* What of the desktop nobody counts, and sinks and numbers.
SameList ==
    /\ DOMAIN desktop' = DOMAIN NoDesktop /\ desktop'.devices = desktop.devices
    /\ desktop'.refcount = desktop.refcount

LEMMA ListStays ==
    ASSUME Inv, SameList, UNCHANGED <<device, enum, session, held>>, TopicKept
    PROVE  Shapes' /\ CountsRight' /\ Roles'
<1>1. Shapes /\ CountsRight
  BY DEF Inv
<1>2. /\ desktop.devices \in Seq(Objects) /\ IsInjective(desktop.devices)
      /\ DOMAIN held = {"desktop", "device"} /\ held.desktop \in Nat
      /\ desktop.refcount \in Int
  BY <1>1, FiniteLives DEF Shapes, DesktopShape, HeldShape, CountsRight
<1>3. /\ DOMAIN held' = {"desktop", "device"} /\ held'.desktop \in Nat /\ held'.device = held.device
      /\ DOMAIN desktop' = DOMAIN NoDesktop
      /\ desktop'.devices \in Seq(Objects) /\ IsInjective(desktop'.devices) /\ Listed' = Listed
      /\ desktop'.refcount = desktop.refcount + (held'.desktop - held.desktop)
  BY <1>2 DEF SameList, Listed
<1> QED
  BY <1>3, DesktopOnly

LEMMA AdviseKeeps ==
    ASSUME Inv, NEW l, DesktopAdvise(l) \/ DesktopUnAdvise(l) PROVE Inv'
<1>1. Shapes /\ Proxies /\ Present /\ DOMAIN desktop = DOMAIN NoDesktop
  BY DEF Inv, Shapes, DesktopShape
<1>2. UNCHANGED <<signals, device, enum, session, doing, held>> /\ Doing("nothing")
  BY DEF DesktopAdvise, DesktopUnAdvise
<1>3. PICK n, f : desktop' = [desktop EXCEPT !.sink_seq_num = n, !.sinks = f]
                  \/ desktop' = [desktop EXCEPT !.sinks = f]
  BY DEF DesktopAdvise, DesktopUnAdvise
<1>4. SameList
  BY <1>1, <1>3 DEF SameList, NoDesktop
<1>5. /\ desktop'.made = desktop.made /\ desktop'.dbus_proxy = desktop.dbus_proxy
      /\ desktop'.handlers = desktop.handlers
  BY <1>1, <1>3 DEF NoDesktop
<1>6. desktop'.exists = desktop.exists
  BY <1>1, <1>3, Zenon DEF NoDesktop
<1>7. Shapes' /\ CountsRight' /\ Roles'
  <2>1. TopicKept
    BY <1>1, <1>2 DEF TopicKept, SameTopic, Doing, Shapes, DoingShape
  <2> QED
    BY <1>2, <1>4, <2>1, ListStays
<1>8. Proxies'
  BY <1>1, <1>2, <1>4, <1>5 DEF Proxies, Addressed, SameList
<1>9. Present'
  BY <1>1, <1>5, <1>6, Zenon DEF Present
<1> QED
  BY <1>7, <1>8, <1>9 DEF Inv

LEMMA DesktopInitKeeps ==
    ASSUME Inv, DesktopInit PROVE Inv'
<1>1. Shapes /\ CountsRight /\ Proxies /\ Present /\ Listed \subseteq Lives
  BY ReferredLive DEF Inv
<1>2. /\ DOMAIN held = {"desktop", "device"} /\ held.desktop \in Nat
      /\ desktop.refcount = held.desktop + Cardinality(Lives) /\ Cardinality(Lives) \in Nat
      /\ desktop.made \in Nat
  BY <1>1, FiniteLives DEF Shapes, HeldShape, CountsRight, Proxies
<1>3. UNCHANGED <<signals, device, enum, session, held>> /\ Doing("nothing")
      /\ doing' = [Idle EXCEPT !.what = "asking for the owner"]
  BY DEF DesktopInit
<1>4. desktop' = [NoDesktop EXCEPT !.exists = TRUE, !.dbus_proxy = desktop.made + 1,
                                   !.made = desktop.made + 1,
                                   !.handlers = desktop.handlers \cup {desktop.made + 1},
                                   !.inits = desktop.inits + 1]
  BY DEF DesktopInit
<1>5. /\ DOMAIN desktop' = DOMAIN NoDesktop
      /\ desktop'.refcount = 0 /\ desktop'.devices = <<>>
      /\ desktop'.dbus_proxy = desktop.made + 1 /\ desktop'.made = desktop.made + 1
      /\ desktop'.handlers = desktop.handlers \cup {desktop.made + 1}
  BY <1>4 DEF NoDesktop
<1>6. desktop'.exists = TRUE
  BY <1>4, Zenon DEF NoDesktop
<1>7. desktop.dbus_proxy = 0
  BY <1>1, Zenon DEF DesktopInit, Present
<1>8. desktop.refcount = 0
  BY <1>1, <1>7 DEF Proxies
<1>9. Listed = {}
  <2>1. Cardinality(Lives) = 0
    BY <1>2, <1>8
  <2>2. Lives = {}
    BY <2>1, FiniteLives, FS_EmptySet
  <2> QED
    BY <1>1, <2>2
<1>10. Shapes' /\ CountsRight' /\ Roles'
  <2>1. ToSet(<<>>) = {} /\ IsInjective(<<>>) /\ <<>> \in Seq(Objects)
    BY DEF ToSet, IsInjective
  <2>2. /\ desktop'.devices \in Seq(Objects) /\ IsInjective(desktop'.devices) /\ Listed' = Listed
    BY <1>5, <1>9, <2>1 DEF Listed
  <2>3. TopicKept
    BY <1>3 DEF TopicKept, Doing, Idle
  <2>4. /\ held'.desktop \in Nat /\ DOMAIN held' = {"desktop", "device"}
        /\ held'.device = held.device /\ held'.desktop = held.desktop
    BY <1>2, <1>3
  <2>5. desktop'.refcount = desktop.refcount + (held'.desktop - held.desktop)
    BY <1>5, <1>8, <2>4
  <2> QED
    BY <1>3, <1>5, <2>2, <2>3, <2>4, <2>5, DesktopOnly
<1>11. Proxies'
  <2>1. desktop'.dbus_proxy # 0
    BY <1>2, <1>5
  <2> QED
    BY <1>1, <1>3, <1>5, <1>7, <2>1, ProxyMade DEF SignalsKept
<1>12. Present'
  <2>1. desktop'.dbus_proxy # 0
    BY <1>2, <1>5
  <2> QED
    BY <1>6, <2>1, Zenon DEF Present
<1> QED
  BY <1>10, <1>11, <1>12 DEF Inv

\* The proxy to the device manager is made, of the desktop d.
LEMMA ManagerProxyMade ==
    ASSUME Inv, NEW d, UdevConnectBegins(d), DOMAIN d = DOMAIN NoDesktop,
           AsPresent(d), d.devices = desktop.devices, d.made = desktop.made,
           d.dbus_proxy = desktop.dbus_proxy, d.handlers = desktop.handlers,
           desktop.dbus_proxy # 0, SignalsKept
    PROVE  /\ Proxies' /\ Present' /\ DOMAIN desktop' = DOMAIN NoDesktop
           /\ desktop'.devices = desktop.devices /\ desktop'.refcount = d.refcount
           /\ DOMAIN doing' = DOMAIN Idle /\ ~Doing("telling")' /\ ~Doing("removing")'
<1>1. Proxies /\ Present
  BY DEF Inv
<1>2. desktop' = [d EXCEPT !.dev_mgr_proxy = d.made + 1, !.made = d.made + 1,
                           !.handlers = @ \cup {d.made + 1}]
  BY DEF UdevConnectBegins
<1>3. /\ DOMAIN desktop' = DOMAIN NoDesktop
      /\ desktop'.refcount = d.refcount /\ desktop'.devices = d.devices
      /\ desktop'.dbus_proxy = d.dbus_proxy /\ desktop'.made = d.made + 1
      /\ desktop'.handlers = d.handlers \cup {d.made + 1}
  BY <1>2 DEF NoDesktop
<1>4. desktop'.exists = d.exists
  BY <1>2, Zenon DEF NoDesktop
<1>5. Proxies'
  BY <1>1, <1>3, ProxyMade
<1>6. Present'
  <2>1. desktop'.dbus_proxy = desktop.dbus_proxy
    BY <1>3
  <2> QED
    BY <1>1, <1>4, <2>1, Zenon DEF Present, AsPresent
<1>7. DOMAIN doing' = DOMAIN Idle /\ ~Doing("telling")' /\ ~Doing("removing")'
  BY DEF UdevConnectBegins, Idle, Doing
<1> QED
  BY <1>3, <1>5, <1>6, <1>7

LEMMA DesktopReadyKeeps ==
    ASSUME Inv, DesktopReady PROVE Inv'
<1> DEFINE d == DesktopAddRef(desktop)
<1>1. Shapes /\ CountsRight /\ Proxies /\ Present
  BY DEF Inv
<1>2. /\ DOMAIN desktop = DOMAIN NoDesktop
      /\ desktop.devices \in Seq(Objects) /\ IsInjective(desktop.devices)
      /\ DOMAIN held = {"desktop", "device"} /\ held.desktop \in Nat
      /\ desktop.refcount \in Int
  BY <1>1, FiniteLives DEF Shapes, DesktopShape, HeldShape, CountsRight
<1>3. /\ held' = [held EXCEPT !.desktop = @ + 1] /\ doing.what = "asking for the owner"
      /\ UNCHANGED <<signals, device, enum, session>> /\ SignalsKept
  BY DEF DesktopReady, SignalsKept, Doing
<1>4. /\ DOMAIN d = DOMAIN NoDesktop /\ d.refcount = desktop.refcount + 1
      /\ d.devices = desktop.devices /\ d.made = desktop.made
      /\ d.dbus_proxy = desktop.dbus_proxy /\ d.handlers = desktop.handlers
  BY <1>2 DEF NoDesktop, DesktopAddRef
<1>5. AsPresent(d)
  BY <1>2, Zenon DEF NoDesktop, DesktopAddRef, AsPresent
<1>6. DOMAIN held' = {"desktop", "device"} /\ held'.desktop = held.desktop + 1
      /\ held'.device = held.device
  BY <1>2, <1>3
<1>7. desktop.dbus_proxy # 0
  BY <1>1, <1>3 DEF Proxies
<1>8. UdevConnectBegins(d) \/ (desktop' = d /\ doing' = Idle)
  BY DEF DesktopReady
<1> HIDE DEF d
<1>9. /\ Proxies' /\ Present' /\ DOMAIN desktop' = DOMAIN NoDesktop
      /\ desktop'.devices = desktop.devices /\ desktop'.refcount = desktop.refcount + 1
      /\ DOMAIN doing' = DOMAIN Idle /\ ~Doing("telling")' /\ ~Doing("removing")'
  <2>1. CASE UdevConnectBegins(d)
    BY <1>3, <1>4, <1>5, <1>7, <2>1, ManagerProxyMade
  <2>2. CASE desktop' = d /\ doing' = Idle
    <3>1. /\ DOMAIN doing' = DOMAIN Idle /\ ~Doing("telling")' /\ ~Doing("removing")'
          /\ doing'.what = "nothing"
      BY <2>2 DEF Idle, Doing
    <3>2. /\ DOMAIN desktop' = DOMAIN NoDesktop /\ desktop'.refcount = desktop.refcount + 1
          /\ desktop'.devices = desktop.devices /\ desktop'.made = desktop.made
          /\ desktop'.dbus_proxy = desktop.dbus_proxy /\ desktop'.handlers = desktop.handlers
      BY <1>4, <2>2
    <3>3. DesktopKept
      BY <1>2, <1>7, <3>2 DEF DesktopKept
    <3>4. Proxies'
      BY <1>1, <1>3, <3>1, <3>3, ProxiesKept
    <3>5. Present'
      <4>1. desktop'.exists = desktop.exists
        BY <1>5, <2>2, Zenon DEF AsPresent
      <4> QED
        BY <1>1, <3>2, <4>1, Zenon DEF Present
    <3> QED
      BY <3>1, <3>2, <3>4, <3>5
  <2> QED
    BY <1>8, <2>1, <2>2
<1>10. Shapes' /\ CountsRight' /\ Roles'
  <2>1. ~Doing("telling")
    BY <1>3 DEF Doing
  <2>2. TopicKept
    BY <1>9, <2>1 DEF TopicKept
  <2>3. Listed' = Listed /\ held'.desktop \in Nat
        /\ desktop'.refcount = desktop.refcount + (held'.desktop - held.desktop)
        /\ desktop'.devices \in Seq(Objects) /\ IsInjective(desktop'.devices)
    BY <1>2, <1>6, <1>9 DEF Listed
  <2> QED
    BY <1>3, <1>6, <1>9, <2>2, <2>3, DesktopOnly
<1> QED
  BY <1>9, <1>10 DEF Inv

LEMMA AnsweredKeeps ==
    ASSUME Inv, UdevConnectAnswered PROVE Inv'
<1>1. Proxies /\ Present /\ Shapes
  BY DEF Inv
<1>2. /\ UNCHANGED <<signals, desktop, device, enum, session, held>>
      /\ doing.what = "asking for the list"
      /\ doing' = [Idle EXCEPT !.what = "listing", !.left = daemon.present] \/ doing' = Idle
  BY DEF UdevConnectAnswered, Doing
<1>3. /\ DOMAIN doing' = DOMAIN Idle /\ ~Doing("telling") /\ ~Doing("telling")'
      /\ ~Doing("removing")'
  <2>1. CASE doing' = Idle
    BY <1>2, <2>1 DEF Idle, Doing
  <2>2. CASE doing' = [Idle EXCEPT !.what = "listing", !.left = daemon.present]
    BY <1>2, <2>2 DEF Idle, Doing
  <2> QED
    BY <1>2, <2>1, <2>2
<1>4. Shapes' /\ CountsRight' /\ Roles'
  <2>1. SameList /\ TopicKept
    BY <1>1, <1>2, <1>3 DEF SameList, TopicKept, Shapes, DesktopShape
  <2> QED
    BY <1>2, <2>1, ListStays
<1>5. Proxies'
  BY <1>1, <1>2 DEF Proxies, Addressed
<1>6. Present'
  BY <1>1, <1>2 DEF Present
<1> QED
  BY <1>4, <1>5, <1>6 DEF Inv

----------------------------------------------------------------------------
(* Signals.                                                                *)

\* The first signal, and what it says of who it is for.
LEMMA FirstSignal ==
    ASSUME Inv, NEW name, Dispatched(name)
    PROVE  /\ SignalsKept /\ Addressed(Head(signals)) /\ Head(signals) \in Signals
           /\ Head(signals).name = name /\ Doing("nothing")
           /\ UNCHANGED <<enum, session, held>>
<1>1. signals \in Seq(Signals) /\ signals # <<>>
      /\ \A i \in DOMAIN signals : Addressed(signals[i])
  BY DEF Inv, Proxies, Dispatched
<1>2. 1 \in DOMAIN signals /\ Head(signals) = signals[1] /\ Head(signals) \in Signals
  BY <1>1
<1> QED
  BY <1>1, <1>2 DEF Dispatched, SignalsKept

\* A signal that changes nothing.
LEMMA SignalLost ==
    ASSUME Inv, NEW name, Dispatched(name), UNCHANGED <<desktop, device, doing>>
    PROVE  Inv'
<1>1. /\ SignalsKept /\ Doing("nothing") /\ UNCHANGED <<enum, session, held>>
      /\ Shapes /\ Proxies /\ Present
  BY FirstSignal DEF Inv
<1>2. SameTopic
  BY <1>1 DEF SameTopic, Doing, Shapes, DoingShape
<1>3. SameList /\ TopicKept /\ DesktopKept
  BY <1>1, <1>2 DEF SameList, TopicKept, DesktopKept, Shapes, DesktopShape, Proxies, SameTopic
<1>4. Shapes' /\ CountsRight' /\ Roles'
  BY <1>1, <1>3, ListStays
<1>5. Proxies'
  BY <1>1, <1>2, <1>3, ProxiesKept DEF SameTopic
<1>6. Present'
  BY <1>1 DEF Present
<1> QED
  BY <1>4, <1>5, <1>6 DEF Inv

LEMMA SignalsLostKeep ==
    ASSUME Inv, NotHandled \/ DesktopIsGone \/ UnfoundDevice
    PROVE  Inv'
  BY SignalLost DEF NotHandled, DesktopIsGone, UnfoundDevice

LEMMA CameOnlineKeeps ==
    ASSUME Inv, CameOnline PROVE Inv'
<1>1. /\ SignalsKept /\ Addressed(Head(signals)) /\ Head(signals).name = "Online"
      /\ Doing("nothing") /\ UNCHANGED <<enum, session, held>>
      /\ Shapes /\ Proxies /\ DOMAIN desktop = DOMAIN NoDesktop
  BY FirstSignal DEF Inv, CameOnline, Shapes, DesktopShape
<1>2. PICK d : d = desktop
  OBVIOUS
<1>3. desktop.dbus_proxy # 0
  <2>1. Head(signals).to \in desktop.handlers
    BY DEF CameOnline, Handled
  <2>2. Head(signals).to \in 1..desktop.made /\ Head(signals).to = desktop.dbus_proxy
    BY <1>1, <2>1 DEF Addressed
  <2>3. desktop.made \in Nat
    BY <1>1 DEF Proxies
  <2> QED
    BY <2>2, <2>3
<1>4. UdevConnectBegins(d) /\ device' = device
  BY <1>2 DEF CameOnline
<1>5. AsPresent(d)
  BY <1>2 DEF AsPresent
<1>6. /\ Proxies' /\ Present' /\ DOMAIN desktop' = DOMAIN NoDesktop
      /\ desktop'.devices = desktop.devices /\ desktop'.refcount = desktop.refcount
      /\ DOMAIN doing' = DOMAIN Idle /\ ~Doing("telling")' /\ ~Doing("removing")'
  BY <1>1, <1>2, <1>3, <1>4, <1>5, ManagerProxyMade
<1>7. Shapes' /\ CountsRight' /\ Roles'
  <2>1. SameList /\ TopicKept
    BY <1>1, <1>6 DEF SameList, TopicKept, Doing
  <2> QED
    BY <1>1, <1>4, <2>1, ListStays
<1> QED
  BY <1>6, <1>7 DEF Inv

LEMMA WentOfflineKeeps ==
    ASSUME Inv, WentOffline PROVE Inv'
<1>1. /\ SignalsKept /\ Doing("nothing") /\ UNCHANGED <<enum, session, held>>
      /\ Shapes /\ Proxies /\ Present /\ DOMAIN desktop = DOMAIN NoDesktop
  BY FirstSignal DEF Inv, WentOffline, Shapes, DesktopShape
<1>2. /\ desktop' = [desktop EXCEPT !.handlers = @ \ {desktop.dev_mgr_proxy}, !.dev_mgr_proxy = 0]
      /\ doing' = [Idle EXCEPT !.what = "removing", !.left = Listed]
      /\ device' = device
  BY DEF WentOffline
<1>3. /\ SameList /\ desktop'.made = desktop.made /\ desktop'.dbus_proxy = desktop.dbus_proxy
      /\ desktop'.handlers \subseteq desktop.handlers
  BY <1>1, <1>2 DEF SameList, NoDesktop
<1>4. desktop'.exists = desktop.exists
  BY <1>1, <1>2, Zenon DEF NoDesktop
<1>5. TopicKept
  BY <1>1, <1>2, <1>3 DEF TopicKept, SameList, Doing, Idle, Listed
<1>6. Shapes' /\ CountsRight' /\ Roles'
  BY <1>1, <1>2, <1>3, <1>5, ListStays
<1>7. DesktopKept
  <2>1. desktop.dbus_proxy = 0 => desktop'.refcount = 0
    BY <1>1, <1>3 DEF SameList, Proxies
  <2>2. /\ DOMAIN desktop' = DOMAIN NoDesktop
        /\ desktop'.devices \in Seq(Objects) /\ IsInjective(desktop'.devices)
    BY <1>6 DEF Shapes, DesktopShape
  <2> QED
    BY <1>3, <2>1, <2>2 DEF DesktopKept
<1>8. doing'.what = "removing"
  BY <1>2 DEF Idle
<1>9. Proxies'
  BY <1>1, <1>7, <1>8, ProxiesKept
<1>10. Present'
  BY <1>1, <1>3, <1>4, Zenon DEF Present
<1> QED
  BY <1>6, <1>9, <1>10 DEF Inv

----------------------------------------------------------------------------
(* Devices are listed.                                                     *)

LEMMA DeviceListed ==
    ASSUME Inv, desktop.dbus_proxy # 0, NEW o \in Objects, ~Live(o),
           NEW p, NEW text, device' = [device EXCEPT ![o] = NewDevice(p, text)],
           desktop' = [DesktopAddRef(desktop) EXCEPT !.devices = Append(@, o)],
           UNCHANGED <<enum, session, held>>, SignalsKept,
           ~Doing("telling"), DOMAIN doing' = DOMAIN Idle,
           Doing("telling")' => doing'.object = o, ~Doing("removing")'
    PROVE  Inv'
<1>1. /\ Shapes /\ CountsRight /\ Proxies /\ Roles /\ Present
      /\ \A x \in Objects : device[x].refcount \in Nat
      /\ Listed \subseteq Lives
  BY ReferredLive DEF Inv
<1>2. /\ DOMAIN desktop = DOMAIN NoDesktop
      /\ desktop.devices \in Seq(Objects) /\ IsInjective(desktop.devices)
      /\ DOMAIN device = Objects /\ \A x \in Objects : DOMAIN device[x] = DOMAIN Free
      /\ held.desktop \in Nat /\ held.device \in [Objects -> Nat]
      /\ desktop.refcount = held.desktop + Cardinality(Lives) /\ Cardinality(Lives) \in Nat
  BY <1>1, FiniteLives DEF Shapes, DesktopShape, DeviceShape, HeldShape, CountsRight
<1>3. o \notin Listed /\ device[o].refcount = 0
  BY <1>1 DEF Lives, Live
<1>4. /\ DOMAIN device' = Objects
      /\ \A x \in Objects : x # o => device'[x] = device[x]
      /\ device'[o].refcount = 1 /\ device'[o].status = "connected"
      /\ DOMAIN device'[o] = DOMAIN Free
  BY <1>2 DEF NewDevice, Free
<1>5. /\ DOMAIN desktop' = DOMAIN NoDesktop /\ desktop'.refcount = desktop.refcount + 1
      /\ desktop'.devices = Append(desktop.devices, o) /\ desktop'.made = desktop.made
      /\ desktop'.dbus_proxy = desktop.dbus_proxy /\ desktop'.handlers = desktop.handlers
  BY <1>2 DEF DesktopAddRef, NoDesktop
<1>6. desktop'.exists = desktop.exists
  BY <1>2, Zenon DEF DesktopAddRef, NoDesktop
<1>7. /\ desktop'.devices \in Seq(Objects) /\ IsInjective(desktop'.devices)
      /\ Listed' = Listed \cup {o}
  <2>1. PICK list \in Seq(Objects) : list = desktop.devices
    BY <1>2
  <2>2. IsInjective(list) /\ o \notin ToSet(list) /\ Listed = ToSet(list)
    BY <1>2, <1>3, <2>1 DEF Listed
  <2>3. /\ Append(list, o) \in Seq(Objects) /\ IsInjective(Append(list, o))
        /\ ToSet(Append(list, o)) = ToSet(list) \cup {o}
    BY <2>2, AppendedList
  <2>4. desktop'.devices = Append(list, o) /\ Listed' = ToSet(desktop'.devices)
    BY <1>5, <2>1 DEF Listed
  <2> QED
    BY <2>2, <2>3, <2>4
<1>8. Shapes'
  BY <1>1, <1>2, <1>4, <1>5, <1>7 DEF Shapes, DesktopShape, DeviceShape, EnumShape, SessionShape,
     HeldShape, DoingShape
<1>9. SessionsOf(o) = {}
  BY <1>1, ReferredLive DEF SessionsOf
<1>10. CountsRight'
  <2>1. ASSUME NEW x \in Objects
        PROVE  /\ device'[x].refcount = device[x].refcount
                    + (held'.device[x] - held.device[x]) + (OthersOf(x)' - OthersOf(x))
               /\ held'.device[x] \in Nat
    <3>1. ~Ends(x) /\ ~Ends(x)'
      BY <1>7 DEF Ends
    <3>2. One(Ends(x)') = One(Ends(x)) /\ One(x \in Listed') = One(x \in Listed) + One(x = o)
          /\ One(Ends(x)) \in Nat /\ One(x \in Listed) \in Nat /\ One(x = o) \in Nat
      BY <1>3, <1>7, <3>1 DEF One
    <3>3. EnumsOf(x)' = EnumsOf(x) /\ SessionsOf(x)' = SessionsOf(x)
      BY DEF EnumsOf, SessionsOf
    <3>4. Cardinality(EnumsOf(x)) \in Nat /\ Cardinality(SessionsOf(x)) \in Nat
      BY FiniteParts
    <3>5. OthersOf(x)' - OthersOf(x) = One(x = o)
      BY <3>2, <3>3, <3>4 DEF OthersOf
    <3>6. held.device[x] \in Nat /\ held' = held
      BY <1>2
    <3>7. device'[x].refcount = device[x].refcount + One(x = o) /\ device[x].refcount \in Nat
      BY <1>1, <1>3, <1>4 DEF One
    <3> QED
      BY <3>2, <3>5, <3>6, <3>7
  <2>2. desktop'.refcount = held'.desktop + Cardinality(Lives')
    <3>1. Lives' = Lives \cup {o} /\ o \notin Lives
      BY <1>3, <1>4 DEF Lives, Live
    <3>2. Cardinality(Lives') = Cardinality(Lives) + 1
      BY <3>1, FiniteLives, FS_AddElement
    <3>3. held'.desktop = held.desktop
      OBVIOUS
    <3>4. /\ held.desktop \in Nat /\ Cardinality(Lives) \in Nat
          /\ desktop'.refcount = (held.desktop + Cardinality(Lives)) + 1
      BY <1>2, <1>5
    <3> HIDE DEF Lives
    <3> QED
      BY <3>2, <3>3, <3>4
  <2> QED
    BY <1>1, <2>1, <2>2, CountsFollow
<1>11. Roles'
  <2>1. ASSUME NEW t \in Sessions, session'[t].refcount > 0
        PROVE  session'[t].info = device'[session'[t].device].info
    <3>1. PICK x \in Objects : x = session[t].device
      BY <1>1, <2>1 DEF Shapes, SessionShape
    <3>2. x # o
      BY <1>9, <2>1, <3>1 DEF SessionsOf
    <3> QED
      BY <1>1, <1>4, <2>1, <3>1, <3>2 DEF Roles
  <2>2. \A x \in Listed' : device'[x].status = "connected"
    BY <1>1, <1>3, <1>4, <1>7 DEF Roles, Lives
  <2>3. Doing("telling")' => doing'.object \in Objects /\ doing'.object \in Listed'
    BY <1>7
  <2> QED
    BY <2>1, <2>2, <2>3 DEF Roles
<1>12. Proxies'
  <2>1. DesktopKept
    BY <1>5, <1>7 DEF DesktopKept
  <2> QED
    BY <1>1, <1>5, <2>1, ProxiesKept
<1>13. Present'
  BY <1>1, <1>5, <1>6, Zenon DEF Present
<1> QED
  BY <1>8, <1>10, <1>11, <1>12, <1>13 DEF Inv

LEMMA UdevConnectListsKeeps ==
    ASSUME Inv, UdevConnectLists PROVE Inv'
<1>1. /\ UNCHANGED <<signals, enum, session, held>> /\ doing.what = "listing" /\ SignalsKept
      /\ Shapes /\ Proxies /\ Present
  BY DEF UdevConnectLists, Doing, SignalsKept, Inv
<1>2. desktop.dbus_proxy # 0 /\ ~Doing("telling")
  BY <1>1 DEF Proxies, Doing
<1>3. CASE doing.left = {}
  <2>1. doing' = Idle /\ UNCHANGED <<desktop, device>>
    BY <1>3 DEF UdevConnectLists
  <2>2. DOMAIN doing' = DOMAIN Idle /\ ~Doing("telling")' /\ ~Doing("removing")'
    BY <2>1 DEF Idle, Doing
  <2>3. SameList /\ TopicKept /\ DesktopKept
    BY <1>1, <1>2, <2>1, <2>2 DEF SameList, TopicKept, DesktopKept, Shapes, DesktopShape
  <2>4. Shapes' /\ CountsRight' /\ Roles'
    BY <1>1, <2>1, <2>3, ListStays
  <2>5. Proxies'
    BY <1>1, <1>2, <2>1, <2>3, ProxiesKept
  <2>6. Present'
    BY <1>1, <2>1 DEF Present
  <2> QED
    BY <2>4, <2>5, <2>6 DEF Inv
<1>4. CASE doing.left # {}
  <2>1. PICK p \in doing.left, o \in Objects :
            /\ NewObject(o)
            /\ device' = [device EXCEPT ![o] = NewDevice(p, "freed")]
            /\ desktop' = [DesktopAddRef(desktop) EXCEPT !.devices = Append(@, o)]
            /\ doing' = [doing EXCEPT !.left = @ \ {p}]
    BY <1>4 DEF UdevConnectLists
  <2>2. ~Live(o)
    BY <2>1 DEF NewObject
  <2>3. DOMAIN doing' = DOMAIN Idle /\ ~Doing("telling")' /\ ~Doing("removing")'
    BY <1>1, <2>1 DEF Shapes, DoingShape, Idle, Doing
  <2> QED
    BY <1>1, <1>2, <2>1, <2>2, <2>3, DeviceListed
<1> QED
  BY <1>3, <1>4

LEMMA OnDeviceConnectedKeeps ==
    ASSUME Inv, OnDeviceConnected PROVE Inv'
<1>1. SignalsKept /\ Doing("nothing") /\ UNCHANGED <<enum, session, held>> /\ Present
  BY FirstSignal DEF Inv, OnDeviceConnected
<1>2. PICK o \in Objects :
        /\ NewObject(o)
        /\ device' = [device EXCEPT ![o] = NewDevice(Head(signals).path, "own")]
        /\ desktop' = [DesktopAddRef(desktop) EXCEPT !.devices = Append(@, o)]
        /\ doing' = [what |-> "telling", object |-> o,
                     left |-> DOMAIN desktop.sinks, told |-> {}]
  BY DEF OnDeviceConnected
<1>3. desktop.dbus_proxy # 0
  BY <1>1, Zenon DEF OnDeviceConnected, Current, Present
<1>4. ~Live(o)
  BY <1>2 DEF NewObject
<1>5. DOMAIN doing' = DOMAIN Idle /\ doing'.object = o /\ ~Doing("removing")' /\ ~Doing("telling")
  BY <1>1, <1>2 DEF Idle, Doing
<1> QED
  BY <1>1, <1>2, <1>3, <1>4, <1>5, DeviceListed

----------------------------------------------------------------------------
(* Devices leave the list.                                                 *)

LEMMA OnDeviceDisconnectedKeeps ==
    ASSUME Inv, OnDeviceDisconnected PROVE Inv'
<1>1. /\ SignalsKept /\ Doing("nothing") /\ UNCHANGED <<enum, session, held>>
      /\ Shapes /\ CountsRight /\ Proxies /\ Roles /\ Present
      /\ \A x \in Objects : device[x].refcount \in Nat
  BY FirstSignal, ReferredLive DEF Inv, OnDeviceDisconnected
<1>2. PICK list \in Seq(Objects) : list = desktop.devices
  BY <1>1 DEF Shapes, DesktopShape
<1>3. PICK i \in DOMAIN list, o \in Objects :
        /\ o = list[i]
        /\ device' = [device EXCEPT ![o].status = "disconnected"]
        /\ desktop' = [desktop EXCEPT !.devices = RemoveAt(@, i)]
        /\ doing' = [what |-> "telling", object |-> o,
                     left |-> DOMAIN desktop.sinks, told |-> {}]
  <2>1. PICK i \in DOMAIN desktop.devices :
        /\ device' = [device EXCEPT ![desktop.devices[i]].status = "disconnected"]
        /\ desktop' = [desktop EXCEPT !.devices = RemoveAt(@, i)]
        /\ doing' = [what |-> "telling", object |-> desktop.devices[i],
                     left |-> DOMAIN desktop.sinks, told |-> {}]
    BY DEF OnDeviceDisconnected
  <2>2. i \in DOMAIN list /\ list[i] \in Objects
    BY <1>2, <2>1
  <2> QED
    BY <1>2, <2>1, <2>2
<1>4. /\ DOMAIN desktop = DOMAIN NoDesktop /\ IsInjective(list) /\ Listed = ToSet(list)
      /\ DOMAIN device = Objects /\ \A x \in Objects : DOMAIN device[x] = DOMAIN Free
      /\ held.desktop \in Nat /\ held.device \in [Objects -> Nat]
  BY <1>1, <1>2 DEF Shapes, DesktopShape, DeviceShape, HeldShape, Listed
<1>5. /\ DOMAIN device' = Objects /\ \A x \in Objects : DOMAIN device'[x] = DOMAIN Free
      /\ \A x \in Objects : x # o => device'[x] = device[x]
      /\ \A x \in Objects : device'[x].refcount = device[x].refcount
                            /\ device'[x].info = device[x].info
      /\ device'[o].status = "disconnected"
  BY <1>3, <1>4 DEF Free
<1>6. /\ DOMAIN desktop' = DOMAIN NoDesktop /\ desktop'.refcount = desktop.refcount
      /\ desktop'.devices = RemoveAt(list, i) /\ desktop'.made = desktop.made
      /\ desktop'.dbus_proxy = desktop.dbus_proxy /\ desktop'.handlers = desktop.handlers
  BY <1>2, <1>3, <1>4 DEF NoDesktop
<1>7. desktop'.exists = desktop.exists
  BY <1>3, <1>4, Zenon DEF NoDesktop
<1>8. /\ RemoveAt(list, i) \in Seq(Objects) /\ IsInjective(RemoveAt(list, i))
      /\ ToSet(RemoveAt(list, i)) = ToSet(list) \ {list[i]}
  BY <1>4, ShortenedList
<1>9. /\ desktop'.devices \in Seq(Objects) /\ IsInjective(desktop'.devices)
      /\ Listed' = Listed \ {o} /\ o \in Listed /\ Listed \subseteq Objects
  <2>1. o \in ToSet(list) /\ ToSet(list) \subseteq Objects
    BY <1>3 DEF ToSet
  <2>2. Listed' = ToSet(desktop'.devices)
    BY DEF Listed
  <2> QED
    BY <1>3, <1>4, <1>6, <1>8, <2>1, <2>2
<1>10. /\ DOMAIN doing' = DOMAIN Idle /\ doing'.object = o /\ doing'.what = "telling"
       /\ ~Doing("telling") /\ ~Doing("removing")'
  BY <1>1, <1>3 DEF Idle, Doing
<1>11. Shapes'
  BY <1>1, <1>5, <1>6, <1>9, <1>10 DEF Shapes, DesktopShape, DeviceShape, EnumShape, SessionShape,
     HeldShape, DoingShape
<1>12. CountsRight'
  <2>1. ASSUME NEW x \in Objects
        PROVE  /\ device'[x].refcount = device[x].refcount
                    + (held'.device[x] - held.device[x]) + (OthersOf(x)' - OthersOf(x))
               /\ held'.device[x] \in Nat
    <3>1. ~Ends(x) /\ (Ends(x)' <=> x = o)
      BY <1>5, <1>9, <1>10 DEF Ends, Doing
    <3>2. /\ One(Ends(x)') = One(x = o) /\ One(Ends(x)) = 0
          /\ One(x \in Listed') = One(x \in Listed) - One(x = o)
          /\ One(x \in Listed) \in Nat /\ One(x = o) \in Nat
      BY <1>9, <3>1 DEF One
    <3>3. EnumsOf(x)' = EnumsOf(x) /\ SessionsOf(x)' = SessionsOf(x)
      BY <1>1 DEF EnumsOf, SessionsOf
    <3>4. Cardinality(EnumsOf(x)) \in Nat /\ Cardinality(SessionsOf(x)) \in Nat
      BY FiniteParts
    <3>5. OthersOf(x)' - OthersOf(x) = 0
      BY <3>2, <3>3, <3>4 DEF OthersOf
    <3>6. held.device[x] \in Nat /\ held' = held
      BY <1>1, <1>4
    <3> QED
      BY <1>1, <1>5, <3>5, <3>6
  <2>2. desktop'.refcount = held'.desktop + Cardinality(Lives')
    <3>1. Lives' = Lives
      BY <1>5 DEF Lives, Live
    <3> QED
      BY <1>1, <1>6, <3>1 DEF CountsRight
  <2> QED
    BY <1>1, <2>1, <2>2, CountsFollow
<1>13. Roles'
  <2>1. ASSUME NEW t \in Sessions, session'[t].refcount > 0
        PROVE  session'[t].info = device'[session'[t].device].info
    <3>1. session[t].device \in Objects
      BY <1>1, <2>1 DEF Shapes, SessionShape
    <3> QED
      BY <1>1, <1>5, <2>1, <3>1 DEF Roles
  <2>2. \A x \in Listed' : device'[x].status = "connected"
    BY <1>1, <1>5, <1>9 DEF Roles
  <2>3. doing'.object \in Objects /\ device'[doing'.object].status = "disconnected"
    BY <1>5, <1>10
  <2> QED
    BY <1>10, <2>1, <2>2, <2>3 DEF Roles
<1>14. Proxies'
  <2>1. DesktopKept
    BY <1>1, <1>6, <1>9 DEF DesktopKept, Proxies
  <2> QED
    BY <1>1, <1>10, <2>1, ProxiesKept
<1>15. Present'
  BY <1>1, <1>6, <1>7, Zenon DEF Present
<1> QED
  BY <1>11, <1>12, <1>13, <1>14, <1>15 DEF Inv

\* The list gives back its reference on the device at place i.
DropsDevice(o) ==
    device' = [device EXCEPT ![o] =
                  IF device[o].refcount = 1 THEN Free
                  ELSE [device[o] EXCEPT !.refcount = device[o].refcount - 1,
                                         !.status = "disconnected"]]
DropsPlace(i, o) ==
    desktop' = IF device[o].refcount = 1
               THEN DesktopRelease([desktop EXCEPT !.devices = RemoveAt(@, i)])
               ELSE [desktop EXCEPT !.devices = RemoveAt(@, i)]

LEMMA DeviceRemoved ==
    ASSUME Inv, ~Doing("telling"), ~Doing("telling")', DOMAIN doing' = DOMAIN Idle,
           doing'.what = "removing",
           NEW list \in Seq(Objects), list = desktop.devices, NEW i \in DOMAIN list,
           NEW o \in Objects, o = list[i], doing'.left \subseteq Listed \ {o},
           UNCHANGED <<signals, enum, session, held>>,
           DropsDevice(o), DropsPlace(i, o)
    PROVE  Inv'
<1> DEFINE d == [desktop EXCEPT !.devices = RemoveAt(@, i)]
           G == {x \in {o} : device[x].refcount = 1}
<1>1. /\ Shapes /\ CountsRight /\ Proxies /\ Roles /\ Present
      /\ \A x \in Objects : device[x].refcount \in Nat
      /\ Listed \subseteq Lives /\ Listed \subseteq Objects
  BY ReferredLive DEF Inv, Lives
<1>2. /\ DOMAIN desktop = DOMAIN NoDesktop /\ IsInjective(list) /\ Listed = ToSet(list)
      /\ DOMAIN device = Objects /\ \A x \in Objects : DOMAIN device[x] = DOMAIN Free
      /\ held.desktop \in Nat /\ held.device \in [Objects -> Nat]
      /\ desktop.refcount = held.desktop + Cardinality(Lives) /\ Cardinality(Lives) \in Nat
      /\ desktop.dbus_proxy = 0 => desktop.refcount = 0
  BY <1>1, FiniteLives DEF Shapes, DesktopShape, DeviceShape, HeldShape, Listed, CountsRight, Proxies
<1>3. /\ RemoveAt(list, i) \in Seq(Objects) /\ IsInjective(RemoveAt(list, i))
      /\ ToSet(RemoveAt(list, i)) = ToSet(list) \ {list[i]}
  BY <1>2, ShortenedList
<1>4. /\ DOMAIN d = DOMAIN NoDesktop /\ d.refcount = desktop.refcount
      /\ d.devices = RemoveAt(list, i) /\ d.made = desktop.made
      /\ d.dbus_proxy = desktop.dbus_proxy /\ d.handlers = desktop.handlers
  BY <1>2 DEF NoDesktop
<1>5. AsPresent(d)
  BY <1>2, Zenon DEF NoDesktop, AsPresent
<1>6. desktop' = IF device[o].refcount = 1 THEN DesktopRelease(d) ELSE d
  BY DEF DropsPlace
<1> HIDE DEF d
<1>7. o \in Listed /\ device[o].refcount > 0
  <2>1. o \in ToSet(list)
    BY DEF ToSet
  <2> QED
    BY <1>1, <1>2, <2>1 DEF Lives, Live
<1>8. ToSet(d.devices) = Listed \ {o}
  BY <1>2, <1>3, <1>4
<1>9. G \in SUBSET Lives
  BY <1>1, <1>7
<1>10. G = {o} <=> device[o].refcount = 1
  OBVIOUS
<1>11. G = {} <=> device[o].refcount # 1
  OBVIOUS
<1>12. /\ Cardinality(Lives \ G) = Cardinality(Lives) - Cardinality(G)
       /\ Cardinality(G) \in Nat
       /\ G = {o} => Cardinality(G) = 1
       /\ G = {} => Cardinality(G) = 0
  <2> HIDE DEF G
  <2>1. /\ Cardinality(Lives \ G) = Cardinality(Lives) - Cardinality(G)
        /\ Cardinality(G) \in Nat
    BY <1>9, LivesWithout
  <2>2. Cardinality({o}) = 1 /\ Cardinality({}) = 0
    BY FS_Singleton, FS_EmptySet
  <2> QED
    BY <2>1, <2>2
<1> HIDE DEF G
<1>13. /\ DesktopKept /\ Present' /\ Listed' = Listed \ {o}
       /\ desktop'.refcount = desktop.refcount - Cardinality(G)
  <2>1. CASE device[o].refcount = 1
    <3>1. G = {o} /\ G # {} /\ Cardinality(G) = 1
      BY <1>10, <1>12, <2>1
    <3>2. d.refcount = desktop.refcount - (Cardinality(G) - 1)
      BY <1>2, <1>4, <3>1
    <3>3. ToSet(d.devices) \subseteq Lives \ G
      BY <1>1, <1>8, <3>1
    <3>4. desktop' = DesktopRelease(d)
      BY <1>6, <2>1
    <3>5. d.devices \in Seq(Objects) /\ IsInjective(d.devices)
      BY <1>3, <1>4
    <3> QED
      BY <1>4, <1>5, <1>8, <1>9, <3>1, <3>2, <3>3, <3>4, <3>5, DevicesGone
  <2>2. CASE device[o].refcount # 1
    <3>1. desktop' = d
      BY <1>6, <2>2
    <3>2. Listed' = Listed \ {o}
      BY <1>8, <3>1 DEF Listed
    <3>3. DesktopKept
      BY <1>2, <1>3, <1>4, <3>1 DEF DesktopKept
    <3>4. desktop'.refcount = desktop.refcount - Cardinality(G)
      BY <1>2, <1>4, <1>11, <1>12, <2>2, <3>1
    <3>5. desktop'.exists = desktop.exists
      BY <1>5, <3>1, Zenon DEF AsPresent
    <3>6. desktop'.dbus_proxy = desktop.dbus_proxy
      BY <1>4, <3>1
    <3>7. Present'
      BY <1>1, <3>5, <3>6, Zenon DEF Present
    <3> QED
      BY <3>2, <3>3, <3>4, <3>7
  <2> QED
    BY <2>1, <2>2
<1>14. /\ DOMAIN device' = Objects /\ \A x \in Objects : DOMAIN device'[x] = DOMAIN Free
       /\ \A x \in Objects : x # o => device'[x] = device[x]
       /\ \A x \in Objects : device'[x].refcount = device[x].refcount - One(x = o)
       /\ \A x \in Objects : device'[x].info = device[x].info \/ device'[x].refcount = 0
  <2>1. DOMAIN device' = Objects /\ \A x \in Objects : x # o => device'[x] = device[x]
    BY <1>2 DEF DropsDevice
  <2>2. device'[o] = IF device[o].refcount = 1 THEN Free
                     ELSE [device[o] EXCEPT !.refcount = @ - 1, !.status = "disconnected"]
    BY <1>2 DEF DropsDevice
  <2>3. /\ DOMAIN device'[o] = DOMAIN Free /\ device'[o].refcount = device[o].refcount - 1
        /\ device'[o].info = device[o].info \/ device'[o].refcount = 0
    <3>1. CASE device[o].refcount = 1
      <4>1. Free.refcount = 0
        BY DEF Free
      <4> QED
        BY <2>2, <3>1, <4>1
    <3>2. CASE device[o].refcount # 1
      <4>1. device'[o] = [device[o] EXCEPT !.refcount = @ - 1, !.status = "disconnected"]
        BY <2>2, <3>2
      <4>2. DOMAIN device[o] = DOMAIN Free
        BY <1>2
      <4> QED
        BY <4>1, <4>2 DEF Free
    <3> QED
      BY <3>1, <3>2
  <2>4. ASSUME NEW x \in Objects
        PROVE  /\ DOMAIN device'[x] = DOMAIN Free
               /\ device'[x].refcount = device[x].refcount - One(x = o)
               /\ device'[x].info = device[x].info \/ device'[x].refcount = 0
    <3>1. CASE x = o
      BY <2>3, <3>1 DEF One
    <3>2. CASE x # o
      <4>1. device'[x] = device[x] /\ device[x].refcount \in Nat /\ One(x = o) = 0
        BY <1>1, <2>1, <3>2 DEF One
      <4> QED
        BY <1>2, <4>1
    <3> QED
      BY <3>1, <3>2
  <2> QED
    BY <2>1, <2>4
<1>15. Shapes'
  <2>1. /\ DOMAIN desktop' = DOMAIN NoDesktop
        /\ desktop'.devices \in Seq(Objects) /\ IsInjective(desktop'.devices)
    BY <1>13 DEF DesktopKept
  <2> QED
    BY <1>1, <1>14, <2>1 DEF Shapes, DesktopShape, DeviceShape, EnumShape, SessionShape,
       HeldShape, DoingShape
<1>16. CountsRight'
  <2>1. ASSUME NEW x \in Objects
        PROVE  /\ device'[x].refcount = device[x].refcount
                    + (held'.device[x] - held.device[x]) + (OthersOf(x)' - OthersOf(x))
               /\ held'.device[x] \in Nat
    <3>1. ~Ends(x) /\ ~Ends(x)'
      BY DEF Ends
    <3>2. /\ One(Ends(x)') = 0 /\ One(Ends(x)) = 0
          /\ One(x \in Listed') = One(x \in Listed) - One(x = o)
          /\ One(x \in Listed) \in Nat /\ One(x = o) \in Nat
      BY <1>7, <1>13, <3>1 DEF One
    <3>3. EnumsOf(x)' = EnumsOf(x) /\ SessionsOf(x)' = SessionsOf(x)
      BY DEF EnumsOf, SessionsOf
    <3>4. Cardinality(EnumsOf(x)) \in Nat /\ Cardinality(SessionsOf(x)) \in Nat
      BY FiniteParts
    <3>5. OthersOf(x)' - OthersOf(x) = 0 - One(x = o)
      BY <3>2, <3>3, <3>4 DEF OthersOf
    <3>6. held.device[x] \in Nat /\ held' = held
      BY <1>2
    <3>7. device[x].refcount \in Nat /\ device'[x].refcount = device[x].refcount - One(x = o)
      BY <1>1, <1>14
    <3>8. device'[x].refcount = device[x].refcount
                    + (held'.device[x] - held.device[x]) + (0 - One(x = o))
      BY <3>2, <3>6, <3>7
    <3>9. held'.device[x] \in Nat
      BY <3>6
    <3> QED
      BY <3>5, <3>8, <3>9
  <2>2. desktop'.refcount = held'.desktop + Cardinality(Lives')
    <3>1. Lives' = Lives \ G
      BY <1>1, <1>7, <1>14 DEF Lives, Live, One, G
    <3>2. Cardinality(Lives') = Cardinality(Lives) - Cardinality(G) /\ Cardinality(G) \in Nat
      BY <1>12, <3>1
    <3>3. held'.desktop = held.desktop
      OBVIOUS
    <3>4. /\ held.desktop \in Nat /\ Cardinality(Lives) \in Nat
          /\ desktop'.refcount = (held.desktop + Cardinality(Lives)) - Cardinality(G)
      BY <1>2, <1>13
    <3> HIDE DEF Lives
    <3> QED
      BY <3>2, <3>3, <3>4
  <2> QED
    BY <1>1, <2>1, <2>2, CountsFollow
<1>17. Roles'
  <2>1. ASSUME NEW t \in Sessions, session'[t].refcount > 0
        PROVE  session'[t].info = device'[session'[t].device].info
    <3>1. PICK x \in Objects : x = session'[t].device
      BY <1>15, <2>1 DEF Shapes, SessionShape
    <3>2. SessionsOf(x)' # {}
      BY <2>1, <3>1 DEF SessionsOf
    <3>3. device'[x].refcount # 0
      BY <1>15, <1>16, <3>2, StillReferred DEF Shapes
    <3>4. session'[t].info = device[x].info
      BY <1>1, <2>1, <3>1 DEF Roles
    <3> QED
      BY <1>14, <3>1, <3>3, <3>4
  <2>2. \A x \in Listed' : device'[x].status = "connected"
    BY <1>1, <1>13, <1>14 DEF Roles
  <2>3. Doing("removing")' => doing'.left \subseteq Listed'
    BY <1>13
  <2> QED
    BY <2>1, <2>2, <2>3 DEF Roles
<1>18. Proxies'
  BY <1>1, <1>13, ProxiesKept DEF SignalsKept
<1> QED
  BY <1>13, <1>15, <1>16, <1>17, <1>18 DEF Inv

LEMMA UdevDisconnectRemovesKeeps ==
    ASSUME Inv, UdevDisconnectRemoves PROVE Inv'
<1>1. /\ Shapes /\ CountsRight /\ Proxies /\ Roles /\ Present
      /\ \A x \in Objects : device[x].refcount \in Nat
      /\ Listed \subseteq Lives /\ Listed \subseteq Objects
  BY ReferredLive DEF Inv, Lives
<1>2. /\ doing.what = "removing" /\ doing.left \subseteq Listed /\ DOMAIN doing = DOMAIN Idle
      /\ UNCHANGED <<signals, enum, session, held>> /\ SignalsKept /\ ~Doing("telling")
  BY <1>1 DEF UdevDisconnectRemoves, Doing, Roles, Shapes, DoingShape, SignalsKept
<1>3. ASSUME TopicKept, UNCHANGED <<desktop, device>>,
             doing'.what \in {"nothing", "removing"}
      PROVE  Inv'
  <2>1. SameList /\ DesktopKept
    BY <1>1, <1>3 DEF SameList, DesktopKept, Shapes, DesktopShape, Proxies
  <2>2. Shapes' /\ CountsRight' /\ Roles'
    BY <1>2, <1>3, <2>1, ListStays
  <2>3. Proxies'
    BY <1>1, <1>2, <1>3, <2>1, ProxiesKept
  <2>4. Present'
    BY <1>1, <1>3 DEF Present
  <2> QED
    BY <2>2, <2>3, <2>4 DEF Inv
<1>4. CASE doing.left = {}
  <2>1. doing' = Idle /\ UNCHANGED <<desktop, device>>
    BY <1>4 DEF UdevDisconnectRemoves
  <2>2. TopicKept /\ doing'.what \in {"nothing", "removing"}
    BY <1>2, <2>1 DEF TopicKept, Idle, Doing
  <2> QED
    BY <1>3, <2>1, <2>2
<1>5. CASE doing.left # {}
  <2> DEFINE I == {k \in 1..Len(desktop.devices) : desktop.devices[k] \in doing.left}
             first == IF I # {} THEN Min(I) ELSE 0
  <2>1. first = SelectInSeq(desktop.devices, LAMBDA x : x \in doing.left)
    BY DEF SelectInSeq
  <2>2. PICK list \in Seq(Objects) : list = desktop.devices
    BY <1>1 DEF Shapes, DesktopShape
  <2>3. DOMAIN list = 1..Len(list) /\ Len(list) \in Nat
    OBVIOUS
  <2>4. I \in SUBSET (1..Len(list)) /\ I # {}
    <3>1. PICK x \in doing.left : x \in Listed
      BY <1>2, <1>5
    <3>2. PICK k \in DOMAIN list : list[k] = x
      BY <2>2, <3>1 DEF Listed, ToSet
    <3>3. k \in I
      BY <2>2, <2>3, <3>1, <3>2
    <3> QED
      BY <2>2, <3>3
  <2>5. first \in I
    <3> HIDE DEF I
    <3> QED
      BY <2>3, <2>4, FirstPlace
  <2> HIDE DEF first
  <2>6. PICK o \in Objects : o = list[first]
    BY <2>2, <2>3, <2>4, <2>5
  <2>7. first \in DOMAIN list /\ o \in doing.left
    BY <2>2, <2>3, <2>4, <2>5, <2>6
  <2>8. /\ doing' = [doing EXCEPT !.left = @ \ {o}]
        /\ \/ DropsDevice(o) /\ DropsPlace(first, o)
           \/ UNCHANGED <<desktop, device>>
    BY <1>5, <2>1, <2>2, <2>6 DEF UdevDisconnectRemoves, DropsDevice, DropsPlace
  <2>9. /\ DOMAIN doing' = DOMAIN Idle /\ doing'.what = "removing"
        /\ doing'.left = doing.left \ {o} /\ ~Doing("telling")'
    BY <1>2, <2>8 DEF Idle, Doing
  <2>10. CASE UNCHANGED <<desktop, device>>
    <3>1. TopicKept
      BY <1>2, <2>9, <2>10 DEF TopicKept, Listed
    <3> QED
      BY <1>3, <2>9, <2>10, <3>1
  <2>11. CASE DropsDevice(o) /\ DropsPlace(first, o)
    BY <1>1, <1>2, <2>2, <2>6, <2>7, <2>9, <2>11, DeviceRemoved
  <2> QED
    BY <2>8, <2>10, <2>11
<1> QED
  BY <1>4, <1>5

----------------------------------------------------------------------------
(* The bus.                                                                *)

\* Signals that are on the way to who they are for.
LEMMA SignalsAdded ==
    ASSUME Inv, NEW more \in Seq(Signals), \A i \in DOMAIN more : Addressed(more[i]),
           signals' = signals \o more,
           UNCHANGED <<desktop, device, enum, session, doing, held>>
    PROVE  Inv'
<1>1. signals \in Seq(Signals) /\ \A i \in DOMAIN signals : Addressed(signals[i])
  BY DEF Inv, Proxies
<1>2. /\ signals' \in Seq(Signals) /\ DOMAIN signals' = 1..(Len(signals) + Len(more))
      /\ Len(signals) \in Nat /\ Len(more) \in Nat
      /\ DOMAIN signals = 1..Len(signals) /\ DOMAIN more = 1..Len(more)
      /\ \A i \in 1..(Len(signals) + Len(more)) :
            signals'[i] = IF i <= Len(signals) THEN signals[i] ELSE more[i - Len(signals)]
  BY <1>1, ConcatProperties
<1>3. ASSUME NEW i \in DOMAIN signals' PROVE Addressed(signals[i])'
  <2>1. PICK m : m = signals'[i]
    OBVIOUS
  <2>2. Addressed(m)
    <3>1. CASE i <= Len(signals)
      <4>1. i \in DOMAIN signals /\ m = signals[i]
        BY <1>2, <2>1, <3>1
      <4> QED
        BY <1>1, <4>1
    <3>2. CASE i > Len(signals)
      <4>1. i - Len(signals) \in DOMAIN more /\ m = more[i - Len(signals)]
        BY <1>2, <2>1, <3>2
      <4> QED
        BY <4>1
    <3> QED
      BY <1>2, <3>1, <3>2
  <2> QED
    BY <2>1, <2>2 DEF Addressed
<1>4. Proxies'
  BY <1>2, <1>3 DEF Inv, Proxies
<1>5. Shapes' /\ Roles' /\ Present'
  BY DEF Inv, Shapes, DesktopShape, DeviceShape, EnumShape, SessionShape, HeldShape, DoingShape,
     Roles, Listed, Doing, Present
<1>6. CountsRight'
  BY DEF Inv, CountsRight, Holders, Count, Lives, Live, Listed, Doing
<1> QED
  BY <1>4, <1>5, <1>6 DEF Inv

\* SetToSeq makes a sequence of a finite set.
LEMMA SequenceOfSet ==
    ASSUME NEW S, IsFiniteSet(S)
    PROVE  SetToSeq(S) \in Seq(S)
<1>1. Cardinality(S) \in Nat /\ ExistsBijection(1..Cardinality(S), S)
  BY FS_CardinalityType
<1>2. \E f \in [1..Cardinality(S) -> S] : IsInjective(f)
  BY <1>1 DEF ExistsBijection, Bijection, Injection, IsInjective
<1>3. SetToSeq(S) \in [1..Cardinality(S) -> S]
  BY <1>2 DEF SetToSeq
<1> QED
  BY <1>1, <1>3

LEMMA ToProxiesAddressed ==
    ASSUME Inv, NEW p \in Paths, NEW name \in {"Connected", "Disconnected"}
    PROVE  /\ ToProxies(name, p) \in Seq(Signals)
           /\ \A i \in DOMAIN ToProxies(name, p) : Addressed(ToProxies(name, p)[i])
<1> DEFINE X == desktop.handlers \ {desktop.dbus_proxy}
           signal(x) == [name |-> name, path |-> p, to |-> x]
           S == {signal(x) : x \in X}
           f == [x \in X |-> signal(x)]
<1>1. /\ desktop.made \in Nat /\ desktop.handlers \subseteq 1..desktop.made
  BY DEF Inv, Proxies
<1>2. IsFiniteSet(X)
  <2>1. IsFiniteSet(1..desktop.made) /\ X \in SUBSET (1..desktop.made)
    BY <1>1, FS_Interval
  <2> QED
    BY <2>1, FS_Subset
<1>3. IsFiniteSet(S)
  <2>1. f \in Surjection(X, S)
    BY DEF Surjection
  <2> QED
    BY <1>2, <2>1, FS_Surjection
<1>4. \A m \in S : m \in Signals /\ Addressed(m)
  BY <1>1 DEF Signals, Addressed
<1>5. ToProxies(name, p) = SetToSeq(S)
  BY DEF ToProxies
<1> HIDE DEF S
<1>6. SetToSeq(S) \in Seq(S)
  BY <1>3, SequenceOfSet
<1>7. /\ ToProxies(name, p) \in Seq(Signals)
      /\ \A i \in DOMAIN ToProxies(name, p) : ToProxies(name, p)[i] \in S
  BY <1>4, <1>5, <1>6
<1> QED
  BY <1>4, <1>7

LEMMA ToDesktopAddressed ==
    ASSUME Inv, NEW name \in {"Online", "Offline"}
    PROVE  /\ ToDesktop(name) \in Seq(Signals)
           /\ \A i \in DOMAIN ToDesktop(name) : Addressed(ToDesktop(name)[i])
<1>1. /\ desktop.made \in Nat /\ desktop.dbus_proxy \in Nat /\ desktop.dbus_proxy <= desktop.made
  BY DEF Inv, Proxies
<1>2. CASE desktop.exists
  <2> DEFINE m == [name |-> name, path |-> None, to |-> desktop.dbus_proxy]
  <2>1. ToDesktop(name) = <<m>>
    BY <1>2, Zenon DEF ToDesktop
  <2>2. desktop.dbus_proxy # 0
    BY <1>2, Zenon DEF Inv, Present
  <2>3. m \in Signals /\ Addressed(m)
    BY <1>1, <2>2 DEF Signals, Addressed
  <2> HIDE DEF m
  <2> QED
    BY <2>1, <2>3
<1>3. CASE ~desktop.exists
  <2>1. ToDesktop(name) = <<>>
    BY <1>3, Zenon DEF ToDesktop
  <2> QED
    BY <2>1
<1> QED
  BY <1>2, <1>3

LEMMA BusKeeps ==
    ASSUME Inv, Bus PROVE Inv'
<1>1. UNCHANGED <<desktop, device, enum, session, doing, held>>
  BY DEF Bus, DeviceAppears, DeviceGoes, DaemonStops, DaemonStarts, Moves, client
<1>2. \/ \E p \in Paths, name \in {"Connected", "Disconnected"} :
              signals' = signals \o ToProxies(name, p)
      \/ \E name \in {"Online", "Offline"} : signals' = signals \o ToDesktop(name)
  BY DEF Bus, DeviceAppears, DeviceGoes, DaemonStops, DaemonStarts
<1>3. ASSUME NEW p \in Paths, NEW name \in {"Connected", "Disconnected"},
             signals' = signals \o ToProxies(name, p)
      PROVE  Inv'
  BY <1>1, <1>3, ToProxiesAddressed, SignalsAdded
<1>4. ASSUME NEW name \in {"Online", "Offline"}, signals' = signals \o ToDesktop(name)
      PROVE  Inv'
  BY <1>1, <1>4, ToDesktopAddressed, SignalsAdded
<1> QED
  BY <1>2, <1>3, <1>4

----------------------------------------------------------------------------
(* Every step.                                                             *)

LEMMA Initially == Init => IndInv
<1> SUFFICES ASSUME Init PROVE IndInv
  OBVIOUS
<1>1. /\ desktop = NoDesktop /\ device = [o \in Objects |-> Free]
      /\ enum = [e \in Enums |-> NoEnum] /\ session = [s \in Sessions |-> NoSession]
      /\ held = [desktop |-> 0, device |-> [o \in Objects |-> 0]]
      /\ signals = <<>> /\ doing = Idle /\ broken = "no"
  BY DEF Init
<1>2. /\ desktop.devices = <<>> /\ desktop.refcount = 0 /\ desktop.made = 0
      /\ desktop.dbus_proxy = 0 /\ desktop.handlers = {} /\ DOMAIN desktop = DOMAIN NoDesktop
  BY <1>1 DEF NoDesktop
<1>3. desktop.exists = FALSE
  BY <1>1, Zenon DEF NoDesktop
<1>4. doing.what = "nothing" /\ DOMAIN doing = DOMAIN Idle
  BY <1>1 DEF Idle
<1>5. ToSet(<<>>) = {} /\ IsInjective(<<>>) /\ <<>> \in Seq(Objects) /\ <<>> \in Seq(Signals)
      /\ DOMAIN <<>> = {}
  BY DEF ToSet, IsInjective
<1>6. Listed = {}
  BY <1>2, <1>5 DEF Listed
<1>7. /\ \A o \in Objects : device[o] = Free
      /\ \A e \in Enums : enum[e] = NoEnum
      /\ \A s \in Sessions : session[s] = NoSession
  BY <1>1
<1>8. Free.refcount = 0 /\ NoEnum.refcount = 0 /\ NoEnum.devices = <<>> /\ NoSession.refcount = 0
  BY DEF Free, NoEnum, NoSession
<1>9. Shapes
  <2>1. DesktopShape
    BY <1>2, <1>5 DEF DesktopShape
  <2>2. DeviceShape
    BY <1>1 DEF DeviceShape
  <2>3. EnumShape
    BY <1>1, <1>5 DEF EnumShape, NoEnum
  <2>4. SessionShape
    BY <1>1 DEF SessionShape, NoSession
  <2>5. HeldShape
    BY <1>1 DEF HeldShape
  <2> QED
    BY <1>4, <2>1, <2>2, <2>3, <2>4, <2>5 DEF Shapes, DoingShape
<1>10. CountsRight
  <2>1. ASSUME NEW o \in Objects PROVE device[o].refcount = Holders(o)
    <3>1. EnumsOf(o) = {} /\ SessionsOf(o) = {}
      BY <1>5, <1>7, <1>8 DEF EnumsOf, SessionsOf
    <3>2. One(o \in Listed) = 0 /\ One(Ends(o)) = 0
      BY <1>4, <1>6 DEF One, Ends, Doing
    <3>3. held.device[o] = 0 /\ Cardinality({}) = 0
      BY <1>1, FS_EmptySet
    <3>4. Holders(o) = 0
      BY <3>1, <3>2, <3>3, HoldersSum
    <3> QED
      BY <1>7, <1>8, <3>4
  <2>2. Lives = {} /\ Cardinality({}) = 0 /\ held.desktop = 0
    BY <1>1, <1>7, <1>8, FS_EmptySet DEF Lives, Live
  <2> QED
    BY <1>2, <2>1, <2>2 DEF CountsRight
<1>11. Roles
  BY <1>4, <1>6, <1>7, <1>8 DEF Roles, Doing
<1>12. Proxies
  BY <1>1, <1>2, <1>4, <1>5 DEF Proxies
<1>13. Present
  BY <1>2, <1>3, Zenon DEF Present
<1>14. KeptDesktopIsSafe
  BY <1>1 DEF KeptDesktopIsSafe
<1> QED
  BY <1>9, <1>10, <1>11, <1>12, <1>13, <1>14 DEF Inv, IndInv

LEMMA MainLoopKeeps ==
    ASSUME Inv, broken = "no", MainLoop PROVE Inv'
<1>1. CASE UdevConnectAnswered
  BY <1>1, AnsweredKeeps
<1>2. CASE UdevConnectLists
  BY <1>2, UdevConnectListsKeeps
<1>3. CASE DesktopReady
  BY <1>3, DesktopReadyKeeps
<1>4. CASE NotHandled \/ DesktopIsGone \/ UnfoundDevice
  BY <1>4, SignalsLostKeep
<1>5. CASE CameOnline
  BY <1>5, CameOnlineKeeps
<1>6. CASE WentOffline
  BY <1>6, WentOfflineKeeps
<1>7. CASE UdevDisconnectRemoves
  BY <1>7, UdevDisconnectRemovesKeeps
<1>8. CASE UseAfterUninit
  BY <1>8, Untouched DEF UseAfterUninit
<1>9. CASE OnDeviceConnected
  BY <1>9, OnDeviceConnectedKeeps
<1>10. CASE OnDeviceDisconnected
  BY <1>10, OnDeviceDisconnectedKeeps
<1>11. CASE \E n \in DOMAIN desktop.sinks : TellSink(n)
  BY <1>11, TellSinkKeeps
<1>12. CASE Told
  BY <1>12, ToldKeeps
<1> QED
  BY <1>1, <1>2, <1>3, <1>4, <1>5, <1>6, <1>7, <1>8, <1>9, <1>10, <1>11, <1>12 DEF MainLoop

LEMMA ApplicationKeeps ==
    ASSUME Inv, broken = "no", Application PROVE Inv'
<1>1. CASE DesktopInit
  BY <1>1, DesktopInitKeeps
<1>2. CASE DesktopGet
  BY <1>2, DesktopGetKeeps
<1>3. CASE AppDesktopRelease
  BY <1>3, AppDesktopReleaseKeeps
<1>4. CASE \E l \in Listeners : DesktopAdvise(l) \/ DesktopUnAdvise(l)
  BY <1>4, AdviseKeeps
<1>5. ASSUME NEW e \in Enums, EnumDevices(e) \/ EnumMove(e) \/ EnumRelease(e)
                              \/ \E f \in Enums : EnumClone(e, f)
      PROVE  Inv'
  BY <1>5, EnumDevicesKeeps, EnumMoveKeeps, EnumReleaseKeeps, EnumCloneKeeps
<1>6. CASE \E p \in Paths : FindDevice(p)
  BY <1>6, FindDeviceKeeps
<1>7. CASE \E o \in Objects : DeviceAddRef(o) \/ AppDeviceRelease(o)
  BY <1>7, DeviceAddRefKeeps, AppDeviceReleaseKeeps
<1>8. ASSUME NEW s \in Sessions,
             SessionInit(s) \/ SessionUninit(s) \/ SessionGetDevice(s) \/ SessionRelease(s)
             \/ \E o \in Objects : CreateSession(s, o)
      PROVE  Inv'
  BY <1>8, SessionConnects, SessionGetDeviceKeeps, SessionReleaseKeeps, CreateSessionKeeps
<1> QED
  BY <1>1, <1>2, <1>3, <1>4, <1>5, <1>6, <1>7, <1>8 DEF Application

----------------------------------------------------------------------------
(* What is freed is only used when nobody kept the desktop.                *)

\* Nobody refers to a desktop that is not there.
LEMMA NobodyKeeps ==
    ASSUME Inv, ~desktop.exists PROVE held.desktop = 0
<1>1. desktop.dbus_proxy = 0
  BY Zenon DEF Inv, Present
<1>2. desktop.refcount = 0 /\ desktop.refcount = held.desktop + Cardinality(Lives)
      /\ held.desktop \in Nat
  BY <1>1 DEF Inv, Proxies, CountsRight, Shapes, HeldShape
<1> QED
  BY <1>2, FiniteLives

\* A handler that is called without its desktop was left behind by an earlier one.
LEMMA HandlerWithoutDesktop ==
    ASSUME Inv, DesktopIsGone PROVE held.desktop = 0 \/ LeftBehind
<1>1. PICK name \in {"Connected", "Disconnected"} : Dispatched(name)
  BY DEF DesktopIsGone
<1>2. Addressed(Head(signals)) /\ Head(signals).name = name
  BY <1>1, FirstSignal
<1> DEFINE to == Head(signals).to
<1>3. to \in desktop.handlers /\ to # desktop.dbus_proxy
  BY <1>1, <1>2 DEF Addressed, DesktopIsGone, Handled
<1>4. desktop.exists => ~(to > desktop.dbus_proxy)
  <2>1. ~Current(Head(signals))
    BY DEF DesktopIsGone
  <2> QED
    BY <2>1, Zenon DEF Current
<1> HIDE DEF to
<1>5. desktop.dbus_proxy \in Nat /\ to \in Nat
  <2>1. desktop.made \in Nat /\ desktop.dbus_proxy \in Nat
        /\ desktop.handlers \subseteq 1..desktop.made
    BY DEF Inv, Proxies
  <2>2. to \in 1..desktop.made
    BY <1>3, <2>1
  <2> QED
    BY <2>1, <2>2
<1>6. CASE ~(to > desktop.dbus_proxy)
  <2>1. to < desktop.dbus_proxy
    BY <1>3, <1>5, <1>6
  <2> QED
    BY <1>3, <2>1 DEF LeftBehind
<1>7. CASE ~desktop.exists
  BY <1>7, NobodyKeeps
<1> QED
  BY <1>4, <1>6, <1>7, Zenon

\* The other steps use nothing that was freed.
LEMMA OthersAreSafe ==
    ASSUME broken = "no", Bus \/ MainLoop \/ Application, ~DesktopIsGone, ~UseAfterUninit
    PROVE  broken' \in {"no", "stopped"}
<1>1. ASSUME NEW os, FreesPath(os) PROVE broken' \in {"no", "stopped"}
  BY <1>1 DEF FreesPath
<1>2. CASE Bus
  BY <1>2 DEF Bus, DeviceAppears, DeviceGoes, DaemonStops, DaemonStarts, Moves, client
<1>3. CASE MainLoop
  <2>1. CASE UdevConnectAnswered \/ UdevConnectLists \/ DesktopReady \/ NotHandled
             \/ CameOnline \/ WentOffline \/ OnDeviceConnected \/ OnDeviceDisconnected
             \/ UnfoundDevice \/ \E n \in DOMAIN desktop.sinks : TellSink(n)
    BY <2>1 DEF UdevConnectAnswered, UdevConnectLists, DesktopReady, NotHandled, CameOnline,
       WentOffline, OnDeviceConnected, OnDeviceDisconnected, UnfoundDevice, TellSink
  <2>2. CASE UdevDisconnectRemoves
    <3>1. UNCHANGED broken \/ \E os : FreesPath(os)
      BY <2>2 DEF UdevDisconnectRemoves
    <3> QED
      BY <1>1, <3>1
  <2>3. CASE Told
    <3>1. UNCHANGED broken \/ \E os : FreesPath(os)
      BY <2>3 DEF Told
    <3> QED
      BY <1>1, <3>1
  <2> QED
    BY <1>3, <2>1, <2>2, <2>3 DEF MainLoop
<1>4. CASE Application
  <2>1. ASSUME NEW e \in Enums, EnumRelease(e) PROVE broken' \in {"no", "stopped"}
    BY <1>1, <2>1 DEF EnumRelease, Releases
  <2>2. ASSUME NEW o \in Objects, AppDeviceRelease(o) PROVE broken' \in {"no", "stopped"}
    BY <1>1, <2>2 DEF AppDeviceRelease
  <2>3. ASSUME NEW s \in Sessions, SessionRelease(s) PROVE broken' \in {"no", "stopped"}
    BY <1>1, <2>3 DEF SessionRelease
  <2>4. ASSUME NEW p \in Paths, FindDevice(p) PROVE broken' \in {"no", "stopped"}
    <3>1. UNCHANGED broken \/ broken' = "stopped"
      BY <2>4 DEF FindDevice
    <3> QED
      BY <3>1
  <2>5. CASE DesktopInit \/ DesktopGet \/ AppDesktopRelease
             \/ \E l \in Listeners : DesktopAdvise(l) \/ DesktopUnAdvise(l)
    BY <2>5 DEF DesktopInit, DesktopGet, AppDesktopRelease, DesktopAdvise, DesktopUnAdvise
  <2>6. ASSUME NEW e \in Enums, EnumDevices(e) \/ EnumMove(e) \/ \E f \in Enums : EnumClone(e, f)
        PROVE  broken' \in {"no", "stopped"}
    BY <2>6 DEF EnumDevices, EnumMove, EnumClone
  <2>7. ASSUME NEW o \in Objects, DeviceAddRef(o) PROVE broken' \in {"no", "stopped"}
    BY <2>7 DEF DeviceAddRef
  <2>8. ASSUME NEW s \in Sessions,
               SessionInit(s) \/ SessionUninit(s) \/ SessionGetDevice(s)
               \/ \E o \in Objects : CreateSession(s, o)
        PROVE  broken' \in {"no", "stopped"}
    BY <2>8 DEF SessionInit, SessionUninit, SessionGetDevice, CreateSession
  <2> QED
    BY <1>4, <2>1, <2>2, <2>3, <2>4, <2>5, <2>6, <2>7, <2>8 DEF Application
<1> QED
  BY <1>2, <1>3, <1>4

LEMMA SafeStep ==
    ASSUME Inv, broken = "no", Bus \/ MainLoop \/ Application
    PROVE  KeptDesktopIsSafe'
<1>1. CASE DesktopIsGone
  <2>1. UNCHANGED <<desktop, held>>
    BY <1>1 DEF DesktopIsGone, Dispatched
  <2> QED
    BY <1>1, <2>1, HandlerWithoutDesktop DEF KeptDesktopIsSafe, LeftBehind
<1>2. CASE UseAfterUninit
  <2>1. held' = held /\ ~desktop.exists
    BY <1>2, Zenon DEF UseAfterUninit
  <2>2. held.desktop = 0
    BY <2>1, NobodyKeeps
  <2> QED
    BY <2>1, <2>2 DEF KeptDesktopIsSafe
<1>3. CASE ~DesktopIsGone /\ ~UseAfterUninit
  BY <1>3, OthersAreSafe DEF KeptDesktopIsSafe
<1> QED
  BY <1>1, <1>2, <1>3

LEMMA Step ==
    ASSUME IndInv, [Next]_vars PROVE IndInv'
<1>1. CASE Next
  <2>1. Inv /\ broken = "no" /\ (Bus \/ MainLoop \/ Application)
    BY <1>1 DEF IndInv, Next
  <2>2. Inv'
    BY <2>1, BusKeeps, MainLoopKeeps, ApplicationKeeps
  <2> QED
    BY <2>1, <2>2, SafeStep DEF IndInv
<1>2. CASE UNCHANGED vars
  <2>1. Inv /\ UNCHANGED <<desktop, device, enum, session, doing, held, signals, broken>>
    BY <1>2 DEF IndInv, vars
  <2>2. Inv'
    BY <2>1, Untouched
  <2>3. KeptDesktopIsSafe'
    BY <2>1 DEF IndInv, KeptDesktopIsSafe, LeftBehind
  <2> QED
    BY <2>2, <2>3 DEF IndInv
<1> QED
  BY <1>1, <1>2

----------------------------------------------------------------------------
(* The numbers of the sinks.                                               *)

\* Counting on from a number in a ring of n comes round at most once.
LEMMA Turns ==
    ASSUME NEW n \in Nat \ {0}, NEW a \in 0..(2 * n - 1)
    PROVE  a % n = IF a < n THEN a ELSE a - n
<1>1. a = n * (a \div n) + (a % n) /\ a % n \in 0..(n - 1) /\ a \div n \in Int
  OBVIOUS
<1> DEFINE q == a \div n
           r == a % n
<1>2. a = n * q + r /\ r \in 0..(n - 1) /\ q \in Int
  BY <1>1
<1> HIDE DEF q, r
<1>3. q < 0 => n * q <= -n
  BY <1>2
<1>4. q > 1 => n * q >= 2 * n
  BY <1>2
<1>5. q \in {0, 1}
  BY <1>2, <1>3, <1>4
<1>6. (q = 0 => r = a) /\ (q = 1 => r = a - n)
  BY <1>2
<1> QED
  BY <1>2, <1>5, <1>6 DEF r

\* Each sink in the table is one of the application's, and knows its number.
SinksInv ==
    /\ DOMAIN desktop.sinks \subseteq 1..(SeqMax - 1)
    /\ desktop.sink_seq_num \in 1..SeqMax
    /\ ticket \in [Listeners -> Nat]
    /\ \A n \in DOMAIN desktop.sinks :
          desktop.sinks[n] \in Listeners /\ ticket[desktop.sinks[n]] = n

\* There are more numbers than sinks.
LEMMA NumberFree ==
    ASSUME SinksInv PROVE \E n \in 1..(SeqMax - 1) : n \notin DOMAIN desktop.sinks
<1> DEFINE used == DOMAIN desktop.sinks
           f == [n \in used |-> desktop.sinks[n]]
<1>1. f \in [used -> Listeners] /\ \A n, m \in used : f[n] = f[m] => n = m
  BY DEF SinksInv
<1>2. f \in Injection(used, Listeners)
  BY <1>1 DEF Injection, IsInjective
<1> HIDE DEF f, used
<1>3. IsFiniteSet(used) /\ Cardinality(used) <= Cardinality(Listeners)
  BY <1>2, FS_Injection, DesktopAssumption
<1>4. /\ SeqMax \in Nat /\ Cardinality(Listeners) \in Nat /\ Cardinality(used) \in Nat
      /\ SeqMax > Cardinality(Listeners) + 1
  BY <1>3, FS_CardinalityType, DesktopAssumption
<1>5. Cardinality(1..(SeqMax - 1)) = SeqMax - 1
  BY <1>4, FS_Interval
<1>6. ~(1..(SeqMax - 1) \subseteq used)
  <2>1. 1..(SeqMax - 1) \subseteq used => Cardinality(1..(SeqMax - 1)) <= Cardinality(used)
    BY <1>3, FS_Subset
  <2> QED
    BY <1>3, <1>4, <1>5, <2>1
<1> QED
  BY <1>6 DEF used

\* So the loop of Advise ends, at a number that is free.
LEMMA SinkNumberFree ==
    ASSUME SinksInv
    PROVE  SinkNumber(desktop) \in 1..(SeqMax - 1) /\ SinkNumber(desktop) \notin DOMAIN desktop.sinks
<1> DEFINE n == SeqMax - 1
           x == desktop.sink_seq_num
           after(k) == ((x + k - 1) % n) + 1
           free == {i \in 1..(n + 1) : after(i - 1) \notin DOMAIN desktop.sinks}
<1>1. n \in Nat \ {0} /\ x \in 1..(n + 1)
  <2>1. SeqMax \in Nat /\ Cardinality(Listeners) \in Nat /\ SeqMax > Cardinality(Listeners) + 1
    BY FS_CardinalityType, DesktopAssumption
  <2> QED
    BY <2>1 DEF SinksInv
<1>2. PICK m \in 1..n : m \notin DOMAIN desktop.sinks
  BY NumberFree
<1> HIDE DEF n, x
<1>3. ASSUME NEW k \in 0..n PROVE after(k) \in 1..n
  <2>1. (x + k - 1) % n \in 0..(n - 1)
    BY <1>1
  <2> QED
    BY <1>1, <2>1
<1>4. \E k \in 0..(n - 1) : after(k) = m
  <2>1. CASE x - 1 <= m - 1
    <3> DEFINE k == (m - 1) - (x - 1)
    <3>1. k \in 0..(n - 1) /\ x + k - 1 = m - 1 /\ x + k - 1 \in 0..(2 * n - 1) /\ x + k - 1 < n
      BY <1>1, <2>1
    <3>2. (x + k - 1) % n = m - 1
      BY <1>1, <3>1, Turns
    <3>3. after(k) = m
      BY <1>1, <3>2
    <3> QED
      BY <3>1, <3>3
  <2>2. CASE x - 1 > m - 1
    <3> DEFINE k == n + (m - 1) - (x - 1)
    <3>1. k \in 0..(n - 1) /\ x + k - 1 = n + (m - 1) /\ x + k - 1 \in 0..(2 * n - 1)
          /\ ~(x + k - 1 < n) /\ (x + k - 1) - n = m - 1
      BY <1>1, <2>2
    <3>2. (x + k - 1) % n = m - 1
      BY <1>1, <3>1, Turns
    <3>3. after(k) = m
      BY <1>1, <3>2
    <3> QED
      BY <3>1, <3>3
  <2> QED
    BY <1>1, <2>1, <2>2
<1>5. free \in SUBSET (1..(n + 1)) /\ free # {} /\ n + 1 \in Nat
  <2>1. PICK k \in 0..(n - 1) : after(k) = m
    BY <1>4
  <2>2. k + 1 \in 1..(n + 1) /\ (k + 1) - 1 = k
    BY <1>1, <2>1
  <2>3. k + 1 \in free
    BY <1>2, <2>1, <2>2
  <2>4. free \in SUBSET (1..(n + 1))
    <3> HIDE DEF after
    <3> QED
      OBVIOUS
  <2> HIDE DEF free
  <2> QED
    BY <1>1, <2>3, <2>4
<1> DEFINE Fits(k) ==
        /\ after(k) \notin DOMAIN desktop.sinks
        /\ \A j \in 0..(k - 1) : after(j) \in DOMAIN desktop.sinks
<1>6. \E k \in 0..n : Fits(k)
  <2>1. PICK i \in free : \A j \in free : i <= j
    <3> HIDE DEF free
    <3> QED
      BY <1>5, FirstPlace
  <2>2. i \in 1..(n + 1) /\ after(i - 1) \notin DOMAIN desktop.sinks /\ i - 1 \in 0..n
    BY <1>1, <2>1
  <2>3. ASSUME NEW j \in 0..((i - 1) - 1) PROVE after(j) \in DOMAIN desktop.sinks
    <3>1. j + 1 \in 1..(n + 1) /\ (j + 1) - 1 = j /\ ~(i <= j + 1)
      BY <1>1, <2>2
    <3>2. j + 1 \notin free
      BY <2>1, <3>1
    <3>3. after((j + 1) - 1) \in DOMAIN desktop.sinks
      BY <3>1, <3>2
    <3> QED
      BY <3>1, <3>3
  <2> QED
    BY <2>2, <2>3
<1>7. SinkNumber(desktop) = after(CHOOSE k \in 0..n : Fits(k))
  BY DEF SinkNumber, n, x
<1>8. PICK k \in 0..n : Fits(k) /\ SinkNumber(desktop) = after(k)
  <2> HIDE DEF Fits, after
  <2> QED
    BY <1>6, <1>7
<1> QED
  BY <1>3, <1>8 DEF n

----------------------------------------------------------------------------
(* The types.                                                              *)

\* What the daemon lists, it lists while it is there.
DaemonInv ==
    /\ DOMAIN daemon = {"online", "present", "moves"}
    /\ daemon.online \in BOOLEAN /\ daemon.present \subseteq Paths
    /\ daemon.online \/ daemon.present = {}

\* The two proxies of the desktop have handlers of their own.
ProxyInv ==
    /\ {desktop.dbus_proxy, desktop.dev_mgr_proxy} \subseteq desktop.handlers \cup {0}
    /\ desktop.dev_mgr_proxy # 0 => desktop.dev_mgr_proxy # desktop.dbus_proxy

\* Descriptions and connections name devices that there are, or were.
Names == Paths \cup {None}
DeviceNames == \A o \in Objects : device[o].info \in Names
SessionNames == \A s \in Sessions : session[s].with \in Names
NamesInv == DeviceNames /\ SessionNames

\* A new desktop has room for the reference of its first user.
HeldInv ==
    /\ held.desktop <= MaxHeld
    /\ Doing("asking for the owner") => held.desktop < MaxHeld

TypeInv ==
    /\ DaemonInv
    /\ ProxyInv
    /\ SinksInv
    /\ NamesInv
    /\ HeldInv
    /\ broken \in {"no", "stopped", "freed memory used"}

\* The daemon.
LEMMA DaemonStep ==
    ASSUME DaemonInv, Bus \/ UNCHANGED daemon PROVE DaemonInv'
<1>1. CASE UNCHANGED daemon
  BY <1>1, Zenon DEF DaemonInv
<1>2. ASSUME NEW p \in Paths, DeviceAppears(p) PROVE DaemonInv'
  <2>1. daemon.online /\ daemon' = [daemon EXCEPT !.present = daemon.present \cup {p}, !.moves = daemon.moves + 1]
    BY <1>2 DEF DeviceAppears
  <2>2. DOMAIN daemon' = {"online", "present", "moves"} /\ daemon'.present = daemon.present \cup {p}
    BY <2>1 DEF DaemonInv
  <2>3. daemon'.online = daemon.online
    BY <2>1, Zenon DEF DaemonInv
  <2>4. daemon'.present \subseteq Paths
    BY <2>2 DEF DaemonInv
  <2> QED
    BY <2>1, <2>2, <2>3, <2>4, Zenon DEF DaemonInv
<1>3. ASSUME NEW p \in Paths, DeviceGoes(p) PROVE DaemonInv'
  <2>1. p \in daemon.present
        /\ daemon' = [daemon EXCEPT !.present = daemon.present \ {p}, !.moves = daemon.moves + 1]
    BY <1>3 DEF DeviceGoes
  <2>2. DOMAIN daemon' = {"online", "present", "moves"} /\ daemon'.present = daemon.present \ {p}
    BY <2>1 DEF DaemonInv
  <2>3. daemon'.online = daemon.online
    BY <2>1, Zenon DEF DaemonInv
  <2>4. daemon'.present \subseteq Paths /\ (daemon.present = {} => daemon'.present = {})
    BY <2>2 DEF DaemonInv
  <2> QED
    BY <2>2, <2>3, <2>4, Zenon DEF DaemonInv
<1>4. CASE DaemonStops
  <2>1. daemon' = [online |-> FALSE, present |-> {}, moves |-> daemon.moves + 1]
    BY <1>4 DEF DaemonStops
  <2>2. DOMAIN daemon' = {"online", "present", "moves"} /\ daemon'.present = {}
    BY <2>1
  <2>3. daemon'.online = FALSE
    BY <2>1, Zenon
  <2> QED
    BY <2>2, <2>3, Zenon DEF DaemonInv
<1>5. CASE DaemonStarts
  <2>1. daemon' = [daemon EXCEPT !.online = TRUE, !.moves = daemon.moves + 1]
    BY <1>5 DEF DaemonStarts
  <2>2. DOMAIN daemon' = {"online", "present", "moves"} /\ daemon'.present = daemon.present
    BY <2>1 DEF DaemonInv
  <2>3. daemon'.online = TRUE
    BY <2>1, Zenon DEF DaemonInv
  <2> QED
    BY <2>2, <2>3, Zenon DEF DaemonInv
<1> QED
  BY <1>1, <1>2, <1>3, <1>4, <1>5 DEF Bus

\* What a step makes of the proxies and sinks of the desktop: they stay, or go
\* with it.
Lasts ==
    /\ desktop'.dbus_proxy = desktop.dbus_proxy /\ desktop'.dev_mgr_proxy = desktop.dev_mgr_proxy
    /\ desktop'.handlers = desktop.handlers /\ desktop'.sinks = desktop.sinks
    /\ desktop'.sink_seq_num = desktop.sink_seq_num
Goes ==
    /\ desktop'.dbus_proxy = 0 /\ desktop'.dev_mgr_proxy = 0
    /\ DOMAIN desktop'.sinks = {} /\ desktop'.sink_seq_num = 1

LEMMA LastsOrGoes ==
    ASSUME ProxyInv, SinksInv, Lasts \/ Goes, UNCHANGED ticket PROVE ProxyInv' /\ SinksInv'
<1>1. CASE Lasts
  BY <1>1 DEF ProxyInv, SinksInv, Lasts
<1>2. CASE Goes
  <2>1. 1 \in 1..SeqMax
    BY FS_CardinalityType, DesktopAssumption
  <2> QED
    BY <1>2, <2>1 DEF ProxyInv, SinksInv, Goes
<1> QED
  BY <1>1, <1>2

\* Giving back references on the desktop, with another list or count.
LEMMA ReleaseLastsOrGoes ==
    ASSUME NEW d, DOMAIN d = DOMAIN NoDesktop,
           d.dbus_proxy = desktop.dbus_proxy, d.dev_mgr_proxy = desktop.dev_mgr_proxy,
           d.handlers = desktop.handlers, d.sinks = desktop.sinks,
           d.sink_seq_num = desktop.sink_seq_num, desktop' = DesktopRelease(d)
    PROVE  Lasts \/ Goes
<1>1. CASE d.refcount > 1
  <2>1. desktop' = [d EXCEPT !.refcount = d.refcount - 1]
    BY <1>1 DEF DesktopRelease
  <2> QED
    BY <2>1 DEF Lasts, NoDesktop
<1>2. CASE ~(d.refcount > 1)
  <2>1. desktop' = [NoDesktop EXCEPT !.handlers = d.handlers \ {d.dbus_proxy, d.dev_mgr_proxy},
                                     !.made = d.made, !.inits = d.inits]
    BY <1>2 DEF DesktopRelease
  <2> QED
    BY <2>1 DEF Goes, NoDesktop
<1> QED
  BY <1>1, <1>2

\* References on devices that are given back.
LEMMA DeviceReleaseLasts ==
    ASSUME DOMAIN desktop = DOMAIN NoDesktop, NEW o, DeviceRelease(o) PROVE Lasts \/ Goes
<1>1. desktop' = desktop \/ desktop' = DesktopRelease(desktop)
  BY DEF DeviceRelease
<1> QED
  BY <1>1, ReleaseLastsOrGoes DEF Lasts

LEMMA ReleasesLast ==
    ASSUME DOMAIN desktop = DOMAIN NoDesktop, NEW os, Releases(os) PROVE Lasts \/ Goes
<1>1. PICK k : desktop' = desktop \/ desktop' = DesktopRelease([desktop EXCEPT !.refcount = k])
  BY DEF Releases
<1>2. PICK d : d = [desktop EXCEPT !.refcount = k]
  OBVIOUS
<1>3. /\ DOMAIN d = DOMAIN NoDesktop
      /\ d.dbus_proxy = desktop.dbus_proxy /\ d.dev_mgr_proxy = desktop.dev_mgr_proxy
      /\ d.handlers = desktop.handlers /\ d.sinks = desktop.sinks
      /\ d.sink_seq_num = desktop.sink_seq_num
  BY <1>2 DEF NoDesktop
<1>4. CASE desktop' = desktop
  BY <1>4 DEF Lasts
<1>5. CASE desktop' = DesktopRelease(d)
  BY <1>3, <1>5, ReleaseLastsOrGoes
<1> QED
  BY <1>1, <1>2, <1>4, <1>5

\* A proxy more for the device manager.
LEMMA BeginsProxy ==
    ASSUME Inv, ProxyInv, SinksInv, UNCHANGED ticket,
           NEW d, DOMAIN d = DOMAIN NoDesktop,
           d.dbus_proxy = desktop.dbus_proxy, d.handlers = desktop.handlers,
           d.sinks = desktop.sinks, d.sink_seq_num = desktop.sink_seq_num,
           d.made = desktop.made, UdevConnectBegins(d)
    PROVE  ProxyInv' /\ SinksInv'
<1>1. desktop.made \in Nat /\ desktop.dbus_proxy \in Nat /\ desktop.dbus_proxy <= desktop.made
  BY DEF Inv, Proxies
<1>2. desktop' = [d EXCEPT !.dev_mgr_proxy = desktop.made + 1, !.made = desktop.made + 1,
                           !.handlers = d.handlers \cup {desktop.made + 1}]
  BY DEF UdevConnectBegins
<1>3. /\ desktop'.dbus_proxy = desktop.dbus_proxy /\ desktop'.dev_mgr_proxy = desktop.made + 1
      /\ desktop'.handlers = desktop.handlers \cup {desktop.made + 1}
      /\ desktop'.sinks = desktop.sinks /\ desktop'.sink_seq_num = desktop.sink_seq_num
  BY <1>2 DEF NoDesktop
<1>4. desktop.made + 1 # desktop.dbus_proxy
  BY <1>1
<1> QED
  BY <1>3, <1>4 DEF ProxyInv, SinksInv

\* The desktop comes.
LEMMA DesktopInitTypes ==
    ASSUME Inv, DesktopInit PROVE ProxyInv' /\ SinksInv'
<1>1. desktop' = [NoDesktop EXCEPT !.exists = TRUE, !.dbus_proxy = desktop.made + 1,
                                   !.made = desktop.made + 1,
                                   !.handlers = desktop.handlers \cup {desktop.made + 1},
                                   !.inits = desktop.inits + 1]
      /\ ticket' = [l \in Listeners |-> 0]
  BY DEF DesktopInit
<1>2. /\ desktop'.dbus_proxy = desktop.made + 1 /\ desktop'.dev_mgr_proxy = 0
      /\ desktop'.handlers = desktop.handlers \cup {desktop.made + 1}
      /\ DOMAIN desktop'.sinks = {} /\ desktop'.sink_seq_num = 1
  BY <1>1 DEF NoDesktop
<1>3. 1 \in 1..SeqMax
  BY FS_CardinalityType, DesktopAssumption
<1> QED
  BY <1>1, <1>2, <1>3 DEF ProxyInv, SinksInv

\* The daemon goes: the handler of its proxy alone does, too.
LEMMA WentOfflineTypes ==
    ASSUME Inv, ProxyInv, SinksInv, WentOffline PROVE ProxyInv' /\ SinksInv'
<1>1. DOMAIN desktop = DOMAIN NoDesktop
  BY DEF Inv, Shapes, DesktopShape
<1>2. desktop' = [desktop EXCEPT !.handlers = desktop.handlers \ {desktop.dev_mgr_proxy},
                                 !.dev_mgr_proxy = 0]
      /\ UNCHANGED ticket
  BY DEF WentOffline, Dispatched
<1>3. /\ desktop'.dbus_proxy = desktop.dbus_proxy /\ desktop'.dev_mgr_proxy = 0
      /\ desktop'.handlers = desktop.handlers \ {desktop.dev_mgr_proxy}
      /\ desktop'.sinks = desktop.sinks /\ desktop'.sink_seq_num = desktop.sink_seq_num
  BY <1>1, <1>2 DEF NoDesktop
<1> QED
  BY <1>2, <1>3 DEF ProxyInv, SinksInv

\* A sink is given a number that is free, and gives it back.
LEMMA AdviseTypes ==
    ASSUME Inv, ProxyInv, SinksInv, NEW l \in Listeners, DesktopAdvise(l)
    PROVE  ProxyInv' /\ SinksInv'
<1> DEFINE n == SinkNumber(desktop)
           D == DOMAIN desktop.sinks
<1>1. DOMAIN desktop = DOMAIN NoDesktop
  BY DEF Inv, Shapes, DesktopShape
<1>2. /\ ticket[l] = 0 /\ ticket' = [ticket EXCEPT ![l] = n]
      /\ desktop' = [desktop EXCEPT !.sink_seq_num = n,
                        !.sinks = [m \in D \cup {n} |-> IF m = n THEN l ELSE desktop.sinks[m]]]
  BY DEF DesktopAdvise
<1>3. n \in 1..(SeqMax - 1) /\ n \notin D
  BY SinkNumberFree
<1> HIDE DEF n
<1>4. /\ desktop'.dbus_proxy = desktop.dbus_proxy /\ desktop'.dev_mgr_proxy = desktop.dev_mgr_proxy
      /\ desktop'.handlers = desktop.handlers /\ desktop'.sink_seq_num = n
      /\ desktop'.sinks = [m \in D \cup {n} |-> IF m = n THEN l ELSE desktop.sinks[m]]
  BY <1>1, <1>2 DEF NoDesktop
<1>5. ProxyInv'
  BY <1>4 DEF ProxyInv
<1>6. SeqMax \in Nat /\ n \in 1..SeqMax /\ n \in Nat
  BY <1>3, DesktopAssumption
<1>7. DOMAIN desktop'.sinks = D \cup {n} /\ desktop'.sinks[n] = l
      /\ \A m \in D : desktop'.sinks[m] = desktop.sinks[m]
  BY <1>3, <1>4
<1>8. ticket \in [Listeners -> Nat]
  BY DEF SinksInv
<1>9. ticket' \in [Listeners -> Nat] /\ ticket'[l] = n
      /\ \A k \in Listeners : k # l => ticket'[k] = ticket[k]
  BY <1>2, <1>6, <1>8
<1>10. ASSUME NEW m \in D
       PROVE  desktop.sinks[m] \in Listeners /\ ticket'[desktop.sinks[m]] = m
  <2>1. desktop.sinks[m] \in Listeners /\ ticket[desktop.sinks[m]] = m /\ m \in 1..(SeqMax - 1)
    BY DEF SinksInv
  <2>2. m # 0
    BY <2>1, <1>6
  <2>3. desktop.sinks[m] # l
    BY <1>2, <2>1, <2>2
  <2> QED
    BY <1>9, <2>1, <2>3
<1>11. D \subseteq 1..(SeqMax - 1)
  BY DEF SinksInv
<1> QED
  BY <1>3, <1>4, <1>5, <1>6, <1>7, <1>9, <1>10, <1>11 DEF SinksInv

LEMMA UnAdviseTypes ==
    ASSUME Inv, ProxyInv, SinksInv, NEW l \in Listeners, DesktopUnAdvise(l)
    PROVE  ProxyInv' /\ SinksInv'
<1> DEFINE D == DOMAIN desktop.sinks
<1>1. DOMAIN desktop = DOMAIN NoDesktop
  BY DEF Inv, Shapes, DesktopShape
<1>2. /\ ticket' = [ticket EXCEPT ![l] = 0]
      /\ desktop' = [desktop EXCEPT !.sinks = [m \in D \ {ticket[l]} |-> desktop.sinks[m]]]
  BY DEF DesktopUnAdvise
<1>3. /\ desktop'.dbus_proxy = desktop.dbus_proxy /\ desktop'.dev_mgr_proxy = desktop.dev_mgr_proxy
      /\ desktop'.handlers = desktop.handlers /\ desktop'.sink_seq_num = desktop.sink_seq_num
      /\ desktop'.sinks = [m \in D \ {ticket[l]} |-> desktop.sinks[m]]
  BY <1>1, <1>2 DEF NoDesktop
<1>4. ProxyInv'
  BY <1>3 DEF ProxyInv
<1>5. DOMAIN desktop'.sinks = D \ {ticket[l]}
      /\ \A m \in D \ {ticket[l]} : desktop'.sinks[m] = desktop.sinks[m]
  BY <1>3
<1>6. ticket \in [Listeners -> Nat]
  BY DEF SinksInv
<1>7. ticket' \in [Listeners -> Nat] /\ \A k \in Listeners : k # l => ticket'[k] = ticket[k]
  BY <1>2, <1>6
<1>8. ASSUME NEW m \in D \ {ticket[l]}
      PROVE  desktop.sinks[m] \in Listeners /\ ticket'[desktop.sinks[m]] = m
  <2>1. desktop.sinks[m] \in Listeners /\ ticket[desktop.sinks[m]] = m
    BY DEF SinksInv
  <2>2. desktop.sinks[m] # l
    BY <2>1
  <2> QED
    BY <1>7, <2>1, <2>2
<1>9. D \subseteq 1..(SeqMax - 1) /\ desktop.sink_seq_num \in 1..SeqMax
  BY DEF SinksInv
<1> QED
  BY <1>3, <1>4, <1>5, <1>7, <1>8, <1>9 DEF SinksInv

\* The desktop with another count, another list, or both.
LEMMA CountAndList ==
    ASSUME DOMAIN desktop = DOMAIN NoDesktop, NEW k, NEW list,
           \/ desktop' = desktop
           \/ desktop' = [desktop EXCEPT !.refcount = k]
           \/ desktop' = [desktop EXCEPT !.devices = list]
           \/ desktop' = [[desktop EXCEPT !.refcount = k] EXCEPT !.devices = list]
    PROVE  Lasts
  BY DEF Lasts, NoDesktop

\* One turn of the loop of udev_disconnect.
LEMMA RemovesLasts ==
    ASSUME DOMAIN desktop = DOMAIN NoDesktop, UdevDisconnectRemoves PROVE Lasts \/ Goes
<1>1. PICK list : \/ desktop' = desktop
                  \/ desktop' = [desktop EXCEPT !.devices = list]
                  \/ desktop' = DesktopRelease([desktop EXCEPT !.devices = list])
  <2>1. CASE doing.left = {}
    BY <2>1 DEF UdevDisconnectRemoves
  <2>2. CASE doing.left # {}
    <3> DEFINE first == SelectInSeq(desktop.devices, LAMBDA o : o \in doing.left)
               d == [desktop EXCEPT !.devices = RemoveAt(@, first)]
    <3>1. desktop' = desktop \/ desktop' = d \/ desktop' = DesktopRelease(d)
      BY <2>2 DEF UdevDisconnectRemoves
    <3>2. d = [desktop EXCEPT !.devices = RemoveAt(desktop.devices, first)]
      OBVIOUS
    <3> HIDE DEF d, first
    <3> QED
      BY <3>1, <3>2
  <2> QED
    BY <2>1, <2>2
<1>2. PICK d : d = [desktop EXCEPT !.devices = list]
  OBVIOUS
<1>3. /\ DOMAIN d = DOMAIN NoDesktop
      /\ d.dbus_proxy = desktop.dbus_proxy /\ d.dev_mgr_proxy = desktop.dev_mgr_proxy
      /\ d.handlers = desktop.handlers /\ d.sinks = desktop.sinks
      /\ d.sink_seq_num = desktop.sink_seq_num
  BY <1>2 DEF NoDesktop
<1>4. CASE desktop' = DesktopRelease(d)
  BY <1>3, <1>4, ReleaseLastsOrGoes
<1>5. CASE desktop' = desktop \/ desktop' = d
  BY <1>2, <1>5, CountAndList
<1> QED
  BY <1>1, <1>2, <1>4, <1>5

\* The main loop and the bus.
LEMMA MainLoopProxies ==
    ASSUME Inv, ProxyInv, SinksInv, MainLoop \/ Bus PROVE ProxyInv' /\ SinksInv'
<1>1. DOMAIN desktop = DOMAIN NoDesktop
  BY DEF Inv, Shapes, DesktopShape
<1>2. ASSUME Lasts \/ Goes, UNCHANGED ticket PROVE ProxyInv' /\ SinksInv'
  BY <1>2, LastsOrGoes
<1>3. CASE Bus \/ UdevConnectAnswered \/ NotHandled \/ DesktopIsGone \/ UseAfterUninit
           \/ UnfoundDevice \/ \E n \in DOMAIN desktop.sinks : TellSink(n)
  <2>1. UNCHANGED <<desktop, ticket>>
    BY <1>3 DEF Bus, DeviceAppears, DeviceGoes, DaemonStops, DaemonStarts, Moves, client,
       UdevConnectAnswered, NotHandled, DesktopIsGone, UseAfterUninit, UnfoundDevice, TellSink,
       Dispatched
  <2> QED
    BY <1>2, <2>1 DEF Lasts
<1>4. CASE UdevConnectLists
  <2>1. PICK k, list : desktop' = desktop
                       \/ desktop' = [[desktop EXCEPT !.refcount = k] EXCEPT !.devices = list]
    BY <1>4 DEF UdevConnectLists, DesktopAddRef
  <2>2. UNCHANGED ticket
    BY <1>4 DEF UdevConnectLists
  <2> QED
    BY <1>1, <1>2, <2>1, <2>2, CountAndList
<1>5. CASE DesktopReady
  <2>1. UNCHANGED ticket /\ (desktop' = DesktopAddRef(desktop)
                             \/ UdevConnectBegins(DesktopAddRef(desktop)))
    BY <1>5 DEF DesktopReady
  <2>2. PICK d : d = DesktopAddRef(desktop)
    OBVIOUS
  <2>3. d = [desktop EXCEPT !.refcount = desktop.refcount + 1]
    BY <2>2 DEF DesktopAddRef
  <2>4. /\ DOMAIN d = DOMAIN NoDesktop
        /\ d.dbus_proxy = desktop.dbus_proxy /\ d.handlers = desktop.handlers
        /\ d.sinks = desktop.sinks /\ d.sink_seq_num = desktop.sink_seq_num
        /\ d.made = desktop.made
    BY <1>1, <2>3 DEF NoDesktop
  <2>5. CASE desktop' = d
    BY <1>1, <1>2, <2>1, <2>3, <2>5, CountAndList
  <2>6. CASE UdevConnectBegins(d)
    BY <2>1, <2>4, <2>6, BeginsProxy
  <2> QED
    BY <2>1, <2>2, <2>5, <2>6
<1>6. CASE CameOnline
  <2>1. UNCHANGED ticket /\ UdevConnectBegins(desktop)
    BY <1>6 DEF CameOnline, Dispatched
  <2> QED
    BY <1>1, <2>1, BeginsProxy
<1>7. CASE WentOffline
  BY <1>7, WentOfflineTypes
<1>8. CASE UdevDisconnectRemoves
  <2>1. UNCHANGED ticket
    BY <1>8 DEF UdevDisconnectRemoves
  <2> QED
    BY <1>1, <1>2, <1>8, <2>1, RemovesLasts
<1>9. CASE OnDeviceConnected
  <2>1. PICK k, list : desktop' = [[desktop EXCEPT !.refcount = k] EXCEPT !.devices = list]
    BY <1>9 DEF OnDeviceConnected, DesktopAddRef
  <2>2. UNCHANGED ticket
    BY <1>9 DEF OnDeviceConnected, Dispatched
  <2> QED
    BY <1>1, <1>2, <2>1, <2>2, CountAndList
<1>10. CASE OnDeviceDisconnected
  <2>1. PICK list : desktop' = [desktop EXCEPT !.devices = list]
    BY <1>10 DEF OnDeviceDisconnected
  <2>2. UNCHANGED ticket
    BY <1>10 DEF OnDeviceDisconnected, Dispatched
  <2> QED
    BY <1>1, <1>2, <2>1, <2>2, CountAndList
<1>11. CASE Told
  <2>1. UNCHANGED ticket /\ (desktop' = desktop \/ DeviceRelease(doing.object))
    BY <1>11 DEF Told
  <2> QED
    BY <1>1, <1>2, <2>1, DeviceReleaseLasts, CountAndList
<1> QED
  BY <1>3, <1>4, <1>5, <1>6, <1>7, <1>8, <1>9, <1>10, <1>11 DEF MainLoop

\* The application.
LEMMA ApplicationProxies ==
    ASSUME Inv, ProxyInv, SinksInv, Application PROVE ProxyInv' /\ SinksInv'
<1>1. DOMAIN desktop = DOMAIN NoDesktop
  BY DEF Inv, Shapes, DesktopShape
<1>2. ASSUME Lasts \/ Goes, UNCHANGED ticket PROVE ProxyInv' /\ SinksInv'
  BY <1>2, LastsOrGoes
<1>3. CASE DesktopInit
  BY <1>3, DesktopInitTypes
<1>4. CASE DesktopGet
  <2>1. UNCHANGED ticket /\ desktop' = [desktop EXCEPT !.refcount = desktop.refcount + 1]
    BY <1>4 DEF DesktopGet, DesktopAddRef
  <2> QED
    BY <1>1, <1>2, <2>1, CountAndList
<1>5. CASE AppDesktopRelease
  <2>1. UNCHANGED ticket /\ desktop' = DesktopRelease(desktop)
    BY <1>5 DEF AppDesktopRelease
  <2> QED
    BY <1>1, <1>2, <2>1, ReleaseLastsOrGoes
<1>6. CASE \E l \in Listeners : DesktopAdvise(l) \/ DesktopUnAdvise(l)
  BY <1>6, AdviseTypes, UnAdviseTypes
<1>7. ASSUME NEW e \in Enums, EnumDevices(e) \/ EnumMove(e) \/ EnumRelease(e)
                              \/ \E f \in Enums : EnumClone(e, f)
      PROVE  ProxyInv' /\ SinksInv'
  <2>1. UNCHANGED ticket
    BY <1>7 DEF EnumDevices, EnumMove, EnumRelease, EnumClone
  <2>2. desktop' = desktop \/ Releases(enum[e].devices)
    BY <1>7 DEF EnumDevices, EnumMove, EnumRelease, EnumClone
  <2> QED
    BY <1>1, <1>2, <2>1, <2>2, ReleasesLast, CountAndList
<1>8. CASE \E p \in Paths : FindDevice(p)
  <2>1. UNCHANGED <<desktop, ticket>>
    BY <1>8 DEF FindDevice
  <2> QED
    BY <1>2, <2>1 DEF Lasts
<1>9. ASSUME NEW o \in Objects, DeviceAddRef(o) \/ AppDeviceRelease(o)
      PROVE  ProxyInv' /\ SinksInv'
  <2>1. UNCHANGED ticket /\ (desktop' = desktop \/ DeviceRelease(o))
    BY <1>9 DEF DeviceAddRef, AppDeviceRelease
  <2> QED
    BY <1>1, <1>2, <2>1, DeviceReleaseLasts, CountAndList
<1>10. ASSUME NEW s \in Sessions,
              SessionInit(s) \/ SessionUninit(s) \/ SessionGetDevice(s) \/ SessionRelease(s)
              \/ \E o \in Objects : CreateSession(s, o)
       PROVE  ProxyInv' /\ SinksInv'
  <2>1. UNCHANGED ticket /\ (desktop' = desktop \/ DeviceRelease(session[s].device))
    BY <1>10 DEF SessionInit, SessionUninit, SessionGetDevice, SessionRelease, CreateSession
  <2> QED
    BY <1>1, <1>2, <2>1, DeviceReleaseLasts, CountAndList
<1> QED
  BY <1>3, <1>4, <1>5, <1>6, <1>7, <1>8, <1>9, <1>10 DEF Application

----------------------------------------------------------------------------
(* Descriptions.                                                           *)

\* A device takes its description from the daemon's list, and keeps it with
\* any count and status.
LEMMA InfoNamed == ASSUME DaemonInv, NEW p PROVE InfoOf(p) \in Names
  BY DEF DaemonInv, InfoOf, Names

LEMMA NewDeviceNamed ==
    ASSUME Inv, DaemonInv, DeviceNames, NEW o \in Objects, NEW p, NEW text,
           device' = [device EXCEPT ![o] = NewDevice(p, text)]
    PROVE  DeviceNames'
<1>1. DOMAIN device = Objects
  BY DEF Inv, Shapes, DeviceShape
<1>2. NewDevice(p, text).info \in Names
  BY InfoNamed DEF NewDevice
<1> QED
  BY <1>1, <1>2 DEF DeviceNames

LEMMA FieldNamed ==
    ASSUME Inv, DeviceNames, NEW o \in Objects, NEW k,
           \/ device' = [device EXCEPT ![o].refcount = k]
           \/ device' = [device EXCEPT ![o].status = k]
           \/ device' = [device EXCEPT ![o] = Free]
    PROVE  DeviceNames'
<1>1. DOMAIN device = Objects /\ \A x \in Objects : DOMAIN device[x] = DOMAIN Free
  BY DEF Inv, Shapes, DeviceShape
<1>2. Free.info \in Names /\ \A x \in Objects : device[x].info \in Names
  BY DEF Free, Names, DeviceNames
<1>3. ASSUME NEW x \in Objects PROVE device'[x].info \in Names
  <2>1. CASE x # o
    BY <1>1, <1>2, <2>1
  <2>2. CASE x = o
    <3>1. \/ device'[x] = [device[x] EXCEPT !.refcount = k]
          \/ device'[x] = [device[x] EXCEPT !.status = k]
          \/ device'[x] = Free
      BY <1>1, <2>2
    <3> QED
      BY <1>1, <1>2, <3>1 DEF Free
  <2> QED
    BY <2>1, <2>2
<1> QED
  BY <1>3 DEF DeviceNames

LEMMA DeviceReleaseNamed ==
    ASSUME Inv, DeviceNames, NEW o \in Objects, DeviceRelease(o) PROVE DeviceNames'
<1>1. \/ device' = [device EXCEPT ![o].refcount = device[o].refcount - 1]
      \/ device' = [device EXCEPT ![o] = Free]
  BY DEF DeviceRelease
<1> QED
  BY <1>1, FieldNamed

LEMMA ReleasesNamed ==
    ASSUME Inv, DeviceNames, NEW os, Releases(os) PROVE DeviceNames'
<1>1. ASSUME NEW o \in Objects PROVE device'[o].info \in Names
  <2>1. DOMAIN device[o] = DOMAIN Free /\ device[o].info \in Names /\ Free.info \in Names
    BY DEF Inv, Shapes, DeviceShape, DeviceNames, Free, Names
  <2>2. \/ device'[o] = device[o] \/ device'[o] = Free
        \/ device'[o] = [device[o] EXCEPT !.refcount = device[o].refcount - 1]
    BY DEF Releases
  <2> QED
    BY <2>1, <2>2 DEF Free
<1> QED
  BY <1>1 DEF DeviceNames

LEMMA AddRefsNamed ==
    ASSUME Inv, DeviceNames, NEW os, device' = AddRefs(os) PROVE DeviceNames'
<1>1. ASSUME NEW o \in Objects PROVE device'[o].info \in Names
  <2>1. DOMAIN device[o] = DOMAIN Free /\ device[o].info \in Names
    BY DEF Inv, Shapes, DeviceShape, DeviceNames
  <2>2. device'[o] = device[o] \/ device'[o] = [device[o] EXCEPT !.refcount = device[o].refcount + 1]
    BY DEF AddRefs
  <2> QED
    BY <2>1, <2>2 DEF Free
<1> QED
  BY <1>1 DEF DeviceNames

LEMMA RemovesNamed ==
    ASSUME Inv, DeviceNames, UdevDisconnectRemoves PROVE DeviceNames'
<1>1. CASE UNCHANGED device
  BY <1>1 DEF DeviceNames
<1>2. CASE ~UNCHANGED device
  <2>1. PICK o : device' = [device EXCEPT ![o] =
                    IF device[o].refcount = 1 THEN Free
                    ELSE [device[o] EXCEPT !.refcount = device[o].refcount - 1,
                                           !.status = "disconnected"]]
    BY <1>2 DEF UdevDisconnectRemoves
  <2>2. DOMAIN device = Objects /\ \A x \in Objects : DOMAIN device[x] = DOMAIN Free
    BY DEF Inv, Shapes, DeviceShape
  <2>3. ASSUME NEW x \in Objects PROVE device'[x].info \in Names
    <3>1. device[x].info \in Names /\ Free.info \in Names
      BY DEF DeviceNames, Free, Names
    <3>2. \/ device'[x] = device[x] \/ device'[x] = Free
          \/ device'[x] = [device[x] EXCEPT !.refcount = device[x].refcount - 1,
                                            !.status = "disconnected"]
      BY <2>1, <2>2
    <3> QED
      BY <2>2, <3>1, <3>2 DEF Free
  <2> QED
    BY <2>3 DEF DeviceNames
<1> QED
  BY <1>1, <1>2

LEMMA DeviceNamesStep ==
    ASSUME Inv, DaemonInv, DeviceNames, Bus \/ MainLoop \/ Application PROVE DeviceNames'
<1>0. ASSUME UNCHANGED device PROVE DeviceNames'
  BY <1>0 DEF DeviceNames
<1>1. CASE Bus
  BY <1>0, <1>1 DEF Bus, DeviceAppears, DeviceGoes, DaemonStops, DaemonStarts, Moves, client
<1>2. CASE MainLoop
  <2>1. CASE UdevConnectAnswered \/ DesktopReady \/ NotHandled \/ DesktopIsGone \/ CameOnline
             \/ WentOffline \/ UseAfterUninit \/ UnfoundDevice
    BY <1>0, <2>1 DEF UdevConnectAnswered, DesktopReady, NotHandled, DesktopIsGone, CameOnline,
       WentOffline, UseAfterUninit, UnfoundDevice
  <2>2. CASE UdevConnectLists
    <3>1. \/ UNCHANGED device
          \/ \E o \in Objects : \E p : device' = [device EXCEPT ![o] = NewDevice(p, "freed")]
      BY <2>2 DEF UdevConnectLists
    <3> QED
      BY <1>0, <3>1, NewDeviceNamed
  <2>3. CASE OnDeviceConnected
    <3>1. \E o \in Objects : \E p : device' = [device EXCEPT ![o] = NewDevice(p, "own")]
      BY <2>3 DEF OnDeviceConnected
    <3> QED
      BY <3>1, NewDeviceNamed
  <2>4. CASE OnDeviceDisconnected
    <3>1. PICK i \in DOMAIN desktop.devices :
             device' = [device EXCEPT ![desktop.devices[i]].status = "disconnected"]
      BY <2>4 DEF OnDeviceDisconnected
    <3>2. desktop.devices[i] \in Objects
      BY <3>1 DEF Inv, Shapes, DesktopShape
    <3> QED
      BY <3>1, <3>2, FieldNamed
  <2>5. ASSUME NEW n, TellSink(n) PROVE DeviceNames'
    <3>1. doing.object \in Objects
      BY <2>5 DEF TellSink, Inv, Roles
    <3>2. device' = [device EXCEPT ![doing.object].refcount = device[doing.object].refcount + 1]
      BY <2>5 DEF TellSink
    <3> QED
      BY <3>1, <3>2, FieldNamed
  <2>6. CASE Told
    <3>1. doing.object \in Objects /\ (UNCHANGED device \/ DeviceRelease(doing.object))
      BY <2>6 DEF Told, Inv, Roles
    <3> QED
      BY <1>0, <3>1, DeviceReleaseNamed
  <2>7. CASE UdevDisconnectRemoves
    BY <2>7, RemovesNamed
  <2> QED
    BY <1>2, <2>1, <2>2, <2>3, <2>4, <2>5, <2>6, <2>7 DEF MainLoop
<1>3. CASE Application
  <2>1. CASE DesktopInit \/ DesktopGet \/ AppDesktopRelease
             \/ \E l \in Listeners : DesktopAdvise(l) \/ DesktopUnAdvise(l)
    BY <1>0, <2>1 DEF DesktopInit, DesktopGet, AppDesktopRelease, DesktopAdvise, DesktopUnAdvise
  <2>2. ASSUME NEW e \in Enums, EnumDevices(e) \/ EnumMove(e) \/ EnumRelease(e)
                                \/ \E f \in Enums : EnumClone(e, f)
        PROVE  DeviceNames'
    <3>1. UNCHANGED device \/ (\E os : device' = AddRefs(os)) \/ (\E os : Releases(os))
      BY <2>2 DEF EnumDevices, EnumMove, EnumRelease, EnumClone
    <3> QED
      BY <1>0, <3>1, AddRefsNamed, ReleasesNamed
  <2>3. ASSUME NEW p \in Paths, FindDevice(p) PROVE DeviceNames'
    <3> DEFINE I == {i \in 1..Len(desktop.devices) : device[desktop.devices[i]].info \in {p, None}}
               first == IF I # {} THEN Min(I) ELSE 0
               o == desktop.devices[first]
    <3>1. first = SelectInSeq(desktop.devices, LAMBDA x : device[x].info \in {p, None})
      BY DEF SelectInSeq
    <3>2. desktop.devices \in Seq(Objects) /\ Len(desktop.devices) \in Nat
      BY DEF Inv, Shapes, DesktopShape
    <3>3. first \in I \/ first = 0
      BY <3>2, FirstPlace
    <3>4. first # 0
      BY <2>3, <3>1 DEF FindDevice
    <3>5. first \in 1..Len(desktop.devices)
      BY <3>2, <3>3, <3>4
    <3>6. o \in Objects
      <4> HIDE DEF first
      <4> QED
        BY <3>2, <3>5
    <3>7. UNCHANGED device \/ device' = [device EXCEPT ![o].refcount = device[o].refcount + 1]
      BY <2>3, <3>1 DEF FindDevice
    <3> HIDE DEF o
    <3> QED
      BY <1>0, <3>6, <3>7, FieldNamed
  <2>4. ASSUME NEW o \in Objects, DeviceAddRef(o) \/ AppDeviceRelease(o) PROVE DeviceNames'
    <3>1. device' = [device EXCEPT ![o].refcount = device[o].refcount + 1] \/ DeviceRelease(o)
      BY <2>4 DEF DeviceAddRef, AppDeviceRelease
    <3> QED
      BY <3>1, FieldNamed, DeviceReleaseNamed
  <2>5. ASSUME NEW s \in Sessions, SessionInit(s) \/ SessionUninit(s) PROVE DeviceNames'
    BY <1>0, <2>5 DEF SessionInit, SessionUninit
  <2>6. ASSUME NEW s \in Sessions, SessionGetDevice(s) \/ SessionRelease(s) PROVE DeviceNames'
    <3>1. session[s].device \in Objects
      BY <2>6 DEF SessionGetDevice, SessionRelease, Inv, Shapes, SessionShape
    <3>2. \/ device' = [device EXCEPT ![session[s].device].refcount =
                                         device[session[s].device].refcount + 1]
          \/ DeviceRelease(session[s].device)
      BY <2>6 DEF SessionGetDevice, SessionRelease
    <3> QED
      BY <3>1, <3>2, FieldNamed, DeviceReleaseNamed
  <2>7. ASSUME NEW s \in Sessions, NEW o \in Objects, CreateSession(s, o) PROVE DeviceNames'
    <3>1. device' = [device EXCEPT ![o].refcount = device[o].refcount + 1]
      BY <2>7 DEF CreateSession
    <3> QED
      BY <3>1, FieldNamed
  <2> QED
    BY <1>3, <2>1, <2>2, <2>3, <2>4, <2>5, <2>6, <2>7 DEF Application
<1> QED
  BY <1>1, <1>2, <1>3

\* A session connects to a device that the daemon lists.
LEMMA SessionNamesStep ==
    ASSUME Inv, DaemonInv, SessionNames, Bus \/ MainLoop \/ Application PROVE SessionNames'
<1>0. ASSUME UNCHANGED session PROVE SessionNames'
  BY <1>0 DEF SessionNames
<1>1. ASSUME NEW s \in Sessions, NEW r, r.with \in Names, session' = [session EXCEPT ![s] = r]
      PROVE  SessionNames'
  <2>1. DOMAIN session = Sessions
    BY DEF Inv, Shapes, SessionShape
  <2> QED
    BY <1>1, <2>1 DEF SessionNames
<1>2. ASSUME NEW s \in Sessions, NEW p \in Names, session' = [session EXCEPT ![s].with = p]
      PROVE  SessionNames'
  <2>1. DOMAIN session[s] = DOMAIN NoSession
    BY DEF Inv, Shapes, SessionShape
  <2>2. PICK r : r = [session[s] EXCEPT !.with = p]
    OBVIOUS
  <2>3. r.with = p /\ session' = [session EXCEPT ![s] = r]
    BY <1>2, <2>1, <2>2 DEF NoSession
  <2> QED
    BY <1>1, <2>3
<1>3. CASE Bus
  BY <1>0, <1>3 DEF Bus, DeviceAppears, DeviceGoes, DaemonStops, DaemonStarts, Moves, client
<1>4. CASE MainLoop
  <2>1. UNCHANGED session
    BY <1>4 DEF MainLoop, UdevConnectAnswered, UdevConnectLists, DesktopReady, NotHandled,
       DesktopIsGone, CameOnline, WentOffline, UdevDisconnectRemoves, UseAfterUninit,
       OnDeviceConnected, OnDeviceDisconnected, UnfoundDevice, TellSink, Told, Dispatched
  <2> QED
    BY <1>0, <2>1
<1>5. CASE Application
  <2>1. ASSUME NEW s \in Sessions, SessionInit(s) PROVE SessionNames'
    <3>1. PICK p : p \in daemon.present /\ session' = [session EXCEPT ![s].with = p]
      BY <2>1 DEF SessionInit
    <3>2. p \in Names
      BY <3>1 DEF DaemonInv, Names
    <3> QED
      BY <1>2, <3>1, <3>2
  <2>2. ASSUME NEW s \in Sessions, SessionUninit(s) PROVE SessionNames'
    BY <1>2, <2>2 DEF SessionUninit, Names
  <2>3. ASSUME NEW s \in Sessions, SessionRelease(s) PROVE SessionNames'
    <3>1. session' = [session EXCEPT ![s] = NoSession] /\ NoSession.with \in Names
      BY <2>3 DEF SessionRelease, NoSession, Names
    <3> QED
      BY <1>1, <3>1
  <2>4. ASSUME NEW s \in Sessions, NEW o \in Objects, CreateSession(s, o) PROVE SessionNames'
    <3>1. PICK r : r = [refcount |-> 1, device |-> o, info |-> device[o].info, with |-> None]
      OBVIOUS
    <3>2. session' = [session EXCEPT ![s] = r] /\ r.with \in Names
      BY <2>4, <3>1 DEF CreateSession, Names
    <3> QED
      BY <1>1, <3>2
  <2>5. ASSUME NEW s \in Sessions, SessionGetDevice(s) PROVE SessionNames'
    BY <1>0, <2>5 DEF SessionGetDevice
  <2>6. CASE DesktopInit \/ DesktopGet \/ AppDesktopRelease
             \/ \E l \in Listeners : DesktopAdvise(l) \/ DesktopUnAdvise(l)
    BY <1>0, <2>6 DEF DesktopInit, DesktopGet, AppDesktopRelease, DesktopAdvise, DesktopUnAdvise
  <2>7. ASSUME NEW e \in Enums, EnumDevices(e) \/ EnumMove(e) \/ EnumRelease(e)
                                \/ \E f \in Enums : EnumClone(e, f)
        PROVE  SessionNames'
    BY <1>0, <2>7 DEF EnumDevices, EnumMove, EnumRelease, EnumClone
  <2>8. CASE (\E p \in Paths : FindDevice(p))
             \/ \E o \in Objects : DeviceAddRef(o) \/ AppDeviceRelease(o)
    BY <1>0, <2>8 DEF FindDevice, DeviceAddRef, AppDeviceRelease
  <2> QED
    BY <1>5, <2>1, <2>2, <2>3, <2>4, <2>5, <2>6, <2>7, <2>8 DEF Application
<1> QED
  BY <1>3, <1>4, <1>5

----------------------------------------------------------------------------
(* The application's references, and what can break.                       *)

\* A new desktop comes with room for a reference, and nothing else is called
\* until its first user has taken it.
LEMMA HeldStep ==
    ASSUME Inv, HeldInv, Bus \/ MainLoop \/ Application PROVE HeldInv'
<1>1. held.desktop \in Nat /\ MaxHeld \in Nat /\ DOMAIN held = {"desktop", "device"}
      /\ DOMAIN doing = DOMAIN Idle
  BY DesktopAssumption DEF Inv, Shapes, HeldShape, DoingShape
<1>2. held.desktop <= MaxHeld /\ (doing.what = "asking for the owner" => held.desktop < MaxHeld)
  BY DEF HeldInv, Doing
<1>3. ASSUME held'.desktop <= MaxHeld,
             doing'.what = "asking for the owner" => held'.desktop < MaxHeld
      PROVE  HeldInv'
  BY <1>3 DEF HeldInv, Doing
<1>4. ASSUME held'.desktop = held.desktop, doing'.what # "asking for the owner" \/ doing' = doing
      PROVE  HeldInv'
  BY <1>4, <1>2, <1>3
<1>5. CASE Bus
  BY <1>4, <1>5 DEF Bus, DeviceAppears, DeviceGoes, DaemonStops, DaemonStarts, Moves, client
<1>6. CASE MainLoop
  <2>1. CASE DesktopReady
    <3>1. doing.what = "asking for the owner" /\ held' = [held EXCEPT !.desktop = held.desktop + 1]
      BY <2>1 DEF DesktopReady, Doing
    <3>2. held'.desktop = held.desktop + 1
      BY <1>1, <3>1
    <3>3. doing' = Idle \/ doing' = [Idle EXCEPT !.what = "asking for the list"]
      BY <2>1 DEF DesktopReady, UdevConnectBegins
    <3>4. doing'.what # "asking for the owner"
      <4>1. CASE doing' = Idle
        BY <4>1 DEF Idle
      <4>2. CASE doing' = [Idle EXCEPT !.what = "asking for the list"]
        BY <4>2 DEF Idle
      <4> QED
        BY <3>3, <4>1, <4>2
    <3>5. held.desktop < MaxHeld
      BY <1>2, <3>1
    <3>6. held'.desktop <= MaxHeld
      BY <1>1, <3>2, <3>5
    <3> QED
      BY <1>3, <3>4, <3>6
  <2>2. CASE UdevConnectAnswered \/ UdevConnectLists \/ NotHandled \/ DesktopIsGone
             \/ UdevDisconnectRemoves \/ UseAfterUninit \/ UnfoundDevice \/ Told
    <3>1. held' = held
      BY <2>2 DEF UdevConnectAnswered, UdevConnectLists, NotHandled, DesktopIsGone,
         UdevDisconnectRemoves, UseAfterUninit, UnfoundDevice, Told, Dispatched
    <3>2. doing'.what # "asking for the owner" \/ doing' = doing
      <4>1. doing' = doing \/ doing' = Idle \/ doing' = [Idle EXCEPT !.what = "listing", !.left = daemon.present]
            \/ Doing("listing") \/ Doing("removing")
        BY <2>2 DEF UdevConnectAnswered, UdevConnectLists, NotHandled, DesktopIsGone,
           UdevDisconnectRemoves, UseAfterUninit, UnfoundDevice, Told, Dispatched
      <4>2. Idle.what # "asking for the owner"
        BY DEF Idle
      <4>3. ASSUME NEW left, doing' = [doing EXCEPT !.left = left],
                   Doing("listing") \/ Doing("removing")
            PROVE  doing'.what # "asking for the owner"
        <5>1. doing'.what = doing.what
          BY <1>1, <4>3 DEF Idle
        <5> QED
          BY <4>3, <5>1 DEF Doing
      <4>4. CASE Doing("listing") \/ Doing("removing")
        <5>1. CASE UdevConnectLists
          <6>1. doing' = Idle \/ \E left : doing' = [doing EXCEPT !.left = left]
            BY <5>1 DEF UdevConnectLists
          <6> QED
            BY <4>4, <4>2, <4>3, <6>1
        <5>2. CASE UdevDisconnectRemoves
          <6>1. doing' = Idle \/ \E left : doing' = [doing EXCEPT !.left = left]
            BY <5>2 DEF UdevDisconnectRemoves
          <6> QED
            BY <4>4, <4>2, <4>3, <6>1
        <5>3. ~UdevConnectAnswered /\ ~NotHandled /\ ~DesktopIsGone /\ ~UnfoundDevice /\ ~Told
          BY <4>4 DEF UdevConnectAnswered, NotHandled, DesktopIsGone, UnfoundDevice, Told,
             Dispatched, Doing
        <5>4. UseAfterUninit => doing' = doing
          BY DEF UseAfterUninit
        <5> QED
          BY <2>2, <5>1, <5>2, <5>3, <5>4
      <4>5. CASE doing' = [Idle EXCEPT !.what = "listing", !.left = daemon.present]
        BY <4>5 DEF Idle
      <4> QED
        BY <4>1, <4>4, <4>2, <4>5
    <3> QED
      BY <1>4, <3>1, <3>2
  <2>3. CASE CameOnline \/ WentOffline \/ OnDeviceConnected \/ OnDeviceDisconnected
    <3>1. held' = held
      BY <2>3 DEF CameOnline, WentOffline, OnDeviceConnected, OnDeviceDisconnected, Dispatched
    <3>2. doing'.what # "asking for the owner"
      <4>1. CASE CameOnline
        BY <4>1 DEF CameOnline, UdevConnectBegins, Idle
      <4>2. CASE WentOffline
        BY <4>2 DEF WentOffline, Idle
      <4>3. CASE OnDeviceConnected \/ OnDeviceDisconnected
        <5>1. \E o, left : doing' = [what |-> "telling", object |-> o, left |-> left, told |-> {}]
          BY <4>3 DEF OnDeviceConnected, OnDeviceDisconnected
        <5> QED
          BY <5>1
      <4> QED
        BY <2>3, <4>1, <4>2, <4>3
    <3> QED
      BY <1>4, <3>1, <3>2
  <2>4. ASSUME NEW n, TellSink(n) PROVE HeldInv'
    <3>1. Doing("telling") /\ held'.desktop = held.desktop
      BY <1>1, <2>4 DEF TellSink
    <3>2. doing' = [doing EXCEPT !.left = doing.left \ {n}, !.told = doing.told \cup {n}]
      BY <2>4 DEF TellSink
    <3>3. doing'.what = "telling"
      BY <1>1, <3>1, <3>2 DEF Doing, Idle
    <3> QED
      BY <1>4, <3>1, <3>3
  <2> QED
    BY <1>6, <2>1, <2>2, <2>3, <2>4 DEF MainLoop
<1>7. CASE Application
  <2>1. CASE DesktopInit
    BY <2>1 DEF DesktopInit, HeldInv
  <2>2. CASE DesktopGet
    <3>1. held.desktop < MaxHeld /\ held'.desktop = held.desktop + 1 /\ doing' = doing
          /\ doing.what # "asking for the owner"
      BY <1>1, <2>2 DEF DesktopGet, Running, Doing
    <3>2. held.desktop < MaxHeld /\ held'.desktop = held.desktop + 1
      BY <3>1
    <3>3. held'.desktop <= MaxHeld
      BY <1>1, <3>2
    <3> QED
      BY <1>3, <3>1, <3>3
  <2>3. CASE AppDesktopRelease
    <3>1. held'.desktop = held.desktop - 1 /\ doing' = doing
      BY <1>1, <2>3 DEF AppDesktopRelease
    <3>2. held'.desktop = held.desktop - 1 /\ held.desktop <= MaxHeld
      BY <1>2, <3>1
    <3>3. held'.desktop < MaxHeld
      BY <1>1, <3>2
    <3>4. held'.desktop <= MaxHeld
      BY <1>1, <3>2
    <3> QED
      BY <1>3, <3>3, <3>4
  <2>4. ASSUME NEW l \in Listeners, DesktopAdvise(l) \/ DesktopUnAdvise(l) PROVE HeldInv'
    BY <1>4, <2>4 DEF DesktopAdvise, DesktopUnAdvise
  <2>5. ASSUME NEW e \in Enums, EnumDevices(e) \/ EnumMove(e) \/ EnumRelease(e)
                                \/ \E f \in Enums : EnumClone(e, f)
        PROVE  HeldInv'
    BY <1>4, <2>5 DEF EnumDevices, EnumMove, EnumRelease, EnumClone
  <2>6. ASSUME NEW p \in Paths, FindDevice(p) PROVE HeldInv'
    <3>1. doing' = doing /\ (held' = held \/ \E o : held' = [held EXCEPT !.device[o] = held.device[o] + 1])
      BY <2>6 DEF FindDevice
    <3> QED
      BY <1>1, <1>4, <3>1
  <2>7. ASSUME NEW o \in Objects, DeviceAddRef(o) \/ AppDeviceRelease(o) PROVE HeldInv'
    <3>1. doing' = doing /\ \E k : held' = [held EXCEPT !.device[o] = k]
      BY <2>7 DEF DeviceAddRef, AppDeviceRelease
    <3> QED
      BY <1>1, <1>4, <3>1
  <2>8. ASSUME NEW s \in Sessions, SessionGetDevice(s) PROVE HeldInv'
    <3>1. doing' = doing /\ \E o, k : held' = [held EXCEPT !.device[o] = k]
      BY <2>8 DEF SessionGetDevice
    <3> QED
      BY <1>1, <1>4, <3>1
  <2>9. ASSUME NEW s \in Sessions, SessionInit(s) \/ SessionUninit(s) \/ SessionRelease(s)
                                   \/ \E o \in Objects : CreateSession(s, o)
        PROVE  HeldInv'
    BY <1>4, <2>9 DEF SessionInit, SessionUninit, SessionRelease, CreateSession
  <2> QED
    BY <1>7, <2>1, <2>2, <2>3, <2>4, <2>5, <2>6, <2>7, <2>8, <2>9 DEF Application
<1> QED
  BY <1>5, <1>6, <1>7

LEMMA BrokenStep ==
    ASSUME broken = "no", Bus \/ MainLoop \/ Application
    PROVE  broken' \in {"no", "stopped", "freed memory used"}
  BY OthersAreSafe DEF DesktopIsGone, UseAfterUninit

LEMMA TypesInitially == Init => TypeInv
<1> SUFFICES ASSUME Init PROVE TypeInv
  OBVIOUS
<1>1. /\ desktop = NoDesktop /\ device = [o \in Objects |-> Free]
      /\ session = [s \in Sessions |-> NoSession]
      /\ held = [desktop |-> 0, device |-> [o \in Objects |-> 0]]
      /\ doing = Idle /\ broken = "no" /\ ticket = [l \in Listeners |-> 0]
  BY DEF Init
<1>2. DaemonInv
  <2>1. PICK online \in BOOLEAN, present \in SUBSET Paths :
           /\ online \/ present = {}
           /\ daemon = [online |-> online, present |-> present, moves |-> 0]
    BY DEF Init
  <2>2. DOMAIN daemon = {"online", "present", "moves"} /\ daemon.present = present
    BY <2>1
  <2>3. daemon.online = online
    BY <2>1, Zenon
  <2> QED
    BY <2>1, <2>2, <2>3, Zenon DEF DaemonInv
<1>3. 1 \in 1..SeqMax
  BY FS_CardinalityType, DesktopAssumption
<1>4. ProxyInv /\ SinksInv
  BY <1>1, <1>3 DEF ProxyInv, SinksInv, NoDesktop
<1>5. NamesInv
  BY <1>1 DEF NamesInv, DeviceNames, SessionNames, Names, Free, NoSession
<1>6. HeldInv
  BY <1>1, DesktopAssumption DEF HeldInv, Doing, Idle
<1> QED
  BY <1>1, <1>2, <1>4, <1>5, <1>6 DEF TypeInv

LEMMA TypesStep ==
    ASSUME IndInv, TypeInv, [Next]_vars PROVE TypeInv'
<1>1. CASE Next
  <2>1. Inv /\ broken = "no" /\ (Bus \/ MainLoop \/ Application)
    BY <1>1 DEF IndInv, Next
  <2>2. DaemonInv /\ ProxyInv /\ SinksInv /\ NamesInv /\ HeldInv
    BY DEF TypeInv
  <2>3. Bus \/ UNCHANGED daemon
    <3>1. MainLoop => UNCHANGED daemon
      BY DEF MainLoop, UdevConnectAnswered, UdevConnectLists, DesktopReady, NotHandled,
         DesktopIsGone, CameOnline, WentOffline, UdevDisconnectRemoves, UseAfterUninit,
         OnDeviceConnected, OnDeviceDisconnected, UnfoundDevice, TellSink, Told, Dispatched
    <3>2. Application => UNCHANGED daemon
      BY DEF Application, DesktopInit, DesktopGet, AppDesktopRelease, DesktopAdvise,
         DesktopUnAdvise, EnumDevices, EnumMove, EnumRelease, EnumClone, FindDevice,
         DeviceAddRef, AppDeviceRelease, SessionInit, SessionUninit, SessionGetDevice,
         SessionRelease, CreateSession
    <3> QED
      BY <2>1, <3>1, <3>2
  <2>4. DaemonInv'
    BY <2>2, <2>3, DaemonStep
  <2>5. ProxyInv' /\ SinksInv'
    BY <2>1, <2>2, MainLoopProxies, ApplicationProxies
  <2>6. NamesInv'
    BY <2>1, <2>2, DeviceNamesStep, SessionNamesStep DEF NamesInv
  <2>7. HeldInv'
    BY <2>1, <2>2, HeldStep
  <2>8. broken' \in {"no", "stopped", "freed memory used"}
    BY <2>1, BrokenStep
  <2> QED
    BY <2>4, <2>5, <2>6, <2>7, <2>8 DEF TypeInv
<1>2. CASE UNCHANGED vars
  <2>1. UNCHANGED <<daemon, desktop, device, session, doing, held, ticket, broken>>
    BY <1>2 DEF vars
  <2>2. DaemonInv'
    BY <2>1, Zenon DEF TypeInv, DaemonInv
  <2>3. ProxyInv' /\ SinksInv' /\ NamesInv' /\ HeldInv'
    BY <2>1 DEF TypeInv, ProxyInv, SinksInv, NamesInv, DeviceNames, SessionNames, HeldInv, Doing
  <2> QED
    BY <2>1, <2>2, <2>3 DEF TypeInv
<1> QED
  BY <1>1, <1>2

LEMMA TypesFollow == ASSUME IndInv, TypeInv PROVE TypeOK
<1>1. Inv
  BY DEF IndInv
<1>2. /\ daemon.online \in BOOLEAN /\ daemon.present \subseteq Paths
      /\ daemon.online \/ daemon.present = {}
  BY Zenon DEF TypeInv, DaemonInv
<1>3. ASSUME NEW i \in DOMAIN signals
      PROVE  /\ signals[i].name \in {"Connected", "Disconnected", "Online", "Offline"}
             /\ signals[i].to \in 1..desktop.made
  <2>1. signals \in Seq(Signals) /\ Addressed(signals[i])
    BY <1>1 DEF Inv, Proxies
  <2>2. signals[i] \in Signals
    BY <2>1
  <2> QED
    BY <2>1, <2>2 DEF Signals, Addressed
<1>4. desktop.handlers \subseteq 1..desktop.made
  BY <1>1 DEF Inv, Proxies
<1>5. Listed \subseteq Objects /\ IsInjective(desktop.devices)
  BY <1>1 DEF Inv, Shapes, DesktopShape, Listed, ToSet
<1>6. held.desktop \in 0..MaxHeld /\ held.device \in [Objects -> Nat]
  <2>1. held.desktop \in Nat /\ held.device \in [Objects -> Nat]
    BY <1>1 DEF Inv, Shapes, HeldShape
  <2>2. held.desktop <= MaxHeld /\ MaxHeld \in Nat
    BY DesktopAssumption DEF TypeInv, HeldInv
  <2> QED
    BY <2>1, <2>2
<1>7. {desktop.dbus_proxy, desktop.dev_mgr_proxy} \subseteq desktop.handlers \cup {0}
  BY DEF TypeInv, ProxyInv
<1>8. DOMAIN desktop.sinks \subseteq 1..(SeqMax - 1) /\ desktop.sink_seq_num \in 1..SeqMax
  BY DEF TypeInv, SinksInv
<1>9. /\ \A o \in Objects : device[o].info \in Paths \cup {None}
      /\ \A s \in Sessions : session[s].with \in Paths \cup {None}
      /\ broken \in {"no", "stopped", "freed memory used"}
  BY DEF TypeInv, NamesInv, DeviceNames, SessionNames, Names
<1> QED
  BY <1>2, <1>3, <1>4, <1>5, <1>6, <1>7, <1>8, <1>9, Zenon DEF TypeOK

----------------------------------------------------------------------------
(* The theorems.                                                           *)

\* The invariant holds of a client of any size, with any moves of the daemon.
THEOREM Invariance == Spec => []IndInv
<1>1. Init => IndInv
  BY Initially
<1>2. IndInv /\ [Next]_vars => IndInv'
  BY Step
<1> QED
  BY <1>1, <1>2, PTL DEF Spec

\* Each device object's count is the number of those who refer to it, and the
\* desktop's that of the application's references and the devices: the pairs
\* of AddRef and Release of rapi2_api.c match on every path through it.
THEOREM CountsAreRight == Spec => []RefsAreHolders
<1>1. IndInv => RefsAreHolders
  BY DEF IndInv, Inv, CountsRight, RefsAreHolders, Lives
<1> QED
  BY <1>1, Invariance, PTL

\* No session and no enumerator is left with a device that was freed, or with
\* another one's description, and no device without the desktop it refers to.
THEOREM NoneDangles == Spec => []NothingDangles
<1>1. ASSUME IndInv PROVE NothingDangles
  <2>1. Inv /\ Shapes /\ CountsRight
    BY <1>1 DEF IndInv, Inv
  <2>2. ASSUME NEW s \in Sessions, session[s].refcount > 0
        PROVE  Live(session[s].device) /\ session[s].info = device[session[s].device].info
    <3>1. session[s].device \in Objects
      BY <2>1, <2>2 DEF Shapes, SessionShape
    <3>2. Live(session[s].device)
      BY <2>1, <2>2, <3>1, ReferredLive
    <3> QED
      BY <2>1, <2>2, <3>2 DEF Inv, Roles
  <2>3. ASSUME NEW e \in Enums, NEW o \in ToSet(enum[e].devices) PROVE Live(o)
    <3>1. o \in Objects
      BY <2>1 DEF Shapes, EnumShape, ToSet
    <3> QED
      BY <2>1, <2>3, <3>1, ReferredLive
  <2>4. ASSUME NEW o \in Objects, Live(o) PROVE desktop.exists
    <3>1. Lives # {}
      BY <2>4 DEF Lives
    <3>2. Cardinality(Lives) # 0
      BY <3>1, FiniteLives, FS_EmptySet
    <3>3. held.desktop \in Nat /\ desktop.refcount = held.desktop + Cardinality(Lives)
      BY <2>1 DEF Shapes, HeldShape, CountsRight
    <3>4. desktop.refcount # 0
      BY <3>2, <3>3, FiniteLives
    <3>5. desktop.dbus_proxy # 0
      BY <2>1, <3>4 DEF Inv, Proxies
    <3> QED
      BY <2>1, <3>5, Zenon DEF Inv, Present
  <2> QED
    BY <2>2, <2>3, <2>4, Zenon DEF NothingDangles
<1> QED
  BY <1>1, Invariance, PTL

\* A client that keeps its reference on the desktop uses no freed memory,
\* unless an earlier desktop of its left a handler behind.
THEOREM KeptDesktopSafe == Spec => []KeptDesktopIsSafe
<1>1. IndInv => KeptDesktopIsSafe
  BY DEF IndInv
<1> QED
  BY <1>1, Invariance, PTL

\* Signals are for proxies there were, the desktop's own proxies have their
\* handlers connected, a sink has a number that is free whatever was given out
\* before, and the list names each device object once.
THEOREM DesktopTypeCorrect == Spec => []TypeOK
<1>1. Init => IndInv /\ TypeInv
  BY Initially, TypesInitially
<1>2. IndInv /\ TypeInv /\ [Next]_vars => IndInv' /\ TypeInv'
  BY Step, TypesStep
<1>3. IndInv /\ TypeInv => TypeOK
  BY TypesFollow
<1> QED
  BY <1>1, <1>2, <1>3, PTL DEF Spec
=============================================================================
