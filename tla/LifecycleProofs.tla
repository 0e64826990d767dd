-------------------------- MODULE LifecycleProofs ---------------------------
(***************************************************************************)
(* Proofs about Lifecycle: what holds whatever transport is configured,    *)
(* however often connect() is called and whichever operation throws.       *)
(*                                                                         *)
(* The inductive invariant has three parts, one per component that the     *)
(* life cycle composes: Handles says what the transport holds in each      *)
(* state it can be left in, Sequence which states of object and thread the *)
(* places in connect() and disconnect() allow, and Cached how the cache    *)
(* and the frames that were sent differ.                                   *)
(***************************************************************************)
EXTENDS Lifecycle, TLAPS

-----------------------------------------------------------------------------
(* The transport                                                           *)

\* A descriptor is kept half set up only after a refused baud rate.
FdSound(s, t) ==
    t.fd # "none" => \/ t.fd = "ready"
                     \/ /\ s.kind = "official_serial"
                        /\ s.platform = "posix" /\ ~ s.accepted

\* Besides the reference of an open transport there is at most one for each
\* open() that threw with the library loaded.
PcanSound(t, n) ==
    /\ t.opened = t.claimed /\ (t.opened => t.library)
    /\ t.library => t.refs >= 1
    /\ t.refs =< n + (IF t.opened THEN 1 ELSE 0)

Holds(s, t, n) ==
    /\ FdSound(s, t) /\ PcanSound(t, n)
    /\ s.kind = "pcanbasic" => t.fd = "none"
    /\ s.kind # "pcanbasic" => ~ t.opened /\ ~ t.library /\ t.refs = 0
    /\ s.kind = "modbus_rtu" => t.fd = "none"
    /\ s.platform = "posix" => ~ t.opened /\ ~ t.library /\ t.refs = 0

\* What the operations do to each member of a transport.
LEMMA AcquiredIs ==
    ASSUME NEW t \in Transport
    PROVE  /\ Acquired(t) \in Transport /\ Acquired(t).fd = "raw"
           /\ Acquired(t).opened = t.opened /\ Acquired(t).library = t.library
           /\ Acquired(t).refs = t.refs /\ Acquired(t).claimed = t.claimed
<1> USE DEF Acquired, Transport
<1>1. Acquired(t) \in Transport
  BY SMT
<1>2. Acquired(t).fd = "raw"
  BY SMT
<1>3. Acquired(t).opened = t.opened /\ Acquired(t).library = t.library
  BY SMT
<1>4. Acquired(t).refs = t.refs /\ Acquired(t).claimed = t.claimed
  BY SMT
<1> QED BY <1>1, <1>2, <1>3, <1>4

\* Giving up a handle leaves everything else of the transport as it was.
LEMMA AbandonIs ==
    ASSUME NEW t \in Transport
    PROVE  /\ Abandon(t) \in Transport /\ Abandon(t).fd = "none"
           /\ Abandon(t).opened = t.opened /\ Abandon(t).library = t.library
           /\ Abandon(t).refs = t.refs /\ Abandon(t).claimed = t.claimed
<1> USE DEF Abandon, Transport
<1>1. Abandon(t) \in Transport
  BY SMT
<1>2. Abandon(t).fd = "none"
  BY SMT
<1>3. Abandon(t).opened = t.opened /\ Abandon(t).library = t.library
  BY SMT
<1>4. Abandon(t).refs = t.refs /\ Abandon(t).claimed = t.claimed
  BY SMT
<1> QED BY <1>1, <1>2, <1>3, <1>4

\* So does setting one up.
LEMMA ReadyIs ==
    ASSUME NEW t \in Transport
    PROVE  /\ Ready(t) \in Transport /\ Ready(t).fd = "ready"
           /\ Ready(t).opened = t.opened /\ Ready(t).library = t.library
           /\ Ready(t).refs = t.refs /\ Ready(t).claimed = t.claimed
<1> USE DEF Ready, Transport
<1>1. Ready(t) \in Transport
  BY SMT
<1>2. Ready(t).fd = "ready"
  BY SMT
<1>3. Ready(t).opened = t.opened /\ Ready(t).library = t.library
  BY SMT
<1>4. Ready(t).refs = t.refs /\ Ready(t).claimed = t.claimed
  BY SMT
<1> QED BY <1>1, <1>2, <1>3, <1>4

\* Loading the library adds one reference to it.
LEMMA LoadedIs ==
    ASSUME NEW t \in Transport
    PROVE  /\ Loaded(t) \in Transport
           /\ Loaded(t).fd = t.fd /\ Loaded(t).opened = t.opened
           /\ Loaded(t).library /\ Loaded(t).refs = t.refs + 1
           /\ Loaded(t).claimed = t.claimed
<1> USE DEF Loaded, Transport
<1>0. t.refs + 1 \in Nat /\ TRUE \in BOOLEAN
  BY SMT
<1>1. Loaded(t) \in Transport
  BY Zenon, <1>0 DEF Loaded
<1>2. Loaded(t).fd = t.fd
  BY SMT
<1>3. Loaded(t).opened = t.opened
  BY SMT
<1>4. Loaded(t).claimed = t.claimed
  BY SMT
<1>5. Loaded(t).library
  BY SMT
<1>6. Loaded(t).refs = t.refs + 1
  BY SMT
<1> QED BY <1>1, <1>2, <1>3, <1>4, <1>5, <1>6

\* Unloading it after a failed symbol takes the reference back.
LEMMA RejectedIs ==
    ASSUME NEW t \in Transport, t.refs >= 1
    PROVE  /\ Rejected(t) \in Transport
           /\ Rejected(t).fd = t.fd /\ Rejected(t).opened = t.opened
           /\ ~ Rejected(t).library /\ Rejected(t).refs = t.refs - 1
           /\ Rejected(t).claimed = t.claimed
<1> USE DEF Rejected, Transport
<1>0. t.refs - 1 \in Nat /\ FALSE \in BOOLEAN
  BY SMT
<1>1. Rejected(t) \in Transport
  BY Zenon, <1>0 DEF Rejected
<1>2. Rejected(t).fd = t.fd
  BY SMT
<1>3. Rejected(t).opened = t.opened
  BY SMT
<1>4. Rejected(t).claimed = t.claimed
  BY SMT
<1>5. ~ Rejected(t).library
  BY SMT
<1>6. Rejected(t).refs = t.refs - 1
  BY SMT
<1> QED BY <1>1, <1>2, <1>3, <1>4, <1>5, <1>6

\* A channel that was initialized is claimed, its library loaded once more.
LEMMA StartedIs ==
    ASSUME NEW t \in Transport
    PROVE  /\ Started(t) \in Transport
           /\ Started(t).fd = t.fd /\ Started(t).opened
           /\ Started(t).library /\ Started(t).refs = t.refs + 1
           /\ Started(t).claimed
<1> DEFINE u == Loaded(t)
<1>0. u \in Transport /\ u.fd = t.fd /\ u.library /\ u.refs = t.refs + 1
   BY LoadedIs
<1>b. Started(t) = [u EXCEPT !.opened = TRUE, !.claimed = TRUE]
   BY DEF Started
<1> HIDE DEF u
<1> USE <1>0, <1>b DEF Transport
<1>1. Started(t) \in Transport
  BY Zenon, <1>0, <1>b
<1>2. Started(t).fd = t.fd
  BY SMT
<1>3. Started(t).opened
  BY SMT
<1>4. Started(t).claimed
  BY SMT
<1>5. Started(t).library
  BY SMT
<1>6. Started(t).refs = t.refs + 1
  BY SMT
<1> QED BY <1>1, <1>2, <1>3, <1>4, <1>5, <1>6

\* close() gives back the channel it has open and one reference, if any.
LEMMA ClosePcanIs ==
    ASSUME NEW t \in Transport, t.library => t.refs >= 1
    PROVE  /\ ClosePcan(t) \in Transport
           /\ ClosePcan(t).fd = t.fd /\ ~ ClosePcan(t).opened
           /\ ~ ClosePcan(t).library
           /\ ClosePcan(t).refs = IF t.library THEN t.refs - 1 ELSE t.refs
           /\ ClosePcan(t).claimed = (t.claimed /\ ~ t.opened)
<1> USE DEF ClosePcan, Transport
<1>0. /\ (IF t.library THEN t.refs - 1 ELSE t.refs) \in Nat /\ FALSE \in BOOLEAN
      /\ (t.claimed /\ ~ t.opened) \in BOOLEAN
  BY SMT
<1>1. ClosePcan(t) \in Transport
  BY Zenon, <1>0 DEF ClosePcan
<1>2. ClosePcan(t).fd = t.fd
  BY SMT
<1>3. ~ ClosePcan(t).opened
  BY SMT
<1>4. ClosePcan(t).claimed = (t.claimed /\ ~ t.opened)
  BY SMT
<1>5. ~ ClosePcan(t).library
  BY SMT
<1>6. ClosePcan(t).refs = IF t.library THEN t.refs - 1 ELSE t.refs
  BY SMT
<1> QED BY <1>1, <1>2, <1>3, <1>4, <1>5, <1>6

\* A transport whose handle is dropped keeps its library.
LEMMA DroppedIs ==
    ASSUME NEW t \in Transport, NEW u,
           u = [t EXCEPT !.fd = "none", !.opened = FALSE]
    PROVE  /\ u \in Transport
           /\ u.fd = "none" /\ ~ u.opened
           /\ u.library = t.library
           /\ u.refs = t.refs
           /\ u.claimed = t.claimed
<1> USE DEF Transport
<1>1. u \in Transport
  BY Zenon
<1>2. u.fd = "none"
  BY SMT
<1>3. ~ u.opened
  BY SMT
<1>4. u.claimed = t.claimed
  BY SMT
<1>5. u.library = t.library
  BY SMT
<1>6. u.refs = t.refs
  BY SMT
<1> QED BY <1>1, <1>2, <1>3, <1>4, <1>5, <1>6

\* A library pointer that is cleared takes no reference with it.
LEMMA ForgetIs ==
    ASSUME NEW t \in Transport, NEW u,
            u = [t EXCEPT !.library = FALSE]
    PROVE  /\ u \in Transport
           /\ u.fd = t.fd /\ u.opened = t.opened
           /\ ~ u.library
           /\ u.refs = t.refs
           /\ u.claimed = t.claimed
<1> USE DEF Transport
<1>1. u \in Transport
  BY Zenon
<1>2. u.fd = t.fd
  BY SMT
<1>3. u.opened = t.opened
  BY SMT
<1>4. u.claimed = t.claimed
  BY SMT
<1>5. ~ u.library
  BY SMT
<1>6. u.refs = t.refs
  BY SMT
<1> QED BY <1>1, <1>2, <1>3, <1>4, <1>5, <1>6
\* A further failure is allowed one reference more.
LEMMA OneMore ==
    ASSUME NEW s \in Setting, NEW t \in Transport, NEW n \in Nat,
           Holds(s, t, n)
    PROVE  Holds(s, t, n + 1)
<1>1. t.refs \in Nat
  BY DEF Transport
<1>2. PcanSound(t, n + 1)
  <2>1. t.refs =< n + (IF t.opened THEN 1 ELSE 0)
    BY DEF Holds, PcanSound
  <2>2. t.refs =< n + 1 + (IF t.opened THEN 1 ELSE 0)
    BY SMT, <1>1, <2>1
  <2> QED BY <2>2 DEF Holds, PcanSound
<1> QED BY <1>2 DEF Holds

\* A transport that has nothing to do with PCAN.
LEMMA HoldsFd ==
    ASSUME NEW s \in Setting, NEW t, NEW n \in Nat, NEW u \in Transport,
           Holds(s, t, n), s.kind \in {"official_serial", "socketcan"},
           u.opened = t.opened, u.library = t.library, u.refs = t.refs,
           u.claimed = t.claimed, FdSound(s, u)
    PROVE  Holds(s, u, n)
<1>1. ~ u.opened /\ ~ u.library /\ u.refs = 0 /\ u.opened = u.claimed
  BY DEF Holds, PcanSound
<1>2. PcanSound(u, n)
  BY SMT, <1>1 DEF PcanSound
<1> QED BY <1>1, <1>2 DEF Holds

\* A PCAN transport, given how many references it may have.
LEMMA HoldsPcan ==
    ASSUME NEW s \in Setting, NEW n \in Nat, NEW u \in Transport,
           s.kind = "pcanbasic", s.platform # "posix", u.fd = "none",
           u.opened = u.claimed, u.opened => u.library,
           u.library => u.refs >= 1,
           u.refs =< n \/ (u.opened /\ u.refs =< n + 1)
    PROVE  Holds(s, u, n)
<1>1. u.refs \in Nat
  BY DEF Transport
<1>2. u.refs =< n + (IF u.opened THEN 1 ELSE 0)
  BY SMT, <1>1
<1>3. PcanSound(u, n)
  BY <1>2 DEF PcanSound
<1> QED BY <1>3 DEF Holds, FdSound

\* Every way open() can end leaves such a transport behind.
LEMMA OpenHolds ==
    ASSUME NEW s \in Setting, NEW t \in Transport, NEW n \in Nat,
           Holds(s, t, n), NEW o \in Open(s, t)
    PROVE  /\ o.to \in Transport
           /\ Holds(s, o.to, n)
              \/ (~ o.ok /\ o.to.library /\ Holds(s, o.to, n + 1))
<1>1. CASE o = Threw(t) \/ o = Opened(t)
  BY <1>1 DEF Threw, Opened
<1>2. CASE s.kind \in {"official_serial", "socketcan"}
  <2>1. ASSUME NEW u \in Transport, u.opened = t.opened,
               u.library = t.library, u.refs = t.refs,
               u.claimed = t.claimed, FdSound(s, u)
        PROVE  u \in Transport /\ Holds(s, u, n)
    BY <1>2, <2>1, HoldsFd
  <2>2. /\ Abandon(Acquired(t)) \in Transport
        /\ Holds(s, Abandon(Acquired(t)), n)
    BY <2>1, AcquiredIs, AbandonIs DEF FdSound
  <2>3. Ready(Acquired(t)) \in Transport /\ Holds(s, Ready(Acquired(t)), n)
    BY <2>1, AcquiredIs, ReadyIs DEF FdSound
  <2>4. ASSUME s.kind = "official_serial", s.platform = "posix", ~ s.accepted
        PROVE  Acquired(t) \in Transport /\ Holds(s, Acquired(t), n)
    BY <2>1, <2>4, AcquiredIs DEF FdSound
  <2>5. \/ o = Threw(t) \/ o = Opened(t)
        \/ o = Threw(Abandon(Acquired(t))) \/ o = Opened(Ready(Acquired(t)))
        \/ /\ s.kind = "official_serial" /\ s.platform = "posix"
           /\ ~ s.accepted /\ o = Threw(Acquired(t))
    <3>1. CASE s.kind = "official_serial"
      BY SMT, <3>1 DEF Open, OpenSerial, OpenSerialPosix, OpenSerialWindows
    <3>2. CASE s.kind = "socketcan"
      BY SMT, <3>2 DEF Open, OpenSocketCan
    <3> QED BY <1>2, <3>1, <3>2
  <2> QED BY <1>1, <2>2, <2>3, <2>4, <2>5 DEF Threw, Opened
<1>3. CASE s.kind = "pcanbasic"
  <2>1. \/ o = Threw(t) \/ o = Opened(t)
        \/ /\ s.platform # "posix" /\ ~ t.opened
           /\ \/ o = Threw([t EXCEPT !.library = FALSE])
              \/ o = Threw(Loaded(t))
              \/ o = Threw(Rejected(Loaded(t)))
              \/ o = Opened(Started(t))
    BY SMT, <1>3 DEF Open, OpenPcan, IsOpen
  <2>2. SUFFICES ASSUME s.platform # "posix", ~ t.opened,
                 \/ o = Threw([t EXCEPT !.library = FALSE])
                 \/ o = Threw(Loaded(t))
                 \/ o = Threw(Rejected(Loaded(t)))
                 \/ o = Opened(Started(t))
        PROVE /\ o.to \in Transport
              /\ Holds(s, o.to, n)
                 \/ (~ o.ok /\ o.to.library /\ Holds(s, o.to, n + 1))
    BY <1>1, <2>1
  <2>3. /\ t.fd = "none" /\ ~ t.claimed /\ t.refs \in Nat
        /\ t.refs =< n + (IF t.opened THEN 1 ELSE 0)
    BY <1>3, <2>2 DEF Holds, PcanSound, Transport
  <2>4. t.refs =< n /\ t.refs + 1 =< n + 1 /\ t.refs + 1 >= 1
        /\ t.refs + 1 - 1 = t.refs /\ n + 1 \in Nat
    BY SMT, <2>2, <2>3
  <2>5. CASE o = Threw([t EXCEPT !.library = FALSE])
    <3> DEFINE u == [t EXCEPT !.library = FALSE]
    <3>1. /\ u \in Transport /\ u.fd = t.fd /\ u.opened = t.opened
          /\ ~ u.library /\ u.refs = t.refs /\ u.claimed = t.claimed
      BY ForgetIs
    <3>2. o.to = u
      BY <2>5 DEF Threw
    <3> HIDE DEF u
    <3>3. u.opened = u.claimed
      BY <3>1 DEF Holds, PcanSound
    <3> QED BY <1>3, <2>2, <2>3, <2>4, <3>1, <3>2, <3>3, HoldsPcan
  <2>6. CASE o = Threw(Loaded(t))
    <3> DEFINE u == Loaded(t)
    <3>1. /\ u \in Transport /\ u.fd = t.fd /\ u.opened = t.opened
          /\ u.library /\ u.refs = t.refs + 1 /\ u.claimed = t.claimed
      BY LoadedIs
    <3>2. o.to = u /\ ~ o.ok
      BY <2>6 DEF Threw
    <3> HIDE DEF u
    <3>3. u.opened = u.claimed
      BY <3>1 DEF Holds, PcanSound
    <3> QED BY <1>3, <2>2, <2>3, <2>4, <3>1, <3>2, <3>3, HoldsPcan
  <2>7. CASE o = Threw(Rejected(Loaded(t)))
    <3> DEFINE u == Rejected(Loaded(t))
    <3>1. /\ Loaded(t) \in Transport /\ Loaded(t).refs = t.refs + 1
          /\ Loaded(t).fd = t.fd /\ Loaded(t).opened = t.opened
          /\ Loaded(t).claimed = t.claimed
      BY LoadedIs
    <3>2. /\ u \in Transport /\ u.fd = t.fd /\ u.opened = t.opened
          /\ ~ u.library /\ u.refs = t.refs /\ u.claimed = t.claimed
      <4>1. /\ u.fd = Loaded(t).fd /\ u.opened = Loaded(t).opened
            /\ u \in Transport /\ ~ u.library /\ u.claimed = Loaded(t).claimed
            /\ u.refs = Loaded(t).refs - 1
        BY <2>4, <3>1, RejectedIs
      <4> HIDE DEF u
      <4>2. u.refs = t.refs
        BY SMT, <2>3, <3>1, <4>1
      <4> QED BY <3>1, <4>1, <4>2
    <3>3. o.to = u
      BY <2>7 DEF Threw
    <3> HIDE DEF u
    <3>4. u.opened = u.claimed
      BY <3>2 DEF Holds, PcanSound
    <3> QED BY <1>3, <2>2, <2>3, <2>4, <3>2, <3>3, <3>4, HoldsPcan
  <2>8. CASE o = Opened(Started(t))
    <3> DEFINE u == Started(t)
    <3>1. /\ u \in Transport /\ u.fd = t.fd /\ u.opened /\ u.library
          /\ u.refs = t.refs + 1 /\ u.claimed
      BY StartedIs
    <3>2. o.to = u
      BY <2>8 DEF Opened
    <3>3. u.opened = u.claimed
      BY DEF Started, Loaded, Transport
    <3> HIDE DEF u
    <3> QED BY <1>3, <2>2, <2>3, <2>4, <3>1, <3>2, <3>3, HoldsPcan
  <2> QED BY <2>2, <2>5, <2>6, <2>7, <2>8
<1>4. CASE s.kind = "modbus_rtu"
  BY SMT, <1>1, <1>4 DEF Open, IsOpen
<1> QED BY <1>2, <1>3, <1>4 DEF Setting

\* After close() nothing is open, claimed or referred to beyond what failed.
LEMMA CloseHolds ==
    ASSUME NEW s \in Setting, NEW t \in Transport, NEW n \in Nat,
           Holds(s, t, n)
    PROVE  LET c == Close(s, t)
           IN  /\ c \in Transport /\ Holds(s, c, n)
               /\ ~ IsOpen(s, c) /\ c.fd = "none" /\ ~ c.claimed
               /\ c.refs =< n
<1> DEFINE c == Close(s, t)
<1>1. t.refs \in Nat /\ (t.library => t.refs >= 1)
  BY SMT DEF Holds, PcanSound, Transport
<1>2. CASE s.kind = "pcanbasic" /\ s.platform = "windows"
  <2>1. c = ClosePcan(t)
    BY <1>2 DEF Close
  <2>2. /\ c \in Transport /\ c.fd = t.fd /\ ~ c.opened /\ ~ c.library
        /\ c.refs = (IF t.library THEN t.refs - 1 ELSE t.refs)
        /\ c.claimed = (t.claimed /\ ~ t.opened)
    BY <1>1, <2>1, ClosePcanIs
  <2> HIDE DEF c
  <2>3. t.fd = "none" /\ t.opened = t.claimed /\ (t.opened => t.library)
        /\ t.refs =< n + (IF t.opened THEN 1 ELSE 0)
    BY <1>2 DEF Holds, PcanSound
  <2>4. c.refs =< n
    BY SMT, <1>1, <2>2, <2>3
  <2>5. ~ c.claimed /\ c.fd = "none"
    BY <2>2, <2>3
  <2>6. Holds(s, c, n)
    <3>1. c.opened = c.claimed
      BY <2>2, <2>5 DEF Transport
    <3> QED BY <1>2, <2>2, <2>4, <2>5, <3>1, HoldsPcan
  <2> QED BY <1>2, <2>2, <2>4, <2>5, <2>6 DEF IsOpen, c
<1>3. CASE ~ (s.kind = "pcanbasic" /\ s.platform = "windows")
  <2>1. c = [t EXCEPT !.fd = "none", !.opened = FALSE]
    BY <1>3 DEF Close
  <2>2. /\ c \in Transport /\ c.fd = "none" /\ ~ c.opened
        /\ c.library = t.library /\ c.refs = t.refs /\ c.claimed = t.claimed
    BY <2>1, DroppedIs
  <2> HIDE DEF c
  <2>3. ~ t.opened /\ ~ t.library /\ t.refs = 0 /\ t.opened = t.claimed
    BY <1>3 DEF Holds, PcanSound, Setting
  <2>4. c.refs =< n
    BY SMT, <2>2, <2>3
  <2>5. PcanSound(c, n) /\ FdSound(s, c)
    <3>1. c.refs =< n + (IF c.opened THEN 1 ELSE 0)
      BY SMT, <2>2, <2>3
    <3>2. c.opened = c.claimed
      BY <2>2, <2>3 DEF Transport
    <3> QED BY <2>2, <2>3, <3>1, <3>2 DEF PcanSound, FdSound
  <2>6. Holds(s, c, n)
    BY <2>2, <2>3, <2>5 DEF Holds
  <2> QED BY <2>2, <2>3, <2>4, <2>6 DEF IsOpen, c, Setting
<1> QED BY <1>2, <1>3

-----------------------------------------------------------------------------
(* The inductive invariant                                                 *)

Handles == Holds(setting, transport, spoilt)

\* Where the application's thread can be, and what is so there.
Sequence ==
    /\ pc \notin {"idle", "start"} => object = "alive"
    /\ pc = "start" => object \in {"alive", "terminated"}
    /\ pc = "join" => ~ running
    /\ pc = "close" => thread = "none" /\ ~ running

\* With nothing pending, the cache knows the value of the last frame, or has
\* its 0 of before the first.
Cached ==
    /\ pending => coalescing
    /\ coalescing /\ ~ pending =>
           sent = {lastSent} \/ (sent = {} /\ lastSent = 0)

IInv == /\ TypeOK /\ Handles /\ Sequence /\ Cached
        /\ NothingLeaks /\ CleanShutdown
        /\ AcceptedWritesKept /\ TerminatesOnlyThen

\* The invariant holds at first.
LEMMA Initially == Init => IInv
<1> SUFFICES ASSUME Init PROVE IInv
  OBVIOUS
<1>1. setting \in Setting
  BY SettingAssumption DEF Init
<1>2. TypeOK
  <2>1. Fresh \in Transport
    BY SMT DEF Fresh, Transport
  <2> HIDE DEF Fresh
  <2> QED BY <2>1, DataAssumption DEF Init, TypeOK
<1>3. Handles /\ Sequence
  BY SMT, <1>1 DEF Init, Handles, Sequence, Holds, FdSound, PcanSound, Fresh
<1>4. Cached /\ NothingLeaks /\ CleanShutdown /\ AcceptedWritesKept
      /\ TerminatesOnlyThen
  BY SMT DEF Init, Cached, NothingLeaks, CleanShutdown, AcceptedWritesKept,
     TerminatesOnlyThen
<1> QED BY <1>2, <1>3, <1>4 DEF IInv

\* open() of connect() keeps it, on whichever transport and platform.
LEMMA ConnectStep == IInv /\ ConnectOpen => IInv'
<1> SUFFICES ASSUME IInv, ConnectOpen PROVE IInv'
  OBVIOUS
<1>1. PICK o \in Open(setting, transport) :
        /\ transport' = o.to
        /\ pc' = IF o.ok THEN "drain" ELSE "idle"
        /\ ending' = IF o.ok THEN "none" ELSE "threw"
        /\ spoilt' = IF ~ o.ok /\ o.to.library THEN spoilt + 1 ELSE spoilt
  BY DEF ConnectOpen
<1>2. /\ setting \in Setting /\ transport \in Transport /\ spoilt \in Nat
      /\ Holds(setting, transport, spoilt)
  BY SettingAssumption DEF IInv, TypeOK, Handles
<1>3. /\ transport' \in Transport /\ spoilt' \in Nat
      /\ Holds(setting, transport', spoilt')
  <2>1. /\ o.to \in Transport
        /\ Holds(setting, o.to, spoilt)
           \/ (~ o.ok /\ o.to.library /\ Holds(setting, o.to, spoilt + 1))
    BY <1>2, OpenHolds
  <2>2. Holds(setting, o.to, spoilt) => Holds(setting, o.to, spoilt + 1)
    BY <1>2, <2>1, OneMore
  <2>3. spoilt + 1 \in Nat
    BY SMT, <1>2
  <2> QED BY <1>1, <1>2, <2>1, <2>2, <2>3
<1>4. /\ UNCHANGED <<config, object, threadVars, cacheVars, call, writes,
                     reconnected>>
      /\ pc = "idle" /\ object = "alive" /\ connects' = connects + 1
  BY DEF ConnectOpen, Calling
<1>5. TypeOK'
  BY SMT, <1>1, <1>3, <1>4 DEF IInv, TypeOK, config, threadVars, cacheVars,
     writes
<1>6. Handles' /\ Sequence' /\ Cached'
  BY SMT, <1>1, <1>3, <1>4 DEF IInv, Handles, Sequence, Cached, config,
     threadVars, cacheVars, writes
<1>7. /\ NothingLeaks' /\ CleanShutdown' /\ AcceptedWritesKept'
      /\ TerminatesOnlyThen'
  BY SMT, <1>1, <1>4 DEF IInv, NothingLeaks, CleanShutdown,
     AcceptedWritesKept, TerminatesOnlyThen, config, cacheVars, writes
<1> QED BY <1>5, <1>6, <1>7 DEF IInv

\* The steps that leave transport and object alone.
Quiet ==
    \/ Drain \/ AutoInitialize \/ (\E v \in Values : Write(v))
    \/ Flush \/ Disconnect \/ Destroy \/ FlushNothing \/ FlushSend
    \/ StopThread \/ JoinThread \/ ThreadEnds

\* So do the steps that leave the transport alone.
LEMMA QuietStep == IInv /\ Quiet => IInv'
<1> SUFFICES ASSUME IInv, Quiet PROVE IInv'
  OBVIOUS
<1> USE DEF config, threadVars, cacheVars, writes, counts, Calling
<1>1. UNCHANGED <<setting, coalescing, transport, object, spoilt, reconnected>>
  BY SMT DEF Quiet, Drain, AutoInitialize, Write, WriteImmediately,
     WriteCoalesced, Flush, Disconnect, Destroy, StartFlush, FlushNothing,
     FlushSend, StopThread, JoinThread, ThreadEnds
<1>2. TypeOK'
  <2> USE DEF IInv, TypeOK
  <2>1. CASE Drain \/ AutoInitialize
    BY SMT, <2>1 DEF Drain, AutoInitialize
  <2>2. ASSUME NEW v \in Values, WriteImmediately(v) PROVE TypeOK'
    <3>1. wanted' \subseteq Values /\ sent' \subseteq Values
      BY <2>2 DEF WriteImmediately
    <3>2. ending' \in {"returned", "threw"}
      BY <2>2 DEF WriteImmediately
    <3> QED BY SMT, <2>2, <3>1, <3>2 DEF WriteImmediately
  <2>3. ASSUME NEW v \in Values, WriteCoalesced(v) PROVE TypeOK'
    <3>1. /\ pending' \in BOOLEAN /\ pendingValue' \in Values
          /\ lastSent' \in Values /\ wanted' \subseteq Values
      BY <2>3 DEF WriteCoalesced
    <3> QED BY SMT, <2>3, <3>1 DEF WriteCoalesced
  <2>4. CASE Flush \/ Disconnect \/ Destroy
    BY SMT, <2>4 DEF Flush, Disconnect, Destroy, StartFlush
  <2>5. CASE FlushNothing
    BY SMT, <2>5 DEF FlushNothing, Flushed
  <2>6. CASE FlushSend
    <3>1. /\ sent' \subseteq Values /\ lastSent' \in Values
          /\ pending' \in BOOLEAN
      BY <2>6 DEF FlushSend
    <3> QED BY SMT, <2>6, <3>1 DEF FlushSend, Flushed
  <2>7. CASE StopThread \/ JoinThread
    <3>1. thread' \in {"none", "running", "ended"} /\ running' \in BOOLEAN
      BY <2>7 DEF StopThread, Stop, JoinThread, Joined
    <3> QED BY SMT, <2>7, <3>1 DEF StopThread, JoinThread
  <2>8. CASE ThreadEnds
    BY SMT, <2>8 DEF ThreadEnds
  <2> QED BY <2>1, <2>2, <2>3, <2>4, <2>5, <2>6, <2>7, <2>8
          DEF Quiet, Write
<1>3. Sequence' /\ CleanShutdown'
  <2> USE DEF IInv, Sequence, CleanShutdown, Open_
  <2>1. CASE Drain \/ AutoInitialize
    BY <2>1 DEF Drain, AutoInitialize
  <2>2. ASSUME NEW v \in Values, WriteImmediately(v)
        PROVE  Sequence' /\ CleanShutdown'
    <3>1. ending' \in {"returned", "threw"}
      BY <2>2 DEF WriteImmediately
    <3> QED BY <2>2, <3>1 DEF WriteImmediately
  <2>3. ASSUME NEW v \in Values, WriteCoalesced(v)
        PROVE  Sequence' /\ CleanShutdown'
    BY <2>3 DEF WriteCoalesced
  <2>4. CASE Flush \/ Disconnect \/ Destroy
    BY <2>4 DEF Flush, Disconnect, Destroy, StartFlush
  <2>5. CASE FlushNothing \/ FlushSend
    BY <2>5 DEF FlushNothing, FlushSend, Flushed
  <2>6. CASE StopThread
    BY <2>6 DEF StopThread, Stop
  <2>7. CASE JoinThread
    BY <2>7 DEF JoinThread, Joined
  <2>8. CASE ThreadEnds
    BY <2>8 DEF ThreadEnds
  <2> QED BY <2>1, <2>2, <2>3, <2>4, <2>5, <2>6, <2>7, <2>8
          DEF Quiet, Write
<1>4. Cached' /\ AcceptedWritesKept'
  <2> USE DEF IInv, Cached, AcceptedWritesKept
  <2>1. CASE Drain \/ AutoInitialize
    BY <2>1 DEF Drain, AutoInitialize
  <2>2. ASSUME NEW v \in Values, WriteImmediately(v)
        PROVE  Cached' /\ AcceptedWritesKept'
    <3>1. ~ coalescing' /\ ~ pending /\ ~ pending'
      BY <2>2 DEF WriteImmediately
    <3> QED BY <3>1
  <2>3. ASSUME NEW v \in Values, WriteCoalesced(v)
        PROVE  Cached' /\ AcceptedWritesKept'
    BY <2>3 DEF WriteCoalesced, Skipped
  <2>4. CASE Flush \/ Disconnect \/ Destroy
    BY <2>4 DEF Flush, Disconnect, Destroy, StartFlush
  <2>5. CASE FlushNothing
    BY <2>5 DEF FlushNothing
  <2>6. CASE FlushSend
    BY <2>6 DEF FlushSend
  <2>7. CASE StopThread \/ JoinThread \/ ThreadEnds
    BY <2>7 DEF StopThread, JoinThread, ThreadEnds
  <2> QED BY <2>1, <2>2, <2>3, <2>4, <2>5, <2>6, <2>7 DEF Quiet, Write
<1>5. Handles' /\ NothingLeaks' /\ TerminatesOnlyThen'
  BY SMT, <1>1 DEF IInv, Handles, NothingLeaks, TerminatesOnlyThen
<1> QED BY <1>2, <1>3, <1>4, <1>5 DEF IInv

\* The members are destroyed: without a thread the transport is closed.
LEMMA DestroyStep ==
    ASSUME IInv, NEW t \in Transport, Holds(setting, t, spoilt),
           DestroyMembers(t)
    PROVE  /\ transport' \in Transport
           /\ Holds(setting, transport', spoilt)
           /\ \/ /\ object' = "gone" /\ transport'.fd = "none"
                 /\ ~ transport'.claimed /\ transport'.refs =< spoilt
              \/ object' = "terminated" /\ thread # "none"
<1>1. setting \in Setting /\ spoilt \in Nat
  BY SettingAssumption DEF IInv, TypeOK
<1>2. CASE thread = "none"
  BY SMT, <1>1, <1>2, CloseHolds DEF DestroyMembers
<1>3. CASE thread # "none"
  BY SMT, <1>3 DEF DestroyMembers
<1> QED BY <1>2, <1>3

\* So does the end of disconnect(), with or without an exception.
LEMMA EndStep == IInv /\ (FlushThrows \/ CloseTransport) => IInv'
<1> SUFFICES ASSUME IInv, FlushThrows \/ CloseTransport PROVE IInv'
  OBVIOUS
<1> USE DEF config, threadVars, cacheVars, writes, counts
<1>1. /\ setting \in Setting /\ transport \in Transport /\ spoilt \in Nat
      /\ Holds(setting, transport, spoilt)
  BY SettingAssumption DEF IInv, TypeOK, Handles
<1>2. LET c == Close(setting, transport)
      IN  /\ c \in Transport /\ Holds(setting, c, spoilt)
          /\ ~ IsOpen(setting, c) /\ ~ c.claimed
  BY <1>1, CloseHolds
<1>3. /\ pc' = "idle" /\ object = "alive"
      /\ UNCHANGED <<setting, coalescing, autoInit, thread, running, pending,
                     pendingValue, lastSent, call, wanted, reconnected,
                     spoilt, connects>>
  BY SMT DEF FlushThrows, CloseTransport, AfterThrow, IInv, Sequence
<1>4. sent' = sent \/ (pending /\ sent' = {pendingValue})
  BY SMT DEF FlushThrows, CloseTransport
<1>5. CASE call = "destructor"
  <2>1. ending' = "none"
    BY SMT, <1>5 DEF FlushThrows, CloseTransport
  <2>2. \/ DestroyMembers(transport) /\ pending
        \/ DestroyMembers(Close(setting, transport)) /\ thread = "none"
    BY SMT, <1>5 DEF FlushThrows, CloseTransport, IInv, Sequence
  <2>3. /\ transport' \in Transport
        /\ Holds(setting, transport', spoilt)
        /\ \/ /\ object' = "gone" /\ transport'.fd = "none"
              /\ ~ transport'.claimed /\ transport'.refs =< spoilt
           \/ object' = "terminated" /\ pending
    BY SMT, <1>1, <1>2, <2>2, DestroyStep
  <2>4. TypeOK'
    <3>1. sent' \subseteq Values
      BY <1>4 DEF IInv, TypeOK
    <3> QED BY SMT, <1>3, <2>1, <2>3, <3>1 DEF IInv, TypeOK
  <2>5. Handles' /\ Sequence' /\ Cached' /\ CleanShutdown' /\ NothingLeaks'
    BY SMT, <1>3, <1>4, <2>1, <2>3 DEF IInv, Handles, Sequence, Cached,
       CleanShutdown, NothingLeaks
  <2>6. AcceptedWritesKept' /\ TerminatesOnlyThen'
    BY SMT, <1>3, <1>4, <2>3 DEF IInv, Cached, AcceptedWritesKept,
       TerminatesOnlyThen
  <2> QED BY <2>4, <2>5, <2>6 DEF IInv
<1>6. CASE call # "destructor"
  <2>1. /\ object' = "alive"
        /\ \/ transport' = transport /\ ending' = "threw"
           \/ /\ transport' = Close(setting, transport)
              /\ ending' = "disconnected" /\ thread = "none" /\ ~ running
    BY SMT, <1>3, <1>6 DEF FlushThrows, CloseTransport, IInv, Sequence
  <2>2. TypeOK'
    <3>1. sent' \subseteq Values
      BY <1>4 DEF IInv, TypeOK
    <3>2. transport' \in Transport
      BY <1>1, <1>2, <2>1
    <3> QED BY SMT, <1>3, <2>1, <3>1, <3>2 DEF IInv, TypeOK
  <2>3. Handles' /\ CleanShutdown'
    BY SMT, <1>1, <1>2, <1>3, <2>1 DEF Handles, CleanShutdown, Open_
  <2>4. Sequence' /\ Cached' /\ NothingLeaks'
    BY SMT, <1>3, <1>4, <2>1 DEF IInv, Sequence, Cached, NothingLeaks
  <2>5. AcceptedWritesKept' /\ TerminatesOnlyThen'
    BY SMT, <1>3, <1>4, <2>1 DEF IInv, AcceptedWritesKept, TerminatesOnlyThen
  <2> QED BY <2>2, <2>3, <2>4, <2>5 DEF IInv
<1> QED BY <1>5, <1>6

\* Every step keeps the invariant.
LEMMA StepKeeps == IInv /\ [Next]_vars => IInv'
<1> SUFFICES ASSUME IInv, [Next]_vars PROVE IInv'
  OBVIOUS
<1> USE DEF config, threadVars, cacheVars, writes, counts, Calling
<1>1. CASE Construct
  <2>1. TypeOK' /\ Handles' /\ Sequence' /\ Cached'
    BY SMT, <1>1 DEF Construct, IInv, TypeOK, Handles, Sequence, Cached
  <2> QED BY SMT, <1>1, <2>1 DEF Construct, IInv, NothingLeaks,
          CleanShutdown, AcceptedWritesKept, TerminatesOnlyThen, Open_
<1>2. CASE ConnectOpen
  BY <1>2, ConnectStep
<1>3. CASE StartThread
  <2>1. TypeOK'
    <3>1. /\ running' \in BOOLEAN /\ reconnected' \in BOOLEAN
          /\ thread' \in {"none", "running", "ended"}
      BY <1>3 DEF StartThread, IInv, TypeOK
    <3>2. /\ object' \in {"alive", "terminated"}
          /\ pc' \in {"start", "initialize", "idle"}
          /\ ending' \in {"none", "returned"} \cup {ending}
      BY <1>3 DEF StartThread
    <3> QED BY SMT, <1>3, <3>1, <3>2 DEF StartThread, IInv, TypeOK
  <2>2. Handles' /\ Cached'
    BY <1>3 DEF StartThread, IInv, Handles, Cached
  <2>3. Sequence'
    BY SMT, <1>3 DEF StartThread, IInv, Sequence
  <2>4. NothingLeaks' /\ AcceptedWritesKept' /\ TerminatesOnlyThen'
    BY SMT, <1>3 DEF StartThread, IInv, NothingLeaks, AcceptedWritesKept,
       TerminatesOnlyThen
  <2>5. CleanShutdown'
    BY SMT, <1>3 DEF StartThread, IInv, CleanShutdown
  <2> QED BY <2>1, <2>2, <2>3, <2>4, <2>5 DEF IInv
<1>4. CASE FlushThrows \/ CloseTransport
  BY <1>4, EndStep
<1>5. CASE Quiet
  BY <1>5, QuietStep
<1>6. CASE UNCHANGED vars
  BY SMT, <1>6 DEF vars, IInv, TypeOK, Handles, Sequence, Cached,
     NothingLeaks, CleanShutdown, AcceptedWritesKept, TerminatesOnlyThen,
     Open_
<1> QED BY <1>1, <1>2, <1>3, <1>4, <1>5, <1>6 DEF Next, Proceed, Quiet

\* The invariant holds in every state.
LEMMA Invariance == Spec => []IInv
BY Initially, StepKeeps, PTL DEF Spec

-----------------------------------------------------------------------------
(* The theorems                                                            *)

\* Every variable keeps its type; the PCAN library is never freed more often
\* than it was loaded.
THEOREM TypeCorrect == Spec => []TypeOK
<1>1. IInv => TypeOK
  BY DEF IInv
<1> QED BY Invariance, <1>1, PTL

\* On every transport and platform, after any row of failures and retries,
\* is_open() is true only of a transport that is set up, but for a serial
\* port whose baud rate was refused.
THEOREM OpenMeansReady == Spec => []OpenIsReady
<1>1. IInv => OpenIsReady
  BY SMT DEF IInv, TypeOK, Handles, Holds, FdSound, PcanSound, OpenIsReady,
     Open_, IsOpen
<1> QED BY Invariance, <1>1, PTL

\* A destroyed object has given back every handle and channel, and every
\* reference to the library but those of open() calls that threw halfway.
THEOREM NoLeak == Spec => []NothingLeaks
<1>1. IInv => NothingLeaks
  BY DEF IInv
<1> QED BY Invariance, <1>1, PTL

\* When disconnect() returns there is no thread and nothing is open.
THEOREM DisconnectCleans == Spec => []CleanShutdown
<1>1. IInv => CleanShutdown
  BY DEF IInv
<1> QED BY Invariance, <1>1, PTL

\* The value accepted last stays pending until its frame was sent, and none
\* is sent after it, through failing flushes, failing disconnects and any
\* number of sessions; a first write of 0 is skipped.
THEOREM WritesAreKept == Spec => []AcceptedWritesKept
<1>1. IInv => AcceptedWritesKept
  BY DEF IInv
<1> QED BY Invariance, <1>1, PTL

\* Without coalescing, only a second connect() can end the process.
THEOREM OnlyThen == Spec => []TerminatesOnlyThen
<1>1. IInv => TerminatesOnlyThen
  BY DEF IInv
<1> QED BY Invariance, <1>1, PTL
=============================================================================
