----------------------------- MODULE Transports -----------------------------
(***************************************************************************)
(* Opening and closing a transport: OfficialSerialTransport over           *)
(* SerialPort, SocketCanTransport, PcanBasicTransport, ModbusRtuTransport, *)
(* and make_transport, which chooses one.                                  *)
(*                                                                         *)
(* open() is a row of calls of the operating system, each of which may     *)
(* fail; what matters is what a failure leaves behind, because open() is   *)
(* tried again and is_open() looks at the same members.  So an operation   *)
(* is the set of its outcomes: the state it leaves the transport in and    *)
(* whether it returned.                                                    *)
(***************************************************************************)
EXTENDS Naturals

(***************************************************************************)
(* A setting: which transport is made, on which platform the driver was    *)
(* built, and whether the configured baud rate, channel and bit rate are   *)
(* ones the code accepts.                                                  *)
(***************************************************************************)
Setting == [kind : {"official_serial", "socketcan", "pcanbasic", "modbus_rtu"},
            platform : {"posix", "windows"},
            accepted : BOOLEAN]

(***************************************************************************)
(* A transport.                                                            *)
(*   fd       fd_ or handle_: "raw" is one that was opened but not set up  *)
(*   opened   open_ of PcanBasicTransport                                  *)
(*   library  library_ # nullptr                                           *)
(*   refs     how often PCANBasic.dll is loaded (external)                 *)
(*   claimed  whether the PCAN channel is initialized (external)           *)
(***************************************************************************)
Transport == [fd : {"none", "raw", "ready"}, opened : BOOLEAN,
              library : BOOLEAN, refs : Nat, claimed : BOOLEAN]

Fresh == [fd |-> "none", opened |-> FALSE, library |-> FALSE, refs |-> 0,
          claimed |-> FALSE]

\* make_transport: SocketCAN exists on Linux only.
Makeable(s) == ~ (s.kind = "socketcan" /\ s.platform = "windows")

\* is_open; that of Modbus is always false.
IsOpen(s, t) ==
    CASE s.kind = "pcanbasic"  -> t.opened
      [] s.kind = "modbus_rtu" -> FALSE
      [] OTHER                 -> t.fd # "none"

Opened(t) == [to |-> t, ok |-> TRUE]
Threw(t)  == [to |-> t, ok |-> FALSE]

\* The handle of a port that could not be set up is kept.
AbandonBug(t) == t

\* A call after the first one failed: the handle is closed again.
Abandon(t) == [t EXCEPT !.fd = "none"]

Acquired(t) == [t EXCEPT !.fd = "raw"]
Ready(t)    == [t EXCEPT !.fd = "ready"]

\* A baud rate that termios does not have throws out of the middle of open()
\* and leaves the descriptor where it is.
OpenSerialPosix(s, t) ==
    {Threw(t), Threw(Abandon(Acquired(t))),
     IF s.accepted THEN Opened(Ready(Acquired(t))) ELSE Threw(Acquired(t))}

\* GetCommState, SetCommState (which refuses the baud rate), SetCommTimeouts.
OpenSerialWindows(s, t) ==
    {Threw(t), Threw(Abandon(Acquired(t)))} \cup
    (IF s.accepted THEN {Opened(Ready(Acquired(t)))} ELSE {})

OpenSerial(s, t) ==
    IF s.platform = "posix" THEN OpenSerialPosix(s, t)
                            ELSE OpenSerialWindows(s, t)

\* socket, SIOCGIFINDEX, bind.
OpenSocketCan(s, t) ==
    {Threw(t), Threw(Abandon(Acquired(t))), Opened(Ready(Acquired(t)))}

\* library_ is overwritten, also when a failed open() left one there.
Loaded(t) == [t EXCEPT !.library = TRUE, !.refs = @ + 1]

\* The library is not freed when CAN_Initialize fails.
RejectedBug(t) == [t EXCEPT !.library = FALSE]

\* CAN_Initialize fails: FreeLibrary.
Rejected(t) == [t EXCEPT !.library = FALSE, !.refs = @ - 1]

Started(t) == [Loaded(t) EXCEPT !.opened = TRUE, !.claimed = TRUE]

\* LoadLibrary; the four symbols, the channel and the bit rate, any of which
\* may throw with the library loaded; CAN_Initialize.
OpenPcan(s, t) ==
    IF s.platform = "posix" THEN {Threw(t)}
    ELSE {Threw([t EXCEPT !.library = FALSE]), Threw(Loaded(t))} \cup
         (IF s.accepted THEN {Threw(Rejected(Loaded(t))), Opened(Started(t))}
                        ELSE {})

\* What open() may do: nothing when the transport is open.
Open(s, t) ==
    IF IsOpen(s, t) THEN {Opened(t)}
    ELSE CASE s.kind = "official_serial" -> OpenSerial(s, t)
           [] s.kind = "socketcan"       -> OpenSocketCan(s, t)
           [] s.kind = "pcanbasic"       -> OpenPcan(s, t)
           [] s.kind = "modbus_rtu"      -> {Threw(t)}

\* FreeLibrary whether or not there is a library.
ClosePcanBug(t) ==
    [t EXCEPT !.claimed = @ /\ ~ t.opened, !.opened = FALSE,
              !.library = FALSE, !.refs = @ - 1]

\* The channel is given back and the library freed once.
ClosePcan(t) ==
    [t EXCEPT !.claimed = @ /\ ~ t.opened,
              !.opened = FALSE,
              !.library = FALSE,
              !.refs = IF t.library THEN @ - 1 ELSE @]

\* close(), and the destructor of the transport.
Close(s, t) ==
    IF s.kind = "pcanbasic" /\ s.platform = "windows"
    THEN ClosePcan(t)
    ELSE [t EXCEPT !.fd = "none", !.opened = FALSE]
=============================================================================
