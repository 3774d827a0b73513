--------------------------- MODULE DeviceService ---------------------------
(***************************************************************************)
(* How the service connects its devices (loop.cpp, device.h).              *)
(*                                                                         *)
(* Once a minute a tick of the service timer walks the device vector and   *)
(* connects every enabled device that is not connected.  Initialising a    *)
(* device suspends the walk for as long as the device takes, and the timer *)
(* was re-armed before the walk began, so walks of later minutes overlap   *)
(* with it.  A connected device is watched by its poll loop, the only      *)
(* coroutine that disconnects it again.                                    *)
(*                                                                         *)
(* All coroutines run on the one thread of the io_context.  A walk that is *)
(* "run"ning therefore excludes every other handler until it suspends;     *)
(* only the hardware changes meanwhile.                                    *)
(***************************************************************************)
EXTENDS Integers

CONSTANTS
  NumDevices,   (* size of Service::devices_; a device is its index          *)
  Connectors,   (* coroutines that can be inside connect_devices at once     *)
  Enabled,      (* devices with enabled=true                                 *)
  Reopens,      (* devices whose port closes and reopens when it is opened   *)
                (* while open (Lib_usb with an explicit connection string);  *)
                (* the others refuse: serial_port and tcp_socket throw, and  *)
                (* Lib_usb with "auto" does not find its claimed device      *)
  Rejects,      (* serial devices whose driver may refuse a line setting     *)
  Hangs,        (* devices whose initialize() may never return               *)
  CloseThrows,  (* devices whose port may throw from close()                 *)
  Logging,      (* devices for which setup_device_log() succeeds             *)
  MaxLoops      (* bound on the poll loops of one device in the model        *)

Devices == 1..NumDevices

ASSUME DeviceServiceAssumption ==
  /\ NumDevices \in Nat \ {0}
  /\ Enabled \subseteq Devices
  /\ Reopens \subseteq Devices
  /\ Rejects \subseteq Devices \ Reopens
  /\ Hangs \subseteq Devices
  /\ CloseThrows \subseteq Devices
  /\ Logging \subseteq Devices
  /\ MaxLoops \in Nat \ {0, 1}

VARIABLES
  pc,         (* where a connector is: "idle", in the "run" of its for loop, *)
              (* suspended in an "init", or suspended for good: "hung"       *)
  at,         (* the position of a connector in the device vector            *)
  connected,  (* Device::connected_                                          *)
  open,       (* whether the device's port_ is open                          *)
  posted,     (* poll loops that were posted and have not started            *)
  reading,    (* poll loops suspended in async_read_some                     *)
  present,    (* whether the hardware is there                               *)
  logged      (* devices with device_log_initialized_                        *)

vars == <<pc, at, connected, open, posted, reading, present, logged>>

conns == <<pc, at>>
ports == <<connected, open>>
loops == <<posted, reading>>

TypeOK ==
  /\ pc \in [Connectors -> {"idle", "run", "init", "hung"}]
  /\ at \in [Connectors -> 1..(NumDevices + 1)]
  /\ connected \in [Devices -> BOOLEAN]
  /\ open \in [Devices -> BOOLEAN]
  /\ posted \in [Devices -> Nat]
  /\ reading \in [Devices -> Nat]
  /\ present \in [Devices -> BOOLEAN]
  /\ logged \in SUBSET Devices

Init ==
  /\ pc = [c \in Connectors |-> "idle"]
  /\ at = [c \in Connectors |-> 1]
  /\ connected = [d \in Devices |-> FALSE]
  /\ open = [d \in Devices |-> FALSE]
  /\ posted = [d \in Devices |-> 0]
  /\ reading = [d \in Devices |-> 0]
  /\ present \in [Devices -> BOOLEAN]
  /\ logged = {}

-----------------------------------------------------------------------------
(* The walk over the device vector                                         *)

(* No walk is between two suspension points: another handler may run. *)
ThreadFree == \A c \in Connectors : pc[c] # "run"

Exclusive == Devices \ Reopens

(* The walk of connector c goes on with the device after the current one. *)
GoOn(c) ==
  /\ pc' = [pc EXCEPT ![c] = "run"]
  /\ at' = [at EXCEPT ![c] = @ + 1]

(* Connector c has reached device d in its walk. *)
Visits(c, d) == pc[c] = "run" /\ at[c] = d

(* Connector c is inside initialize() of device d. *)
Initialising(c, d) == pc[c] \in {"init", "hung"} /\ at[c] = d

(* Mutant: the timer is re-armed after the walk instead of before it. *)
OneMinuteServiceAfterWalk(c) ==
  /\ \A c1 \in Connectors : pc[c1] = "idle"
  /\ pc' = [pc EXCEPT ![c] = "run"]
  /\ at' = [at EXCEPT ![c] = 1]
  /\ UNCHANGED <<ports, loops, present, logged>>

(* The tick that ends a minute starts a walk. *)
OneMinuteService(c) ==
  /\ ThreadFree
  /\ pc[c] = "idle"
  /\ pc' = [pc EXCEPT ![c] = "run"]
  /\ at' = [at EXCEPT ![c] = 1]
  /\ UNCHANGED <<ports, loops, present, logged>>

(* Disabled and connected devices are passed over. *)
SkipDevice(c, d) ==
  /\ Visits(c, d)
  /\ d \notin Enabled \/ connected[d]
  /\ GoOn(c)
  /\ UNCHANGED <<ports, loops, present, logged>>

(* Mutant: connect_devices does not ask is_connected(). *)
AttemptsConnected(c, d) == Visits(c, d) /\ d \in Enabled

Attempts(c, d) == Visits(c, d) /\ d \in Enabled /\ ~connected[d]

(* open() throws and connect() returns.  A port that reopens has by then   *)
(* closed the handle it had, whoever was using it.                         *)
OpenFails(c, d) ==
  /\ Attempts(c, d)
  /\ ~present[d] \/ (d \in Exclusive /\ open[d])
  /\ open' = [open EXCEPT ![d] = @ /\ d \in Exclusive]
  /\ GoOn(c)
  /\ UNCHANGED <<connected, loops, present, logged>>

(* The tty opens, a set_option throws, and connect() returns without       *)
(* closing the port.                                                       *)
OpenLeaks(c, d) ==
  /\ Attempts(c, d)
  /\ d \in Rejects /\ present[d] /\ ~open[d]
  /\ open' = [open EXCEPT ![d] = TRUE]
  /\ GoOn(c)
  /\ UNCHANGED <<connected, loops, present, logged>>

(* Mutant: an open port is opened again. *)
OpenSucceedsTwice(c, d) ==
  /\ Attempts(c, d)
  /\ present[d]
  /\ open' = [open EXCEPT ![d] = TRUE]
  /\ pc' = [pc EXCEPT ![c] = "init"]
  /\ UNCHANGED <<at, connected, loops, present, logged>>

OpenSucceeds(c, d) ==
  /\ Attempts(c, d)
  /\ present[d]
  /\ d \in Exclusive => ~open[d]
  /\ open' = [open EXCEPT ![d] = TRUE]
  /\ pc' = [pc EXCEPT ![c] = "init"]
  /\ UNCHANGED <<at, connected, loops, present, logged>>

(* Mutant: start_polling spawns the loop on the spot, and the loop ends    *)
(* because the device is not yet connected.                                *)
InitSucceedsSpawns(c, d) ==
  /\ ThreadFree
  /\ pc[c] = "init" /\ at[c] = d
  /\ connected' = [connected EXCEPT ![d] = TRUE]
  /\ GoOn(c)
  /\ UNCHANGED <<open, loops, present, logged>>

(* initialize() returns true: it has posted the poll loop, and             *)
(* Device::connect marks the device before any other handler runs.         *)
InitSucceeds(c, d) ==
  /\ ThreadFree
  /\ pc[c] = "init" /\ at[c] = d
  /\ posted[d] + reading[d] < MaxLoops
  /\ posted' = [posted EXCEPT ![d] = @ + 1]
  /\ connected' = [connected EXCEPT ![d] = TRUE]
  /\ GoOn(c)
  /\ UNCHANGED <<open, reading, present, logged>>

(* Mutant: connect() forgets to close the port. *)
InitFailsKeepsPort(c, d) ==
  /\ ThreadFree
  /\ pc[c] = "init" /\ at[c] = d
  /\ GoOn(c)
  /\ UNCHANGED <<ports, loops, present, logged>>

(* initialize() returns false or throws, and connect() closes the port. *)
InitFails(c, d) ==
  /\ ThreadFree
  /\ pc[c] = "init" /\ at[c] = d
  /\ open' = [open EXCEPT ![d] = FALSE]
  /\ GoOn(c)
  /\ UNCHANGED <<connected, loops, present, logged>>

(* The same, and close() throws: asio has released the descriptor all the  *)
(* same, and the exception ends the walk in one_second_service.            *)
InitFailsCloseThrows(c, d) ==
  /\ ThreadFree
  /\ pc[c] = "init" /\ at[c] = d
  /\ d \in CloseThrows
  /\ open' = [open EXCEPT ![d] = FALSE]
  /\ pc' = [pc EXCEPT ![c] = "idle"]
  /\ UNCHANGED <<at, connected, loops, present, logged>>

(* A read without a timeout, or an answer that never ends: ExecCommand     *)
(* shows how initialize() comes to wait for ever.                          *)
InitHangs(c, d) ==
  /\ ThreadFree
  /\ pc[c] = "init" /\ at[c] = d
  /\ d \in Hangs
  /\ pc' = [pc EXCEPT ![c] = "hung"]
  /\ UNCHANGED <<at, ports, loops, present, logged>>

(* Mutant: the logs are left alone while another walk is under way. *)
EndWalkAlone(c) ==
  /\ pc[c] = "run" /\ at[c] = NumDevices + 1
  /\ logged' = IF \A c1 \in Connectors \ {c} : pc[c1] = "idle"
               THEN logged \cup {d \in Logging : connected[d]}
               ELSE logged
  /\ pc' = [pc EXCEPT ![c] = "idle"]
  /\ UNCHANGED <<at, ports, loops, present>>

(* The end of the walk: start the logs of the devices that are connected. *)
EndWalk(c) ==
  /\ pc[c] = "run" /\ at[c] = NumDevices + 1
  /\ logged' = logged \cup {d \in Logging : connected[d]}
  /\ pc' = [pc EXCEPT ![c] = "idle"]
  /\ UNCHANGED <<at, ports, loops, present>>

-----------------------------------------------------------------------------
(* The poll loop of a device                                               *)

(* The posted function spawns poll_data, which reads if the device is      *)
(* still connected.                                                        *)
PollStarts(d) ==
  /\ ThreadFree
  /\ posted[d] > 0
  /\ posted' = [posted EXCEPT ![d] = @ - 1]
  /\ reading' = [reading EXCEPT ![d] = IF connected[d] THEN @ + 1 ELSE @]
  /\ UNCHANGED <<conns, ports, present, logged>>

(* A read returns data.  A loop whose device was disconnected by another   *)
(* loop meanwhile ends here; what the data means is another module's.      *)
PollReads(d) ==
  /\ ThreadFree
  /\ reading[d] > 0
  /\ reading' = [reading EXCEPT ![d] = IF connected[d] THEN @ ELSE @ - 1]
  /\ UNCHANGED <<conns, ports, posted, present, logged>>

(* Mutant: the error is logged and the loop reads on. *)
PollFailsReadsOn(d) ==
  /\ ThreadFree
  /\ reading[d] > 0
  /\ UNCHANGED vars

(* Mutant: a loop that was not reading ends. *)
PollFailsTwice(d) ==
  /\ ThreadFree
  /\ open' = [open EXCEPT ![d] = @ /\ ~connected[d]]
  /\ connected' = [connected EXCEPT ![d] = FALSE]
  /\ reading' = [reading EXCEPT ![d] = @ - 1]
  /\ UNCHANGED <<conns, posted, present, logged>>

(* A read or handle_data throws: disconnect(), and the loop ends. *)
PollFails(d) ==
  /\ ThreadFree
  /\ reading[d] > 0
  /\ open' = [open EXCEPT ![d] = @ /\ ~connected[d]]
  /\ connected' = [connected EXCEPT ![d] = FALSE]
  /\ reading' = [reading EXCEPT ![d] = @ - 1]
  /\ UNCHANGED <<conns, posted, present, logged>>

(* The same, and close() throws: the device stays connected without a port *)
(* until the next read of the loop fails.                                  *)
PollFailsCloseThrows(d) ==
  /\ ThreadFree
  /\ reading[d] > 0 /\ connected[d] /\ open[d]
  /\ d \in CloseThrows
  /\ open' = [open EXCEPT ![d] = FALSE]
  /\ UNCHANGED <<conns, connected, loops, present, logged>>

-----------------------------------------------------------------------------
(* The hardware comes and goes. *)
PlugOrUnplug(d) ==
  /\ present' = [present EXCEPT ![d] = ~@]
  /\ UNCHANGED <<conns, ports, loops, logged>>

-----------------------------------------------------------------------------
ConnectDevice(c, d) ==
  \/ SkipDevice(c, d)
  \/ OpenFails(c, d)
  \/ OpenLeaks(c, d)
  \/ OpenSucceeds(c, d)

InitReturns(c, d) ==
  \/ InitSucceeds(c, d)
  \/ InitFails(c, d)
  \/ InitFailsCloseThrows(c, d)
  \/ InitHangs(c, d)

Next ==
  \/ \E c \in Connectors : OneMinuteService(c) \/ EndWalk(c)
  \/ \E c \in Connectors, d \in Devices : ConnectDevice(c, d) \/ InitReturns(c, d)
  \/ \E d \in Devices : \/ PollStarts(d)
                        \/ PollReads(d)
                        \/ PollFails(d)
                        \/ PollFailsCloseThrows(d)
                        \/ PlugOrUnplug(d)

(* The io_context runs ready handlers in the order they became ready, so   *)
(* one that has to wait for a running walk again and again still gets its  *)
(* turn (strong fairness): the timer tick, an initialize() that returns, a *)
(* posted poll loop, the failing read of hardware that is gone or of a     *)
(* closed port.  A running walk only needs the thread it has.  The one     *)
(* assumption about the devices: hardware that is tried again and again    *)
(* answers one of the attempts.                                            *)
Fairness ==
  /\ SF_vars(\E c \in Connectors : OneMinuteService(c))
  /\ \A c \in Connectors :
        /\ WF_vars(EndWalk(c) \/ \E d \in Devices : ConnectDevice(c, d))
        /\ SF_vars(\E d \in Devices : InitReturns(c, d))
  /\ \A d \in Devices :
        /\ SF_vars(PollStarts(d))
        /\ SF_vars(PollFails(d) /\ ~(present[d] /\ open[d]))
        /\ SF_vars(\E c \in Connectors : InitSucceeds(c, d))

Spec == Init /\ [][Next]_vars

FairSpec == Spec /\ Fairness

-----------------------------------------------------------------------------
(* Properties                                                              *)

(* However the walks of successive minutes overlap, no two of them are     *)
(* inside initialize() of the same device (Port_device::connect), unless   *)
(* the port reopens.                                                       *)
OneInit ==
  \A d \in Exclusive : \A c1, c2 \in Connectors :
    Initialising(c1, d) /\ Initialising(c2, d) => c1 = c2

(* A walk that is initialising a device owns it: the device is not         *)
(* connected and its port is open, so that the close() of a failed         *)
(* initialisation cannot take the port from a poll loop.                   *)
InitOwnsPort ==
  \A d \in Exclusive : \A c \in Connectors :
    Initialising(c, d) => open[d] /\ ~connected[d]

(* An initialisation has its device to itself (Port_device::connect).      *)
OneOwner == OneInit /\ InitOwnsPort

(* A connected device has a poll loop, posted or reading: set_connected    *)
(* comes after start_polling, and a loop ends only when its device is      *)
(* disconnected.  Without one its loss would never be noticed.             *)
Watched == \A d \in Devices : connected[d] => posted[d] + reading[d] > 0

(* A device whose port does not reopen has one poll loop while connected   *)
(* and none while disconnected: reconnecting never leaves an old loop      *)
(* reading beside the new one.                                             *)
OneLoop ==
  \A d \in Exclusive : posted[d] + reading[d] = IF connected[d] THEN 1 ELSE 0

(* A device is watched while connected, and not watched twice              *)
(* (Port_polling_mixin::poll_data).                                        *)
WatchedOnce == Watched /\ OneLoop

(* A port that accepts its settings is open only on behalf of a walk that  *)
(* initialises its device, or of a connected device: no attempt leaves it  *)
(* open, which would make every later attempt fail.                        *)
PortNotLeaked ==
  \A d \in Exclusive \ Rejects :
    open[d] => connected[d] \/ \E c \in Connectors : Initialising(c, d)

(* A device that is there for good is connected again and again, whatever  *)
(* the other devices do: one that hangs in initialize() holds up one walk, *)
(* not the service.                                                        *)
Reconnects ==
  \A d \in Enabled \ (Rejects \cup Hangs) :
    <>[]present[d] => []<>connected[d]

(* The loss of the hardware is noticed: the device does not stay connected *)
(* while it is gone.                                                       *)
LossNoticed ==
  \A d \in Devices : []<>(connected[d] => present[d])

(* Devices follow their hardware: connected again and again while it is    *)
(* there for good (loop.cpp:261-283), and not connected for ever once it   *)
(* is gone (device.h:574-578).                                             *)
FollowsHardware == Reconnects /\ LossNoticed

(* A device that stays connected gets its device log, even if an earlier   *)
(* walk hangs before it reaches check_setup_device_logs.                   *)
LogStarts ==
  \A d \in Logging : <>[]connected[d] => <>(d \in logged)

-----------------------------------------------------------------------------
(* The phase of a device as one would see it from outside: no matter how   *)
(* many walks there are.                                                   *)
PhaseOf(d) ==
  IF connected[d] THEN "connected"
  ELSE IF \E c \in Connectors : Initialising(c, d) THEN "initialising"
  ELSE "closed"

Phases == [d \in Exclusive |-> PhaseOf(d)]

LifeCycle ==
  INSTANCE DeviceLifeCycle WITH Devices <- Exclusive, phase <- Phases

(* Overlapping walks look to each device like a single routine that        *)
(* initialises, connects and disconnects it in turn.                       *)
LifeCycleSpec == LifeCycle!Spec
=============================================================================
