------------------------------ MODULE UsbPort ------------------------------
(***************************************************************************)
(* The USB port (usb.h, usb.cpp) under the attempts to connect a device    *)
(* and the poll loop that use it (device.h).                               *)
(*                                                                         *)
(* Two threads meet here.  The event thread completes transfers and posts  *)
(* their handlers to the strand of the port; the main thread runs them.    *)
(* Usb::cancel runs other handlers from within a handler (io_ctx_.poll()), *)
(* so the main thread is a stack of cancellations, and a handler of the    *)
(* strand does not run above another one of the same strand.               *)
(*                                                                         *)
(* A coroutine waits for one operation at a time, so a transfer bears the  *)
(* name of its coroutine.  A coroutine is one attempt to connect: it       *)
(* initialises the device and goes on as its poll loop.  The connection    *)
(* string is explicit: with "auto" an open port is not opened again.       *)
(***************************************************************************)
EXTENDS Integers, Sequences, FiniteSets, SequencesExt

CONSTANTS
  Attempts,     (* the attempts to connect, a bound                          *)
  MaxOps,       (* operations of one attempt or poll loop, a bound           *)
  Descriptors   (* the active configurations that a device can have: the     *)
                (* endpoints of all interfaces and settings, in order        *)

None == <<>>

Endpoints == [address : Nat, in : BOOLEAN, bulk : BOOLEAN, size : Nat]

ASSUME UsbPortAssumption ==
  /\ Attempts \subseteq Nat /\ MaxOps \in Nat
  /\ Descriptors \subseteq Seq(Endpoints)

VARIABLES
  hardware,   (* the configuration of the device plugged in, or None         *)
  device,     (* device_: that of the device that is open, or None           *)
  endpoints,  (* read_endpoint_, write_endpoint_ and read_packet_size_       *)
  events,     (* event_handler_: whether the event thread runs               *)
  connected,  (* Device::connected_                                          *)
  co,         (* where an attempt is                                         *)
  op,         (* the operation that it does or did last                      *)
  left,       (* the operations that it still does                           *)
  armed,      (* whether the timer of its command runs                       *)
  transfer,   (* the state of its transfer                                   *)
  result,     (* the error code its handler is posted with                   *)
  transfers_, (* how often its transfer is in the deque                      *)
  strand_,    (* the handlers posted to the strand                           *)
  stack,      (* the cancellations that the main thread is in                *)
  crashed,    (* what ended the program, if anything                         *)
  overtaken   (* whether an attempt opened the port while another was under  *)
              (* way (history)                                               *)

port == <<device, endpoints, events>>
usb == <<transfer, result, transfers_, strand_>>
coroutine == <<co, op, left, armed>>
vars == <<hardware, port, connected, coroutine, usb, stack, crashed, overtaken>>

InFlight == {"flying", "cancelling"}
Nobody == 0

Frames ==
  [who : Attempts \cup {Nobody}, then : {"timeout", "giveup", "close", "disconnect"}]

TypeOK ==
  /\ hardware \in Descriptors \cup {None}
  /\ device \in Descriptors \cup {None}
  /\ DOMAIN endpoints = {"read", "write", "packet"}
  /\ events \in BOOLEAN /\ connected \in BOOLEAN /\ overtaken \in BOOLEAN
  /\ co \in [Attempts -> {"idle", "init", "ready", "poll", "done"}]
  /\ op \in [Attempts -> {"read", "write"}]
  /\ left \in [Attempts -> 0..MaxOps]
  /\ armed \in [Attempts -> BOOLEAN]
  /\ transfer \in [Attempts -> InFlight \cup
       {"free", "unsubmitted", "empty", "dangling", "posted", "lost"}]
  /\ result \in [Attempts -> {"success", "error"}]
  /\ transfers_ \in [Attempts -> Nat]
  /\ strand_ \in Seq(Attempts)
  /\ stack \in Seq(Frames)
  /\ crashed \in {"no", "handle", "context"}

-----------------------------------------------------------------------------
(* Lib_usb and the endpoints                                               *)

(* foreach_endpoint: the last endpoint that fits wins, over all settings. *)
LastOf(d, fitting, default) == IF fitting = {} THEN default ELSE d[Max(fitting)]

ReadEndpoint(d) ==
  LastOf(d, {i \in DOMAIN d : d[i].bulk /\ d[i].in}, [address |-> 128]).address

WriteEndpoint(d) ==
  LastOf(d, {i \in DOMAIN d : d[i].bulk /\ ~d[i].in}, [address |-> 0]).address

ReadPacketSize(d, address) ==
  LastOf(d, {i \in DOMAIN d : d[i].address = address}, [size |-> 512]).size

(* Mutant: the packet size is not set. *)
setup_endpointsNoSize(d) == [read |-> ReadEndpoint(d), write |-> WriteEndpoint(d)]

setup_endpoints(d) ==
  [read |-> ReadEndpoint(d), write |-> WriteEndpoint(d),
   packet |-> ReadPacketSize(d, ReadEndpoint(d))]

(* libusb_close forgets the transfers that it has: no callback comes.  One *)
(* that the event thread is about to resubmit keeps the freed handle.      *)
Forgotten(tr) ==
  [c \in Attempts |-> CASE tr[c] \in InFlight -> "lost"
                        [] tr[c] = "empty" -> "dangling"
                        [] OTHER -> tr[c]]

Init ==
  /\ hardware \in Descriptors \cup {None}
  /\ device = None
  /\ endpoints = [read |-> 0, write |-> 0, packet |-> 0]
  /\ events = FALSE
  /\ connected = FALSE
  /\ co = [c \in Attempts |-> "idle"]
  /\ op = [c \in Attempts |-> "write"]
  /\ left = [c \in Attempts |-> MaxOps]
  /\ armed = [c \in Attempts |-> FALSE]
  /\ transfer = [c \in Attempts |-> "free"]
  /\ result = [c \in Attempts |-> "success"]
  /\ transfers_ = [c \in Attempts |-> 0]
  /\ strand_ = <<>>
  /\ stack = <<>>
  /\ crashed = "no"
  /\ overtaken = FALSE

-----------------------------------------------------------------------------
(* Operations                                                              *)

(* Between two steps the main thread is idle or inside a cancellation, in  *)
(* its 20 ms or its poll(): it can take a handler.  A wait is a poll() in  *)
(* which no handler has run yet.                                           *)
Running == crashed = "no"

(* Only the handler of a timer is not of the strand. *)
StrandFree == \A i \in DOMAIN stack : stack[i].then = "timeout"

(* Coroutine c submits operation o to a handle, as part of a step that     *)
(* leaves the transfers tr and the deque queue.  If the device is gone the *)
(* failure is logged and the transfer stays in the deque; a closed handle  *)
(* is used all the same.                                                   *)
submit_operation(c, o, handle, tr, queue) ==
  /\ op' = [op EXCEPT ![c] = o]
  /\ transfers_' = [queue EXCEPT ![c] = @ + 1]
  /\ transfer' \in {[tr EXCEPT ![c] = "flying"]} \cup
       (IF hardware = handle THEN {} ELSE {[tr EXCEPT ![c] = "unsubmitted"]})
  /\ crashed' = IF handle = None THEN "handle" ELSE crashed

(* Transfer_queue::delete_transfer: the NULL that it leaves in the deque,  *)
(* for ever if a transfer in front of it is never deleted, is left out.    *)
delete_transfer(queue, c) == [queue EXCEPT ![c] = 0]

(* Transfer_queue::cancel, of the transfers that libusb has in flight. *)
Cancelled(queue, tr) ==
  [c \in Attempts |-> IF tr[c] = "flying" /\ queue[c] > 0
                      THEN "cancelling" ELSE tr[c]]

(* Usb::cancel begins: cancelling a transfer whose handle is gone may end  *)
(* the program.                                                            *)
Cancel(frames, queue, tr) ==
  /\ stack' = frames
  /\ transfers_' = queue
  /\ transfer' = Cancelled(queue, tr)
  /\ \/ crashed' = crashed
     \/ /\ \E c \in Attempts : queue[c] > 0 /\ tr[c] = "lost"
        /\ crashed' = "handle"

Frame(c, then) == [who |-> c, then |-> then]

-----------------------------------------------------------------------------
(* The attempt to connect                                                  *)

UnderWay == {c \in Attempts : co[c] = "init"}

(* Attempt c is the next one; the service timer has reached the device. *)
Ticks(c) ==
  /\ Running /\ ~connected
  /\ co[c] = "idle" /\ \A b \in Attempts : b < c => co[b] # "idle"

(* Attempt c is over, with whatever its last operation was. *)
Ended(c) ==
  /\ co' = [co EXCEPT ![c] = "done"]
  /\ op' = [op EXCEPT ![c] = "write"]
  /\ left' = [left EXCEPT ![c] = 0]

(* Lib_usb::open closes what was open, without cancelling. *)
OpenFails(c) ==
  /\ Ticks(c) /\ hardware = None
  /\ device' = None
  /\ transfer' = Forgotten(transfer)
  /\ Ended(c)
  /\ overtaken' = (overtaken \/ UnderWay # {})
  /\ UNCHANGED <<hardware, endpoints, events, connected, armed, result,
                 transfers_, strand_, stack, crashed>>

(* The first command of initialize() follows in the same handler. *)
OpenSucceeds(c) ==
  /\ Ticks(c) /\ hardware # None
  /\ device' = hardware
  /\ endpoints' = setup_endpoints(hardware)
  /\ events' = TRUE
  /\ co' = [co EXCEPT ![c] = "init"]
  /\ armed' = [armed EXCEPT ![c] = TRUE]
  /\ submit_operation(c, "write", hardware, Forgotten(transfer), transfers_)
  /\ overtaken' = (overtaken \/ UnderWay # {})
  /\ UNCHANGED <<hardware, connected, left, result, strand_, stack>>

(* The handler at the head of the strand runs: it deletes its transfer and *)
(* goes on with its coroutine.                                             *)
Resumes(c) ==
  /\ Running /\ StrandFree
  /\ strand_ # <<>> /\ c = Head(strand_)
  /\ strand_' = Tail(strand_)
  /\ result' = [result EXCEPT ![c] = "success"]

Queue(c) == delete_transfer(transfers_, c)
Transfers(c) == [transfer EXCEPT ![c] = "free"]

(* The answer is awaited, read further, or the next command is written. *)
NextOperation(c) ==
  /\ Resumes(c)
  /\ co[c] = "init" /\ result[c] = "success"
  /\ \/ /\ submit_operation(c, "read", device, Transfers(c), Queue(c))
        /\ UNCHANGED <<left, armed>>
     \/ /\ op[c] = "read" /\ left[c] > 0
        /\ left' = [left EXCEPT ![c] = @ - 1]
        /\ armed' = [armed EXCEPT ![c] = TRUE]
        /\ submit_operation(c, "write", device, Transfers(c), Queue(c))
  /\ UNCHANGED <<hardware, port, connected, co, stack, overtaken>>

(* initialize() has posted the poll loop and returns true. *)
InitSucceeds(c) ==
  /\ Resumes(c)
  /\ co[c] = "init" /\ result[c] = "success" /\ op[c] = "read"
  /\ connected' = TRUE
  /\ co' = [co EXCEPT ![c] = "ready"]
  /\ armed' = [armed EXCEPT ![c] = FALSE]
  /\ transfer' = Transfers(c) /\ transfers_' = Queue(c)
  /\ UNCHANGED <<hardware, port, op, left, stack, crashed, overtaken>>

(* initialize() returns false, or a write has thrown: connect() closes. *)
InitFails(c) ==
  /\ Resumes(c)
  /\ co[c] = "init"
  /\ (result[c] = "success") = (op[c] = "read")
  /\ armed' = [armed EXCEPT ![c] = FALSE]
  /\ Cancel(Append(stack, Frame(c, "close")), Queue(c), Transfers(c))
  /\ UNCHANGED <<hardware, port, connected, co, op, left, overtaken>>

(* A read has thrown: exec_command cancels once more and returns false. *)
ReadFails(c) ==
  /\ Resumes(c)
  /\ co[c] = "init" /\ result[c] = "error" /\ op[c] = "read"
  /\ armed' = [armed EXCEPT ![c] = FALSE]
  /\ Cancel(Append(stack, Frame(c, "giveup")), Queue(c), Transfers(c))
  /\ UNCHANGED <<hardware, port, connected, co, op, left, overtaken>>

(* The timer of the command expires; its handler is not of the strand. *)
Timeout(c) ==
  /\ Running /\ armed[c]
  /\ armed' = [armed EXCEPT ![c] = FALSE]
  /\ Cancel(Append(stack, Frame(Nobody, "timeout")), transfers_, transfer)
  /\ UNCHANGED <<hardware, port, connected, co, op, left, result, strand_, overtaken>>

-----------------------------------------------------------------------------
(* The poll loop                                                           *)

PollStarts(c) ==
  /\ Running /\ co[c] = "ready"
  /\ IF connected
     THEN /\ co' = [co EXCEPT ![c] = "poll"]
          /\ submit_operation(c, "read", device, transfer, transfers_)
          /\ left' = [left EXCEPT ![c] = 0]
     ELSE Ended(c) /\ UNCHANGED <<transfer, transfers_, crashed>>
  /\ UNCHANGED <<hardware, port, connected, armed, result, strand_, stack, overtaken>>

PollReads(c) ==
  /\ Resumes(c)
  /\ co[c] = "poll" /\ result[c] = "success" /\ connected
  /\ submit_operation(c, "read", device, Transfers(c), Queue(c))
  /\ UNCHANGED <<hardware, port, connected, co, left, armed, stack, overtaken>>

PollFails(c) ==
  /\ Resumes(c)
  /\ co[c] = "poll" /\ result[c] = "error" /\ connected
  /\ Cancel(Append(stack, Frame(c, "disconnect")), Queue(c), Transfers(c))
  /\ UNCHANGED <<hardware, port, connected, coroutine, overtaken>>

(* The device was disconnected while the loop was reading. *)
PollEnds(c) ==
  /\ Resumes(c)
  /\ co[c] = "poll" /\ ~connected
  /\ Ended(c)
  /\ transfer' = Transfers(c) /\ transfers_' = Queue(c)
  /\ UNCHANGED <<hardware, port, connected, armed, stack, crashed, overtaken>>

-----------------------------------------------------------------------------
(* The cancellation that the main thread is in                             *)

(* poll() returns when no handler is ready. *)
Returns(then) ==
  /\ stack # <<>> /\ Running
  /\ strand_ = <<>> \/ ~StrandFree
  /\ \A c \in Attempts : co[c] # "ready"
  /\ Last(stack).then = then

TimeoutEnds ==
  /\ Returns("timeout")
  /\ stack' = Front(stack)
  /\ UNCHANGED <<hardware, port, connected, coroutine, usb, crashed, overtaken>>

(* The driver goes on with its next command in spite of the failure. *)
TriesNext ==
  /\ Returns("giveup")
  /\ LET c == Last(stack).who
     IN  /\ left[c] > 0
         /\ left' = [left EXCEPT ![c] = @ - 1]
         /\ armed' = [armed EXCEPT ![c] = TRUE]
         /\ submit_operation(c, "write", device, transfer, transfers_)
  /\ stack' = Front(stack)
  /\ UNCHANGED <<hardware, port, connected, co, result, strand_, overtaken>>

(* initialize() returns false: connect() closes the port. *)
GivesUp ==
  /\ Returns("giveup")
  /\ Cancel(Append(Front(stack), Frame(Last(stack).who, "close")),
            transfers_, transfer)
  /\ UNCHANGED <<hardware, port, connected, coroutine, result, strand_, overtaken>>

(* Usb::close after its cancel(): the event thread is joined, then the     *)
(* handle is closed.  The thread reads usb_ctx_ while it is cleared; read  *)
(* twice, libusb gets a null context.                                      *)
Closes(then) ==
  /\ Returns(then)
  /\ \A c \in Attempts : transfer[c] \notin {"empty", "dangling"}
  /\ device' = None
  /\ events' = FALSE
  /\ crashed' \in {"no"} \cup (IF events THEN {"context"} ELSE {})
  /\ transfer' = Forgotten(transfer)
  /\ Ended(Last(stack).who)
  /\ stack' = Front(stack)
  /\ UNCHANGED <<hardware, endpoints, armed, result, transfers_, strand_, overtaken>>

ConnectFails == Closes("close") /\ UNCHANGED connected

Disconnects == Closes("disconnect") /\ connected' = FALSE

-----------------------------------------------------------------------------
(* The event thread and the device                                         *)

(* Mutant: handle_transfer does not post a cancelled transfer. *)
CompletesUncancelled(c) ==
  /\ Running /\ events
  /\ transfer[c] = "flying"
  /\ result' = [result EXCEPT ![c] = "error"]
  /\ transfer' = [transfer EXCEPT ![c] = "posted"]
  /\ strand_' = Append(strand_, c)
  /\ UNCHANGED <<hardware, port, connected, coroutine, transfers_, stack,
                 crashed, overtaken>>

(* handle_transfer posts what the operation has come to.  A transfer that  *)
(* is being cancelled may still end otherwise.                             *)
Completes(c) ==
  /\ Running /\ events
  /\ transfer[c] \in InFlight
  /\ \E r \in {"success", "error"} :
        /\ r = "success" => hardware # None /\ hardware = device
        /\ result' = [result EXCEPT ![c] = r]
  /\ transfer' = [transfer EXCEPT ![c] = "posted"]
  /\ strand_' = Append(strand_, c)
  /\ UNCHANGED <<hardware, port, connected, coroutine, transfers_, stack,
                 crashed, overtaken>>

(* It has succeeded with no bytes, and handle_transfer submits it again. *)
CompletesEmpty(c) ==
  /\ Running /\ events
  /\ transfer[c] \in InFlight
  /\ hardware # None /\ hardware = device
  /\ transfer' = [transfer EXCEPT ![c] = "empty"]
  /\ UNCHANGED <<hardware, port, connected, coroutine, result, transfers_,
                 strand_, stack, crashed, overtaken>>

(* Mutant: a transfer that is submitted again is posted as well. *)
ResubmitsAndPosts(c) ==
  /\ Running /\ transfer[c] = "empty"
  /\ transfer' = [transfer EXCEPT ![c] = "flying"]
  /\ strand_' = Append(strand_, c)
  /\ UNCHANGED <<hardware, port, connected, coroutine, result, transfers_,
                 stack, crashed, overtaken>>

Resubmits(c) ==
  /\ Running /\ transfer[c] \in {"empty", "dangling"}
  /\ IF transfer[c] = "empty"
     THEN /\ transfer' \in {[transfer EXCEPT ![c] = "flying"]} \cup
               (IF hardware = device THEN {}
                ELSE {[transfer EXCEPT ![c] = "unsubmitted"]})
          /\ crashed' = crashed
     ELSE /\ transfer' = [transfer EXCEPT ![c] = "lost"]
          /\ crashed' \in {"no", "handle"}
  /\ UNCHANGED <<hardware, port, connected, coroutine, result, transfers_,
                 strand_, stack, overtaken>>

PlugOrUnplug ==
  /\ crashed = "no"
  /\ hardware' \in (IF hardware = None THEN Descriptors ELSE {None})
  /\ UNCHANGED <<port, connected, coroutine, usb, stack, crashed, overtaken>>

-----------------------------------------------------------------------------
HandlerRuns(c) ==
  \/ NextOperation(c) \/ InitSucceeds(c) \/ InitFails(c) \/ ReadFails(c)
  \/ PollReads(c) \/ PollFails(c) \/ PollEnds(c)

PollReturns == TimeoutEnds \/ TriesNext \/ GivesUp \/ ConnectFails \/ Disconnects

Next ==
  \/ \E c \in Attempts : \/ OpenFails(c) \/ OpenSucceeds(c)
                         \/ HandlerRuns(c) \/ PollStarts(c) \/ Timeout(c)
                         \/ Completes(c) \/ CompletesEmpty(c) \/ Resubmits(c)
  \/ PollReturns
  \/ PlugOrUnplug

(* The event thread gets the transfers that end: within two seconds the    *)
(* kernel ends each.  A device that answers nothing but empty packets is   *)
(* excluded (strong fairness of Completes).  The main thread comes to      *)
(* every handler in its queue and a nested poll() finds the queue empty at *)
(* some time, although new handlers arrive meanwhile.                      *)
Fairness ==
  /\ \A c \in Attempts :
        /\ SF_vars(Completes(c))
        /\ WF_vars(Resubmits(c))
  /\ SF_vars(\E c \in Attempts : HandlerRuns(c))
  /\ SF_vars(\E c \in Attempts : PollStarts(c))
  /\ SF_vars(PollReturns)

Spec == Init /\ [][Next]_vars /\ Fairness

-----------------------------------------------------------------------------
(* Properties                                                              *)

Live(c) == transfer[c] # "free"

(* Between the event thread, the strand and the deque no transfer is lost, *)
(* freed early or handled twice: the deque holds each transfer that exists *)
(* once, its coroutine is the one that waits, and its handler is queued    *)
(* once if libusb is done with it (usb.h:79-113, 156-169, 184-236).         *)
EachTransferOnce ==
  \A c \in Attempts :
    /\ transfers_[c] = IF Live(c) THEN 1 ELSE 0
    /\ Cardinality({i \in DOMAIN strand_ : strand_[i] = c})
         = (IF transfer[c] = "posted" THEN 1 ELSE 0)
    /\ Live(c) => co[c] \in {"init", "poll"}

(* Without an attempt that opens the port under another one, a handle is   *)
(* never closed with a transfer in flight, and never used when closed      *)
(* (usb.cpp:252-262, 461-477): no operation is lost.                       *)
NothingLost ==
  ~overtaken => /\ crashed # "handle"
                /\ \A c \in Attempts : transfer[c] \notin {"lost", "dangling"}
                /\ device = None => \A c \in Attempts : transfer[c] \notin InFlight

(* The port reads and writes bulk endpoints of the right direction of the  *)
(* device that is open, if it has such (usb.cpp:146-182, 446-452).         *)
EndpointsOfDevice ==
  device # None =>
    LET Bulk(in) == {device[i].address : i \in {j \in DOMAIN device :
                       device[j].bulk /\ device[j].in = in}}
    IN  /\ Bulk(TRUE) # {} => endpoints.read \in Bulk(TRUE)
        /\ Bulk(FALSE) # {} => endpoints.write \in Bulk(FALSE)

(* Transfers pass between two threads, and handles are closed under them:  *)
(* nothing of them is lost or confused (usb.h:184-289, usb.cpp:461-477).   *)
TransfersAccounted == EachTransferOnce /\ NothingLost /\ EndpointsOfDevice

(* An operation that libusb has accepted comes to an end: its handler is   *)
(* posted and runs.  The exceptions are those the port makes itself: it    *)
(* failed to submit it again (usb.h:224-230), closed the handle under it,  *)
(* or the program ended.                                                   *)
OperationsEnd ==
  \A c \in Attempts :
    /\ (transfer[c] = "flying")
         ~> (transfer[c] \in {"posted", "unsubmitted", "lost"} \/ crashed # "no")
    /\ (transfer[c] = "posted") ~> (transfer[c] # "posted" \/ crashed # "no")
=============================================================================
