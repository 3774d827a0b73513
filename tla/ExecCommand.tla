---------------------------- MODULE ExecCommand ----------------------------
(***************************************************************************)
(* The commands of one initialize(), their timeouts and the ready queue of *)
(* the io_context (Port_device::exec_command and connect in device.h), on  *)
(* a Serial or Socket port.                                                *)
(*                                                                         *)
(* A command arms a timer whose handler cancels whatever the port is doing *)
(* when it runs.  Cancelling the timer stops the handler only while the    *)
(* timer has not expired: a handler that is in the ready queue runs, late. *)
(* So the order of the queue decides what a timeout hits, and the module   *)
(* keeps the queue as asio does: first in, first out, with the reactor as  *)
(* one of its tasks, which puts the descriptor that became ready and then  *)
(* the timers that expired behind what is queued, and itself last.         *)
(***************************************************************************)
EXTENDS Naturals, Sequences, SequencesExt

CONSTANTS
  NumCommands,  (* the commands of a successful initialize()                 *)
  Tolerated     (* commands of an Xsens whose failure does not end its       *)
                (* initialize() (check_output_configuration)                 *)

Commands == 1..NumCommands
Reset == NumCommands + 1

ASSUME ExecCommandAssumption ==
  /\ NumCommands \in Nat \ {0}
  /\ Tolerated \subseteq 1..(NumCommands - 1)

VARIABLES
  xsens,  (* what initialises, fixed from the start: an Xsens, for which     *)
          (* 50 ms pass before a command is sent, and a failed               *)
          (* initialisation ends with one more command, the reset; or a      *)
          (* Ublox, which does neither                                       *)
  queue,  (* the ready handlers of the io_context, and its reactor           *)
  pc,     (* where the coroutine that initialises the device is              *)
  cmd,    (* the command it executes                                         *)
  timer,  (* the timer that runs: of the command, of the pause before it     *)
  op,     (* whether the port has an operation that waits for the reactor    *)
  open,   (* whether the port is open                                        *)
  spent   (* the timeout of the command ran while the operation it should    *)
          (* have aborted had completed already, its handler behind the      *)
          (* timeout (history)                                               *)

handler_vars == <<xsens, queue, pc, cmd, timer, op, open, spent>>

Reactor == <<"reactor">>
Descriptor == <<"descriptor">>
Done == <<"io", "done">>
Aborted == <<"io", "aborted">>
Paused == <<"pause">>
Posted == <<"poll">>
TimeoutOf(n) == <<"timeout", n>>

Handlers ==
  {Reactor, Descriptor, Done, Aborted, Paused, Posted}
    \cup {TimeoutOf(n) : n \in 1..Reset}

CommandTypeOK ==
  /\ xsens \in BOOLEAN
  /\ queue \in Seq(Handlers)
  /\ pc \in {"pause", "write", "read", "posted", "polling", "closed", "crashed"}
  /\ cmd \in 1..Reset
  /\ timer \in {"off", "pause", "timeout"}
  /\ op \in BOOLEAN
  /\ open \in BOOLEAN
  /\ spent \in BOOLEAN

-----------------------------------------------------------------------------
(* What the coroutine does next; q is what is left of the queue.           *)

(* A port operation is tried at once.  If there is room to write, or bytes *)
(* that have already come, it never reaches the reactor: its handler goes  *)
(* to the end of the queue.  Otherwise it waits for the descriptor.        *)
StartOperation(q) ==
  \/ op' = FALSE /\ queue' = Append(q, Done)
  \/ op' = TRUE /\ queue' = q

(* exec_command: arm the timeout and write. *)
SendCommand(n, q) ==
  /\ pc' = "write" /\ cmd' = n /\ timer' = "timeout"
  /\ StartOperation(q)
  /\ spent' = FALSE
  /\ UNCHANGED open

(* Mutant: the pause before a command is dropped. *)
NextCommandAtOnce(n, q) == SendCommand(n, q)

NextCommand(n, q) ==
  \/ ~xsens /\ SendCommand(n, q)
  \/ /\ xsens
     /\ pc' = "pause" /\ cmd' = n /\ timer' = "pause"
     /\ op' = FALSE /\ queue' = q
     /\ UNCHANGED <<open, spent>>

(* The loop of exec_command reads the response, of which a piece may have  *)
(* come already.                                                           *)
ReadResponse(q) ==
  /\ pc' = "read"
  /\ StartOperation(q)
  /\ UNCHANGED <<cmd, timer, open, spent>>

(* connect() closes the port.  The timer goes with its exec_command. *)
Close(q) ==
  /\ pc' = "closed" /\ timer' = "off" /\ open' = FALSE
  /\ op' = FALSE /\ queue' = q
  /\ UNCHANGED <<cmd, spent>>

(* Mutant: the poll loop starts on the spot instead of being posted. *)
StartPollingInline(q) ==
  /\ pc' = "polling" /\ timer' = "off"
  /\ StartOperation(q)
  /\ UNCHANGED <<cmd, open, spent>>

StartPolling(q) ==
  /\ pc' = "posted" /\ timer' = "off"
  /\ op' = FALSE /\ queue' = Append(q, Posted)
  /\ UNCHANGED <<cmd, open, spent>>

(* exec_command returns true. *)
CommandSucceeds(q) ==
  \/ cmd < NumCommands /\ NextCommand(cmd + 1, q)
  \/ cmd = NumCommands /\ StartPolling(q)
  \/ cmd = Reset /\ Close(q)

(* Mutant: a reset that fails is tried as yet another command. *)
CommandFailsInReset(q) ==
  \/ xsens /\ NextCommand(cmd + 1, q)
  \/ ~xsens /\ Close(q)

(* exec_command returns false. *)
CommandFails(q) ==
  \/ xsens /\ cmd \in Tolerated /\ NextCommand(cmd + 1, q)
  \/ xsens /\ cmd \in Commands \ Tolerated /\ NextCommand(Reset, q)
  \/ (cmd = Reset \/ ~xsens) /\ Close(q)

(* The port operation has succeeded. *)
Resume(q) ==
  \/ pc = "write" /\ ReadResponse(q)
  \/ pc = "read" /\ (ReadResponse(q) \/ CommandSucceeds(q) \/ CommandFails(q))
  \/ /\ pc = "polling"
     /\ StartOperation(q)
     /\ UNCHANGED <<pc, cmd, timer, open, spent>>

(* Mutant: an aborted read is taken for a chunk of the response. *)
ResumeFailedReads(q) ==
  \/ pc \in {"write", "polling"} /\ Close(q)
  \/ pc = "read" /\ ReadResponse(q)

(* The port operation has failed or was aborted.  The write is outside the *)
(* try block: its exception leaves initialize().  The catch block of the   *)
(* reads cancels the port too, which has nothing to cancel.  The poll loop *)
(* disconnects.                                                            *)
ResumeFailed(q) ==
  \/ pc \in {"write", "polling"} /\ Close(q)
  \/ pc = "read" /\ CommandFails(q)

-----------------------------------------------------------------------------
(* The thread of the io_context takes the first handler of the queue.      *)

CommandInit ==
  /\ xsens \in BOOLEAN
  /\ cmd = 1
  /\ open = TRUE
  /\ spent = FALSE
  /\ \/ xsens /\ pc = "pause" /\ timer = "pause" /\ op = FALSE /\ queue = <<Reactor>>
     \/ ~xsens /\ pc = "write" /\ timer = "timeout"
        /\ \/ op = FALSE /\ queue = <<Reactor, Done>>
           \/ op = TRUE /\ queue = <<Reactor>>

(* The handler h is next, and nothing has ended the process. *)
Takes(h) == pc # "crashed" /\ queue # <<>> /\ Head(queue) = h

Expired == IF timer = "timeout" THEN TimeoutOf(cmd) ELSE Paused

(* The reactor finds the descriptor ready, the timer expired, or both. *)
RunReactor(ready, expires) ==
  /\ Takes(Reactor)
  /\ ready => op
  /\ expires => timer # "off"
  /\ queue' = Tail(queue) \o (IF ready THEN <<Descriptor>> ELSE <<>>)
                          \o (IF expires THEN <<Expired>> ELSE <<>>)
                          \o <<Reactor>>
  /\ timer' = IF expires THEN "off" ELSE timer
  /\ UNCHANGED <<pc, cmd, op, open, spent>>

(* The coroutine is resumed from inside the descriptor's handler; nothing  *)
(* happens if the operation is gone.                                       *)
RunDescriptor ==
  /\ Takes(Descriptor)
  /\ \/ op /\ (Resume(Tail(queue)) \/ ResumeFailed(Tail(queue)))
     \/ ~op /\ queue' = Tail(queue) /\ UNCHANGED <<pc, cmd, timer, op, open, spent>>

RunDone == Takes(Done) /\ Resume(Tail(queue))

RunAborted == Takes(Aborted) /\ ResumeFailed(Tail(queue))

RunPaused == Takes(Paused) /\ SendCommand(cmd, Tail(queue))

(* The function posted by start_polling spawns the poll loop, which reads. *)
RunPosted ==
  /\ Takes(Posted)
  /\ pc' = "polling"
  /\ StartOperation(Tail(queue))
  /\ UNCHANGED <<cmd, timer, open, spent>>

(* port.cancel() aborts what waits for the reactor, and only that.  On a   *)
(* closed port it throws, out of the handler and of io_context::run():     *)
(* enter_loop ends the process.                                            *)
RunTimeout(n) ==
  /\ Takes(TimeoutOf(n))
  /\ \/ /\ ~open
        /\ pc' = "crashed"
        /\ UNCHANGED <<queue, op, spent>>
     \/ /\ open
        /\ queue' = IF op THEN Append(Tail(queue), Aborted) ELSE Tail(queue)
        /\ op' = FALSE
        /\ spent' = (spent \/ (~op /\ cmd = n /\ pc \in {"write", "read"}))
        /\ UNCHANGED pc
  /\ UNCHANGED <<cmd, timer, open>>

CommandNext ==
  /\ \/ \E ready, expires \in BOOLEAN : RunReactor(ready, expires)
     \/ RunDescriptor
     \/ RunDone
     \/ RunAborted
     \/ RunPaused
     \/ RunPosted
     \/ \E n \in 1..Reset : RunTimeout(n)
  /\ UNCHANGED xsens

(* The thread runs what is ready, and a running timer expires: it is 1 s   *)
(* at most.  Nothing is assumed of the device.                             *)
CommandFairness ==
  /\ WF_handler_vars(CommandNext)
  /\ SF_handler_vars(UNCHANGED xsens /\ \E ready \in BOOLEAN : RunReactor(ready, TRUE))

CommandSpec == CommandInit /\ [][CommandNext]_handler_vars

FairCommandSpec == CommandSpec /\ CommandFairness

-----------------------------------------------------------------------------
(* Properties                                                              *)

(* No timeout of the initialisation aborts a read of the poll loop, which  *)
(* would disconnect a device that has just connected: start_polling posts  *)
(* the loop, so it starts behind every timeout that is still queued.       *)
PollLoopUndisturbed ==
  pc = "polling" => ~Contains(queue, Aborted)

(* A timeout aborts an operation of the command it was set for             *)
(* (exec_command), even if its handler runs late.  Xsens owes this to the  *)
(* pause before every command; Ublox has none, and a late timeout can      *)
(* abort the write of the next command.                                    *)
AbortsOwnCommand ==
  [][\A n \in 1..Reset :
       xsens /\ RunTimeout(n) /\ op
         => pc \in {"write", "read"} /\ cmd = n]_handler_vars

Busy == pc \in {"pause", "write", "read"}
CommandsEnded == pc \in {"polling", "closed", "crashed"}

(* An initialisation comes to an end, whatever a device leaves unanswered  *)
(* and wherever it stops, even in the middle of an answer; unless the      *)
(* timeout of a command has been used up, because it ran before the        *)
(* handler of an operation that had just completed.  That command reads on *)
(* without a timeout (device.h:412-441), and only such a command may last  *)
(* for ever.                                                               *)
CommandsEnd == <>CommandsEnded \/ <>[](Busy /\ spent)

(* "Set a timeout for the command to complete" (device.h): a timeout that  *)
(* runs when its command has completed does no harm to the process.        *)
NeverCrashes == pc # "crashed"
=============================================================================
