--------------------------- MODULE WindowsService ---------------------------
(***************************************************************************)
(* sensor_hub as a Windows service: winservice.cpp, and what it does to    *)
(* the service loop (enter_loop and stop_loop in loop.cpp).                *)
(*                                                                         *)
(* Three threads share g_ServiceStatus and the Service singleton without a *)
(* lock: ServiceMain, which starts a worker and waits for it; the worker,  *)
(* which runs the loop; and the dispatcher, which runs ServiceCtrlHandler. *)
(* Outside are the service control manager (SCM), which believes what was  *)
(* last reported to it, and an operator who installs, stops and removes.   *)
(* Each access to something shared is a step of its own.                   *)
(***************************************************************************)
EXTENDS Naturals

CONSTANTS
  MaxCommands,  (* bound: commands of the operator  *)
  MaxStarts     (* bound: processes that are started *)

ASSUME WindowsServiceAssumption == MaxCommands \in Nat /\ MaxStarts \in Nat

VARIABLES
  status,   (* g_ServiceStatus: controls accepted, current state             *)
  main,     (* where ServiceMain is                                          *)
  handler,  (* where ServiceCtrlHandler is                                   *)
  worker,   (* where ServiceWorkerThread is                                  *)
  service,  (* the Service: whether its io_context has been stopped, whether *)
            (* it listens for HTTP, whether it has devices                   *)
  scm,      (* the SCM: the entry of the service, what was last reported,    *)
            (* whether failures restart it, whether a restart is due         *)
  process,  (* whether the process lives                                     *)
  operator, (* the command of the operator, its step, and the process that   *)
            (* it has sent STOP to                                           *)
  commands, (* how many commands there were *)
  starts    (* how many processes there were *)

threads == <<status, main, handler, worker, service>>
service_vars == <<threads, scm, process, operator, commands, starts>>

States == {"zero", "stopped", "start_pending", "running", "stop_pending"}

ServiceTypeOK ==
  /\ status \in [accepted : BOOLEAN, state : States]
  /\ main \in {"register", "starting", "report_starting", "accept", "running",
       "report_running", "create", "wait", "refuse", "stopped",
       "report_stopped", "returned"}
  /\ handler \in {"idle", "stop", "refuse", "pending", "report", "stop_http",
       "close_devices", "stop_context"}
  /\ worker \in {"none", "setup_http", "setup_devices", "run", "stop_http",
       "close_devices", "ended", "threw"}
  /\ service \in [stopped : BOOLEAN, listens : BOOLEAN, devices : BOOLEAN]
  /\ scm \in [entry : {"none", "registered", "deleted"}, accepted : BOOLEAN,
       state : States \ {"zero"}, restarts : BOOLEAN, due : BOOLEAN]
  /\ process \in BOOLEAN
  /\ operator \in [command : {"none", "install", "uninstall", "stop"},
       step : {"idle", "info", "start", "query", "control", "answer", "delete",
               "succeeded", "failed"}, sent : 0..MaxStarts]
  /\ commands \in 0..MaxCommands /\ starts \in 0..MaxStarts

ServiceInit ==
  /\ status = [accepted |-> FALSE, state |-> "zero"]
  /\ main = "register" /\ handler = "idle" /\ worker = "none"
  /\ service = [stopped |-> FALSE, listens |-> FALSE, devices |-> FALSE]
  /\ scm = [entry |-> "none", accepted |-> FALSE, state |-> "stopped",
            restarts |-> FALSE, due |-> FALSE]
  /\ process = FALSE
  /\ operator = [command |-> "none", step |-> "idle", sent |-> 0]
  /\ commands = 0 /\ starts = 0

-----------------------------------------------------------------------------
(* Mutant: a status that has not been written yet is reported as it is. *)
ReportedUnwritten ==
  [scm EXCEPT !.accepted = status.accepted, !.state = status.state]

(* SetServiceStatus: the SCM takes what stands in g_ServiceStatus now.  It *)
(* rejects a status that is all zero.                                      *)
Reported ==
  IF status.state = "zero" THEN scm
  ELSE [scm EXCEPT !.accepted = status.accepted, !.state = status.state]

(* The process ends.  One that had not reported STOPPED has failed, and is *)
(* restarted if the installation got as far as saying so.                  *)
AfterProcess ==
  [scm EXCEPT
     !.entry = IF @ = "deleted" THEN "none" ELSE @,
     !.state = "stopped", !.accepted = FALSE,
     !.due = scm.entry = "registered" /\ scm.restarts /\ scm.state # "stopped"]

ProcessEnds == process' = FALSE /\ scm' = AfterProcess /\ UNCHANGED threads

(* The SCM starts the program; everything static in it is new. *)
StartProcess ==
  /\ scm.entry = "registered" /\ ~process /\ starts < MaxStarts
  /\ process' = TRUE /\ starts' = starts + 1
  /\ status' = [accepted |-> FALSE, state |-> "zero"]
  /\ main' = "register" /\ handler' = "idle" /\ worker' = "none"
  /\ service' = [stopped |-> FALSE, listens |-> FALSE, devices |-> FALSE]
  /\ scm' = [scm EXCEPT !.state = "start_pending", !.accepted = FALSE,
                        !.due = FALSE]

-----------------------------------------------------------------------------
(* ServiceMain *)

Main(from, to) == process /\ main = from /\ main' = to

(* Without a handle there is nobody to tell: ServiceMain returns. *)
RegisterHandler ==
  /\ \/ Main("register", "starting") \/ Main("register", "returned")
  /\ UNCHANGED <<status, handler, worker, service, scm>>

WriteStarting ==
  /\ Main("starting", "report_starting")
  /\ status' = [accepted |-> FALSE, state |-> "start_pending"]
  /\ UNCHANGED <<handler, worker, service, scm>>

WriteAccept ==
  /\ Main("accept", "running")
  /\ status' = [status EXCEPT !.accepted = TRUE]
  /\ UNCHANGED <<handler, worker, service, scm>>

WriteRunning ==
  /\ Main("running", "report_running")
  /\ status' = [status EXCEPT !.state = "running"]
  /\ UNCHANGED <<handler, worker, service, scm>>

(* The thread may not be created; waiting for no thread ends at once. *)
CreateWorker ==
  /\ \/ Main("create", "wait") /\ worker' = "setup_http"
     \/ Main("create", "refuse") /\ worker' = worker
  /\ UNCHANGED <<status, handler, service, scm>>

(* Mutant: ServiceMain does not wait for its worker. *)
GoesOnAtOnce ==
  /\ Main("wait", "refuse")
  /\ UNCHANGED <<status, handler, worker, service, scm>>

WaitForWorker ==
  /\ worker \in {"ended", "threw"} /\ Main("wait", "refuse")
  /\ UNCHANGED <<status, handler, worker, service, scm>>

WriteRefuse ==
  /\ Main("refuse", "stopped")
  /\ status' = [status EXCEPT !.accepted = FALSE]
  /\ UNCHANGED <<handler, worker, service, scm>>

WriteStopped ==
  /\ Main("stopped", "report_stopped")
  /\ status' = [status EXCEPT !.state = "stopped"]
  /\ UNCHANGED <<handler, worker, service, scm>>

MainReports ==
  /\ \/ Main("report_starting", "accept")
     \/ Main("report_running", "create")
     \/ Main("report_stopped", "returned")
  /\ scm' = Reported
  /\ UNCHANGED <<status, handler, worker, service>>

ServiceMain ==
  \/ RegisterHandler \/ WriteStarting \/ WriteAccept \/ WriteRunning
  \/ CreateWorker \/ WaitForWorker \/ WriteRefuse \/ WriteStopped
  \/ MainReports

(* Once STOPPED has been reported the dispatcher returns, and main with it. *)
DispatcherReturns ==
  /\ process /\ handler = "idle" /\ scm.state = "stopped"
  /\ ProcessEnds

-----------------------------------------------------------------------------
(* ServiceWorkerThread: enter_loop *)

Worker(from, to) == process /\ worker = from /\ worker' = to

(* Until the loop runs an exception (the port is in use, the configuration *)
(* is wrong) only ends the thread, without stop_loop.                      *)
SetupHttp ==
  /\ \/ Worker("setup_http", "setup_devices")
        /\ service' = [service EXCEPT !.listens = TRUE]
     \/ Worker("setup_http", "threw") /\ service' = service
  /\ UNCHANGED <<status, main, handler, scm, process>>

SetupDevices ==
  /\ \/ Worker("setup_devices", "run")
        /\ service' = [service EXCEPT !.devices = TRUE]
     \/ Worker("setup_devices", "threw") /\ service' = service
  /\ UNCHANGED <<status, main, handler, scm, process>>

(* run() returns when the context has been stopped, before or since. *)
RunReturns ==
  /\ service.stopped /\ Worker("run", "stop_http")
  /\ UNCHANGED <<status, main, handler, service, scm, process>>

(* An exception inside the loop is fatal: abort(). *)
LoopAborts == process /\ worker = "run" /\ ProcessEnds

WorkerStopsHttp ==
  /\ Worker("stop_http", "close_devices")
  /\ service' = [service EXCEPT !.listens = FALSE]
  /\ UNCHANGED <<status, main, handler, scm, process>>

WorkerClosesDevices ==
  /\ Worker("close_devices", "ended")
  /\ service' = [service EXCEPT !.devices = FALSE]
  /\ UNCHANGED <<status, main, handler, scm, process>>

ServiceWorkerThread ==
  \/ SetupHttp \/ SetupDevices \/ RunReturns
  \/ WorkerStopsHttp \/ WorkerClosesDevices

-----------------------------------------------------------------------------
(* ServiceCtrlHandler, on the thread of the dispatcher *)

Handler(from, to) == process /\ handler = from /\ handler' = to

(* STOP is for a service that runs. *)
CheckRunning ==
  /\ \/ status.state = "running" /\ Handler("stop", "refuse")
     \/ status.state # "running" /\ Handler("stop", "idle")
  /\ UNCHANGED <<status, main, worker, service, scm, process>>

HandlerRefuses ==
  /\ Handler("refuse", "pending")
  /\ status' = [status EXCEPT !.accepted = FALSE]
  /\ UNCHANGED <<main, worker, service, scm, process>>

HandlerPends ==
  /\ Handler("pending", "report")
  /\ status' = [status EXCEPT !.state = "stop_pending"]
  /\ UNCHANGED <<main, worker, service, scm, process>>

HandlerReports ==
  /\ Handler("report", "stop_http")
  /\ scm' = Reported
  /\ UNCHANGED <<status, main, worker, service, process>>

(* stop_loop works on objects that the worker is using at the same time:   *)
(* a data race, which may end the process.                                 *)
HandlerStopsHttp ==
  \/ /\ Handler("stop_http", "close_devices")
     /\ service' = [service EXCEPT !.listens = FALSE]
     /\ UNCHANGED <<status, main, worker, scm, process>>
  \/ /\ process /\ handler = "stop_http" /\ worker \in {"setup_http", "run"}
     /\ ProcessEnds

HandlerClosesDevices ==
  \/ /\ Handler("close_devices", "stop_context")
     /\ service' = [service EXCEPT !.devices = FALSE]
     /\ UNCHANGED <<status, main, worker, scm, process>>
  \/ /\ process /\ handler = "close_devices"
     /\ worker \in {"setup_devices", "run"}
     /\ ProcessEnds

(* Mutant: stop_loop stops the context only if it runs already. *)
StopRunningContext ==
  /\ Handler("stop_context", "idle")
  /\ service' = [service EXCEPT !.stopped = worker = "run"]
  /\ UNCHANGED <<status, main, worker, scm, process>>

StopContext ==
  /\ Handler("stop_context", "idle")
  /\ service' = [service EXCEPT !.stopped = TRUE]
  /\ UNCHANGED <<status, main, worker, scm, process>>

ServiceCtrlHandler ==
  \/ CheckRunning \/ HandlerRefuses \/ HandlerPends \/ HandlerReports
  \/ HandlerStopsHttp \/ HandlerClosesDevices \/ StopContext

(* The SCM asks for the status, at any time; the handler reports whatever  *)
(* the other threads have written of it so far.                            *)
Interrogate ==
  /\ process /\ handler = "idle" /\ main # "register"
  /\ scm' = Reported
  /\ UNCHANGED <<threads, process>>

-----------------------------------------------------------------------------
(* The operator *)

Step(command, from, to) ==
  /\ operator.command = command /\ operator.step = from
  /\ operator' = [operator EXCEPT !.step = to]

Give ==
  /\ operator.step = "idle" /\ commands < MaxCommands
  /\ commands' = commands + 1
  /\ \E c \in {"install", "uninstall", "stop"} :
       operator' = [command |-> c, sent |-> 0,
                    step |-> CASE c = "install" -> "info"
                               [] c = "uninstall" -> "query"
                               [] c = "stop" -> "control"]
  /\ \/ /\ operator'.command = "install" /\ scm.entry = "none"
        /\ scm' = [scm EXCEPT !.entry = "registered", !.restarts = FALSE]
     \/ /\ operator'.command # "install" /\ scm.entry = "registered"
        /\ scm' = scm
  /\ UNCHANGED <<threads, process, starts>>

(* SetServiceInfo: the database may be locked; then the service stays      *)
(* registered without its failure actions, and is not started.             *)
SetServiceInfo ==
  /\ \/ /\ Step("install", "info", "start")
        /\ scm' = [scm EXCEPT !.restarts = TRUE]
     \/ Step("install", "info", "failed") /\ scm' = scm
  /\ UNCHANGED <<threads, process, commands, starts>>

InstallStarts ==
  \/ Step("install", "start", "succeeded") /\ StartProcess
     /\ UNCHANGED commands
  \/ /\ Step("install", "start", "failed")
     /\ process \/ scm.entry # "registered"
     /\ UNCHANGED <<threads, scm, process, commands, starts>>

(* RemoveService *)
QueryStatus ==
  /\ \/ scm.state = "stopped" /\ Step("uninstall", "query", "delete")
     \/ scm.state # "stopped" /\ Step("uninstall", "query", "control")
  /\ UNCHANGED <<threads, scm, process, commands, starts>>

(* ControlService(STOP): refused unless RUNNING and STOP accepted were     *)
(* reported; else it waits for the handler.                                *)
Control ==
  /\ operator.step = "control"
  /\ \/ /\ process /\ scm.state = "running" /\ scm.accepted
        /\ handler = "idle" /\ handler' = "stop"
        /\ operator' = [operator EXCEPT !.step = "answer", !.sent = starts]
     \/ /\ ~process \/ scm.state # "running" \/ ~scm.accepted
        /\ handler' = handler
        /\ operator' = [operator EXCEPT !.step = "failed"]
  /\ UNCHANGED <<status, main, worker, service, scm, process, commands, starts>>

(* The handler has returned, or the process has died under it. *)
Controlled ==
  /\ \/ process /\ handler = "idle" /\ Step("uninstall", "answer", "delete")
     \/ process /\ handler = "idle" /\ Step("stop", "answer", "succeeded")
     \/ ~process /\ \E c \in {"uninstall", "stop"} : Step(c, "answer", "failed")
  /\ UNCHANGED <<threads, scm, process, commands, starts>>

(* DeleteService: the entry goes when the process has gone; until then the *)
(* service is marked, and is not started again.                            *)
Delete ==
  /\ Step("uninstall", "delete", "succeeded")
  /\ scm' = [scm EXCEPT !.entry = IF process THEN "deleted" ELSE "none",
                        !.due = FALSE]
  /\ UNCHANGED <<threads, process, commands, starts>>

FinishCommand ==
  /\ operator.step \in {"succeeded", "failed"}
  /\ operator' = [operator EXCEPT !.step = "idle"]
  /\ UNCHANGED <<threads, scm, process, commands, starts>>

InCommand ==
  \/ SetServiceInfo \/ InstallStarts \/ QueryStatus \/ Control \/ Controlled
  \/ Delete \/ FinishCommand

(* The failure action of the SCM, and a start at boot or by hand. *)
Restart == scm.due /\ StartProcess /\ UNCHANGED <<operator, commands>>
Boot ==
  /\ scm.state = "stopped" /\ ~scm.due /\ operator.step # "start"
  /\ StartProcess /\ UNCHANGED <<operator, commands>>

Outside == <<operator, commands, starts>>

ServiceNext ==
  \/ ServiceMain /\ UNCHANGED <<process, Outside>>
  \/ DispatcherReturns /\ UNCHANGED Outside
  \/ ServiceWorkerThread /\ UNCHANGED Outside
  \/ LoopAborts /\ UNCHANGED Outside
  \/ ServiceCtrlHandler /\ UNCHANGED Outside
  \/ Interrogate /\ UNCHANGED Outside
  \/ Give \/ InCommand
  \/ Restart \/ Boot

(* The threads are scheduled and the SCM calls what it has announced.      *)
(* Nothing makes an operator give a command, a loop abort, or the SCM      *)
(* interrogate.                                                            *)
ServiceFairness ==
  /\ WF_service_vars(ServiceMain /\ UNCHANGED <<process, Outside>>)
  /\ WF_service_vars(ServiceWorkerThread /\ UNCHANGED Outside)
  /\ WF_service_vars(ServiceCtrlHandler /\ UNCHANGED Outside)
  /\ WF_service_vars(DispatcherReturns /\ UNCHANGED Outside)
  /\ WF_service_vars(InCommand)

ServiceSpec == ServiceInit /\ [][ServiceNext]_service_vars /\ ServiceFairness

-----------------------------------------------------------------------------
(* The worker has ended although nobody has stopped it, or never was. *)
EndedByItself ==
  \/ worker = "threw"
  \/ worker = "none" /\ main \in {"refuse", "stopped", "report_stopped", "returned"}

(* ServiceMain has written STOPPED before the handler wrote STOP_PENDING:  *)
(* nobody is left to report STOPPED, and the process stays for ever.       *)
Stranded ==
  /\ process /\ main \in {"report_stopped", "returned"}
  /\ status.state = "stop_pending"

(* A STOP that has passed the check of the handler ends the process, even  *)
(* if the loop does not run yet (a stop of the context before run() is not *)
(* lost): winservice.cpp:202-217, loop.cpp:416-426.  The exception is a    *)
(* worker that ends by itself at the same time, so that ServiceMain and    *)
(* the handler write the state in turns.                                   *)
StopCompletes ==
  (process /\ handler = "refuse") ~> (~process \/ (EndedByItself /\ Stranded))

(* A service that was stopped and removed successfully is gone in the end, *)
(* with the same exception, and if it has not been started again between   *)
(* the stop and the removal: winservice.cpp:364-379.                       *)
UninstallRemoves ==
  (/\ operator.command = "uninstall" /\ operator.step = "succeeded"
   /\ operator.sent = starts)
    ~> (scm.entry = "none" \/ (EndedByItself /\ Stranded))

(* Whoever has asked for the end of the service, for good or not, gets it. *)
RequestsTakeEffect == StopCompletes /\ UninstallRemoves

(* Within a process the SCM never sees the state go back, however the      *)
(* reports of the threads interleave with each other and with half-written *)
(* states, unless the worker ended by itself: winservice.cpp:147-220.      *)
Progress(state) ==
  CASE state = "start_pending" -> 1 [] state = "running" -> 2
    [] state = "stop_pending" -> 3 [] state = "stopped" -> 4
StatusNeverGoesBack ==
  [][process /\ process' /\ ~EndedByItself
       => Progress(scm.state) <= Progress(scm'.state)]_service_vars
=============================================================================
