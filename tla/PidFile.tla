------------------------------ MODULE PidFile ------------------------------
(***************************************************************************)
(* The commands start, stop and restart of the daemon, and the pid file by *)
(* which they find each other (daemon.cpp).                                *)
(*                                                                         *)
(* An invocation is one process here: the parents of the double fork only  *)
(* wait and report.  The file system interleaves with the invocations: a   *)
(* path leads to an inode, an open descriptor keeps an inode that has lost *)
(* its path, and the lock belongs to the inode.                            *)
(***************************************************************************)
EXTENDS Naturals, Sequences, FiniteSets

CONSTANTS
  Invocations,  (* invocations of the program                                *)
  Pid,          (* the pid of each one's daemon, as the digits it writes     *)
  None

Commands == {"start", "stop", "restart"}

Digits == 0..9

ASSUME PidFileAssumption ==
  /\ Pid \in [Invocations -> Seq(Digits) \ {<<>>}]
  /\ \A p, q \in Invocations : Pid[p] = Pid[q] => p = q
  /\ IsFiniteSet(Invocations)
  /\ None \notin Nat \cup Invocations

(* No invocation creates more than one file. *)
Inodes == 1..Cardinality(Invocations)

VARIABLES
  command,  (* what each invocation was asked to do                          *)
  pc,       (* where it is                                                   *)
  pid,      (* the pid a stop has read; None if the variable was never set   *)
  creat,    (* whether open() will create the file                           *)
  fd,       (* the inode a daemon has open, or None                          *)
  path,     (* the inode the pid file's path leads to, or None               *)
  content,  (* what is in each inode                                         *)
  holder,   (* who has the lock of each inode, or None                       *)
  created   (* the number of inodes created so far                           *)

vars == <<command, pc, pid, creat, fd, path, content, holder, created>>

files == <<path, content, holder, created>>

Starting == {"check", "open", "lock", "write", "init"}

Ended == {"done", "failed", "dead"}

TypeOK ==
  /\ command \in [Invocations -> Commands]
  /\ pc \in [Invocations -> {"idle", "exists", "read", "kill", "sleep"} \cup Starting
                              \cup {"running", "stopping", "closed"} \cup Ended]
  /\ pid \in [Invocations -> Seq(Digits) \cup {None}]
  /\ creat \in [Invocations -> BOOLEAN]
  /\ fd \in [Invocations -> Inodes \cup {None}]
  /\ path \in Inodes \cup {None}
  /\ content \in [Inodes -> Seq(Digits)]
  /\ holder \in [Inodes -> Invocations \cup {None}]
  /\ created \in 0..Cardinality(Invocations)

Init ==
  /\ command \in [Invocations -> Commands]
  /\ pc = [p \in Invocations |-> "idle"]
  /\ pid = [p \in Invocations |-> None]
  /\ creat = [p \in Invocations |-> FALSE]
  /\ fd = [p \in Invocations |-> None]
  /\ path = None
  /\ content = [i \in Inodes |-> <<>>]
  /\ holder = [i \in Inodes |-> None]
  /\ created = 0

Goto(p, where) == pc' = [pc EXCEPT ![p] = where]

Release(p) == [i \in Inodes |-> IF holder[i] = p THEN None ELSE holder[i]]

-----------------------------------------------------------------------------
(* stop, and the first half of restart                                     *)

Invoke(p) ==
  /\ pc[p] = "idle"
  /\ Goto(p, IF command[p] = "start" THEN "check" ELSE "exists")
  /\ UNCHANGED <<command, pid, creat, fd, files>>

(* Only a plain stop gives up when there is no pid file. *)
StopLooks(p) ==
  /\ pc[p] = "exists"
  /\ Goto(p, IF path = None /\ command[p] = "stop" THEN "failed" ELSE "read")
  /\ UNCHANGED <<command, pid, creat, fd, files>>

(* A file that is missing or empty leaves the variable uninitialised. *)
StopReads(p) ==
  /\ pc[p] = "read"
  /\ pid' = [pid EXCEPT ![p] = IF path = None \/ content[path] = <<>> THEN None
                               ELSE content[path]]
  /\ Goto(p, "kill")
  /\ UNCHANGED <<command, creat, fd, files>>

(* Who gets a SIGINT for this pid: for an uninitialised one it may be      *)
(* anyone, or no process at all.                                           *)
Addressees(number) ==
  LET alive == {q \in Invocations : pc[q] \in Starting \cup {"running", "stopping", "closed"}}
  IN IF number = None THEN alive ELSE {q \in alive : Pid[q] = number}

Killed(p) == IF command[p] = "stop" THEN "done" ELSE "sleep"

(* kill() fails, or reaches a process that is none of the daemons. *)
StopMisses(p) ==
  /\ pc[p] = "kill"
  /\ pid[p] = None \/ Addressees(pid[p]) = {}
  /\ \E where \in {"failed", Killed(p)} : Goto(p, where)
  /\ UNCHANGED <<command, pid, creat, fd, files>>

(* The signal handler of the service stops its loop.  It is installed by   *)
(* enter_loop: until then the signal kills.                                *)
StopHits(p, q) ==
  /\ pc[p] = "kill"
  /\ q \in Addressees(pid[p])
  /\ pc' = [pc EXCEPT ![p] = Killed(p),
                      ![q] = IF @ \in Starting THEN "dead"
                             ELSE IF @ = "running" THEN "stopping" ELSE @]
  /\ fd' = [fd EXCEPT ![q] = IF pc[q] \in Starting THEN None ELSE @]
  /\ holder' = IF pc[q] \in Starting THEN Release(q) ELSE holder
  /\ UNCHANGED <<command, pid, creat, path, content, created>>

(* The two seconds before a restart goes on to start, however long the     *)
(* daemon takes to stop.                                                   *)
RestartWakes(p) ==
  /\ pc[p] = "sleep"
  /\ Goto(p, "check")
  /\ UNCHANGED <<command, pid, creat, fd, files>>

-----------------------------------------------------------------------------
(* start: the constructor of Pid_file                                      *)

StartLooks(p) ==
  /\ pc[p] = "check"
  /\ creat' = [creat EXCEPT ![p] = path = None]
  /\ Goto(p, "open")
  /\ UNCHANGED <<command, pid, fd, files>>

(* Mutant: a pid file that exists already is taken for a running daemon. *)
StartOpensExclusively(p) ==
  /\ pc[p] = "open"
  /\ \/ path # None
        /\ Goto(p, "failed")
        /\ UNCHANGED <<fd, path, created>>
     \/ path = None
        /\ created' = created + 1
        /\ path' = created + 1
        /\ fd' = [fd EXCEPT ![p] = path']
        /\ Goto(p, "lock")
  /\ UNCHANGED <<command, pid, creat, content, holder>>

(* Mutant: the old file is replaced by a new one. *)
StartCreates(p) ==
  /\ pc[p] = "open"
  /\ created' = created + 1
  /\ path' = created + 1
  /\ fd' = [fd EXCEPT ![p] = path']
  /\ Goto(p, "lock")
  /\ UNCHANGED <<command, pid, creat, content, holder>>

StartOpens(p) ==
  /\ pc[p] = "open"
  /\ \/ path # None
        /\ fd' = [fd EXCEPT ![p] = path]
        /\ Goto(p, "lock")
        /\ UNCHANGED <<path, created>>
     \/ path = None /\ creat[p]
        /\ created' = created + 1
        /\ path' = created + 1
        /\ fd' = [fd EXCEPT ![p] = path']
        /\ Goto(p, "lock")
     \/ path = None /\ ~creat[p]
        /\ Goto(p, "failed")
        /\ UNCHANGED <<fd, path, created>>
  /\ UNCHANGED <<command, pid, creat, content, holder>>

(* Whoever does not get the lock closes its descriptor and leaves the file. *)
StartLocks(p) ==
  /\ pc[p] = "lock"
  /\ \/ /\ holder[fd[p]] = None
        /\ holder' = [holder EXCEPT ![fd[p]] = p]
        /\ Goto(p, "write")
        /\ UNCHANGED fd
     \/ /\ holder[fd[p]] # None
        /\ fd' = [fd EXCEPT ![p] = None]
        /\ Goto(p, "failed")
        /\ UNCHANGED holder
  /\ UNCHANGED <<command, pid, creat, path, content, created>>

(* Mutant: the terminating NUL is written too. *)
OverwrittenWithNul(old, new) ==
  LET NUL == 10
  IN Append(new, NUL) \o SubSeq(old, Len(new) + 2, Len(old))

(* The digits overwrite the first ones in the file; it is not truncated. *)
Overwritten(old, new) == new \o SubSeq(old, Len(new) + 1, Len(old))

StartWrites(p) ==
  /\ pc[p] = "write"
  /\ content' = [content EXCEPT ![fd[p]] = Overwritten(@, Pid[p])]
  /\ Goto(p, "init")
  /\ UNCHANGED <<command, pid, creat, fd, path, holder, created>>

EnterLoop(p) ==
  /\ pc[p] = "init"
  /\ Goto(p, "running")
  /\ UNCHANGED <<command, pid, creat, fd, files>>

-----------------------------------------------------------------------------
(* The end of a daemon: the destructor of Pid_file, or a crash             *)

(* Closing the descriptor gives the lock up. *)
Closes(p) ==
  /\ pc[p] = "stopping"
  /\ fd' = [fd EXCEPT ![p] = None]
  /\ holder' = Release(p)
  /\ Goto(p, "closed")
  /\ UNCHANGED <<command, pid, creat, path, content, created>>

(* Mutant: only the owner of the file at the path removes it. *)
RemovesItsOwn(p) ==
  /\ pc[p] = "closed"
  /\ path' = IF path # None /\ content[path] = Pid[p] THEN None ELSE path
  /\ Goto(p, "done")
  /\ UNCHANGED <<command, pid, creat, fd, content, holder, created>>

(* The path is removed, whatever it leads to by now. *)
Removes(p) ==
  /\ pc[p] = "closed"
  /\ path' = None
  /\ Goto(p, "done")
  /\ UNCHANGED <<command, pid, creat, fd, content, holder, created>>

(* A kill, an abort() or a power failure leaves the file and no lock. *)
Crash(p) ==
  /\ pc[p] \in (Starting \cup {"running", "stopping", "closed"}) \ {"check", "open"}
  /\ fd' = [fd EXCEPT ![p] = None]
  /\ holder' = Release(p)
  /\ Goto(p, "dead")
  /\ UNCHANGED <<command, pid, creat, path, content, created>>

-----------------------------------------------------------------------------
Stop(p) ==
  \/ StopLooks(p)
  \/ StopReads(p)
  \/ StopMisses(p)
  \/ \E q \in Invocations : StopHits(p, q)
  \/ RestartWakes(p)

Start(p) ==
  \/ StartLooks(p)
  \/ StartOpens(p)
  \/ StartLocks(p)
  \/ StartWrites(p)
  \/ EnterLoop(p)

Finish(p) == Closes(p) \/ Removes(p)

Next == \E p \in Invocations : Invoke(p) \/ Stop(p) \/ Start(p) \/ Finish(p) \/ Crash(p)

(* A process that has something to do goes on; daemons run until somebody  *)
(* stops them, and commands need not be given.                             *)
Fairness == \A p \in Invocations : WF_vars(Stop(p) \/ Start(p) \/ Finish(p))

Spec == Init /\ [][Next]_vars

FairSpec == Spec /\ Fairness

-----------------------------------------------------------------------------
(* Properties                                                              *)

Running == {p \in Invocations : pc[p] = "running"}

(* "Pid file locked. Daemon already running?" (Pid_file::Pid_file): there  *)
(* is never a second daemon.                                               *)
OneDaemon == Cardinality(Running) <= 1

(* The same as long as no daemon has removed the pid file: neither         *)
(* commands given at the same moment nor the file of a crashed daemon      *)
(* bring two daemons about.                                                *)
OneDaemonUntilRemoval ==
  (\A p \in Invocations : pc[p] = "done" => command[p] = "stop") => OneDaemon

(* When every daemon has been stopped in an orderly way the pid file is    *)
(* gone, however their starts and stops overlapped (Pid_file::~Pid_file).  *)
TidyExit ==
  (\A p \in Invocations : pc[p] \in {"idle", "done", "failed"}) => path = None

(* A start that has nobody else to contend with succeeds: the file of a    *)
(* crashed daemon is no obstacle, since the lock died with it.             *)
StartSucceeds ==
  \A p \in Invocations :
    pc[p] = "check" /\ (\A q \in Invocations \ {p} : pc[q] \in Ended)
      ~> pc[p] \in {"running", "stopping", "dead"}
=============================================================================
