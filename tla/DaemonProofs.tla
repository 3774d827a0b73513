---------------------------- MODULE DaemonProofs ----------------------------
(***************************************************************************)
(* For any number of invocations and any pids: until a daemon removes the  *)
(* pid file there is one daemon at most, and after orderly ends there is   *)
(* no pid file.  As a Windows service (the second part), the state that is *)
(* reported of it never goes back, unless its worker ends by itself.       *)
(***************************************************************************)
EXTENDS PidFile, WindowsService, FiniteSetTheorems, SequenceTheorems, TLAPS

USE PidFileAssumption

(* Those that have created a file if they ever do. *)
Past == {p \in Invocations :
           pc[p] \notin {"idle", "exists", "read", "kill", "sleep", "check", "open"}}

(* There is an inode left for whoever creates a file. *)
InodesLeft == created <= Cardinality(Past)

(* A command that only stops never becomes a daemon. *)
StopIsNoDaemon ==
  \A p \in Invocations :
    command[p] = "stop" => pc[p] \in {"idle", "exists", "read", "kill", "done", "failed"}

(* A daemon has the lock of the inode that it has open. *)
DaemonsHold ==
  \A p \in Invocations :
    /\ pc[p] = "lock" => fd[p] # None
    /\ pc[p] \in {"write", "init", "running", "stopping"} =>
         fd[p] # None /\ holder[fd[p]] = p

(* Nobody but the commands that stop has come to its end. *)
NothingRemoved == \A p \in Invocations : pc[p] = "done" => command[p] = "stop"

(* Until the path is removed all have the same inode open. *)
OneInode == NothingRemoved => \A p \in Invocations : fd[p] \in {None, path}

IInv == TypeOK /\ InodesLeft /\ StopIsNoDaemon /\ DaemonsHold /\ OneInode

-----------------------------------------------------------------------------
(* Those that are past the opening of the file do not come back.           *)
LEMMA PastGrows ==
  ASSUME TypeOK, InodesLeft, Past \subseteq Past', created' = created
  PROVE  InodesLeft'
<1>1. IsFiniteSet(Past')
  BY FS_Subset DEF Past
<1>2. Cardinality(Past) <= Cardinality(Past')
  BY <1>1, FS_Subset
<1>3. Cardinality(Past) \in Nat /\ Cardinality(Past') \in Nat
  BY <1>1, FS_Subset, FS_CardinalityType
<1> QED BY <1>2, <1>3 DEF InodesLeft, TypeOK

(* Whoever creates a file finds a number for it.                           *)
LEMMA CreatesInode ==
  ASSUME TypeOK, InodesLeft, NEW p \in Invocations, pc[p] = "open",
         Past' = Past \cup {p}, created' = created + 1
  PROVE  InodesLeft' /\ created + 1 \in Inodes
<1>1. p \notin Past
  BY DEF Past
<1>2. IsFiniteSet(Past) /\ IsFiniteSet(Past \cup {p})
  BY FS_Subset DEF Past
<1>3. Cardinality(Past') = Cardinality(Past) + 1
  BY <1>1, <1>2, FS_AddElement
<1>4. Cardinality(Past \cup {p}) <= Cardinality(Invocations)
  BY FS_Subset DEF Past
<1>5. Cardinality(Past) \in Nat /\ Cardinality(Invocations) \in Nat
  BY <1>2, FS_CardinalityType
<1>6. created \in Nat
  BY <1>5 DEF TypeOK
<1> QED BY <1>3, <1>4, <1>5, <1>6 DEF InodesLeft, Inodes

(* Initially nobody has opened anything. *)
LEMMA InitIInv == Init => IInv
<1> SUFFICES ASSUME Init PROVE IInv OBVIOUS
<1>1. Cardinality(Past) \in Nat /\ Cardinality(Invocations) \in Nat
  BY FS_Subset, FS_CardinalityType DEF Past
<1>2. TypeOK
  BY <1>1 DEF Init, TypeOK
<1> QED BY <1>1, <1>2 DEF Init, IInv, InodesLeft, StopIsNoDaemon, DaemonsHold, OneInode

(* The steps of a stop that touch no file.                                 *)
LEMMA QuietIInv ==
  ASSUME IInv, NEW p \in Invocations,
         Invoke(p) \/ StopLooks(p) \/ StopReads(p) \/ StopMisses(p) \/ RestartWakes(p)
           \/ StartLooks(p) \/ EnterLoop(p)
  PROVE  IInv'
<1> USE DEF Invoke, StopLooks, StopReads, StopMisses, RestartWakes, StartLooks,
            EnterLoop, Goto, Killed, files
<1>1. TypeOK'
  <2> DEFINE places == {"idle", "exists", "read", "kill", "sleep"} \cup Starting
                         \cup {"running", "stopping", "closed"} \cup Ended
  <2>1. /\ UNCHANGED <<command, fd, path, content, holder, created>>
        /\ \/ pid' = pid
           \/ \E digits \in Seq(Digits) \cup {None} : pid' = [pid EXCEPT ![p] = digits]
        /\ \/ creat' = creat
           \/ \E b \in BOOLEAN : creat' = [creat EXCEPT ![p] = b]
    BY DEF IInv, TypeOK
  <2>2. \E x \in places : pc' = [pc EXCEPT ![p] = x]
    BY DEF Starting, Ended
  <2> HIDE DEF Invoke, StopLooks, StopReads, StopMisses, RestartWakes, StartLooks,
               EnterLoop, places
  <2>3. pc' \in [Invocations -> places]
    BY <2>2 DEF IInv, TypeOK, places
  <2>4. creat' \in [Invocations -> BOOLEAN]
    BY <2>1 DEF IInv, TypeOK
  <2>5. pid' \in [Invocations -> Seq(Digits) \cup {None}]
    <3> DEFINE numbers == Seq(Digits) \cup {None}
    <3>1. \/ pid' = pid
          \/ \E x \in numbers : pid' = [pid EXCEPT ![p] = x]
      BY <2>1
    <3>2. pid \in [Invocations -> numbers]
      BY DEF IInv, TypeOK
    <3> HIDE DEF numbers
    <3>3. pid' \in [Invocations -> numbers]
      BY <3>1, <3>2
    <3> QED BY <3>3 DEF numbers
  <2> QED BY <2>1, <2>3, <2>4, <2>5 DEF IInv, TypeOK, places
<1>2. Past \subseteq Past' /\ created' = created
  BY DEF IInv, TypeOK, Past
<1>3. StopIsNoDaemon'
  BY DEF IInv, TypeOK, StopIsNoDaemon, Commands
<1>4. DaemonsHold'
  BY DEF IInv, TypeOK, DaemonsHold
<1>5. OneInode'
  BY DEF IInv, TypeOK, OneInode, NothingRemoved
<1> QED BY <1>1, <1>2, <1>3, <1>4, <1>5, PastGrows DEF IInv

(* A signal may kill a daemon that starts, and gives its lock up.          *)
LEMMA StopHitsIInv ==
  ASSUME IInv, NEW p \in Invocations, NEW q \in Invocations, StopHits(p, q)
  PROVE  IInv'
<1> USE DEF StopHits, Killed, Release, Addressees, Starting
<1>1. TypeOK'
  BY DEF IInv, TypeOK, Ended, Commands
<1>2. Past \subseteq Past' /\ created' = created
  BY DEF IInv, TypeOK, Past
<1>3. StopIsNoDaemon'
  BY DEF IInv, TypeOK, StopIsNoDaemon, Commands
<1>4. DaemonsHold'
  BY DEF IInv, TypeOK, DaemonsHold
<1>5. OneInode'
  BY DEF IInv, TypeOK, OneInode, NothingRemoved
<1> QED BY <1>1, <1>2, <1>3, <1>4, <1>5, PastGrows DEF IInv

(* Opening leads all to the same inode, since the path still leads to it.  *)
LEMMA StartOpensIInv ==
  ASSUME IInv, NEW p \in Invocations, StartOpens(p)
  PROVE  IInv'
<1> USE DEF Goto
<1>1. CASE path # None
  <2>1. /\ pc[p] = "open" /\ pc' = [pc EXCEPT ![p] = "lock"]
        /\ fd' = [fd EXCEPT ![p] = path] /\ path \in Inodes
        /\ UNCHANGED <<command, pid, creat, path, content, holder, created>>
    BY <1>1 DEF StartOpens, IInv, TypeOK
  <2>2. TypeOK'
    BY <2>1 DEF IInv, TypeOK, Starting
  <2>3. Past \subseteq Past' /\ created' = created
    BY <2>1 DEF IInv, TypeOK, Past
  <2>4. StopIsNoDaemon'
    BY <2>1 DEF IInv, TypeOK, StopIsNoDaemon
  <2>5. DaemonsHold'
    BY <2>1 DEF IInv, TypeOK, DaemonsHold, Inodes
  <2>6. OneInode'
    BY <2>1 DEF IInv, TypeOK, OneInode, NothingRemoved
  <2> QED BY <2>2, <2>3, <2>4, <2>5, <2>6, PastGrows DEF IInv
<1>2. CASE path = None /\ creat[p]
  <2>1. /\ pc[p] = "open" /\ pc' = [pc EXCEPT ![p] = "lock"]
        /\ fd' = [fd EXCEPT ![p] = created + 1]
        /\ path' = created + 1 /\ created' = created + 1
        /\ UNCHANGED <<command, pid, creat, content, holder>>
    BY <1>2 DEF StartOpens
  <2>2. Past' = Past \cup {p}
    BY <2>1 DEF IInv, TypeOK, Past
  <2>3. InodesLeft' /\ created + 1 \in Inodes
    BY <2>1, <2>2, CreatesInode DEF IInv
  <2>4. created + 1 \in 0..Cardinality(Invocations) /\ created + 1 # None
    BY <2>3 DEF Inodes
  <2>5. TypeOK'
    BY <2>1, <2>3, <2>4 DEF IInv, TypeOK, Starting
  <2>6. StopIsNoDaemon'
    BY <2>1 DEF IInv, TypeOK, StopIsNoDaemon
  <2>7. DaemonsHold'
    BY <2>1, <2>4 DEF IInv, TypeOK, DaemonsHold
  <2>8. OneInode'
    BY <1>2, <2>1 DEF IInv, TypeOK, OneInode, NothingRemoved
  <2> QED BY <2>3, <2>5, <2>6, <2>7, <2>8 DEF IInv
<1>3. CASE path = None /\ ~creat[p]
  <2> USE DEF StartOpens
  <2>1. TypeOK'
    BY <1>3 DEF IInv, TypeOK, Ended
  <2>2. Past \subseteq Past' /\ created' = created
    BY <1>3 DEF IInv, TypeOK, Past
  <2>3. pc[p] = "open" /\ pc' = [pc EXCEPT ![p] = "failed"]
        /\ UNCHANGED <<command, fd, path, holder>>
    BY <1>3
  <2> HIDE DEF StartOpens
  <2>4. StopIsNoDaemon'
    BY <2>3 DEF IInv, TypeOK, StopIsNoDaemon
  <2>5. DaemonsHold'
    BY <2>3 DEF IInv, TypeOK, DaemonsHold
  <2>6. OneInode'
    BY <2>3 DEF IInv, TypeOK, OneInode, NothingRemoved
  <2> QED BY <2>1, <2>2, <2>4, <2>5, <2>6, PastGrows DEF IInv
<1> QED BY <1>1, <1>2, <1>3

(* The lock is taken only when nobody has it.                              *)
LEMMA StartLocksIInv ==
  ASSUME IInv, NEW p \in Invocations, StartLocks(p)
  PROVE  IInv'
<1> USE DEF StartLocks, Goto
<1>1. fd[p] \in Inodes
  BY DEF IInv, TypeOK, DaemonsHold
<1>2. TypeOK'
  <2>1. CASE holder[fd[p]] = None
    <3>1. /\ pc' = [pc EXCEPT ![p] = "write"]
          /\ holder' = [holder EXCEPT ![fd[p]] = p]
          /\ UNCHANGED <<command, pid, creat, fd, path, content, created>>
      BY <2>1
    <3> QED BY <3>1 DEF IInv, TypeOK, Starting
  <2>2. CASE holder[fd[p]] # None
    BY <2>2 DEF IInv, TypeOK, Ended
  <2> QED BY <2>1, <2>2
<1>3. Past \subseteq Past' /\ created' = created
  BY DEF IInv, TypeOK, Past
<1>4. StopIsNoDaemon' /\ OneInode'
  BY DEF IInv, TypeOK, StopIsNoDaemon, OneInode, NothingRemoved
<1>5. DaemonsHold'
  BY <1>1 DEF IInv, TypeOK, DaemonsHold
<1> QED BY <1>2, <1>3, <1>4, <1>5, PastGrows DEF IInv

(* The digits of one number over those of another are digits.              *)
LEMMA OverwrittenDigits ==
  ASSUME NEW old \in Seq(Digits), NEW new \in Seq(Digits)
  PROVE  Overwritten(old, new) \in Seq(Digits)
<1>1. SubSeq(old, Len(new) + 1, Len(old)) \in Seq(Digits)
  <2>1. \A i \in (Len(new) + 1)..Len(old) : old[i] \in Digits
    OBVIOUS
  <2> QED BY <2>1, SubSeqProperties
<1> QED BY <1>1, ConcatProperties DEF Overwritten

(* Writing the pid needs the inode only.                                   *)
LEMMA StartWritesIInv ==
  ASSUME IInv, NEW p \in Invocations, StartWrites(p)
  PROVE  IInv'
<1> USE DEF StartWrites, Goto
<1>1. fd[p] \in Inodes /\ Pid[p] \in Seq(Digits)
  BY DEF IInv, TypeOK, DaemonsHold
<1>2. Overwritten(content[fd[p]], Pid[p]) \in Seq(Digits)
  BY <1>1, OverwrittenDigits DEF IInv, TypeOK
<1>3. TypeOK'
  BY <1>1, <1>2 DEF IInv, TypeOK, Starting
<1>4. Past \subseteq Past' /\ created' = created
  BY DEF IInv, TypeOK, Past
<1>5. StopIsNoDaemon' /\ DaemonsHold' /\ OneInode'
  BY DEF IInv, TypeOK, StopIsNoDaemon, DaemonsHold, OneInode, NothingRemoved
<1> QED BY <1>3, <1>4, <1>5, PastGrows DEF IInv

(* A daemon that ends or crashes gives up no lock but its own.             *)
LEMMA EndIInv ==
  ASSUME IInv, NEW p \in Invocations, Closes(p) \/ Removes(p) \/ Crash(p)
  PROVE  IInv'
<1> USE DEF Closes, Removes, Crash, Goto, Release, Starting
<1>1. TypeOK'
  BY DEF IInv, TypeOK, Ended
<1>2. Past \subseteq Past' /\ created' = created
  BY DEF IInv, TypeOK, Past
<1>3. StopIsNoDaemon'
  BY DEF IInv, TypeOK, StopIsNoDaemon
<1>4. DaemonsHold'
  <2>1. CASE Removes(p)
    BY <2>1 DEF IInv, TypeOK, DaemonsHold
  <2>2. CASE Closes(p) \/ Crash(p)
    <3>1. /\ holder' = Release(p) /\ fd' = [fd EXCEPT ![p] = None]
          /\ pc' \in {[pc EXCEPT ![p] = "closed"], [pc EXCEPT ![p] = "dead"]}
      BY <2>2
    <3>2. ASSUME NEW q \in Invocations, q # p, holder[fd[q]] = q, fd[q] # None
          PROVE  fd'[q] # None /\ holder'[fd'[q]] = q
      BY <3>1, <3>2 DEF IInv, TypeOK
    <3> QED BY <3>1, <3>2 DEF IInv, TypeOK, DaemonsHold
  <2> QED BY <2>1, <2>2
<1>5. OneInode'
  <2>1. CASE Removes(p)
    <3>1. command[p] # "stop" /\ pc'[p] = "done" /\ command' = command
      BY <2>1 DEF IInv, TypeOK, StopIsNoDaemon
    <3> QED BY <3>1 DEF OneInode, NothingRemoved
  <2>2. CASE Closes(p) \/ Crash(p)
    BY <2>2 DEF IInv, TypeOK, OneInode, NothingRemoved
  <2> QED BY <2>1, <2>2
<1> QED BY <1>1, <1>2, <1>3, <1>4, <1>5, PastGrows DEF IInv

(* Every step keeps the inductive invariant.                               *)
LEMMA NextIInv == IInv /\ [Next]_vars => IInv'
<1> SUFFICES ASSUME IInv, [Next]_vars PROVE IInv' OBVIOUS
<1>1. CASE UNCHANGED vars
  BY <1>1 DEF vars, files, IInv, TypeOK, InodesLeft, StopIsNoDaemon, DaemonsHold,
              OneInode, NothingRemoved, Past
<1>2. ASSUME NEW p \in Invocations, Invoke(p) \/ Stop(p) \/ Start(p) \/ Finish(p) \/ Crash(p)
      PROVE  IInv'
  BY <1>2, QuietIInv, StopHitsIInv, StartOpensIInv, StartLocksIInv,
     StartWritesIInv, EndIInv DEF Stop, Start, Finish
<1> QED BY <1>1, <1>2 DEF Next

(* So it holds for ever.                                                   *)
LEMMA Inductive == Spec => []IInv
  BY InitIInv, NextIInv, PTL DEF Spec

-----------------------------------------------------------------------------
(* The variables keep their types; in particular no invocation creates a   *)
(* second file (daemon.cpp:28-60).                                         *)
THEOREM TypeCorrect == Spec => []TypeOK
<1>1. IInv => TypeOK BY DEF IInv
<1> QED BY <1>1, Inductive, PTL

(* Two that run would both hold the lock of the one inode.                 *)
LEMMA HolderIsAlone == IInv => OneDaemonUntilRemoval
<1> SUFFICES ASSUME IInv, NothingRemoved PROVE OneDaemon
  BY DEF OneDaemonUntilRemoval, NothingRemoved
<1>1. \A p, q \in Running : p = q
  BY DEF IInv, TypeOK, OneInode, DaemonsHold, Running
<1>2. CASE Running = {}
  BY <1>2, FS_EmptySet DEF OneDaemon
<1>3. CASE Running # {}
  <2>1. PICK p \in Running : TRUE
    BY <1>3
  <2>2. Running = {p}
    BY <1>1, <2>1
  <2>3. Cardinality(Running) = 1
    BY <2>2, FS_Singleton
  <2> QED BY <2>3 DEF OneDaemon
<1> QED BY <1>2, <1>3

(* Neither commands given at the same moment nor the file of a crashed     *)
(* daemon bring a second daemon about, as long as none has removed the pid *)
(* file (daemon.cpp:28-75).                                                *)
THEOREM SingleDaemon == Spec => []OneDaemonUntilRemoval
  BY HolderIsAlone, Inductive, PTL

-----------------------------------------------------------------------------
(* Whoever has a lock has the inode open and has not closed it.            *)
HoldersRun ==
  \A i \in Inodes, q \in Invocations :
    holder[i] = q => fd[q] = i /\ pc[q] \in {"write", "init", "running", "stopping"}

(* The path leads to an inode that a daemon has open, unless one is about  *)
(* to remove it or has died.                                               *)
PathIsOwned ==
  path = None \/
    \E p \in Invocations :
      \/ pc[p] \in {"closed", "dead"}
      \/ fd[p] = path /\ pc[p] \in {"lock", "write", "init", "running", "stopping"}

OInv == IInv /\ HoldersRun /\ PathIsOwned

(* Steps that change the place of an invocation only, and nothing that a   *)
(* daemon is in, leave files as they are.                                  *)
LEMMA QuietOwned ==
  ASSUME OInv, NEW p \in Invocations,
         Invoke(p) \/ StopLooks(p) \/ StopReads(p) \/ StopMisses(p) \/ RestartWakes(p)
           \/ StartLooks(p) \/ StartWrites(p) \/ EnterLoop(p)
  PROVE  HoldersRun' /\ PathIsOwned'
<1>1. /\ UNCHANGED <<fd, path, holder>> /\ \A q \in Invocations \ {p} : pc'[q] = pc[q]
      /\ \/ pc[p] \in {"write", "init"} /\ pc'[p] \in {"init", "running"}
         \/ pc[p] \in {"idle", "exists", "read", "kill", "sleep", "check"}
  BY DEF Invoke, StopLooks, StopReads, StopMisses, RestartWakes, StartLooks, StartWrites,
         EnterLoop, Goto, files, OInv, IInv, TypeOK
<1>2. HoldersRun'
  <2> DEFINE Before == {"idle", "exists", "read", "kill", "sleep", "check"}
  <2>1. \A q \in Invocations :
          \/ pc'[q] = pc[q]
          \/ pc[q] \in Before
          \/ pc'[q] \in {"init", "running"}
    BY <1>1
  <2> QED BY <1>1, <2>1 DEF OInv, HoldersRun
<1>3. PathIsOwned'
  BY <1>1 DEF OInv, PathIsOwned
<1> QED BY <1>2, <1>3

(* A daemon that is killed or crashes is dead, and its lock is free.       *)
LEMMA DeathOwned ==
  ASSUME OInv, NEW p \in Invocations,
         Crash(p) \/ \E q \in Invocations : StopHits(q, p)
  PROVE  HoldersRun' /\ PathIsOwned'
<1>1. CASE fd' = [fd EXCEPT ![p] = None] /\ holder' = Release(p) /\ pc'[p] = "dead"
            /\ path' = path
            /\ \A r \in Invocations \ {p} :
                 pc'[r] = pc[r] \/ (pc[r] = "kill" /\ pc'[r] \in {"done", "sleep"})
  <2>1. ASSUME NEW i \in Inodes, NEW r \in Invocations, holder'[i] = r
        PROVE  fd'[r] = i /\ pc'[r] \in {"write", "init", "running", "stopping"}
    <3>1. holder[i] = r /\ r # p
      BY <1>1, <2>1, PidFileAssumption DEF Release
    <3>2. fd[r] = i /\ pc[r] \in {"write", "init", "running", "stopping"}
      BY <3>1 DEF OInv, HoldersRun
    <3>3. fd'[r] = fd[r]
      BY <1>1, <3>1 DEF OInv, IInv, TypeOK
    <3> QED BY <3>1, <3>2, <3>3, <1>1
  <2>2. HoldersRun'
    BY <2>1 DEF HoldersRun
  <2>3. PathIsOwned'
    BY <1>1 DEF OInv, PathIsOwned
  <2> QED BY <2>2, <2>3
<1>2. ASSUME NEW q \in Invocations, StopHits(q, p), pc[p] \notin Starting
      PROVE  HoldersRun' /\ PathIsOwned'
  <2>1. /\ pc[p] \in {"running", "stopping", "closed"} /\ pc[q] = "kill" /\ p # q
        /\ pc'[q] \in {"done", "sleep"}
    BY <1>2 DEF StopHits, Addressees, Killed, OInv, IInv, TypeOK
  <2>2. /\ pc'[p] = IF pc[p] = "running" THEN "stopping" ELSE pc[p]
        /\ fd' = fd /\ holder' = holder /\ path' = path
        /\ \A r \in Invocations \ {p, q} : pc'[r] = pc[r]
    BY <1>2, <2>1 DEF StopHits, OInv, IInv, TypeOK
  <2>3. ASSUME NEW i \in Inodes, NEW r \in Invocations, holder[i] = r
        PROVE  fd[r] = i /\ pc'[r] \in {"write", "init", "running", "stopping"}
    <3>1. fd[r] = i /\ pc[r] \in {"write", "init", "running", "stopping"}
      BY <2>3 DEF OInv, HoldersRun
    <3>2. r # q
      BY <3>1, <2>1
    <3> QED BY <3>1, <3>2, <2>2
  <2>4. HoldersRun'
    BY <2>2, <2>3 DEF HoldersRun
  <2>5. PathIsOwned'
    BY <2>1, <2>2 DEF OInv, PathIsOwned
  <2> QED BY <2>4, <2>5
<1>3. ASSUME NEW q \in Invocations, StopHits(q, p), pc[p] \in Starting
      PROVE  HoldersRun' /\ PathIsOwned'
  <2>1. pc[q] = "kill" /\ p # q
    BY <1>3 DEF StopHits, Starting
  <2>2. pc'[p] = "dead" /\ pc'[q] \in {"done", "sleep"}
        /\ \A r \in Invocations \ {p, q} : pc'[r] = pc[r]
    BY <1>3, <2>1 DEF StopHits, Killed, OInv, IInv, TypeOK
  <2>3. fd' = [fd EXCEPT ![p] = None] /\ holder' = Release(p) /\ path' = path
    BY <1>3 DEF StopHits
  <2> QED BY <1>1, <2>1, <2>2, <2>3
<1>4. CASE Crash(p)
  BY <1>1, <1>4 DEF Crash, Goto, OInv, IInv, TypeOK
<1> QED BY <1>2, <1>3, <1>4

(* Whoever opens the path has it open; whoever gets the lock keeps it so,  *)
(* and whoever does not leaves the path to the one that has it.            *)
LEMMA StartOwned ==
  ASSUME OInv, NEW p \in Invocations, StartOpens(p) \/ StartLocks(p)
  PROVE  HoldersRun' /\ PathIsOwned'
<1>1. \A r \in Invocations \ {p} : pc'[r] = pc[r]
  BY DEF StartOpens, StartLocks, Goto, OInv, IInv, TypeOK
<1>2. CASE StartOpens(p)
  <2>1. /\ pc[p] = "open" /\ holder' = holder
        /\ \/ fd' = [fd EXCEPT ![p] = path'] /\ pc'[p] = "lock"
           \/ fd' = fd /\ pc'[p] = "failed" /\ path' = path
    BY <1>2 DEF StartOpens, Goto, OInv, IInv, TypeOK
  <2>2. ASSUME NEW i \in Inodes, NEW r \in Invocations, holder[i] = r
        PROVE  fd'[r] = i /\ pc'[r] \in {"write", "init", "running", "stopping"}
    <3>1. fd[r] = i /\ pc[r] \in {"write", "init", "running", "stopping"}
      BY <2>2 DEF OInv, HoldersRun
    <3>2. r # p
      BY <3>1, <2>1
    <3>3. fd'[r] = fd[r]
      BY <2>1, <3>2 DEF OInv, IInv, TypeOK
    <3> QED BY <3>1, <3>2, <3>3, <1>1
  <2>3. HoldersRun'
    BY <2>1, <2>2 DEF HoldersRun
  <2>4. PathIsOwned'
    BY <1>1, <2>1 DEF OInv, IInv, TypeOK, PathIsOwned
  <2> QED BY <2>3, <2>4
<1>3. CASE StartLocks(p)
  <2>1. pc[p] = "lock" /\ path' = path /\ fd[p] \in Inodes
    BY <1>3 DEF StartLocks, OInv, IInv, TypeOK, DaemonsHold
  <2>2. CASE holder[fd[p]] = None /\ holder' = [holder EXCEPT ![fd[p]] = p]
               /\ pc'[p] = "write" /\ fd' = fd
    <3>1. HoldersRun'
      BY <1>1, <2>1, <2>2 DEF OInv, IInv, TypeOK, HoldersRun
    <3>2. PathIsOwned'
      BY <1>1, <2>1, <2>2 DEF OInv, PathIsOwned
    <3> QED BY <3>1, <3>2
  <2>3. CASE holder[fd[p]] # None /\ holder' = holder /\ pc'[p] = "failed"
               /\ fd' = [fd EXCEPT ![p] = None]
    <3> DEFINE q == holder[fd[p]]
    <3>1. /\ q \in Invocations /\ q # p /\ fd[q] = fd[p]
          /\ pc[q] \in {"write", "init", "running", "stopping"}
      BY <2>1, <2>3 DEF OInv, IInv, TypeOK, HoldersRun
    <3> HIDE DEF q
    <3>2. HoldersRun'
      BY <1>1, <2>1, <2>3 DEF OInv, IInv, TypeOK, HoldersRun
    <3>3. fd'[q] = fd[p] /\ pc'[q] = pc[q] /\ \A r \in Invocations \ {p} : fd'[r] = fd[r]
      BY <1>1, <2>3, <3>1 DEF OInv, IInv, TypeOK
    <3>4. PathIsOwned'
      BY <1>1, <2>1, <2>3, <3>1, <3>3 DEF OInv, PathIsOwned
    <3> QED BY <3>2, <3>4
  <2> QED BY <1>3, <2>1, <2>2, <2>3 DEF StartLocks, Goto, OInv, IInv, TypeOK
<1> QED BY <1>2, <1>3

(* The end of a daemon: the path is still to be removed, and then gone.    *)
LEMMA FinishOwned ==
  ASSUME OInv, NEW p \in Invocations, Finish(p)
  PROVE  HoldersRun' /\ PathIsOwned'
<1>1. CASE Closes(p)
  <2>1. /\ fd' = [fd EXCEPT ![p] = None] /\ holder' = Release(p) /\ pc'[p] = "closed"
        /\ \A r \in Invocations \ {p} : pc'[r] = pc[r]
    BY <1>1 DEF Closes, Goto, OInv, IInv, TypeOK
  <2> QED BY <2>1 DEF OInv, IInv, TypeOK, HoldersRun, PathIsOwned, Release
<1>2. CASE Removes(p)
  <2>1. /\ fd' = fd /\ holder' = holder /\ path' = None /\ pc[p] = "closed"
        /\ \A r \in Invocations \ {p} : pc'[r] = pc[r]
    BY <1>2 DEF Removes, Goto, OInv, IInv, TypeOK
  <2> QED BY <2>1 DEF OInv, IInv, TypeOK, HoldersRun, PathIsOwned
<1> QED BY <1>1, <1>2 DEF Finish

(* So it goes on. *)
LEMMA NextOInv == OInv /\ [Next]_vars => OInv'
<1> SUFFICES ASSUME OInv, [Next]_vars PROVE OInv' OBVIOUS
<1>1. IInv'
  BY NextIInv DEF OInv
<1>2. HoldersRun' /\ PathIsOwned'
  <2>1. CASE UNCHANGED vars
    BY <2>1 DEF vars, files, OInv, HoldersRun, PathIsOwned
  <2>2. CASE Next
    BY <2>2, QuietOwned, DeathOwned, StartOwned, FinishOwned DEF Next, Stop, Start
  <2> QED BY <2>1, <2>2
<1> QED BY <1>1, <1>2 DEF OInv

(* When all daemons have ended in an orderly way no pid file is left, as   *)
(* one of them has removed the path last, however their starts and stops   *)
(* overlapped (daemon.cpp:62-75).                                          *)
THEOREM NoFileLeft == Spec => []TidyExit
<1>1. Init => OInv
  BY InitIInv DEF OInv, Init, HoldersRun, PathIsOwned
<1>2. OInv => TidyExit
  BY DEF OInv, PathIsOwned, TidyExit
<1> QED BY <1>1, <1>2, NextOInv, PTL DEF Spec

-----------------------------------------------------------------------------
(* The service on Windows, which no pid file keeps to one process.         *)

HIDE PidFileAssumption

(* What the threads, the SCM and the service write. *)
Statuses == [accepted : BOOLEAN, state : States]
Services == [stopped : BOOLEAN, listens : BOOLEAN, devices : BOOLEAN]
Scms == [entry : {"none", "registered", "deleted"}, accepted : BOOLEAN,
         state : States \ {"zero"}, restarts : BOOLEAN, due : BOOLEAN]

ServiceTyped ==
  /\ status \in Statuses /\ service \in Services /\ scm \in Scms
  /\ process \in BOOLEAN

(* How far ServiceMain has come, and what stands in the status meanwhile.  *)
BeforeStart ==
  main \in {"register", "starting"} =>
    /\ status.state = "zero" /\ scm.state = "start_pending"
    /\ handler = "idle" /\ ~service.stopped

StartPending ==
  main \in {"report_starting", "accept", "running"} =>
    /\ status.state = "start_pending" /\ scm.state = "start_pending"
    /\ handler = "idle" /\ ~service.stopped

(* From here on the handler decides: it writes and reports STOP_PENDING,   *)
(* and stops the context last.                                             *)
UntilWorkerEnds ==
  main \in {"report_running", "create", "wait"} =>
    IF service.stopped
    THEN handler = "idle" /\ status.state = "stop_pending" /\ scm.state = "stop_pending"
    ELSE \/ /\ handler \in {"idle", "stop", "refuse", "pending"}
            /\ status.state = "running" /\ scm.state \in {"start_pending", "running"}
         \/ /\ handler = "report" /\ status.state = "stop_pending"
            /\ scm.state \in {"start_pending", "running", "stop_pending"}
         \/ /\ handler \in {"stop_http", "close_devices", "stop_context"}
            /\ status.state = "stop_pending" /\ scm.state = "stop_pending"

(* The worker ends after that, and ServiceMain after the worker.           *)
WorkerEnds ==
  /\ worker \in {"stop_http", "close_devices", "ended"} => service.stopped
  /\ main \in {"refuse", "stopped", "report_stopped", "returned"} =>
       /\ service.stopped /\ handler = "idle"
       /\ \/ status.state = "stop_pending" /\ scm.state = "stop_pending"
          \/ status.state = "stopped" /\ scm.state \in {"stop_pending", "stopped"}

Mains == {"register", "starting", "report_starting", "accept", "running",
          "report_running", "create", "wait", "refuse", "stopped",
          "report_stopped", "returned"}

(* There is no worker before it is created.                                *)
WorkerCreated ==
  process /\ main \in {"register", "starting", "report_starting", "accept", "running",
                       "report_running", "create"} => worker = "none"

Orderly ==
  /\ WorkerCreated
  /\ process /\ ~EndedByItself =>
       main \in Mains /\ BeforeStart /\ StartPending /\ UntilWorkerEnds /\ WorkerEnds

ServiceInv == ServiceTyped /\ Orderly

-----------------------------------------------------------------------------
(* What the SCM keeps changes by one of its fields at a time,              *)
LEMMA ScmField ==
  ASSUME NEW a \in Scms
  PROVE  /\ \A e \in {"none", "registered", "deleted"} :
              [a EXCEPT !.entry = e] \in Scms /\ [a EXCEPT !.entry = e].state = a.state
         /\ \A b \in BOOLEAN :
              /\ [a EXCEPT !.accepted = b] \in Scms
              /\ [a EXCEPT !.accepted = b].state = a.state
              /\ [a EXCEPT !.restarts = b] \in Scms
              /\ [a EXCEPT !.restarts = b].state = a.state
              /\ [a EXCEPT !.due = b] \in Scms /\ [a EXCEPT !.due = b].state = a.state
         /\ \A s \in States \ {"zero"} :
              [a EXCEPT !.state = s] \in Scms /\ [a EXCEPT !.state = s].state = s
  BY DEF Scms

(* or by what a report brings,                                             *)
LEMMA ScmReported ==
  ASSUME NEW a \in Scms, NEW b \in BOOLEAN, NEW s \in States \ {"zero"}
  PROVE  /\ [a EXCEPT !.accepted = b, !.state = s] \in Scms
         /\ [a EXCEPT !.accepted = b, !.state = s].state = s
<1> DEFINE x == [a EXCEPT !.accepted = b]
<1>1. x \in Scms
  BY ScmField
<1> HIDE DEF x
<1>2. [x EXCEPT !.state = s] \in Scms /\ [x EXCEPT !.state = s].state = s
  BY <1>1, ScmField
<1> QED BY <1>2 DEF x

(* or by the beginning of a process,                                       *)
LEMMA ScmStarted ==
  ASSUME NEW a \in Scms, NEW b \in BOOLEAN, NEW d \in BOOLEAN, NEW s \in States \ {"zero"}
  PROVE  /\ [a EXCEPT !.state = s, !.accepted = b, !.due = d] \in Scms
         /\ [a EXCEPT !.state = s, !.accepted = b, !.due = d].state = s
<1> DEFINE x == [a EXCEPT !.state = s]
           y == [x EXCEPT !.accepted = b]
<1>1. x \in Scms /\ x.state = s
  BY ScmField
<1> HIDE DEF x
<1>2. y \in Scms /\ y.state = s
  BY <1>1, ScmField
<1> HIDE DEF y
<1>3. [y EXCEPT !.due = d] \in Scms /\ [y EXCEPT !.due = d].state = s
  BY <1>2, ScmField
<1> QED BY <1>3 DEF x, y

(* or by its end, or with the entry.                                       *)
LEMMA ScmEntry ==
  ASSUME NEW a \in Scms, NEW e \in {"none", "registered", "deleted"}, NEW b \in BOOLEAN
  PROVE  /\ [a EXCEPT !.entry = e, !.due = b] \in Scms
         /\ [a EXCEPT !.entry = e, !.due = b].state = a.state
         /\ [a EXCEPT !.entry = e, !.restarts = b] \in Scms
         /\ [a EXCEPT !.entry = e, !.restarts = b].state = a.state
<1> DEFINE x == [a EXCEPT !.entry = e]
<1>1. x \in Scms /\ x.state = a.state
  BY ScmField
<1> HIDE DEF x
<1>2. /\ [x EXCEPT !.due = b] \in Scms /\ [x EXCEPT !.due = b].state = a.state
      /\ [x EXCEPT !.restarts = b] \in Scms /\ [x EXCEPT !.restarts = b].state = a.state
  BY <1>1, ScmField
<1> QED BY <1>2 DEF x

(* The entry of a service may be changed whole. *)
LEMMA ScmEnded ==
  ASSUME NEW a \in Scms, NEW e \in {"none", "registered", "deleted"},
         NEW s \in States \ {"zero"}, NEW b \in BOOLEAN, NEW d \in BOOLEAN
  PROVE  [a EXCEPT !.entry = e, !.state = s, !.accepted = b, !.due = d] \in Scms
<1> DEFINE x == [a EXCEPT !.entry = e]
<1>1. x \in Scms
  BY ScmField
<1> HIDE DEF x
<1>2. [x EXCEPT !.state = s, !.accepted = b, !.due = d] \in Scms
  BY <1>1, ScmStarted
<1> QED BY <1>2 DEF x

(* Nothing runs and nothing has been reported. *)
LEMMA InitServiceInv == ServiceInit => ServiceInv
<1> SUFFICES ASSUME ServiceInit PROVE ServiceInv OBVIOUS
<1>1. status \in Statuses
  BY DEF ServiceInit, Statuses, States
<1>2. service \in Services /\ process = FALSE
  BY DEF ServiceInit, Services
<1>3. scm \in Scms
  BY DEF ServiceInit, Scms, States
<1> QED BY <1>1, <1>2, <1>3 DEF ServiceInv, ServiceTyped, Orderly, WorkerCreated

(* A report hands over what has been written, which is never less than     *)
(* what was reported before.                                               *)
LEMMA ReportAdvances ==
  ASSUME ServiceTyped
  PROVE  /\ Reported \in Scms
         /\ Reported.state = IF status.state = "zero" THEN scm.state ELSE status.state
<1>1. CASE status.state = "zero"
  BY <1>1 DEF Reported, ServiceTyped
<1>2. CASE status.state # "zero"
  <2>1. PICK b \in BOOLEAN, t \in States \ {"zero"} :
          b = status.accepted /\ t = status.state
    BY <1>2 DEF ServiceTyped, Statuses
  <2>2. Reported = [scm EXCEPT !.accepted = b, !.state = t]
    BY <1>2, <2>1 DEF Reported
  <2>3. Reported \in Scms /\ Reported.state = t
    <3>1. scm \in Scms
      BY DEF ServiceTyped
    <3>2. /\ [scm EXCEPT !.accepted = b, !.state = t] \in Scms
          /\ [scm EXCEPT !.accepted = b, !.state = t].state = t
      BY <3>1, ScmReported
    <3> QED BY <2>2, <3>2, Zenon
  <2> QED BY <1>2, <2>1, <2>3
<1> QED BY <1>1, <1>2

(* A process that ends leaves the threads where they are. *)
LEMMA EndServiceInv == ASSUME ServiceInv, ProcessEnds PROVE ServiceInv'
<1>1. /\ scm \in Scms
      /\ (scm.entry = "registered" /\ scm.restarts /\ scm.state # "stopped") \in BOOLEAN
      /\ (IF scm.entry = "deleted" THEN "none" ELSE scm.entry) \in {"none", "registered", "deleted"}
  BY DEF ServiceInv, ServiceTyped, Scms
<1>2. AfterProcess \in Scms
  BY <1>1, ScmEnded DEF AfterProcess, States
<1> QED
  BY <1>2 DEF ServiceInv, ServiceTyped, Orderly, WorkerCreated, ProcessEnds,
     threads

(* A new process begins from nothing. *)
LEMMA StartServiceInv == ASSUME ServiceInv, StartProcess PROVE ServiceInv'
<1>1. scm \in Scms /\ "start_pending" \in States \ {"zero"}
  BY DEF ServiceInv, ServiceTyped, States
<1>2. scm' \in Scms /\ scm'.state = "start_pending"
  BY <1>1, ScmStarted DEF StartProcess
<1>3. ServiceTyped'
  BY <1>2 DEF StartProcess, ServiceTyped, Statuses, Services, States
<1> QED
  BY <1>2, <1>3
     DEF ServiceInv, StartProcess, Orderly, WorkerCreated, BeforeStart, StartPending,
                        UntilWorkerEnds, WorkerEnds, Mains

(* ServiceMain goes its way, one step at a time. *)
LEMMA MainServiceInv == ASSUME ServiceInv, ServiceMain, UNCHANGED process PROVE ServiceInv'
<1> USE DEF Main
<1>1. ServiceTyped'
  <2>1. scm' \in Scms
    BY ReportAdvances DEF ServiceInv, ServiceTyped, ServiceMain,
       RegisterHandler, WriteStarting, WriteAccept,
       WriteRunning,
       CreateWorker, WaitForWorker, WriteRefuse,
       WriteStopped, MainReports
  <2>2. /\ [status EXCEPT !.accepted = TRUE] \in Statuses
        /\ [status EXCEPT !.accepted = FALSE] \in Statuses
        /\ [status EXCEPT !.state = "running"] \in Statuses
        /\ [status EXCEPT !.state = "stopped"] \in Statuses
        /\ [accepted |-> FALSE, state |-> "start_pending"] \in Statuses
    BY DEF ServiceInv, ServiceTyped, Statuses, States
  <2>3. status' \in Statuses /\ service' \in Services
    BY <2>2 DEF ServiceInv, ServiceTyped, ServiceMain, RegisterHandler,
       WriteStarting, WriteAccept, WriteRunning,
       CreateWorker, WaitForWorker, WriteRefuse,
       WriteStopped, MainReports
  <2> QED BY <2>1, <2>3 DEF ServiceInv, ServiceTyped
<1> SUFFICES Orderly'
  BY <1>1 DEF ServiceInv
<1> USE DEF ServiceInv, Orderly, EndedByItself, WorkerCreated, Mains, BeforeStart,
            StartPending, UntilWorkerEnds, WorkerEnds
<1>2. CASE RegisterHandler
  BY <1>2 DEF RegisterHandler
<1>3. CASE WriteStarting
  BY <1>3 DEF WriteStarting
<1>4. CASE WriteAccept
  BY <1>4 DEF WriteAccept, ServiceTyped, Statuses
<1>5. CASE WriteRunning
  BY <1>5 DEF WriteRunning, ServiceTyped, Statuses
<1>6. CASE CreateWorker
  BY <1>6 DEF CreateWorker
<1>7. CASE WaitForWorker
  BY <1>7 DEF WaitForWorker
<1>8. CASE WriteRefuse
  <2>1. status'.state = status.state /\ UNCHANGED <<handler, worker, service, scm>>
    BY <1>8 DEF WriteRefuse, ServiceTyped, Statuses
  <2> QED BY <1>8, <2>1 DEF WriteRefuse
<1>9. CASE WriteStopped
  <2>1. status'.state = "stopped" /\ UNCHANGED <<handler, worker, service, scm>>
    BY <1>9 DEF WriteStopped, ServiceTyped, Statuses
  <2> QED BY <1>9, <2>1 DEF WriteStopped
<1>10. CASE MainReports
  BY <1>10, ReportAdvances DEF MainReports
<1> QED BY <1>2, <1>3, <1>4, <1>5, <1>6, <1>7, <1>8, <1>9, <1>10 DEF ServiceMain

(* The worker ends by itself, or after the context has been stopped. *)
LEMMA WorkerServiceInv == ASSUME ServiceInv, ServiceWorkerThread PROVE ServiceInv'
<1> USE DEF ServiceWorkerThread, SetupHttp, SetupDevices,
            RunReturns, WorkerStopsHttp,
            WorkerClosesDevices, Worker
<1>1. ServiceTyped' /\ service'.stopped = service.stopped
  BY DEF ServiceInv, ServiceTyped, Services
<1>2. Orderly'
  BY <1>1 DEF ServiceInv, Orderly, EndedByItself, WorkerCreated, Mains, BeforeStart,
     StartPending, UntilWorkerEnds, WorkerEnds
<1> QED BY <1>1, <1>2 DEF ServiceInv

(* The handler writes, reports, and stops the context last. *)
LEMMA HandlerServiceInv ==
  ASSUME ServiceInv, ServiceCtrlHandler \/ Interrogate
  PROVE  ServiceInv'
<1>1. CASE ProcessEnds
  BY <1>1, EndServiceInv
<1> USE DEF Handler
<1>2. CASE CheckRunning
  BY <1>2 DEF CheckRunning, ServiceInv, ServiceTyped, Orderly, EndedByItself,
     WorkerCreated, Mains, BeforeStart, StartPending,
              UntilWorkerEnds, WorkerEnds
<1>3. CASE HandlerRefuses \/ HandlerPends
  <2>1. ServiceTyped' /\ status'.state \in {status.state, "stop_pending"}
    BY <1>3 DEF HandlerRefuses, HandlerPends, ServiceInv, ServiceTyped,
       Statuses, States
  <2>2. HandlerRefuses => status'.state = status.state
    BY DEF HandlerRefuses, ServiceInv, ServiceTyped, Statuses
  <2>3. HandlerPends => status'.state = "stop_pending"
    BY DEF HandlerPends, ServiceInv, ServiceTyped, Statuses
  <2> QED
    BY <1>3, <2>1, <2>2, <2>3 DEF HandlerRefuses, HandlerPends, ServiceInv,
       Orderly, EndedByItself, WorkerCreated, Mains, BeforeStart,
       StartPending, UntilWorkerEnds, WorkerEnds
<1>4. CASE HandlerReports \/ Interrogate
  <2>1. scm' = Reported /\ UNCHANGED <<status, service, process, main, worker>>
    BY <1>4 DEF HandlerReports, Interrogate, threads
  <2>2. ServiceTyped'
    BY <2>1, ReportAdvances DEF ServiceInv, ServiceTyped
  <2>3. scm'.state = IF status.state = "zero" THEN scm.state ELSE status.state
    BY <2>1, ReportAdvances DEF ServiceInv
  <2> QED
    BY <1>4, <2>1, <2>2, <2>3 DEF HandlerReports, Interrogate,
       threads, ServiceInv, Orderly,
       EndedByItself, WorkerCreated, Mains, BeforeStart, StartPending,
       UntilWorkerEnds, WorkerEnds
<1>5. CASE /\ \/ HandlerStopsHttp \/ HandlerClosesDevices \/ StopContext
           /\ ~ProcessEnds
  <2>1. ServiceTyped'
    BY <1>5 DEF HandlerStopsHttp, HandlerClosesDevices, StopContext,
       ServiceInv, ServiceTyped, Services
  <2>2. service'.stopped = (service.stopped \/ handler = "stop_context")
    BY <1>5 DEF HandlerStopsHttp, HandlerClosesDevices, StopContext,
       ServiceInv, ServiceTyped, Services
  <2> QED
    BY <1>5, <2>1, <2>2 DEF HandlerStopsHttp, HandlerClosesDevices,
       StopContext, ServiceInv, Orderly,
       EndedByItself, WorkerCreated, Mains, BeforeStart, StartPending,
       UntilWorkerEnds, WorkerEnds
<1> QED BY <1>1, <1>2, <1>3, <1>4, <1>5 DEF ServiceCtrlHandler

(* Installing and removing change what the SCM keeps besides the state.    *)
LEMMA CommandKeepsState ==
  ASSUME ServiceTyped, Give \/ SetServiceInfo \/ Delete
  PROVE  scm' \in Scms /\ scm'.state = scm.state
<1>1. scm \in Scms
  BY DEF ServiceTyped
<1>2. CASE Give
  <2>1. scm' = scm \/ scm' = [scm EXCEPT !.entry = "registered", !.restarts = FALSE]
    BY <1>2 DEF Give
  <2> QED BY <1>1, <2>1, ScmEntry
<1>3. CASE SetServiceInfo
  <2>1. scm' = scm \/ scm' = [scm EXCEPT !.restarts = TRUE]
    BY <1>3 DEF SetServiceInfo
  <2> QED BY <1>1, <2>1, ScmField
<1>4. CASE Delete
  <2>1. PICK e \in {"none", "deleted"} : scm' = [scm EXCEPT !.entry = e, !.due = FALSE]
    BY <1>4 DEF Delete
  <2>2. e \in {"none", "registered", "deleted"}
    OBVIOUS
  <2> QED BY <1>1, <2>1, <2>2, ScmEntry, Zenon
<1> QED BY <1>2, <1>3, <1>4

(* A command sends STOP to a service that is known to run, or changes what *)
(* the SCM keeps besides the state.                                        *)
LEMMA CommandServiceInv == ASSUME ServiceInv, Give \/ InCommand PROVE ServiceInv'
<1> USE DEF Step
<1>1. CASE InstallStarts /\ StartProcess
  BY <1>1, StartServiceInv
<1>2. CASE Control
  BY <1>2 DEF Control, ServiceInv, ServiceTyped, Orderly, EndedByItself,
     WorkerCreated, Mains, BeforeStart, StartPending,
              UntilWorkerEnds, WorkerEnds
<1>3. CASE Give \/ SetServiceInfo \/ Delete
  <2>1. scm' \in Scms /\ scm'.state = scm.state
    BY <1>3, CommandKeepsState DEF ServiceInv
  <2>2. UNCHANGED <<threads, process>>
    BY <1>3 DEF Give, SetServiceInfo, Delete
  <2> QED
    BY <2>1, <2>2 DEF threads, ServiceInv, ServiceTyped, Orderly,
       EndedByItself, WorkerCreated, Mains, BeforeStart, StartPending,
       UntilWorkerEnds, WorkerEnds
<1>4. CASE UNCHANGED <<threads, scm, process>>
  BY <1>4 DEF threads, ServiceInv, ServiceTyped, Orderly, EndedByItself,
     WorkerCreated, Mains, BeforeStart, StartPending,
       UntilWorkerEnds, WorkerEnds
<1> QED
  BY <1>1, <1>2, <1>3, <1>4 DEF InCommand, InstallStarts,
     QueryStatus, Controlled, FinishCommand

(* Every step keeps the inductive invariant. *)
LEMMA NextServiceInv == ServiceInv /\ [ServiceNext]_service_vars => ServiceInv'
<1> SUFFICES ASSUME ServiceInv, [ServiceNext]_service_vars PROVE ServiceInv' OBVIOUS
<1>1. CASE UNCHANGED service_vars
  BY <1>1 DEF service_vars, threads, ServiceInv, ServiceTyped, Orderly,
     EndedByItself, WorkerCreated, Mains, BeforeStart, StartPending,
       UntilWorkerEnds, WorkerEnds
<1>2. CASE ServiceNext
  BY <1>2, MainServiceInv, WorkerServiceInv, HandlerServiceInv, CommandServiceInv,
     EndServiceInv, StartServiceInv
     DEF ServiceNext, DispatcherReturns, LoopAborts, Restart,
        Boot
<1> QED BY <1>1, <1>2

(* A step within a process only reports, and what it reports is later.     *)
LEMMA StepAdvances ==
  ASSUME ServiceInv, [ServiceNext]_service_vars, process, process', ~EndedByItself
  PROVE  Progress(scm.state) <= Progress(scm'.state)
<1> USE DEF ServiceInv, Orderly
<1>1. CASE scm' = scm
  BY <1>1 DEF Progress, ServiceTyped, Scms, States
<1>2. CASE scm' = Reported
  <2>1. scm'.state = IF status.state = "zero" THEN scm.state ELSE status.state
    BY <1>2, ReportAdvances
  <2> QED
    BY <2>1 DEF ServiceTyped, Scms, States, Progress, EndedByItself,
       WorkerCreated, Mains, BeforeStart, StartPending,
       UntilWorkerEnds, WorkerEnds
<1>3. CASE Give \/ SetServiceInfo \/ Delete
  <2>1. scm'.state = scm.state
    BY <1>3, CommandKeepsState
  <2> QED BY <2>1 DEF Progress, ServiceTyped, Scms, States
<1>4. \/ scm' = scm \/ scm' = Reported
      \/ Give \/ SetServiceInfo \/ Delete
  BY DEF ServiceNext, service_vars, ServiceMain, RegisterHandler,
     WriteStarting, WriteAccept, WriteRunning,
     CreateWorker, WaitForWorker, WriteRefuse, WriteStopped,
     MainReports, DispatcherReturns,
     ProcessEnds, ServiceWorkerThread, SetupHttp,
     SetupDevices, RunReturns, WorkerStopsHttp,
     WorkerClosesDevices, LoopAborts, ServiceCtrlHandler,
     CheckRunning, HandlerRefuses, HandlerPends,
     HandlerReports, HandlerStopsHttp, HandlerClosesDevices,
     StopContext, Interrogate,
     InCommand, InstallStarts, StartProcess, QueryStatus,
     Control, Controlled, FinishCommand, Restart, Boot
<1> QED BY <1>1, <1>2, <1>3, <1>4

(* Whatever the threads report in turns, and half-written as it may be, a  *)
(* process whose worker does not end by itself never seems to go back      *)
(* (winservice.cpp:147-220).                                               *)
THEOREM NeverGoesBack == ServiceSpec => StatusNeverGoesBack
<1>1. ServiceInv /\ [ServiceNext]_service_vars => [process /\ process' /\ ~EndedByItself
        => Progress(scm.state) <= Progress(scm'.state)]_service_vars
  BY StepAdvances
<1> QED BY <1>1, InitServiceInv, NextServiceInv, PTL DEF ServiceSpec, StatusNeverGoesBack

-----------------------------------------------------------------------------
(* The typing of the rest: where the threads are, and what the operator does. *)
LEMMA PlacesTyped ==
  ASSUME ServiceTypeOK, [ServiceNext]_service_vars
  PROVE  /\ main' \in Mains
         /\ handler' \in {"idle", "stop", "refuse", "pending", "report", "stop_http",
              "close_devices", "stop_context"}
         /\ worker' \in {"none", "setup_http", "setup_devices", "run", "stop_http",
              "close_devices", "ended", "threw"}
<1> USE DEF ServiceTypeOK, Mains, threads
<1>1. CASE UNCHANGED threads
  BY <1>1
<1>2. CASE ServiceMain
  BY <1>2 DEF ServiceMain, Main, RegisterHandler,
     WriteStarting, WriteAccept, WriteRunning,
     CreateWorker, WaitForWorker, WriteRefuse, WriteStopped,
     MainReports
<1>3. CASE ServiceWorkerThread
  BY <1>3 DEF ServiceWorkerThread, Worker, SetupHttp,
     SetupDevices, RunReturns, WorkerStopsHttp,
     WorkerClosesDevices
<1>4. CASE ServiceCtrlHandler
  BY <1>4 DEF ServiceCtrlHandler, Handler, CheckRunning,
     HandlerRefuses, HandlerPends,
     HandlerReports, HandlerStopsHttp, HandlerClosesDevices,
     StopContext, ProcessEnds
<1>5. CASE StartProcess
  BY <1>5 DEF StartProcess
<1>6. CASE Control
  BY <1>6 DEF Control
<1> QED
  BY <1>1, <1>2, <1>3, <1>4, <1>5, <1>6 DEF ServiceNext, service_vars,
     DispatcherReturns, LoopAborts, ProcessEnds,
     Interrogate, Give, InCommand, SetServiceInfo,
     InstallStarts, QueryStatus, Controlled, Delete,
     FinishCommand, Restart, Boot

(* The operator's record keeps its fields, whatever step it takes.           *)
OperatorSteps == {"idle", "info", "start", "query", "control", "answer", "delete",
                  "succeeded", "failed"}
Operators == [command : {"none", "install", "uninstall", "stop"},
              step : OperatorSteps, sent : 0..MaxStarts]

(* The operator goes to another step, and may have sent commands. *)
LEMMA OperatorField ==
  ASSUME NEW o \in Operators, NEW s \in OperatorSteps
  PROVE  /\ [o EXCEPT !.step = s] \in Operators
         /\ \A n \in 0..MaxStarts : [o EXCEPT !.step = s, !.sent = n] \in Operators
<1> DEFINE x == [o EXCEPT !.step = s]
<1>1. x \in Operators
  BY DEF Operators
<1> HIDE DEF x
<1>2. \A n \in 0..MaxStarts : [x EXCEPT !.sent = n] \in Operators
  BY <1>1 DEF Operators
<1> QED BY <1>1, <1>2 DEF x

(* What the operator does, and how often.                                    *)
LEMMA OutsideTyped ==
  ASSUME ServiceTypeOK, [ServiceNext]_service_vars
  PROVE  /\ operator' \in Operators
         /\ commands' \in 0..MaxCommands /\ starts' \in 0..MaxStarts
<1>1. operator \in Operators /\ commands \in 0..MaxCommands /\ starts \in 0..MaxStarts
  BY DEF ServiceTypeOK, Operators, OperatorSteps
<1>2. \/ starts' = starts
      \/ starts < MaxStarts /\ starts' = starts + 1
  <2>1. StartProcess => starts < MaxStarts /\ starts' = starts + 1
    BY DEF StartProcess
  <2>2. UNCHANGED Outside => starts' = starts
    BY DEF Outside
  <2>3. Give => starts' = starts
    BY DEF Give
  <2>4. InCommand => StartProcess \/ starts' = starts
    BY DEF InCommand, SetServiceInfo, InstallStarts,
       QueryStatus, Control, Controlled, Delete, FinishCommand
  <2>5. StartProcess \/ UNCHANGED Outside \/ Give \/ InCommand
    BY DEF ServiceNext, service_vars, Outside, Restart, Boot
  <2> QED BY <2>1, <2>2, <2>3, <2>4, <2>5
<1>3. \/ commands' = commands
      \/ commands < MaxCommands /\ commands' = commands + 1
  <2>1. Give => commands < MaxCommands /\ commands' = commands + 1
    BY DEF Give
  <2>2. InCommand => commands' = commands
    BY DEF InCommand, SetServiceInfo, InstallStarts,
       QueryStatus, Control, Controlled, Delete, FinishCommand
  <2>3. UNCHANGED commands \/ Give \/ InCommand
    BY DEF ServiceNext, service_vars, Outside, Restart, Boot
  <2> QED BY <2>1, <2>2, <2>3
<1>4. commands' \in 0..MaxCommands /\ starts' \in 0..MaxStarts
  BY <1>1, <1>2, <1>3, WindowsServiceAssumption
<1>5. CASE operator' = operator
  BY <1>1, <1>4, <1>5
<1>6. CASE Give
  <2>1. PICK c \in {"install", "uninstall", "stop"} :
          operator' = [command |-> c, sent |-> 0,
                       step |-> CASE c = "install" -> "info"
                                  [] c = "uninstall" -> "query"
                                  [] c = "stop" -> "control"]
    BY <1>6 DEF Give
  <2>2. (CASE c = "install" -> "info" [] c = "uninstall" -> "query" [] c = "stop" -> "control")
          \in OperatorSteps
    BY DEF OperatorSteps
  <2>3. 0 \in 0..MaxStarts
    BY WindowsServiceAssumption
  <2>4. operator' \in Operators
    BY <2>1, <2>2, <2>3 DEF Operators
  <2> QED BY <1>4, <2>4
<1>7. CASE InCommand
  <2>1. \/ operator' = operator
        \/ \E s \in OperatorSteps : operator' = [operator EXCEPT !.step = s]
        \/ operator' = [operator EXCEPT !.step = "answer", !.sent = starts]
    BY <1>7 DEF InCommand, Step, SetServiceInfo,
       InstallStarts, QueryStatus, Control, Controlled,
       Delete, FinishCommand, OperatorSteps
  <2>2. "answer" \in OperatorSteps
    BY DEF OperatorSteps
  <2>3. operator' \in Operators
    BY <1>1, <2>1, <2>2, OperatorField
  <2> QED BY <1>4, <2>3
<1> QED
  BY <1>5, <1>6, <1>7 DEF ServiceNext, service_vars, Outside, Restart,
     Boot

(* The threads, the SCM and the operator stay where they can be, through   *)
(* every start, command and end of the process.                            *)
THEOREM ServiceTypeCorrect == ServiceSpec => []ServiceTypeOK
<1>1. ServiceInit => ServiceTypeOK
  <2> SUFFICES ASSUME ServiceInit PROVE ServiceTypeOK OBVIOUS
  <2>1. ServiceTyped
    BY InitServiceInv DEF ServiceInv
  <2>2. 0 \in 0..MaxStarts /\ 0 \in 0..MaxCommands
    BY WindowsServiceAssumption
  <2> QED BY <2>1, <2>2 DEF ServiceTyped, Statuses, Services, Scms, ServiceInit, ServiceTypeOK
<1>2. ServiceTypeOK /\ ServiceInv /\ ServiceInv' /\ [ServiceNext]_service_vars
        => ServiceTypeOK'
  <2> SUFFICES ASSUME ServiceTypeOK, ServiceInv', [ServiceNext]_service_vars
               PROVE  ServiceTypeOK'
    OBVIOUS
  <2>1. ServiceTyped'
    BY DEF ServiceInv
  <2> QED
    BY <2>1, PlacesTyped, OutsideTyped
       DEF ServiceTyped, Statuses, Services, Scms, Mains, Operators, OperatorSteps,
          ServiceTypeOK
<1>3. ServiceInit => ServiceInv
  BY InitServiceInv
<1>4. ServiceInv /\ [ServiceNext]_service_vars => ServiceInv'
  BY NextServiceInv
<1> QED BY <1>1, <1>2, <1>3, <1>4, PTL DEF ServiceSpec
=============================================================================
