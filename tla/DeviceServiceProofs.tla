------------------------ MODULE DeviceServiceProofs ------------------------
(***************************************************************************)
(* Proofs about DeviceService, for any number of devices and of            *)
(* overlapping walks.                                                      *)
(***************************************************************************)
EXTENDS DeviceService, TLAPS

USE DeviceServiceAssumption DEF Devices, Exclusive

(* The inductive invariant.  OneInit alone is not inductive: that a port   *)
(* refuses a second opening only helps because a walk keeps the port of    *)
(* the device it initialises open (InitOwnsPort), and that nobody closes   *)
(* it meanwhile needs a poll loop to exist only while its device is        *)
(* connected (OneLoop).                                                    *)
IInv ==
  /\ TypeOK
  /\ OneInit
  /\ InitOwnsPort
  /\ OneLoop
  /\ Watched
  /\ PortNotLeaked

(* At first no device is connected, initialised or watched. *)
LEMMA InitIInv == Init => IInv
  BY DEF Init, IInv, TypeOK, OneInit, InitOwnsPort, OneLoop, Watched,
         PortNotLeaked, Initialising

(* The walks never leave the device vector and the variables keep their    *)
(* types.                                                                  *)
LEMMA NextTypeOK == TypeOK /\ [Next]_vars => TypeOK'
<1> SUFFICES ASSUME TypeOK, [Next]_vars PROVE TypeOK'
  OBVIOUS
<1> USE DEF TypeOK
<1>1. ASSUME NEW c \in Connectors, OneMinuteService(c) PROVE TypeOK'
  BY <1>1 DEF OneMinuteService, ports, loops
<1>2. ASSUME NEW c \in Connectors, EndWalk(c) PROVE TypeOK'
  BY <1>2 DEF EndWalk, ports, loops
<1>3. ASSUME NEW c \in Connectors, NEW d \in Devices, ConnectDevice(c, d)
      PROVE TypeOK'
  <2> USE DEF Attempts, Visits, GoOn, ports, loops
  <2>1. CASE SkipDevice(c, d)
    <3>1. at' \in [Connectors -> 1..(NumDevices + 1)]
      BY <2>1 DEF SkipDevice
    <3>2. QED
      BY <2>1, <3>1 DEF SkipDevice
  <2>2. CASE OpenFails(c, d)
    <3>1. open' \in [Devices -> BOOLEAN]
      BY <2>2, Zenon DEF OpenFails
    <3>2. QED
      BY <2>2, <3>1 DEF OpenFails
  <2>3. CASE OpenLeaks(c, d)
    <3>1. at' \in [Connectors -> 1..(NumDevices + 1)]
      BY <2>3 DEF OpenLeaks
    <3>2. QED
      BY <2>3, <3>1 DEF OpenLeaks
  <2>4. CASE OpenSucceeds(c, d)
    BY <2>4 DEF OpenSucceeds
  <2>5. QED
    BY <1>3, <2>1, <2>2, <2>3, <2>4 DEF ConnectDevice
<1>4. ASSUME NEW c \in Connectors, NEW d \in Devices, InitReturns(c, d)
      PROVE TypeOK'
  <2> USE DEF GoOn, ports, loops
  <2>1. CASE InitSucceeds(c, d)
    <3>1. at' \in [Connectors -> 1..(NumDevices + 1)]
      BY <2>1 DEF InitSucceeds
    <3>2. posted' \in [Devices -> Nat]
      BY <2>1 DEF InitSucceeds
    <3>3. QED
      BY <2>1, <3>1, <3>2 DEF InitSucceeds
  <2>2. CASE InitFails(c, d)
    <3>1. at' \in [Connectors -> 1..(NumDevices + 1)]
      BY <2>2 DEF InitFails
    <3>2. QED
      BY <2>2, <3>1 DEF InitFails
  <2>3. CASE InitFailsCloseThrows(c, d)
    BY <2>3 DEF InitFailsCloseThrows
  <2>4. CASE InitHangs(c, d)
    BY <2>4 DEF InitHangs
  <2>5. QED
    BY <1>4, <2>1, <2>2, <2>3, <2>4 DEF InitReturns
<1>5. ASSUME NEW d \in Devices, PollStarts(d) PROVE TypeOK'
  <2>1. CASE connected[d]
    BY <1>5, <2>1 DEF PollStarts, conns, ports
  <2>2. CASE ~connected[d]
    BY <1>5, <2>2 DEF PollStarts, conns, ports
  <2>3. QED
    BY <2>1, <2>2
<1>6. ASSUME NEW d \in Devices, PollReads(d) PROVE TypeOK'
  <2>1. CASE connected[d]
    BY <1>6, <2>1 DEF PollReads, conns, ports
  <2>2. CASE ~connected[d]
    BY <1>6, <2>2 DEF PollReads, conns, ports
  <2>3. QED
    BY <2>1, <2>2
<1>7. ASSUME NEW d \in Devices, PollFails(d) PROVE TypeOK'
  <2>1. reading' \in [Devices -> Nat]
    BY <1>7 DEF PollFails
  <2>2. open' \in [Devices -> BOOLEAN] /\ connected' \in [Devices -> BOOLEAN]
    BY <1>7, Zenon DEF PollFails
  <2>3. QED
    BY <1>7, <2>1, <2>2 DEF PollFails, conns
<1>8. ASSUME NEW d \in Devices, PollFailsCloseThrows(d) PROVE TypeOK'
  BY <1>8 DEF PollFailsCloseThrows, conns, loops
<1>9. ASSUME NEW d \in Devices, PlugOrUnplug(d) PROVE TypeOK'
  BY <1>9 DEF PlugOrUnplug, conns, ports, loops
<1>10. CASE UNCHANGED vars
  BY <1>10 DEF vars
<1> QED
  BY <1>1, <1>2, <1>3, <1>4, <1>5, <1>6, <1>7, <1>8, <1>9, <1>10 DEF Next

(* A step after which no more walks are inside initialize() than before,    *)
(* and which leaves the ports of these alone, keeps both of them right.    *)
LEMMA FewerInitialise ==
  ASSUME OneInit, InitOwnsPort,
         \A c \in Connectors, x \in Devices :
            Initialising(c, x)' => Initialising(c, x),
         \A c \in Connectors, x \in Exclusive :
            Initialising(c, x)' => (open[x] => open'[x]) /\ (connected'[x] => connected[x])
  PROVE  OneInit' /\ InitOwnsPort'
<1>1. OneInit'
  BY DEF OneInit
<1>2. InitOwnsPort'
  BY DEF InitOwnsPort
<1>3. QED
  BY <1>1, <1>2

(* The steps of a walk that does not hold a device: nobody can be inside   *)
(* initialize() of the device whose port it finds closed.                  *)
LEMMA WalkIInv ==
  ASSUME IInv, TypeOK', NEW c \in Connectors,
         \/ OneMinuteService(c)
         \/ EndWalk(c)
         \/ \E d \in Devices : ConnectDevice(c, d)
  PROVE  IInv'
<1> USE DEF IInv, TypeOK, ports, loops
<1>1. CASE OneMinuteService(c)
  <2>1. OneInit'
    BY <1>1 DEF OneMinuteService, OneInit, InitOwnsPort, Initialising
  <2>2. InitOwnsPort'
    BY <1>1 DEF OneMinuteService, InitOwnsPort, OneInit, Initialising
  <2>3. OneLoop'
    BY <1>1 DEF OneMinuteService, OneLoop, InitOwnsPort, Initialising
  <2>4. Watched'
    BY <1>1 DEF OneMinuteService, Watched
  <2>5. PortNotLeaked'
    BY <1>1 DEF OneMinuteService, PortNotLeaked, OneLoop, InitOwnsPort, Initialising
  <2>6. QED
    BY <2>1, <2>2, <2>3, <2>4, <2>5
<1>2. CASE EndWalk(c)
  <2>1. OneInit'
    BY <1>2 DEF EndWalk, OneInit, InitOwnsPort, Initialising
  <2>2. InitOwnsPort'
    BY <1>2 DEF EndWalk, InitOwnsPort, OneInit, Initialising
  <2>3. OneLoop'
    BY <1>2 DEF EndWalk, OneLoop, InitOwnsPort, Initialising
  <2>4. Watched'
    BY <1>2 DEF EndWalk, Watched
  <2>5. PortNotLeaked'
    BY <1>2 DEF EndWalk, PortNotLeaked, OneLoop, InitOwnsPort, Initialising
  <2>6. QED
    BY <2>1, <2>2, <2>3, <2>4, <2>5
<1>3. ASSUME NEW d \in Devices, ConnectDevice(c, d) PROVE IInv'
  <2> USE DEF Attempts, Visits, GoOn
  <2>1. CASE SkipDevice(c, d)
    <3>1. OneInit' /\ InitOwnsPort'
      <4>1. \A c1 \in Connectors, x \in Devices :
            Initialising(c1, x)' => Initialising(c1, x)
        BY <2>1 DEF SkipDevice, Initialising
      <4>2. \A c1 \in Connectors, x \in Exclusive :
            Initialising(c1, x)' => (open[x] => open'[x]) /\ (connected'[x] => connected[x])
        BY <2>1 DEF SkipDevice
      <4>3. QED
        BY <4>1, <4>2, FewerInitialise
    <3>3. OneLoop'
      BY <2>1 DEF SkipDevice, OneLoop, InitOwnsPort, Initialising
    <3>4. Watched'
      BY <2>1 DEF SkipDevice, Watched
    <3>5. PortNotLeaked'
      BY <2>1 DEF SkipDevice, PortNotLeaked, OneLoop, InitOwnsPort, Initialising
    <3>6. QED
      BY <3>1, <3>3, <3>4, <3>5
  <2>2. CASE OpenFails(c, d)
    <3>1. OneInit' /\ InitOwnsPort'
      <4>1. \A c1 \in Connectors, x \in Devices :
            Initialising(c1, x)' => Initialising(c1, x)
        BY <2>2 DEF OpenFails, Initialising
      <4>2. \A c1 \in Connectors, x \in Exclusive :
            Initialising(c1, x)' => (open[x] => open'[x]) /\ (connected'[x] => connected[x])
        BY <2>2 DEF OpenFails
      <4>3. QED
        BY <4>1, <4>2, FewerInitialise
    <3>3. OneLoop'
      BY <2>2 DEF OpenFails, OneLoop, InitOwnsPort, Initialising
    <3>4. Watched'
      BY <2>2 DEF OpenFails, Watched
    <3>5. PortNotLeaked'
      <4>1. \A x \in Exclusive : open'[x] => open[x]
        BY <2>2 DEF OpenFails
      <4>2. connected' = connected
        BY <2>2 DEF OpenFails
      <4>3. ASSUME NEW x \in Devices, NEW c1 \in Connectors, Initialising(c1, x)
            PROVE  Initialising(c1, x)'
        BY <2>2, <4>3 DEF OpenFails, Initialising
      <4>4. QED
        BY <4>1, <4>2, <4>3 DEF PortNotLeaked
    <3>6. QED
      BY <3>1, <3>3, <3>4, <3>5
  <2>3. CASE OpenLeaks(c, d)
    <3>1. OneInit' /\ InitOwnsPort'
      <4>1. \A c1 \in Connectors, x \in Devices :
            Initialising(c1, x)' => Initialising(c1, x)
        BY <2>3 DEF OpenLeaks, Initialising
      <4>2. \A c1 \in Connectors, x \in Exclusive :
            Initialising(c1, x)' => (open[x] => open'[x]) /\ (connected'[x] => connected[x])
        BY <2>3 DEF OpenLeaks
      <4>3. QED
        BY <4>1, <4>2, FewerInitialise
    <3>3. OneLoop'
      BY <2>3 DEF OpenLeaks, OneLoop, InitOwnsPort, Initialising
    <3>4. Watched'
      BY <2>3 DEF OpenLeaks, Watched
    <3>5. PortNotLeaked'
      <4>1. d \notin Exclusive \ Rejects
        BY <2>3 DEF OpenLeaks
      <4>2. \A x \in Devices \ {d} : open'[x] = open[x] /\ connected'[x] = connected[x]
        BY <2>3 DEF OpenLeaks
      <4>3. \A c1 \in Connectors, x \in Devices :
              Initialising(c1, x)' <=> Initialising(c1, x)
        BY <2>3 DEF OpenLeaks, Attempts, Visits, Initialising
      <4>4. QED
        BY <4>1, <4>2, <4>3 DEF PortNotLeaked
    <3>6. QED
      BY <3>1, <3>3, <3>4, <3>5
  <2>4. CASE OpenSucceeds(c, d)
    <3>1. OneInit'
      BY <2>4 DEF OpenSucceeds, OneInit, InitOwnsPort, Initialising
    <3>2. InitOwnsPort'
      BY <2>4 DEF OpenSucceeds, InitOwnsPort, OneInit, Initialising
    <3>3. OneLoop'
      BY <2>4 DEF OpenSucceeds, OneLoop, InitOwnsPort, Initialising
    <3>4. Watched'
      BY <2>4 DEF OpenSucceeds, Watched
    <3>5. PortNotLeaked'
      BY <2>4 DEF OpenSucceeds, PortNotLeaked, OneLoop, InitOwnsPort, Initialising
    <3>6. QED
      BY <3>1, <3>2, <3>3, <3>4, <3>5
  <2>5. QED
    BY <1>3, <2>1, <2>2, <2>3, <2>4 DEF ConnectDevice
<1>4. QED
  BY <1>1, <1>2, <1>3

(* The ways initialize() ends: the walk owned the device, so the only poll *)
(* loop it can have afterwards is the one it posted.                       *)
LEMMA InitReturnsIInv ==
  ASSUME IInv, TypeOK', NEW c \in Connectors, NEW d \in Devices,
         InitReturns(c, d)
  PROVE  IInv'
<1> USE DEF IInv, TypeOK, GoOn, ports, loops
<1>1. CASE InitSucceeds(c, d)
  <2>a. /\ Initialising(c, d)
        /\ \A x \in Devices : ~Initialising(c, x)'
        /\ \A c1 \in Connectors \ {c}, x \in Devices :
              Initialising(c1, x)' <=> Initialising(c1, x)
    BY <1>1 DEF InitSucceeds, Initialising
  <2>b. /\ open' = open
        /\ connected' = [connected EXCEPT ![d] = TRUE]
        /\ posted' = [posted EXCEPT ![d] = @ + 1]
        /\ reading' = reading
    BY <1>1 DEF InitSucceeds
  <2>1. OneInit'
    <3> SUFFICES ASSUME NEW x \in Exclusive, NEW c1 \in Connectors,
                        NEW c2 \in Connectors,
                        Initialising(c1, x)', Initialising(c2, x)'
                 PROVE  c1 = c2
      BY DEF OneInit
    <3>1. Initialising(c1, x) /\ Initialising(c2, x)
      BY <2>a
    <3>2. QED
      BY <3>1 DEF OneInit
  <2>2. InitOwnsPort'
    <3> SUFFICES ASSUME NEW x \in Exclusive, NEW c1 \in Connectors,
                        Initialising(c1, x)'
                 PROVE  open'[x] /\ ~connected'[x]
      BY DEF InitOwnsPort
    <3>1. Initialising(c1, x) /\ c1 # c
      BY <2>a
    <3>2. open[x] /\ ~connected[x]
      BY <3>1 DEF InitOwnsPort
    <3>3. x # d
      BY <2>a, <3>1 DEF OneInit
    <3>4. QED
      BY <2>b, <3>2, <3>3
  <2>3. OneLoop'
    <3> SUFFICES ASSUME NEW x \in Exclusive
                 PROVE  posted'[x] + reading'[x] = IF connected'[x] THEN 1 ELSE 0
      BY DEF OneLoop
    <3>1. posted[x] + reading[x] = IF connected[x] THEN 1 ELSE 0
      BY DEF OneLoop
    <3>2. CASE x = d
      <4>1. ~connected[d]
        BY <2>a, <3>2 DEF InitOwnsPort
      <4>2. posted'[d] = posted[d] + 1 /\ reading'[d] = reading[d] /\ connected'[d]
        BY <2>b
      <4>3. posted[d] \in Nat /\ reading[d] \in Nat
        OBVIOUS
      <4> HIDE DEF IInv, TypeOK
      <4>4. posted'[d] + reading'[d] = 1
        BY <3>1, <3>2, <4>1, <4>2, <4>3
      <4>5. QED
        BY <3>2, <4>2, <4>4
    <3>3. CASE x # d
      BY <2>b, <3>1, <3>3
    <3>4. QED
      BY <3>2, <3>3
  <2>4. Watched'
    BY <1>1 DEF InitSucceeds, Watched
  <2>5. PortNotLeaked'
    BY <1>1 DEF InitSucceeds, PortNotLeaked, OneLoop, InitOwnsPort, Initialising
  <2>6. QED
    BY <2>1, <2>2, <2>3, <2>4, <2>5
<1>2. CASE InitFails(c, d)
  <2>1. OneInit' /\ InitOwnsPort'
    <3>1. \A c1 \in Connectors, x \in Devices :
          Initialising(c1, x)' => Initialising(c1, x)
      BY <1>2 DEF InitFails, Initialising
    <3>2. \A c1 \in Connectors, x \in Exclusive :
          Initialising(c1, x)' => (open[x] => open'[x]) /\ (connected'[x] => connected[x])
      BY <1>2, <3>1 DEF InitFails, OneInit, Initialising
    <3>3. QED
      BY <3>1, <3>2, FewerInitialise
  <2>3. OneLoop'
    BY <1>2 DEF InitFails, OneLoop, InitOwnsPort, Initialising
  <2>4. Watched'
    BY <1>2 DEF InitFails, Watched
  <2>5. PortNotLeaked'
    BY <1>2 DEF InitFails, PortNotLeaked, OneLoop, InitOwnsPort, Initialising
  <2>6. QED
    BY <2>1, <2>3, <2>4, <2>5
<1>3. CASE InitFailsCloseThrows(c, d)
  <2>1. OneInit' /\ InitOwnsPort'
    <3>1. \A c1 \in Connectors, x \in Devices :
          Initialising(c1, x)' => Initialising(c1, x)
      BY <1>3 DEF InitFailsCloseThrows, Initialising
    <3>2. \A c1 \in Connectors, x \in Exclusive :
          Initialising(c1, x)' => (open[x] => open'[x]) /\ (connected'[x] => connected[x])
      BY <1>3, <3>1 DEF InitFailsCloseThrows, OneInit, Initialising
    <3>3. QED
      BY <3>1, <3>2, FewerInitialise
  <2>3. OneLoop'
    BY <1>3 DEF InitFailsCloseThrows, OneLoop, InitOwnsPort, Initialising
  <2>4. Watched'
    BY <1>3 DEF InitFailsCloseThrows, Watched
  <2>5. PortNotLeaked'
    BY <1>3 DEF InitFailsCloseThrows, PortNotLeaked, OneLoop, InitOwnsPort, Initialising
  <2>6. QED
    BY <2>1, <2>3, <2>4, <2>5
<1>4. CASE InitHangs(c, d)
  <2>1. OneInit' /\ InitOwnsPort'
    <3>1. \A c1 \in Connectors, x \in Devices :
          Initialising(c1, x)' => Initialising(c1, x)
      BY <1>4 DEF InitHangs, Initialising
    <3>2. \A c1 \in Connectors, x \in Exclusive :
          Initialising(c1, x)' => (open[x] => open'[x]) /\ (connected'[x] => connected[x])
      BY <1>4 DEF InitHangs
    <3>3. QED
      BY <3>1, <3>2, FewerInitialise
  <2>3. OneLoop'
    BY <1>4 DEF InitHangs, OneLoop, InitOwnsPort, Initialising
  <2>4. Watched'
    BY <1>4 DEF InitHangs, Watched
  <2>5. PortNotLeaked'
    BY <1>4 DEF InitHangs, PortNotLeaked, OneLoop, InitOwnsPort, Initialising
  <2>6. QED
    BY <2>1, <2>3, <2>4, <2>5
<1>5. QED
  BY <1>1, <1>2, <1>3, <1>4 DEF InitReturns

(* The steps of a poll loop: it runs only while its device is connected,   *)
(* so it never closes a port that a walk is using.                         *)
LEMMA PollIInv ==
  ASSUME IInv, TypeOK', NEW d \in Devices,
         PollStarts(d) \/ PollReads(d) \/ PollFails(d) \/ PollFailsCloseThrows(d)
  PROVE  IInv'
<1> USE DEF IInv, TypeOK, conns, ports, loops
<1>1. CASE PollStarts(d)
  <2>1. OneInit' /\ InitOwnsPort'
    <3>1. \A c1 \in Connectors, x \in Devices :
          Initialising(c1, x)' => Initialising(c1, x)
      BY <1>1 DEF PollStarts, Initialising
    <3>2. \A c1 \in Connectors, x \in Exclusive :
          Initialising(c1, x)' => (open[x] => open'[x]) /\ (connected'[x] => connected[x])
      BY <1>1, <3>1 DEF PollStarts, OneLoop, InitOwnsPort
    <3>3. QED
      BY <3>1, <3>2, FewerInitialise
  <2>3. OneLoop'
    BY <1>1 DEF PollStarts, OneLoop, InitOwnsPort, Initialising
  <2>4. Watched'
    BY <1>1 DEF PollStarts, Watched
  <2>5. PortNotLeaked'
    BY <1>1 DEF PollStarts, PortNotLeaked, OneLoop, InitOwnsPort, Initialising
  <2>6. QED
    BY <2>1, <2>3, <2>4, <2>5
<1>2. CASE PollReads(d)
  <2>1. OneInit' /\ InitOwnsPort'
    <3>1. \A c1 \in Connectors, x \in Devices :
          Initialising(c1, x)' => Initialising(c1, x)
      BY <1>2 DEF PollReads, Initialising
    <3>2. \A c1 \in Connectors, x \in Exclusive :
          Initialising(c1, x)' => (open[x] => open'[x]) /\ (connected'[x] => connected[x])
      BY <1>2, <3>1 DEF PollReads, OneLoop, InitOwnsPort
    <3>3. QED
      BY <3>1, <3>2, FewerInitialise
  <2>3. OneLoop'
    BY <1>2 DEF PollReads, OneLoop, InitOwnsPort, Initialising
  <2>4. Watched'
    BY <1>2 DEF PollReads, Watched
  <2>5. PortNotLeaked'
    BY <1>2 DEF PollReads, PortNotLeaked, OneLoop, InitOwnsPort, Initialising
  <2>6. QED
    BY <2>1, <2>3, <2>4, <2>5
<1>3. CASE PollFails(d)
  <2>1. OneInit' /\ InitOwnsPort'
    <3>1. \A c1 \in Connectors, x \in Devices :
          Initialising(c1, x)' => Initialising(c1, x)
      BY <1>3 DEF PollFails, Initialising
    <3>2. \A c1 \in Connectors, x \in Exclusive :
          Initialising(c1, x)' => (open[x] => open'[x]) /\ (connected'[x] => connected[x])
      BY <1>3, <3>1 DEF PollFails, OneLoop, InitOwnsPort
    <3>3. QED
      BY <3>1, <3>2, FewerInitialise
  <2>3. OneLoop'
    BY <1>3 DEF PollFails, OneLoop, InitOwnsPort, Initialising
  <2>4. Watched'
    BY <1>3 DEF PollFails, Watched
  <2>5. PortNotLeaked'
    <3>1. d \in Exclusive => connected[d]
      BY <1>3 DEF PollFails, OneLoop
    <3>2. d \in Exclusive => ~open'[d]
      BY <1>3, <3>1 DEF PollFails
    <3>3. \A x \in Devices \ {d} : open'[x] = open[x] /\ connected'[x] = connected[x]
      BY <1>3 DEF PollFails
    <3>4. \A c1 \in Connectors, x \in Devices :
            Initialising(c1, x)' <=> Initialising(c1, x)
      BY <1>3 DEF PollFails, Initialising
    <3>5. QED
      BY <3>2, <3>3, <3>4 DEF PortNotLeaked
  <2>6. QED
    BY <2>1, <2>3, <2>4, <2>5
<1>4. CASE PollFailsCloseThrows(d)
  <2>1. OneInit' /\ InitOwnsPort'
    <3>1. \A c1 \in Connectors, x \in Devices :
          Initialising(c1, x)' => Initialising(c1, x)
      BY <1>4 DEF PollFailsCloseThrows, Initialising
    <3>2. \A c1 \in Connectors, x \in Exclusive :
          Initialising(c1, x)' => (open[x] => open'[x]) /\ (connected'[x] => connected[x])
      BY <1>4, <3>1 DEF PollFailsCloseThrows, InitOwnsPort
    <3>3. QED
      BY <3>1, <3>2, FewerInitialise
  <2>3. OneLoop'
    BY <1>4 DEF PollFailsCloseThrows, OneLoop, InitOwnsPort, Initialising
  <2>4. Watched'
    BY <1>4 DEF PollFailsCloseThrows, Watched
  <2>5. PortNotLeaked'
    BY <1>4 DEF PollFailsCloseThrows, PortNotLeaked, OneLoop, InitOwnsPort, Initialising
  <2>6. QED
    BY <2>1, <2>3, <2>4, <2>5
<1>5. QED
  BY <1>1, <1>2, <1>3, <1>4

(* Every step keeps the invariant: one case per action. *)
LEMMA NextIInv == IInv /\ [Next]_vars => IInv'
<1> SUFFICES ASSUME IInv, [Next]_vars PROVE IInv'
  OBVIOUS
<1>1. TypeOK'
  BY NextTypeOK DEF IInv
<1>2. ASSUME NEW d \in Devices, PlugOrUnplug(d) PROVE IInv'
  BY <1>1, <1>2 DEF PlugOrUnplug, conns, ports, loops, IInv, OneInit,
     InitOwnsPort, OneLoop, Watched, PortNotLeaked, Initialising
<1>3. CASE UNCHANGED vars
  BY <1>1, <1>3 DEF vars, IInv, OneInit, InitOwnsPort, OneLoop, Watched,
     PortNotLeaked, Initialising
<1>4. QED
  BY <1>1, <1>2, <1>3, WalkIInv, InitReturnsIInv, PollIInv DEF Next

(* The inductive invariant holds of every reachable state. *)
THEOREM InductiveInvariant == Spec => []IInv
  BY InitIInv, NextIInv, PTL DEF Spec

(* Every reachable state has the declared types: in particular no walk     *)
(* leaves the device vector and no loop count becomes negative.            *)
THEOREM TypeCorrect == Spec => []TypeOK
<1>1. IInv => TypeOK
  BY DEF IInv
<1>2. QED
  BY <1>1, InductiveInvariant, PTL

(* No two walks are inside initialize() of the same device, however many   *)
(* minutes' walks overlap, and a failing initialisation never closes the   *)
(* port of a connected device (Port_device::connect).                      *)
THEOREM SingleOwner == Spec => []OneOwner
<1>1. IInv => OneOwner
  BY DEF IInv, OneOwner
<1>2. QED
  BY <1>1, InductiveInvariant, PTL

(* Reconnecting never leaves two poll loops on a device, and every         *)
(* connected device has one to notice its loss, even one whose port        *)
(* reopens under two walks (set_connected, start_polling).                 *)
THEOREM ConnectedIsWatched == Spec => []WatchedOnce
<1>1. IInv => WatchedOnce
  BY DEF IInv, WatchedOnce
<1>2. QED
  BY <1>1, InductiveInvariant, PTL

(* A port that accepts its settings is open only while somebody uses it,   *)
(* so that the next walk can open it (Port_device::connect).               *)
THEOREM NoPortLeaks == Spec => []PortNotLeaked
<1>1. IInv => PortNotLeaked
  BY DEF IInv
<1>2. QED
  BY <1>1, InductiveInvariant, PTL

-----------------------------------------------------------------------------
(* The refinement                                                          *)

(* All devices are closed at first, in the life cycle too. *)
LEMMA InitRefines == Init => LifeCycle!Init
  BY DEF Init, LifeCycle!Init, Phases, PhaseOf, Initialising

(* A step that changes whether one device d is connected or initialised,   *)
(* and nothing of the sort elsewhere, moves that device alone.             *)
LEMMA MoveOne ==
  ASSUME NEW d \in Exclusive, NEW from, NEW to,
         PhaseOf(d) = from, PhaseOf(d)' = to,
         \A x \in Exclusive \ {d} : PhaseOf(x)' = PhaseOf(x)
  PROVE  LifeCycle!Moves(d, from, to)
  BY DEF LifeCycle!Moves, Phases

(* The phase of a device depends on its connection and its walks only. *)
LEMMA SamePhase ==
  ASSUME NEW x \in Devices,
         connected'[x] = connected[x],
         \A c \in Connectors : Initialising(c, x)' <=> Initialising(c, x)
  PROVE  PhaseOf(x)' = PhaseOf(x)
  BY DEF PhaseOf

(* A step that connects and initialises nothing is a stutter there. *)
LEMMA StayPut ==
  ASSUME connected' = connected,
         \A x \in Devices, c \in Connectors :
           Initialising(c, x)' <=> Initialising(c, x)
  PROVE  UNCHANGED Phases
<1>1. \A x \in Exclusive : PhaseOf(x)' = PhaseOf(x)
  BY SamePhase
<1>2. QED
  BY <1>1 DEF Phases

(* Opening the port starts the initialisation of a device that nobody      *)
(* initialises: its port was closed.                                       *)
LEMMA OpenStarts ==
  ASSUME IInv, NEW c \in Connectors, NEW d \in Devices, OpenSucceeds(c, d)
  PROVE  [LifeCycle!Next]_Phases
<1> USE DEF IInv, TypeOK
<1>1. /\ connected' = connected
      /\ \A c1 \in Connectors, x \in Devices \ {d} :
            Initialising(c1, x)' <=> Initialising(c1, x)
      /\ Initialising(c, d)'
  BY DEF OpenSucceeds, Attempts, Visits, Initialising
<1>2. \A x \in Devices \ {d} : PhaseOf(x)' = PhaseOf(x)
  BY <1>1, SamePhase
<1>3. CASE d \in Exclusive
  <2>1. ~connected[d] /\ ~open[d]
    BY <1>3 DEF OpenSucceeds, Attempts
  <2>2. PhaseOf(d) = "closed"
    BY <1>3, <2>1 DEF PhaseOf, InitOwnsPort
  <2>3. PhaseOf(d)' = "initialising"
    BY <1>1, <2>1 DEF PhaseOf
  <2>4. LifeCycle!Start(d)
    BY <1>2, <1>3, <2>2, <2>3, MoveOne DEF LifeCycle!Start
  <2>5. QED
    BY <1>3, <2>4 DEF LifeCycle!Next
<1>4. CASE d \notin Exclusive
  BY <1>2, <1>4 DEF Phases
<1>5. QED
  BY <1>3, <1>4

(* The walk whose initialize() returns was the only one to initialise the  *)
(* device, so its phase ends.                                              *)
LEMMA InitEnds ==
  ASSUME IInv, IInv', NEW c \in Connectors, NEW d \in Devices, InitReturns(c, d)
  PROVE  [LifeCycle!Next]_Phases
<1> USE DEF IInv, TypeOK
<1>1. CASE InitHangs(c, d)
  <2>1. connected' = connected
    BY <1>1 DEF InitHangs, ports
  <2>2. \A x \in Devices, c1 \in Connectors :
          Initialising(c1, x)' <=> Initialising(c1, x)
    BY <1>1 DEF InitHangs, Initialising
  <2>3. QED
    BY <2>1, <2>2, StayPut
<1>2. CASE InitSucceeds(c, d) \/ InitFails(c, d) \/ InitFailsCloseThrows(c, d)
  <2>1. /\ Initialising(c, d)
        /\ \A x \in Devices : ~Initialising(c, x)'
        /\ \A c1 \in Connectors \ {c}, x \in Devices :
              Initialising(c1, x)' <=> Initialising(c1, x)
    BY <1>2 DEF InitSucceeds, InitFails, InitFailsCloseThrows, GoOn, Initialising
  <2>2. \A x \in Devices \ {d} : connected'[x] = connected[x]
    BY <1>2 DEF InitSucceeds, InitFails, InitFailsCloseThrows
  <2>3. \A x \in Devices \ {d} : ~Initialising(c, x)
    BY <2>1 DEF Initialising
  <2>4. \A x \in Devices \ {d} : PhaseOf(x)' = PhaseOf(x)
    BY <2>1, <2>2, <2>3, SamePhase
  <2>5. CASE d \in Exclusive
    <3>1. ~connected[d]
      BY <2>1, <2>5 DEF InitOwnsPort
    <3>2. PhaseOf(d) = "initialising"
      BY <2>1, <3>1 DEF PhaseOf
    <3>3. \A c1 \in Connectors : ~Initialising(c1, d)'
      BY <2>1, <2>5 DEF OneInit
    <3>4. CASE InitSucceeds(c, d)
      <4>1. PhaseOf(d)' = "connected"
        BY <3>4 DEF PhaseOf, InitSucceeds
      <4>2. LifeCycle!Succeed(d)
        BY <2>4, <2>5, <3>2, <4>1, MoveOne DEF LifeCycle!Succeed
      <4>3. QED
        BY <2>5, <4>2 DEF LifeCycle!Next
    <3>5. CASE InitFails(c, d) \/ InitFailsCloseThrows(c, d)
      <4>1. PhaseOf(d)' = "closed"
        BY <3>1, <3>3, <3>5 DEF PhaseOf, InitFails, InitFailsCloseThrows
      <4>2. LifeCycle!Fail(d)
        BY <2>4, <2>5, <3>2, <4>1, MoveOne DEF LifeCycle!Fail
      <4>3. QED
        BY <2>5, <4>2 DEF LifeCycle!Next
    <3>6. QED
      BY <1>2, <3>4, <3>5
  <2>6. CASE d \notin Exclusive
    BY <2>4, <2>6 DEF Phases
  <2>7. QED
    BY <2>5, <2>6
<1>3. QED
  BY <1>1, <1>2 DEF InitReturns

(* Only a connected device is lost: its poll loop implies that it is.      *)
LEMMA PollLoses ==
  ASSUME IInv, NEW d \in Devices, PollFails(d)
  PROVE  [LifeCycle!Next]_Phases
<1> USE DEF IInv, TypeOK
<1>1. /\ connected' = [connected EXCEPT ![d] = FALSE]
      /\ \A c \in Connectors, x \in Devices :
            Initialising(c, x)' <=> Initialising(c, x)
  BY DEF PollFails, conns, Initialising
<1>2. \A x \in Devices \ {d} : PhaseOf(x)' = PhaseOf(x)
  BY <1>1, SamePhase
<1>3. CASE d \in Exclusive
  <2>1. connected[d]
    BY <1>3 DEF PollFails, OneLoop
  <2>2. PhaseOf(d) = "connected"
    BY <2>1 DEF PhaseOf
  <2>3. \A c \in Connectors : ~Initialising(c, d)
    BY <1>3, <2>1 DEF InitOwnsPort
  <2>4. PhaseOf(d)' = "closed"
    BY <1>1, <2>3 DEF PhaseOf
  <2>5. LifeCycle!Lose(d)
    BY <1>2, <1>3, <2>2, <2>4, MoveOne DEF LifeCycle!Lose
  <2>6. QED
    BY <1>3, <2>5 DEF LifeCycle!Next
<1>4. CASE d \notin Exclusive
  BY <1>2, <1>4 DEF Phases
<1>5. QED
  BY <1>3, <1>4

(* Every step is one of the life cycle of some device, or a stutter. *)
LEMMA NextRefines ==
  IInv /\ IInv' /\ [Next]_vars
    => [LifeCycle!Next]_Phases
<1> SUFFICES ASSUME IInv, IInv', [Next]_vars
             PROVE  [LifeCycle!Next]_Phases
  OBVIOUS
<1>1. ASSUME NEW c \in Connectors, OneMinuteService(c) \/ EndWalk(c)
      PROVE  [LifeCycle!Next]_Phases
  <2>1. connected' = connected
    BY <1>1 DEF OneMinuteService, EndWalk, ports
  <2>2. \A x \in Devices, c1 \in Connectors :
          Initialising(c1, x)' <=> Initialising(c1, x)
    BY <1>1 DEF OneMinuteService, EndWalk, Initialising, IInv, TypeOK
  <2>3. QED
    BY <2>1, <2>2, StayPut
<1>2. ASSUME NEW c \in Connectors, NEW d \in Devices,
             SkipDevice(c, d) \/ OpenFails(c, d) \/ OpenLeaks(c, d)
      PROVE  [LifeCycle!Next]_Phases
  <2>1. connected' = connected
    BY <1>2 DEF SkipDevice, OpenFails, OpenLeaks, ports
  <2>2. \A x \in Devices, c1 \in Connectors :
          Initialising(c1, x)' <=> Initialising(c1, x)
    BY <1>2 DEF SkipDevice, OpenFails, OpenLeaks, Attempts, Visits, GoOn,
                Initialising, IInv, TypeOK
  <2>3. QED
    BY <2>1, <2>2, StayPut
<1>3. ASSUME NEW d \in Devices,
             \/ PollStarts(d) \/ PollReads(d) \/ PollFailsCloseThrows(d)
             \/ PlugOrUnplug(d)
      PROVE  [LifeCycle!Next]_Phases
  <2>1. connected' = connected /\ UNCHANGED conns
    BY <1>3 DEF PollStarts, PollReads, PollFailsCloseThrows, PlugOrUnplug, ports
  <2>2. \A x \in Devices, c1 \in Connectors :
          Initialising(c1, x)' <=> Initialising(c1, x)
    BY <2>1 DEF conns, Initialising
  <2>3. QED
    BY <2>1, <2>2, StayPut
<1>4. CASE UNCHANGED vars
  <2>1. connected' = connected
        /\ \A x \in Devices, c1 \in Connectors :
              Initialising(c1, x)' <=> Initialising(c1, x)
    BY <1>4 DEF vars, Initialising
  <2>2. QED
    BY <2>1, StayPut
<1>5. QED
  BY <1>1, <1>2, <1>3, <1>4, OpenStarts, InitEnds, PollLoses
     DEF Next, ConnectDevice

(* Every device whose port does not reopen sees one routine that           *)
(* initialises, connects and disconnects it in turn, although any number   *)
(* of walks overlap (connect_devices, Port_device::connect, poll_data).    *)
THEOREM Refinement == Spec => LifeCycleSpec
<1>1. Init => LifeCycle!Init
  BY InitRefines
<1>2. IInv /\ IInv' /\ [Next]_vars
        => [LifeCycle!Next]_Phases
  BY NextRefines
<1>3. QED
  BY <1>1, <1>2, InductiveInvariant, PTL DEF Spec, LifeCycleSpec, LifeCycle!Spec
=============================================================================
