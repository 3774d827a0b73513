-------------------------- MODULE HttpServerProofs --------------------------
(***************************************************************************)
(* For any number of connections, any texts and any way in which they are  *)
(* cut: every connection is accounted for, none is answered twice, and the *)
(* parser makes of a text what it would make of it in one piece.           *)
(***************************************************************************)
EXTENDS HttpServer, SequenceTheorems, WellFoundedInduction, TLAPS

(* The operations that a connection can have. *)
Operations ==
  {NoOperation} \cup {Pending(k) : k \in Kinds}
    \cup {Ready(k, r) : k \in Kinds, r \in Results}

Acceptors == [open : BOOLEAN, state : {"none", "pending", "ready"},
              socket : Connections \cup {"none"}]

(* The types, as far as the argument needs them.  What the parser computes *)
(* does not matter.                                                        *)
Typed ==
  /\ acceptor \in Acceptors
  /\ members \subseteq Connections /\ open \subseteq Connections
  /\ operation \in [Connections -> Operations]
  /\ DOMAIN parser = Connections
  /\ client \in [Connections -> {"away", "waiting", "there", "gone"}]
  /\ replies \in [Connections -> 0..1]

(* A connection that has been answered will only be closed. *)
AnsweredIsDone ==
  \A c \in Connections :
    replies[c] = 1 =>
      /\ operation[c] \in {NoOperation, Ready("write", "ok")}
      /\ client[c] \in {"there", "gone"}

(* A connection that the acceptor brings, or has not brought yet, is new. *)
ArrivingIsNew ==
  \A c \in Connections :
    /\ client[c] \in {"away", "waiting"} => operation[c] = NoOperation
    /\ acceptor.socket = c /\ acceptor.socket # "none" =>
         /\ operation[c] = NoOperation /\ replies[c] = 0
         /\ client[c] \in {"there", "gone"}

IInv == Typed /\ EveryConnectionAccounted /\ AnsweredIsDone /\ ArrivingIsNew

-----------------------------------------------------------------------------
(* The server begins without connections. *)
LEMMA InitIInv == Init => IInv
  BY DEF Init, IInv, Typed, Acceptors, EveryConnectionAccounted, AnsweredIsDone,
         ArrivingIsNew, Listening, NoOperation, Operations

(* The acceptor changes by two of its fields at a time. *)
LEMMA AcceptorMoves ==
  ASSUME NEW a \in Acceptors, NEW s \in {"none", "pending", "ready"},
         NEW t \in Connections \cup {"none"}, NEW b \in BOOLEAN
  PROVE  /\ [a EXCEPT !.state = s, !.socket = t] \in Acceptors
         /\ [a EXCEPT !.state = s, !.socket = t].socket = t
         /\ [a EXCEPT !.open = b, !.state = s] \in Acceptors
         /\ [a EXCEPT !.open = b, !.state = s].socket = a.socket
<1> DEFINE x == [a EXCEPT !.state = s]
           y == [a EXCEPT !.open = b]
<1>1. x \in Acceptors /\ y \in Acceptors /\ y.socket = a.socket
  BY DEF Acceptors
<1> HIDE DEF x, y
<1>2. [x EXCEPT !.socket = t] \in Acceptors /\ [x EXCEPT !.socket = t].socket = t
  BY <1>1 DEF Acceptors
<1>3. /\ [y EXCEPT !.state = s] \in Acceptors
      /\ [y EXCEPT !.state = s].socket = y.socket
  BY <1>1 DEF Acceptors
<1> QED BY <1>1, <1>2, <1>3 DEF x, y

(* What is accepted comes from the backlog, and has no operation yet. *)
LEMMA AcceptCompletesNew ==
  ASSUME IInv, NEW c \in Connections, AcceptCompletes(c)
  PROVE  /\ acceptor' \in Acceptors /\ acceptor'.socket = c
         /\ operation[c] = NoOperation /\ replies[c] = 0
<1>1. operation[c] = NoOperation
  BY DEF AcceptCompletes, IInv, ArrivingIsNew
<1>2. replies[c] = 0
  BY DEF AcceptCompletes, IInv, AnsweredIsDone, Typed
<1>3. /\ acceptor \in Acceptors
      /\ acceptor' = [acceptor EXCEPT !.state = "ready", !.socket = c]
  BY DEF AcceptCompletes, IInv, Typed
<1>4. acceptor' \in Acceptors /\ acceptor'.socket = c
  <2>1. "ready" \in {"none", "pending", "ready"} /\ c \in Connections \cup {"none"}
    OBVIOUS
  <2> DEFINE moved == [acceptor EXCEPT !.state = "ready", !.socket = c]
  <2>2. moved \in Acceptors /\ moved.socket = c
    BY <1>3, <2>1, AcceptorMoves
  <2> HIDE DEF moved
  <2>3. acceptor' = moved
    BY <1>3 DEF moved
  <2> QED BY <2>2, <2>3
<1> QED BY <1>1, <1>2, <1>4

(* Connecting and accepting disturb no connection but the one that comes. *)
LEMMA ArrivalIInv ==
  ASSUME IInv, Accept \/ \E c \in Connections : Connect(c) \/ AcceptCompletes(c) \/ AcceptFails(c)
  PROVE  IInv'
<1> USE DEF IInv, Typed, Acceptors, EveryConnectionAccounted, AnsweredIsDone, ArrivingIsNew
<1>1. ASSUME NEW c \in Connections, Connect(c) PROVE IInv'
  BY <1>1 DEF Connect
<1>2. ASSUME NEW c \in Connections, AcceptCompletes(c) PROVE IInv'
  <2>1. /\ acceptor' \in Acceptors /\ acceptor'.socket = c
        /\ operation[c] = NoOperation /\ replies[c] = 0
    BY <1>2, AcceptCompletesNew
  <2>2. Typed'
    BY <1>2, <2>1 DEF AcceptCompletes
  <2>3. EveryConnectionAccounted'
    BY <1>2 DEF AcceptCompletes
  <2>4. AnsweredIsDone' /\ ArrivingIsNew'
    BY <1>2, <2>1 DEF AcceptCompletes
  <2> QED BY <2>2, <2>3, <2>4
<1>3. ASSUME NEW c \in Connections, AcceptFails(c) PROVE IInv'
  BY <1>3 DEF AcceptFails
<1>4. ASSUME Accept PROVE IInv'
  <2>1. CASE ~acceptor.open
    <3>1. acceptor' = [open |-> FALSE, state |-> "none", socket |-> "none"]
      BY <1>4, <2>1 DEF Accept
    <3> QED BY <1>4, <2>1, <3>1 DEF Accept, line
  <2>2. CASE acceptor.open /\ acceptor.socket = "none"
    <3>1. acceptor' = [open |-> TRUE, state |-> "pending", socket |-> "none"]
      BY <1>4, <2>2 DEF Accept, Listening
    <3> QED BY <1>4, <2>2, <3>1 DEF Accept, line
  <2>3. CASE acceptor.open /\ acceptor.socket # "none"
    <3>1. acceptor' = [open |-> TRUE, state |-> "pending", socket |-> "none"]
      BY <1>4, <2>3 DEF Accept, Listening
    <3>2. PICK s \in Connections : s = acceptor.socket
      BY <2>3
    <3>3. /\ members' = members \cup {s} /\ open' = open \cup {s}
          /\ operation' = [operation EXCEPT ![s] = Pending("read")]
          /\ UNCHANGED <<parser, client, replies>>
      BY <1>4, <2>3, <3>2 DEF Accept, line
    <3>4. replies[s] = 0 /\ client[s] \in {"there", "gone"}
      BY <2>3, <3>2
    <3> HIDE <1>4
    <3> USE DEF Pending, Operations, Kinds, NoOperation, Ready
    <3>5. Typed'
      BY <3>1, <3>3
    <3>6. EveryConnectionAccounted'
      BY <3>1, <3>3, <3>4
    <3>7. AnsweredIsDone' /\ ArrivingIsNew'
      BY <3>1, <3>3, <3>4
    <3> QED BY <3>5, <3>6, <3>7
  <2> QED BY <2>1, <2>2, <2>3, <1>4
<1> QED BY <1>1, <1>2, <1>3, <1>4

(* Only what is pending completes, and a reply only when the text has been *)
(* judged.                                                                 *)
LEMMA ReactorIInv ==
  ASSUME IInv, NEW c \in Connections, ClientGoes(c) \/ Reactor(c)
  PROVE  IInv'
<1> USE DEF IInv, Typed, EveryConnectionAccounted, AnsweredIsDone, ArrivingIsNew
<1>1. CASE ClientGoes(c)
  BY <1>1 DEF ClientGoes
<1> USE DEF Completes, Awaits, Pending, Ready, NoOperation, Operations, Kinds,
            Results
<1>2. CASE BytesCome(c)
  BY <1>2 DEF BytesCome
<1>3. CASE ReplyGoes(c)
  <2>1. replies[c] = 0 /\ Judged(parser[c])
    BY <1>3 DEF ReplyGoes
  <2>2. Typed'
    BY <1>3, <2>1 DEF ReplyGoes
  <2>3. EveryConnectionAccounted'
    BY <1>3, <2>1 DEF ReplyGoes
  <2>4. AnsweredIsDone' /\ ArrivingIsNew'
    BY <1>3, <2>1 DEF ReplyGoes
  <2> QED BY <2>2, <2>3, <2>4
<1>4. CASE Fails(c)
  BY <1>4 DEF Fails
<1> QED BY <1>1, <1>2, <1>3, <1>4 DEF Reactor

(* A handler starts the next operation or gives its connection up. *)
LEMMA HandlersIInv ==
  ASSUME IInv, NEW c \in Connections, Handlers(c)
  PROVE  IInv'
<1> USE DEF IInv, Typed, EveryConnectionAccounted, AnsweredIsDone, ArrivingIsNew,
            Handler, Pending, Ready, NoOperation, Operations, Kinds, Results
<1>1. CASE Read(c)
  BY <1>1 DEF Read, Start
<1>2. CASE ReadFails(c)
  BY <1>2 DEF ReadFails, Abandon, StopConnection
<1>3. CASE Written(c)
  BY <1>3 DEF Written, Abandon, StopConnection
<1> QED BY <1>1, <1>2, <1>3 DEF Handlers

(* Stopping aborts what is pending and leaves what is ready. *)
LEMMA StopIInv == ASSUME IInv, Stop PROVE IInv'
<1> USE DEF IInv, Typed
<1>0. acceptor' \in Acceptors /\ acceptor'.socket = acceptor.socket
  <2>1. (IF acceptor.state = "pending" THEN "ready" ELSE acceptor.state)
          \in {"none", "pending", "ready"}
    BY DEF Acceptors
  <2> QED BY <2>1, AcceptorMoves DEF Stop
<1> USE DEF EveryConnectionAccounted, AnsweredIsDone, ArrivingIsNew, Pending, Ready, NoOperation, Operations, Kinds, Results
<1>1. /\ members' = {} /\ open' = {}
      /\ UNCHANGED <<parser, client, replies>>
  BY DEF Stop, line
<1>2. /\ operation' \in [Connections -> Operations]
      /\ \A c \in Connections :
           operation'[c] = IF c \in members /\ operation[c].state = "pending"
                           THEN Ready(operation[c].kind, "aborted") ELSE operation[c]
  BY DEF Stop, Closed
<1>3. Typed'
  BY <1>0, <1>1, <1>2
<1>4. EveryConnectionAccounted'
  BY <1>1, <1>2
<1>5. AnsweredIsDone' /\ ArrivingIsNew'
  BY <1>0, <1>1, <1>2
<1> QED BY <1>3, <1>4, <1>5

(* Every step keeps the inductive invariant. *)
LEMMA NextIInv == IInv /\ [Next]_vars => IInv'
<1> SUFFICES ASSUME IInv, [Next]_vars PROVE IInv' OBVIOUS
<1>1. CASE UNCHANGED vars
  BY <1>1 DEF vars, IInv, Typed, EveryConnectionAccounted, AnsweredIsDone, ArrivingIsNew
<1>2. CASE Next
  BY <1>2, ArrivalIInv, ReactorIInv, HandlersIInv, StopIInv DEF Next
<1> QED BY <1>1, <1>2

(* So it holds for ever. *)
LEMMA Inductive == Spec => []IInv
  BY InitIInv, NextIInv, PTL DEF Spec

-----------------------------------------------------------------------------
(* No connection is lost or served twice: what the manager holds is open   *)
(* and has an operation; what it does not hold is closed (http.cpp:818).   *)
THEOREM ConnectionsAccounted == Spec => []EveryConnectionAccounted
<1>1. IInv => EveryConnectionAccounted BY DEF IInv
<1> QED BY <1>1, Inductive, PTL

(* No client is sent two replies, whatever it sends behind its request     *)
(* (http.cpp:845-891).                                                     *)
THEOREM AnsweredOnce == Spec => [](replies \in [Connections -> 0..1])
<1>1. IInv => replies \in [Connections -> 0..1] BY DEF IInv, Typed
<1> QED BY <1>1, Inductive, PTL
-----------------------------------------------------------------------------
(* The parser, on any bytes.                                               *)

(* What one byte does to the parser: nothing, once it has a verdict.       *)
Taken(p, s) == IF Judged(p) THEN p ELSE consume(p, s)

(* The parser after each byte of a chunk.                                  *)
Run(p, chunk, g) ==
  /\ g \in [0..Len(chunk) -> Parsers] /\ g[0] = p
  /\ \A i \in 1..Len(chunk) : g[i] = Taken(g[i - 1], chunk[i])

(* A set of natural numbers has a least one. *)
LEMMA LeastExists ==
  ASSUME NEW S \in SUBSET Nat, S # {}
  PROVE  \E m \in S : \A i \in S : m <= i
<1>1. PICK m \in S : \A i \in S : ~(<<i, m>> \in OpToRel(<, Nat))
  BY WFMin, NatLessThanWellFounded
<1>2. \A i \in S : ~(i < m)
  BY <1>1 DEF OpToRel
<1> QED BY <1>2

(* What is computed step by step.                                          *)
Computed(V, n, start, step, g) ==
  g \in [0..n -> V] /\ g[0] = start /\ \A i \in 1..n : g[i] = step[<<i, g[i - 1]>>]

(* It exists: it is put together of beginnings. *)
LEMMA StepsExist ==
  ASSUME NEW V, NEW n \in Nat, NEW start \in V, NEW step \in [(1..n) \X V -> V]
  PROVE  \E g : Computed(V, n, start, step, g)
<1> DEFINE Begins(m, g) == /\ g \in [0..m -> V] /\ g[0] = start
                           /\ \A i \in 1..m : g[i] = step[<<i, g[i - 1]>>]
           Bad == {m \in 0..n : \A g : ~Begins(m, g)}
<1>1. 0 \notin Bad
  <2>1. Begins(0, [i \in 0..0 |-> start])
    OBVIOUS
  <2> QED BY <2>1
<1>2. ASSUME NEW m \in 1..n, NEW g, Begins(m - 1, g)
      PROVE  \E h : Begins(m, h)
  <2> DEFINE h == [i \in 0..m |-> IF i = m THEN step[<<m, g[m - 1]>>] ELSE g[i]]
  <2>1. g[m - 1] \in V
    BY <1>2
  <2>2. h \in [0..m -> V]
    BY <1>2, <2>1
  <2>3. h[0] = start
    BY <1>2
  <2>4. ASSUME NEW i \in 1..m PROVE h[i] = step[<<i, h[i - 1]>>]
    <3>1. i - 1 \in 0..m /\ i - 1 # m /\ i \in 0..m
      OBVIOUS
    <3>2. h[i - 1] = g[i - 1]
      BY <3>1
    <3>3. CASE i = m
      <4>1. h[i] = step[<<m, g[m - 1]>>]
        BY <3>1, <3>3
      <4> HIDE DEF h
      <4> QED BY <3>2, <3>3, <4>1
    <3>4. CASE i # m
      <4>1. i \in 1..(m - 1)
        BY <3>4
      <4> QED BY <1>2, <3>1, <3>2, <3>4, <4>1
    <3> QED BY <3>3, <3>4
  <2> HIDE DEF h
  <2> QED BY <2>2, <2>3, <2>4
<1>3. Bad = {}
  <2> SUFFICES ASSUME Bad # {} PROVE FALSE OBVIOUS
  <2>1. Bad \in SUBSET Nat
    OBVIOUS
  <2>2. PICK m \in Bad : \A i \in Bad : m <= i
    <3> HIDE DEF Bad
    <3> QED BY <2>1, LeastExists
  <2>3. m \in 1..n /\ m - 1 \in 0..n /\ ~(m <= m - 1)
    <3>1. m \in 0..n /\ m # 0
      BY <1>1, <2>2
    <3> QED BY <3>1
  <2>4. PICK g : Begins(m - 1, g)
    <3>1. m - 1 \notin Bad
      <4> HIDE DEF Bad
      <4> QED BY <2>2, <2>3
    <3> HIDE DEF Begins
    <3> QED BY <2>3, <3>1
  <2> HIDE DEF Begins
  <2>5. \E h : Begins(m, h)
    BY <1>2, <2>3, <2>4
  <2> QED BY <2>2, <2>5
<1>4. PICK g : Begins(n, g)
  <2>1. n \in 0..n
    OBVIOUS
  <2>2. n \notin Bad
    <3> HIDE DEF Bad
    <3> QED BY <1>3
  <2> HIDE DEF Begins
  <2> QED BY <2>1, <2>2
<1> QED BY <1>4 DEF Computed

(* Each state has its moves, and they lead to a state or a verdict. *)
LEMMA MovesTyped ==
  ASSUME NEW q \in DOMAIN Moves, NEW m \in Moves[q]
  PROVE  m[2] \in DOMAIN Moves \cup {"good", "bad"}
  BY DEF Moves

(* A byte leads from a parser to a parser. *)
LEMMA TakenTyped ==
  ASSUME NEW p \in Parsers, NEW s \in Symbols
  PROVE  Taken(p, s) \in Parsers
<1>1. CASE Judged(p)
  BY <1>1 DEF Taken
<1>2. CASE ~Judged(p)
  <2> DEFINE to == Targets(p, s)
             state == IF to = {} THEN "bad" ELSE CHOOSE t \in to : TRUE
             headers == p.headers \/ to = {"header_name"}
             uri == IF to = {"uri"} /\ p.state = "uri" THEN Append(p.uri, s) ELSE p.uri
  <2>1. p.state \in DOMAIN Moves
    BY <1>2 DEF Parsers, Judged
  <2>2. \A t \in to : t \in DOMAIN Moves \cup {"good", "bad"}
    BY <2>1, MovesTyped DEF Targets
  <2> HIDE DEF to
  <2>3. state \in DOMAIN Moves \cup {"good", "bad"}
    BY <2>2
  <2>4. headers \in BOOLEAN
    BY DEF Parsers
  <2>5. p.uri \in Seq(Symbols)
    BY DEF Parsers
  <2>6. uri \in Seq(Symbols)
    BY <2>5
  <2>7. Taken(p, s) = [state |-> state, headers |-> headers, uri |-> uri]
    BY <1>2 DEF Taken, consume, to
  <2> HIDE DEF state, headers, uri
  <2> QED BY <2>3, <2>4, <2>6, <2>7 DEF Parsers
<1> QED BY <1>1, <1>2

(* The parser goes through a chunk byte by byte. *)
LEMMA RunExists ==
  ASSUME NEW p \in Parsers, NEW chunk \in Seq(Symbols)
  PROVE  \E g : Run(p, chunk, g)
<1> DEFINE n == Len(chunk)
           step == [a \in (1..n) \X Parsers |-> Taken(a[2], chunk[a[1]])]
<1>1. n \in Nat /\ \A i \in 1..n : chunk[i] \in Symbols
  OBVIOUS
<1>2. step \in [(1..n) \X Parsers -> Parsers]
  <2>1. \A a \in (1..n) \X Parsers : a[1] \in 1..n /\ a[2] \in Parsers
    OBVIOUS
  <2> QED BY <1>1, <2>1, TakenTyped
<1>3. \A i \in 1..n, q \in Parsers : step[<<i, q>>] = Taken(q, chunk[i])
  OBVIOUS
<1> HIDE DEF step
<1>4. PICK g : Computed(Parsers, n, p, step, g)
  <2> HIDE DEF n
  <2> QED BY <1>1, <1>2, StepsExist
<1>5. ASSUME NEW i \in 1..n PROVE g[i] = Taken(g[i - 1], chunk[i])
  <2>1. g[i - 1] \in Parsers
    BY <1>1, <1>4 DEF Computed
  <2> QED BY <1>3, <1>4, <2>1 DEF Computed
<1>6. Run(p, chunk, g)
  BY <1>4, <1>5 DEF Run, Computed
<1> QED BY <1>6

(* There is one way only, and parse ends where it does. *)
LEMMA ParseRuns ==
  ASSUME NEW p \in Parsers, NEW chunk \in Seq(Symbols), NEW g, Run(p, chunk, g)
  PROVE  parse(p, chunk) = g[Len(chunk)]
<1> DEFINE n == Len(chunk)
           next(S, i) == {IF Judged(q) THEN q ELSE consume(q, chunk[i]) : q \in S}
           After == CHOOSE f : f = [i \in 0..n |-> IF i = 0 THEN {p} ELSE next(f[i - 1], i)]
           single == [i \in 0..n |-> {g[i]}]
<1>1. /\ n \in Nat /\ g[0] = p
      /\ \A i \in 1..n : g[i] = Taken(g[i - 1], chunk[i])
  BY DEF Run
<1>2. \A i, q : next({q}, i) = {Taken(q, chunk[i])}
  BY DEF Taken
<1> HIDE DEF next
<1>3. single = [i \in 0..n |-> IF i = 0 THEN {p} ELSE next(single[i - 1], i)]
  <2>1. ASSUME NEW i \in 0..n, i # 0 PROVE single[i] = next(single[i - 1], i)
    <3>1. i \in 1..n /\ i - 1 \in 0..n
      BY <1>1, <2>1
    <3>2. single[i] = {g[i]} /\ single[i - 1] = {g[i - 1]}
      BY <3>1
    <3>3. g[i] = Taken(g[i - 1], chunk[i])
      BY <1>1, <3>1
    <3>4. next({g[i - 1]}, i) = {Taken(g[i - 1], chunk[i])}
      BY <1>2
    <3> HIDE DEF single
    <3> QED BY <3>2, <3>3, <3>4, Zenon
  <2>2. single[0] = {p}
    BY <1>1
  <2> QED BY <2>1, <2>2
<1>4. After = [i \in 0..n |-> IF i = 0 THEN {p} ELSE next(After[i - 1], i)]
  <2> HIDE DEF single
  <2> QED BY <1>3, Zenon
<1>5. parse(p, chunk) = CHOOSE q \in After[n] : TRUE
  BY DEF parse, next
<1> HIDE DEF After
<1> DEFINE Bad == {i \in 0..n : After[i] # {g[i]}}
<1>6. Bad = {}
  <2> SUFFICES ASSUME Bad # {} PROVE FALSE OBVIOUS
  <2>1. PICK m \in Bad : \A i \in Bad : m <= i
    <3>1. Bad \in SUBSET Nat
      OBVIOUS
    <3> HIDE DEF Bad
    <3> QED BY <3>1, LeastExists
  <2>2. m \in 0..n /\ After[m] # {g[m]}
    OBVIOUS
  <2>3. m # 0
    BY <1>1, <1>4, <2>2
  <2>4. m \in 1..n /\ m - 1 \in 0..n /\ ~(m <= m - 1)
    BY <2>2, <2>3
  <2>5. After[m - 1] = {g[m - 1]}
    BY <2>1, <2>4
  <2>6. After[m] = next(After[m - 1], m)
    BY <1>4, <2>2, <2>3
  <2>7. g[m] = Taken(g[m - 1], chunk[m])
    BY <1>1, <2>4
  <2>8. next({g[m - 1]}, m) = {Taken(g[m - 1], chunk[m])}
    BY <1>2
  <2> QED BY <2>2, <2>5, <2>6, <2>7, <2>8, Zenon
<1>7. After[n] = {g[n]}
  BY <1>1, <1>6
<1> QED BY <1>5, <1>7

(* What a parser returns is a parser. *)
LEMMA ParseTyped ==
  ASSUME NEW p \in Parsers, NEW chunk \in Seq(Symbols)
  PROVE  parse(p, chunk) \in Parsers
<1>1. PICK g : Run(p, chunk, g)
  BY RunExists
<1>2. Len(chunk) \in 0..Len(chunk)
  OBVIOUS
<1> QED BY <1>1, <1>2, ParseRuns DEF Run

(* A chunk and one more byte. *)
LEMMA ParseAppend ==
  ASSUME NEW p \in Parsers, NEW chunk \in Seq(Symbols), NEW s \in Symbols
  PROVE  parse(p, Append(chunk, s)) = Taken(parse(p, chunk), s)
<1> DEFINE longer == Append(chunk, s)
           n == Len(chunk)
<1>1. /\ longer \in Seq(Symbols) /\ Len(longer) = n + 1 /\ n \in Nat
      /\ longer[n + 1] = s /\ \A i \in 1..n : longer[i] = chunk[i]
  OBVIOUS
<1> HIDE DEF longer
<1>2. PICK g : Run(p, longer, g)
  BY <1>1, RunExists
<1>3. parse(p, longer) = g[n + 1]
  BY <1>1, <1>2, ParseRuns
<1> DEFINE h == [i \in 0..n |-> g[i]]
<1>4. Run(p, chunk, h)
  <2>1. h \in [0..n -> Parsers] /\ h[0] = p
    BY <1>1, <1>2 DEF Run
  <2>2. ASSUME NEW i \in 1..n PROVE h[i] = Taken(h[i - 1], chunk[i])
    <3>1. i \in 1..(n + 1) /\ h[i] = g[i] /\ h[i - 1] = g[i - 1] /\ longer[i] = chunk[i]
      BY <1>1
    <3> HIDE DEF h
    <3> QED BY <1>1, <1>2, <3>1 DEF Run
  <2> HIDE DEF h
  <2> QED BY <2>1, <2>2 DEF Run
<1>5. parse(p, chunk) = h[n]
  <2> HIDE DEF h
  <2> QED BY <1>4, ParseRuns
<1>6. h[n] = g[n]
  BY <1>1
<1>7. g[n + 1] = Taken(g[n], s)
  <2>1. n + 1 \in 1..(n + 1) /\ n + 1 - 1 = n
    BY <1>1
  <2> QED BY <1>1, <1>2, <2>1 DEF Run
<1> QED BY <1>3, <1>5, <1>6, <1>7 DEF longer

(* A parser makes the same of two pieces as of the whole (http.cpp:485-495, *)
(* 845-873): where a read ends makes no difference.                        *)
THEOREM ParsedInPieces ==
  ASSUME NEW p \in Parsers, NEW a \in Seq(Symbols), NEW b \in Seq(Symbols)
  PROVE  parse(parse(p, a), b) = parse(p, a \o b)
<1> DEFINE whole == a \o b
           n == Len(a)
<1>1. /\ whole \in Seq(Symbols) /\ Len(whole) = n + Len(b) /\ n \in Nat /\ Len(b) \in Nat
      /\ \A i \in 1..n : whole[i] = a[i]
      /\ \A i \in 1..Len(b) : whole[n + i] = b[i]
  OBVIOUS
<1> HIDE DEF whole
<1>2. PICK g : Run(p, whole, g)
  BY <1>1, RunExists
<1>3. parse(p, whole) = g[n + Len(b)]
  <2>1. parse(p, whole) = g[Len(whole)]
    BY <1>1, <1>2, ParseRuns
  <2> QED BY <1>1, <2>1
<1> DEFINE first == [i \in 0..n |-> g[i]]
           second == [i \in 0..Len(b) |-> g[n + i]]
<1>4. Run(p, a, first)
  <2>1. first \in [0..n -> Parsers] /\ first[0] = p
    BY <1>1, <1>2 DEF Run
  <2>2. ASSUME NEW i \in 1..n PROVE first[i] = Taken(first[i - 1], a[i])
    <3>1. /\ i \in 1..Len(whole) /\ first[i] = g[i] /\ first[i - 1] = g[i - 1]
          /\ whole[i] = a[i]
      BY <1>1
    <3> HIDE DEF first
    <3> QED BY <1>2, <3>1 DEF Run
  <2> HIDE DEF first
  <2> QED BY <2>1, <2>2 DEF Run
<1>5. parse(p, a) = g[n]
  <2>1. first[n] = g[n]
    BY <1>1
  <2> HIDE DEF first
  <2> QED BY <1>4, <2>1, ParseRuns
<1>6. Run(g[n], b, second)
  <2>1. second \in [0..Len(b) -> Parsers] /\ second[0] = g[n]
    <3>1. \A i \in 0..Len(b) : n + i \in 0..Len(whole)
      BY <1>1
    <3>2. n + 0 = n
      BY <1>1
    <3> QED BY <1>1, <1>2, <3>1, <3>2 DEF Run
  <2>2. ASSUME NEW i \in 1..Len(b) PROVE second[i] = Taken(second[i - 1], b[i])
    <3>1. /\ n + i \in 1..Len(whole) /\ n + i - 1 = n + (i - 1)
          /\ second[i] = g[n + i] /\ second[i - 1] = g[n + (i - 1)]
          /\ whole[n + i] = b[i]
      BY <1>1
    <3> HIDE DEF second
    <3> QED BY <1>2, <3>1 DEF Run
  <2> HIDE DEF second
  <2> QED BY <2>1, <2>2 DEF Run
<1>7. g[n] \in Parsers
  BY <1>1, <1>2 DEF Run
<1>8. parse(g[n], b) = g[n + Len(b)]
  <2>1. second[Len(b)] = g[n + Len(b)]
    BY <1>1
  <2> HIDE DEF second
  <2> QED BY <1>6, <1>7, <2>1, ParseRuns
<1> QED BY <1>3, <1>5, <1>8 DEF whole

-----------------------------------------------------------------------------
(* What is read, and what is replied.                                      *)

(* A set of indices that is not empty has a last one. *)
LEMMA LastExists ==
  ASSUME NEW n \in Nat, NEW S \in SUBSET (1..n), S # {}
  PROVE  (CHOOSE i \in S : \A j \in S : j <= i) \in S
<1> DEFINE N == {n - i : i \in S}
<1>1. N \in SUBSET Nat /\ N # {}
  <2>1. \A i \in S : n - i \in Nat
    OBVIOUS
  <2>2. PICK i \in S : n - i \in N
    OBVIOUS
  <2> QED BY <2>1, <2>2
<1>2. PICK m \in N : \A i \in N : m <= i
  <2> HIDE DEF N
  <2> QED BY <1>1, LeastExists
<1>3. PICK k \in S : m = n - k
  BY <1>2
<1>4. \A j \in S : j <= k
  <2> SUFFICES ASSUME NEW j \in S PROVE j <= k OBVIOUS
  <2>1. n - k <= n - j
    BY <1>2, <1>3
  <2> QED BY <2>1
<1> QED BY <1>4

(* Whatever is asked for, the reply is one of the replies. *)
LEMMA ReplyTyped ==
  ASSUME NEW uri PROVE handle_request(uri) \in Replies
<1> DEFINE n == Len(Devices) + Len(Processors)
<1>0. /\ Len(Devices) \in Nat /\ Len(Processors) \in Nat
      /\ DOMAIN Devices = 1..Len(Devices) /\ DOMAIN Processors = 1..Len(Processors)
  BY HttpServerAssumption
<1>1. 0 \in 0..n /\ (1..Len(Devices)) \subseteq 0..n /\ (1..Len(Processors)) \subseteq 0..n
  BY <1>0
<1> HIDE DEF n
<1>2. \A status \in {"bad_request", "not_found"} : StockReply(status) \in Replies
  BY <1>1 DEF StockReply, Replies, n
<1>3. ASSUME NEW k \in {"device", "processor"}, NEW m \in Nat, (1..m) \subseteq 0..n,
             NEW S \in SUBSET (1..m)
      PROVE  Shown(k, S) \in Replies
  <2>1. CASE S = {}
    BY <1>1, <2>1 DEF Shown, Replies, n
  <2>2. CASE S # {}
    <3> DEFINE last == CHOOSE i \in S : \A j \in S : j <= i
    <3>1. last \in 0..n
      BY <1>3, <2>2, LastExists
    <3>2. Shown(k, S) = [status |-> "ok", content |-> <<k, last>>]
      BY <2>2 DEF Shown
    <3> HIDE DEF last
    <3> QED BY <3>1, <3>2 DEF Replies, n
  <2> QED BY <2>1, <2>2
<1>4. ASSUME NEW path PROVE get_content(path) \in Replies
  <2> DEFINE identification == SubSeq(path, 3, IF Len(path) < 34 THEN Len(path) ELSE 34)
             D == {i \in DOMAIN Devices :
                     identification \in {Index(i), Devices[i].id, Devices[i].name}}
             P == {i \in DOMAIN Processors :
                     identification \in {Index(i), Processors[i].name}}
  <2>1. D \in SUBSET (1..Len(Devices)) /\ P \in SUBSET (1..Len(Processors))
    BY <1>0
  <2>2. \/ get_content(path) = [status |-> "ok", content |-> <<"home", 0>>]
        \/ get_content(path) = Shown("device", D)
        \/ get_content(path) = Shown("processor", P)
        \/ get_content(path) = StockReply("not_found")
    BY DEF get_content
  <2> HIDE DEF D, P
  <2>3. [status |-> "ok", content |-> <<"home", 0>>] \in Replies
    BY <1>1 DEF Replies, n
  <2> QED BY <1>0, <1>1, <1>2, <1>3, <2>1, <2>2, <2>3
<1> QED BY <1>2, <1>4 DEF handle_request

(* The bytes a client has sent that the parser of its connection has seen. *)
Seen(c) == Len(Texts[text[c]]) - Len(rest[c]) - Len(buffer[c])

(* Of each text a beginning has been parsed, then comes what has been read *)
(* and will be parsed at once, then what is still to come.                 *)
InPieces(c) ==
  \E seen \in Seq(Symbols) :
    /\ Texts[text[c]] = (seen \o buffer[c]) \o rest[c]
    /\ parser[c] = parse(NewParser, seen)

DataOK ==
  /\ parser \in [Connections -> Parsers] /\ reply \in [Connections -> Replies]
  /\ text \in [Connections -> 0..Len(Texts)]
  /\ rest \in [Connections -> Seq(Symbols)]
  /\ buffer \in [Connections -> Seq(Symbols)]
  /\ \A c \in Connections :
       /\ client[c] = "away" <=> text[c] = 0
       /\ text[c] = 0 => parser[c] = NewParser /\ rest[c] = <<>> /\ buffer[c] = <<>>
       /\ text[c] # 0 => InPieces(c)
       /\ buffer[c] # <<>> => operation[c] = Ready("read", "ok")

(* Nothing has been parsed at first. *)
LEMMA ParseNothing == parse(NewParser, <<>>) = NewParser /\ NewParser \in Parsers
<1>1. NewParser \in Parsers
  BY DEF NewParser, Parsers, Moves
<1>2. Run(NewParser, <<>>, [i \in 0..0 |-> NewParser])
  BY <1>1 DEF Run
<1> QED BY <1>1, <1>2, ParseRuns

(* The server begins with nothing. *)
LEMMA InitData == Init => DataOK
<1>1. NoReply \in Replies
  <2>1. 0 \in 0..(Len(Devices) + Len(Processors))
    BY HttpServerAssumption
  <2> QED BY <2>1 DEF NoReply, Replies
<1>2. 0 \in 0..Len(Texts)
  BY HttpServerAssumption
<1> QED BY <1>1, <1>2, ParseNothing DEF Init, DataOK

(* A client has all of its text still to send. *)
LEMMA ConnectData ==
  ASSUME IInv, DataOK, NEW c \in Connections, Connect(c)
  PROVE  DataOK'
<1>1. PICK t \in TextsOf[c] :
        /\ text' = [text EXCEPT ![c] = t] /\ rest' = [rest EXCEPT ![c] = Texts[t]]
  BY DEF Connect
<1>2. t \in 1..Len(Texts) /\ t \in 0..Len(Texts) /\ t # 0 /\ Texts[t] \in Seq(Symbols)
  BY HttpServerAssumption
<1>3. parser[c] = NewParser /\ buffer[c] = <<>>
  BY DEF Connect, DataOK
<1>4. /\ UNCHANGED <<parser, reply, buffer, operation>>
      /\ \A d \in Connections : client'[d] = IF d = c THEN "waiting" ELSE client[d]
  BY DEF Connect, IInv, Typed
<1>5. /\ text' \in [Connections -> 0..Len(Texts)] /\ rest' \in [Connections -> Seq(Symbols)]
      /\ text'[c] = t /\ rest'[c] = Texts[t]
      /\ \A d \in Connections : d # c => text'[d] = text[d] /\ rest'[d] = rest[d]
  BY <1>1, <1>2 DEF DataOK
<1>6. InPieces(c)'
  <2>1. /\ <<>> \in Seq(Symbols) /\ parser'[c] = parse(NewParser, <<>>)
        /\ Texts[t] = (<<>> \o <<>>) \o Texts[t]
    BY <1>2, <1>3, <1>4, ParseNothing
  <2>2. buffer'[c] = <<>> /\ rest'[c] = Texts[t] /\ text'[c] = t
    BY <1>3, <1>4, <1>5
  <2> QED BY <2>1, <2>2, Zenon DEF InPieces
<1>7. \A d \in Connections : d # c /\ InPieces(d) => InPieces(d)'
  BY <1>4, <1>5 DEF InPieces
<1> QED BY <1>2, <1>4, <1>5, <1>6, <1>7 DEF DataOK

(* Appending in another order. *)
LEMMA Associative ==
  ASSUME NEW a \in Seq(Symbols), NEW b \in Seq(Symbols), NEW c \in Seq(Symbols)
  PROVE  a \o (b \o c) = (a \o b) \o c
<1> DEFINE x == a \o (b \o c)
           y == (a \o b) \o c
<1>1. a \o b \in Seq(Symbols) /\ b \o c \in Seq(Symbols)
  OBVIOUS
<1>2. x \in Seq(Symbols) /\ y \in Seq(Symbols)
  BY <1>1
<1>3. Len(x) = Len(a) + Len(b) + Len(c) /\ Len(y) = Len(x)
  BY <1>1
<1>4. \A i \in 1..Len(x) : x[i] = y[i]
  BY <1>1, <1>3
<1> HIDE DEF x, y
<1>5. x = y
  BY <1>2, <1>3, <1>4, SeqEqual
<1> QED BY <1>5 DEF x, y

(* What is taken from the front goes to the end. *)
LEMMA Regrouped ==
  ASSUME NEW a \in Seq(Symbols), NEW n \in Nat, NEW b \in Seq(Symbols), n <= Len(b)
  PROVE  /\ SubSeq(b, 1, n) \in Seq(Symbols) /\ SubSeq(b, n + 1, Len(b)) \in Seq(Symbols)
         /\ a \o b = (a \o SubSeq(b, 1, n)) \o SubSeq(b, n + 1, Len(b))
<1> DEFINE x == SubSeq(b, 1, n)
           y == SubSeq(b, n + 1, Len(b))
<1>1. /\ x \in Seq(Symbols) /\ Len(x) = n
      /\ \A i \in 1..n : x[i] = b[i]
  OBVIOUS
<1>2. /\ y \in Seq(Symbols) /\ Len(y) = Len(b) - n
      /\ \A i \in 1..(Len(b) - n) : y[i] = b[n + i]
  OBVIOUS
<1> HIDE DEF x, y
<1>0. Len(b) \in Nat /\ Len(x) \in Nat /\ Len(y) \in Nat /\ x \in Seq(Symbols) /\ y \in Seq(Symbols)
  BY <1>1, <1>2
<1>3. b = x \o y
  <2>1. x \o y \in Seq(Symbols)
    BY <1>0
  <2>2. Len(x \o y) = Len(x) + Len(y)
    BY <1>0
  <2>3. Len(x \o y) = Len(b)
    BY <1>0, <1>1, <1>2, <2>2
  <2>4. ASSUME NEW i \in 1..Len(b) PROVE b[i] = (x \o y)[i]
    <3>1. CASE i <= n
      <4>1. i \in 1..Len(x) /\ x[i] = b[i]
        BY <1>0, <1>1, <3>1
      <4>2. (x \o y)[i] = x[i]
        BY <1>0, <4>1
      <4> QED BY <4>1, <4>2
    <3>2. CASE i > n
      <4>1. i - n \in 1..Len(y) /\ n + (i - n) = i /\ i \in 1..(Len(x) + Len(y)) /\ ~(i <= Len(x))
        BY <1>0, <1>1, <1>2, <3>2
      <4>2. (x \o y)[i] = y[i - n]
        BY <1>0, <1>1, <4>1
      <4>3. y[i - n] = b[n + (i - n)]
        BY <1>2, <4>1
      <4> QED BY <4>1, <4>2, <4>3
    <3>3. i <= n \/ i > n
      BY <1>0
    <3> QED BY <3>1, <3>2, <3>3
  <2> QED BY <2>1, <2>3, <2>4, SeqEqual
<1>4. a \o (x \o y) = (a \o x) \o y
  BY <1>0, Associative
<1> QED BY <1>1, <1>2, <1>3, <1>4 DEF x, y

(* What has come is put behind what has been parsed. *)
LEMMA BytesData ==
  ASSUME IInv, DataOK, NEW c \in Connections, BytesCome(c)
  PROVE  DataOK'
<1>1. PICK n \in Nat :
        /\ n <= Len(rest[c])
        /\ buffer' = [buffer EXCEPT ![c] = SubSeq(rest[c], 1, n)]
        /\ rest' = [rest EXCEPT ![c] = SubSeq(rest[c], n + 1, Len(rest[c]))]
  <2>1. ReadSizes[c] \subseteq Nat
    BY HttpServerAssumption
  <2> QED BY <2>1 DEF BytesCome
<1>2. /\ UNCHANGED <<parser, reply, text, client>>
      /\ operation[c] = Pending("read") 
      /\ operation' = [operation EXCEPT ![c] = Ready("read", "ok")]
  BY DEF BytesCome, Completes, Awaits
<1>3. buffer[c] = <<>>
  BY <1>2 DEF DataOK, Pending, Ready
<1>4. rest[c] \in Seq(Symbols)
  BY DEF DataOK
<1>5. /\ SubSeq(rest[c], 1, n) \in Seq(Symbols)
      /\ SubSeq(rest[c], n + 1, Len(rest[c])) \in Seq(Symbols)
  BY <1>1, <1>4, Regrouped
<1>6. ASSUME text[c] # 0 PROVE InPieces(c)'
  <2>1. PICK seen \in Seq(Symbols) :
          /\ Texts[text[c]] = (seen \o buffer[c]) \o rest[c]
          /\ parser[c] = parse(NewParser, seen)
    BY <1>6 DEF DataOK, InPieces
  <2>2. seen \o buffer[c] = seen
    BY <1>3
  <2>3. Texts[text[c]]
          = (seen \o SubSeq(rest[c], 1, n)) \o SubSeq(rest[c], n + 1, Len(rest[c]))
    <3> DEFINE r == rest[c]
    <3>1. Texts[text[c]] = seen \o r /\ r \in Seq(Symbols) /\ n <= Len(r)
      BY <1>1, <1>4, <2>1, <2>2
    <3> HIDE DEF r
    <3>2. Texts[text[c]] = (seen \o SubSeq(r, 1, n)) \o SubSeq(r, n + 1, Len(r))
      BY <3>1, Regrouped
    <3> QED BY <3>2 DEF r
  <2>4. /\ buffer'[c] = SubSeq(rest[c], 1, n)
        /\ rest'[c] = SubSeq(rest[c], n + 1, Len(rest[c]))
    BY <1>1 DEF DataOK
  <2> QED BY <1>2, <2>1, <2>3, <2>4 DEF InPieces
<1>7. text[c] # 0
  BY DEF BytesCome, DataOK
<1>8. /\ buffer' \in [Connections -> Seq(Symbols)] /\ rest' \in [Connections -> Seq(Symbols)]
      /\ \A d \in Connections : d # c => /\ buffer'[d] = buffer[d] /\ rest'[d] = rest[d]
                                      /\ operation'[d] = operation[d]
  BY <1>1, <1>2, <1>5 DEF DataOK
<1>9. \A d \in Connections : d # c /\ InPieces(d) => InPieces(d)'
  BY <1>2, <1>8 DEF InPieces
<1>10. operation'[c] = Ready("read", "ok")
  BY <1>2 DEF IInv, Typed
<1> QED BY <1>2, <1>6, <1>7, <1>8, <1>9, <1>10 DEF DataOK

(* What has come is parsed. *)
LEMMA ReadData ==
  ASSUME DataOK, NEW c \in Connections, Read(c)
  PROVE  DataOK'
<1> DEFINE q == parse(parser[c], buffer[c])
<1>1. /\ parser[c] \in Parsers /\ buffer[c] \in Seq(Symbols) /\ reply[c] \in Replies
  BY DEF DataOK
<1>2. q \in Parsers
  BY <1>1, ParseTyped
<1>3. /\ parser' = [parser EXCEPT ![c] = q]
      /\ buffer' = [buffer EXCEPT ![c] = <<>>]
      /\ UNCHANGED <<text, rest, client>>
  BY DEF Read, Handler
<1>4. /\ parser' \in [Connections -> Parsers] /\ parser'[c] = q
      /\ buffer' \in [Connections -> Seq(Symbols)] /\ buffer'[c] = <<>>
      /\ \A d \in Connections : d # c => parser'[d] = parser[d] /\ buffer'[d] = buffer[d]
  BY <1>2, <1>3 DEF DataOK
<1>5. reply' \in [Connections -> Replies]
  <2> DEFINE r == CASE q.state = "good" -> handle_request(q.uri)
                    [] q.state = "bad" -> StockReply("bad_request")
                    [] OTHER -> reply[c]
  <2>1. reply' = [reply EXCEPT ![c] = r]
    BY <1>4 DEF Read
  <2>2. StockReply("bad_request") \in Replies
    BY HttpServerAssumption DEF StockReply, Replies
  <2>3. r \in Replies
    <3> HIDE DEF q
    <3>1. CASE q.state = "good"
      BY <3>1, ReplyTyped
    <3>2. CASE q.state = "bad"
      BY <2>2, <3>2
    <3>3. CASE q.state # "good" /\ q.state # "bad"
      BY <1>1, <3>3
    <3> QED BY <3>1, <3>2, <3>3
  <2> HIDE DEF r
  <2> QED BY <2>1, <2>3 DEF DataOK
<1>6. \A d \in Connections : d # c => operation'[d] = operation[d]
  BY DEF Read, Start
<1> HIDE DEF q
<1>7. ASSUME text[c] # 0 PROVE InPieces(c)'
  <2>1. PICK seen \in Seq(Symbols) :
          /\ Texts[text[c]] = (seen \o buffer[c]) \o rest[c]
          /\ parser[c] = parse(NewParser, seen)
    BY <1>7 DEF DataOK, InPieces
  <2> DEFINE more == seen \o buffer[c]
  <2>2. more \in Seq(Symbols) /\ more \o <<>> = more
    BY <1>1
  <2>3. q = parse(NewParser, more)
    BY <1>1, <2>1, ParseNothing, ParsedInPieces DEF q
  <2>4. Texts[text[c]] = (more \o <<>>) \o rest[c]
    BY <2>1, <2>2
  <2> HIDE DEF more
  <2> QED BY <1>3, <1>4, <2>2, <2>3, <2>4 DEF InPieces
<1>8. ASSUME text[c] = 0 PROVE parser'[c] = NewParser
  BY <1>4, <1>8, ParseNothing DEF DataOK, q
<1>9. \A d \in Connections : d # c /\ InPieces(d) => InPieces(d)'
  BY <1>3, <1>4 DEF InPieces
<1> QED BY <1>3, <1>4, <1>5, <1>6, <1>7, <1>8, <1>9 DEF DataOK

(* Everything else leaves texts and parsers alone, and gives no operation  *)
(* to a connection whose bytes have not been parsed.                       *)
LEMMA OthersKeepData ==
  ASSUME IInv, DataOK, [Next]_vars,
         \A c \in Connections : ~Connect(c) /\ ~BytesCome(c) /\ ~Read(c)
  PROVE  DataOK'
<1> DEFINE Kept ==
       /\ UNCHANGED <<parser, reply, text, rest, buffer>>
       /\ \A d \in Connections :
            /\ client'[d] = "away" <=> client[d] = "away"
            /\ operation'[d] = operation[d] \/ operation[d] # Ready("read", "ok")
<1>1. Kept => DataOK'
  BY DEF DataOK, InPieces
<1> USE DEF IInv, Typed, Ready, Pending, NoOperation
<1>2. CASE UNCHANGED vars
  BY <1>1, <1>2 DEF vars
<1>3. CASE Accept
  <2>1. UNCHANGED <<parser, reply, text, rest, buffer, client>>
    BY <1>3 DEF Accept, line
  <2>2. \A d \in Connections :
          operation'[d] = operation[d] \/ operation[d] # Ready("read", "ok")
    <3>1. CASE operation' = operation
      BY <3>1
    <3>2. CASE /\ acceptor.socket # "none"
               /\ operation' = [operation EXCEPT ![acceptor.socket] = Pending("read")]
      BY <3>2 DEF ArrivingIsNew
    <3> QED BY <1>3, <3>1, <3>2 DEF Accept
  <2> QED BY <1>1, <2>1, <2>2
<1>4. CASE Stop
  <2>1. UNCHANGED <<parser, reply, text, rest, buffer, client>>
    BY <1>4 DEF Stop, line
  <2> QED BY <1>1, <1>4, <2>1 DEF Stop, Closed
<1>5. ASSUME NEW c \in Connections, AcceptCompletes(c) \/ AcceptFails(c) \/ ClientGoes(c)
      PROVE  Kept
  BY <1>5 DEF AcceptCompletes, AcceptFails, ClientGoes
<1>6. ASSUME NEW c \in Connections, ReplyGoes(c) \/ Fails(c)
      PROVE  Kept
  BY <1>6 DEF ReplyGoes, Fails, Completes, Awaits
<1>7. ASSUME NEW c \in Connections, ReadFails(c) \/ Written(c)
      PROVE  Kept
  BY <1>7 DEF ReadFails, Written, Handler, Abandon, StopConnection
<1> HIDE DEF Kept
<1> QED BY <1>1, <1>2, <1>3, <1>4, <1>5, <1>6, <1>7 DEF Next, Handlers, Reactor

(* So it holds for ever. *)
LEMMA InductiveData == Spec => [](IInv /\ DataOK)
<1>1. Init => IInv /\ DataOK
  BY InitIInv, InitData
<1>2. IInv /\ DataOK /\ [Next]_vars => IInv' /\ DataOK'
  BY NextIInv, ConnectData, BytesData, ReadData, OthersKeepData
<1> QED BY <1>1, <1>2, PTL DEF Spec

(* Types are kept: no parser in an unknown state, no reply but those there *)
(* are, one reply at most.                                                 *)
THEOREM TypeCorrect == Spec => []TypeOK
<1>1. IInv /\ DataOK => TypeOK
  <2> SUFFICES ASSUME IInv, DataOK PROVE TypeOK OBVIOUS
  <2>1. /\ acceptor \in Acceptors /\ members \subseteq Connections /\ open \subseteq Connections
    BY DEF IInv, Typed
  <2>2. \A c \in Connections :
          /\ operation[c] \in Operations
          /\ client[c] \in {"away", "waiting", "there", "gone"} /\ replies[c] \in 0..1
    BY DEF IInv, Typed
  <2>3. \A c \in Connections :
          /\ parser[c] \in Parsers /\ reply[c] \in Replies /\ text[c] \in 0..Len(Texts)
          /\ rest[c] \in Seq(Symbols) /\ buffer[c] \in Seq(Symbols)
    BY DEF DataOK
  <2> QED BY <2>1, <2>2, <2>3 DEF TypeOK, Acceptors, Operations
<1> QED BY <1>1, InductiveData, PTL

CutsDoNotMatter ==
  \A c \in Connections :
    text[c] # 0 => parser[c] = parse(NewParser, SubSeq(Texts[text[c]], 1, Seen(c)))

(* Where reads end makes no difference: whatever a client sends and however *)
(* it comes in pieces, what the server knows of it is what the parser makes *)
(* of the bytes so far at once (http.cpp:845-873).                         *)
THEOREM ReadsDoNotMatter == Spec => []CutsDoNotMatter
<1>1. DataOK => CutsDoNotMatter
  <2> SUFFICES ASSUME DataOK, NEW c \in Connections, text[c] # 0
               PROVE  parser[c] = parse(NewParser, SubSeq(Texts[text[c]], 1, Seen(c)))
    BY DEF CutsDoNotMatter
  <2>1. PICK seen \in Seq(Symbols) :
          /\ Texts[text[c]] = (seen \o buffer[c]) \o rest[c]
          /\ parser[c] = parse(NewParser, seen)
    BY DEF DataOK, InPieces
  <2> DEFINE b == buffer[c]
             r == rest[c]
  <2>2. b \in Seq(Symbols) /\ r \in Seq(Symbols)
    BY DEF DataOK
  <2> HIDE DEF b, r
  <2>3. /\ Len((seen \o b) \o r) - Len(r) - Len(b) = Len(seen)
        /\ SubSeq((seen \o b) \o r, 1, Len(seen)) = seen
    <3>1. Len((seen \o b) \o r) = Len(seen) + Len(b) + Len(r)
      BY <2>2
    <3> DEFINE w == (seen \o b) \o r
    <3>2. w \in Seq(Symbols) /\ \A i \in 1..Len(seen) : w[i] = seen[i]
      BY <2>2
    <3> HIDE DEF w
    <3>3. Len(w) = Len(seen) + Len(b) + Len(r)
      BY <3>1 DEF w
    <3>4. SubSeq(w, 1, Len(seen)) = seen
      BY <2>2, <3>2, <3>3
    <3> QED BY <2>2, <3>1, <3>4 DEF w
  <2>4. Seen(c) = Len(seen)
    BY <2>1, <2>3 DEF Seen, b, r
  <2>5. SubSeq(Texts[text[c]], 1, Len(seen)) = seen
    BY <2>1, <2>3 DEF b, r
  <2> QED BY <2>1, <2>4, <2>5
<1> QED BY <1>1, InductiveData, PTL

-----------------------------------------------------------------------------
(* The parser and the grammar.                                             *)

(* The moves of each state. *)
LEMMA MovesOf ==
  /\ Moves["method_start"] = {<<Token, "method">>}
  /\ Moves["method"] = {<<Token, "method">>, <<{"sp"}, "uri">>}
  /\ Moves["uri"] = {<<NotCtl \ {"sp"}, "uri">>, <<{"sp"}, "http_version_h">>}
  /\ Moves["http_version_h"] = {<<{"H"}, "http_version_t_1">>}
  /\ Moves["http_version_t_1"] = {<<{"T"}, "http_version_t_2">>}
  /\ Moves["http_version_t_2"] = {<<{"T"}, "http_version_p">>}
  /\ Moves["http_version_p"] = {<<{"P"}, "http_version_slash">>}
  /\ Moves["http_version_slash"] = {<<{"/"}, "http_version_major_start">>}
  /\ Moves["http_version_major_start"] = {<<Digits, "http_version_major">>}
  /\ Moves["http_version_major"]
       = {<<Digits, "http_version_major">>, <<{"."}, "http_version_minor_start">>}
  /\ Moves["http_version_minor_start"] = {<<Digits, "http_version_minor">>}
  /\ Moves["http_version_minor"]
       = {<<Digits, "http_version_minor">>, <<{"cr"}, "expecting_newline_1">>}
  /\ Moves["expecting_newline_1"] = {<<{"lf"}, "header_line_start">>}
  /\ Moves["header_line_start"]
       = {<<Token, "header_name">>, <<Blank, "header_lws">>,
          <<{"cr"}, "expecting_newline_3">>}
  /\ Moves["header_lws"]
       = {<<Blank, "header_lws">>, <<NotCtl \ Blank, "header_value">>,
          <<{"cr"}, "expecting_newline_2">>}
  /\ Moves["header_name"]
       = {<<Token, "header_name">>, <<{":"}, "space_before_header_value">>}
  /\ Moves["space_before_header_value"] = {<<{"sp"}, "header_value">>}
  /\ Moves["header_value"]
       = {<<NotCtl, "header_value">>, <<{"cr"}, "expecting_newline_2">>}
  /\ Moves["expecting_newline_2"] = {<<{"lf"}, "header_line_start">>}
  /\ Moves["expecting_newline_3"] = {<<{"lf"}, "good">>}
  BY DEF Moves

(* Which bytes are of which kind. *)
LEMMA KindsOf ==
  /\ "sp" \notin Token /\ ":" \notin Token /\ "cr" \notin Token /\ "lf" \notin Token
  /\ "cr" \notin NotCtl /\ "lf" \notin NotCtl /\ "cr" \notin Blank /\ "lf" \notin Blank
  /\ "." \notin Digits /\ "cr" \notin Digits /\ "lf" \notin Digits /\ "sp" \in NotCtl
  /\ \A s \in Token : s \in NotCtl /\ s \notin Blank
  BY DEF Token, NotCtl, Blank, Digits, Symbols, is_ctl, is_tspecial

(* A move that the byte s allows to a parser. *)
Allowed(p, s, m) ==
  /\ m \in Moves[p.state] /\ s \in m[1]
  /\ m[2] = "header_lws" /\ p.state = "header_line_start" => p.headers

(* A byte leads where a move allows, and is bad only if none does. *)
LEMMA TakenMoves ==
  ASSUME NEW p \in Parsers, NEW s \in Symbols, ~Judged(p)
  PROVE  LET q == Taken(p, s)
         IN  /\ \/ \E m \in Moves[p.state] : Allowed(p, s, m) /\ q.state = m[2]
                \/ q.state = "bad" /\ \A m \in Moves[p.state] : ~Allowed(p, s, m)
             /\ p.headers => q.headers
             /\ q.headers => p.headers \/ q.state = "header_name"
<1> DEFINE to == Targets(p, s)
           q == Taken(p, s)
<1>1. q.state = (IF to = {} THEN "bad" ELSE CHOOSE t \in to : TRUE)
  BY DEF Taken, consume
<1>2. q.headers = (p.headers \/ to = {"header_name"})
  BY DEF Taken, consume
<1>3. \A t : t \in to <=> \E m \in Moves[p.state] : Allowed(p, s, m) /\ t = m[2]
  BY DEF Targets, Allowed
<1> HIDE DEF to, q
<1>4. p.headers \in BOOLEAN
  BY DEF Parsers
<1>5. /\ \/ \E m \in Moves[p.state] : Allowed(p, s, m) /\ q.state = m[2]
         \/ q.state = "bad" /\ \A m \in Moves[p.state] : ~Allowed(p, s, m)
  <2>1. CASE to = {}
    BY <1>1, <1>3, <2>1
  <2>2. CASE to # {}
    <3>1. q.state \in to
      BY <1>1, <2>2
    <3> QED BY <1>3, <3>1
  <2> QED BY <2>1, <2>2
<1>6. to = {"header_name"} => q.state = "header_name"
  BY <1>1
<1> QED BY <1>2, <1>4, <1>5, <1>6 DEF q

(* A header begins with its name. *)
LEMMA HeaderBegins ==
  ASSUME NEW p \in Parsers, NEW s \in Token, p.state = "header_line_start"
  PROVE  Taken(p, s).headers
<1> DEFINE n == <<Token, "header_name">>
<1>1. s \notin Blank /\ s # "cr"
  BY KindsOf
<1>2. \A m \in Moves[p.state] : s \in m[1] <=> m = n
  BY <1>1, MovesOf
<1>3. n \in Moves[p.state] /\ n[2] = "header_name"
  BY MovesOf
<1> HIDE DEF n
<1>4. Targets(p, s) = {"header_name"}
  BY <1>2, <1>3 DEF Targets
<1> QED BY <1>4 DEF Taken, consume, Judged

(* From where, and with which bytes, each state is reached. *)
LEMMA CameFrom ==
  ASSUME NEW p \in Parsers, NEW s \in Symbols, ~Judged(p)
  PROVE  LET x == Taken(p, s).state
         IN  /\ x # "method_start"
             /\ x = "method" => p.state \in {"method_start", "method"} /\ s \in Token
             /\ x = "uri" => \/ p.state = "method" /\ s = "sp"
                             \/ p.state = "uri" /\ s \in NotCtl \ {"sp"}
             /\ x = "http_version_h" => p.state = "uri" /\ s = "sp"
             /\ x = "http_version_t_1" => p.state = "http_version_h" /\ s = "H"
             /\ x = "http_version_t_2" => p.state = "http_version_t_1" /\ s = "T"
             /\ x = "http_version_p" => p.state = "http_version_t_2" /\ s = "T"
             /\ x = "http_version_slash" => p.state = "http_version_p" /\ s = "P"
             /\ x = "http_version_major_start" => p.state = "http_version_slash" /\ s = "/"
             /\ x = "http_version_major" =>
                  p.state \in {"http_version_major_start", "http_version_major"} /\ s \in Digits
             /\ x = "http_version_minor_start" => p.state = "http_version_major" /\ s = "."
             /\ x = "http_version_minor" =>
                  p.state \in {"http_version_minor_start", "http_version_minor"} /\ s \in Digits
             /\ x = "expecting_newline_1" => p.state = "http_version_minor" /\ s = "cr"
             /\ x = "header_line_start" =>
                  p.state \in {"expecting_newline_1", "expecting_newline_2"} /\ s = "lf"
             /\ x = "header_lws" =>
                  /\ s \in Blank
                  /\ \/ p.state = "header_lws"
                     \/ p.state = "header_line_start" /\ p.headers
             /\ x = "header_name" => p.state \in {"header_line_start", "header_name"} /\ s \in Token
             /\ x = "space_before_header_value" => p.state = "header_name" /\ s = ":"
             /\ x = "header_value" =>
                  \/ p.state = "space_before_header_value" /\ s = "sp"
                  \/ p.state = "header_value" /\ s \in NotCtl
                  \/ p.state = "header_lws" /\ s \in NotCtl \ Blank
             /\ x = "expecting_newline_2" =>
                  p.state \in {"header_lws", "header_value"} /\ s = "cr"
             /\ x = "expecting_newline_3" => p.state = "header_line_start" /\ s = "cr"
             /\ x = "good" => p.state = "expecting_newline_3" /\ s = "lf"
<1> DEFINE x == Taken(p, s).state
<1>1. p.state \in DOMAIN Moves
  BY DEF Parsers, Judged
<1>2. \/ \E m \in Moves[p.state] : Allowed(p, s, m) /\ x = m[2]
      \/ x = "bad"
  BY TakenMoves
<1> HIDE DEF x
<1>3. CASE x = "bad"
  BY <1>3 DEF x
<1> QED BY <1>1, <1>2, <1>3, MovesOf DEF Allowed, x, Moves

-----------------------------------------------------------------------------
(* What has been seen when the parser is in a state.  w is the whole text. *)

Cut(w, i) == i \in 1..(Len(w) - 1) /\ w[i] = "cr" /\ w[i + 1] = "lf"

(* The bytes of a line, and what it must be.  The line of the request is   *)
(* the first; a header may be continued.                                   *)
IsLine(w, from, to) ==
  /\ from = 1 \/ Cut(w, from - 2)
  /\ from <= to + 1 /\ Cut(w, to + 1)
  /\ \A i \in from..to : ~Cut(w, i)

Later(w, from) == \E i \in 1..(from - 3) : Cut(w, i)

IsField(w, from, to) ==
  IsHeader(w, from, to) \/ (Later(w, from) /\ IsContinuation(w, from, to))

Fits(w, from, to) ==
  IF from = 1 THEN IsRequestLine(w, 1, to) ELSE IsField(w, from, to)

Clean(w, from, to) == \A i \in from..to : w[i] # "cr" /\ w[i] # "lf"

(* The first k bytes are lines. *)
Lined(w, k) ==
  /\ Cut(w, k - 1)
  /\ \A i \in 1..k : /\ w[i] = "cr" => i < k /\ w[i + 1] = "lf"
                     /\ w[i] = "lf" => i > 1 /\ w[i - 1] = "cr"
  /\ \A from \in 1..k, to \in 0..(k - 2) : IsLine(w, from, to) => Fits(w, from, to)

(* In the line of the request: up to byte n it is a method, the URI behind *)
(* the space at i, the version behind the space at j, and so on.           *)
Protocol == <<"H", "T", "T", "P", "/">>
ProtocolStates ==
  <<"http_version_h", "http_version_t_1", "http_version_t_2", "http_version_p",
    "http_version_slash", "http_version_major_start">>

UriTo(w, n, i) ==
  /\ i \in 2..n /\ w[i] = "sp" /\ All(w, 1, i - 1, Token)
  /\ All(w, i + 1, n, NotCtl \ {"sp"})
Spaces(w, i, j) == UriTo(w, j - 1, i) /\ w[j] = "sp"
ProtocolTo(w, n, i, j) ==
  Spaces(w, i, j) /\ n \in j..(j + 5) /\ \A m \in 1..(n - j) : w[j + m] = Protocol[m]
MajorTo(w, n, i, j) ==
  ProtocolTo(w, j + 5, i, j) /\ n >= j + 6 /\ All(w, j + 6, n, Digits)
DotAt(w, dot, i, j) == MajorTo(w, dot - 1, i, j) /\ w[dot] = "."
MinorTo(w, n, i, j, dot) ==
  DotAt(w, dot, i, j) /\ dot < n /\ All(w, dot + 1, n, Digits)

FirstLine ==
  {"method_start", "method", "uri", "http_version_h", "http_version_t_1",
   "http_version_t_2", "http_version_p", "http_version_slash",
   "http_version_major_start", "http_version_major", "http_version_minor_start",
   "http_version_minor"}

FirstShape(w, n, q) ==
  /\ q = "method_start" => n = 0
  /\ q = "method" => n >= 1 /\ All(w, 1, n, Token)
  /\ q = "uri" => \E i \in 2..n : UriTo(w, n, i)
  /\ \A m \in 1..6 :
       q = ProtocolStates[m] => \E i, j \in 2..n : ProtocolTo(w, n, i, j) /\ n = j + m - 1
  /\ q = "http_version_major" => \E i, j \in 2..n : MajorTo(w, n, i, j)
  /\ q = "http_version_minor_start" => \E i, j \in 2..n : DotAt(w, n, i, j)
  /\ q = "http_version_minor" => \E i, j, dot \in 2..n : MinorTo(w, n, i, j, dot)
  /\ q = "expecting_newline_1" =>
       w[n] = "cr" /\ n >= 1 /\ \E i, j, dot \in 2..n : MinorTo(w, n - 1, i, j, dot)

(* In a later line, from byte k + 1 on. *)
Open(w, n, k) == Lined(w, k) /\ k < n

BlanksTo(w, n, k) == Open(w, n, k) /\ Later(w, k + 1) /\ All(w, k + 1, n, Blank)
NameTo(w, n, k) == Open(w, n, k) /\ All(w, k + 1, n, Token)
ColonAt(w, i, k) == NameTo(w, i - 1, k) /\ w[i] = ":"
HeaderTo(w, n, k, i) ==
  ColonAt(w, i, k) /\ i < n /\ w[i + 1] = "sp" /\ All(w, i + 2, n, NotCtl)
ContinuationTo(w, n, k, i) ==
  /\ BlanksTo(w, i, k) /\ i < n /\ w[i + 1] \notin Blank /\ All(w, i + 1, n, NotCtl)
FieldTo(w, n, k) ==
  \/ BlanksTo(w, n, k)
  \/ \E i \in 1..n : HeaderTo(w, n, k, i) \/ ContinuationTo(w, n, k, i)

LaterShape(w, n, q, h) ==
  /\ q = "header_line_start" => Lined(w, n) /\ (h <=> Later(w, n + 1))
  /\ q = "header_lws" => \E k \in 2..n : BlanksTo(w, n, k)
  /\ q = "header_name" => \E k \in 2..n : NameTo(w, n, k)
  /\ q = "space_before_header_value" => \E k \in 2..n : ColonAt(w, n, k)
  /\ q = "header_value" =>
       \E k, i \in 2..n : HeaderTo(w, n, k, i) \/ ContinuationTo(w, n, k, i)
  /\ q = "expecting_newline_2" =>
       w[n] = "cr" /\ n >= 1 /\ \E k \in 2..n : FieldTo(w, n - 1, k)
  /\ q = "expecting_newline_3" => w[n] = "cr" /\ Lined(w, n - 1)

Shape(w, n, p) ==
  /\ FirstShape(w, n, p.state) /\ LaterShape(w, n, p.state, p.headers)
  /\ p.state \in FirstLine \cup {"expecting_newline_1"} => ~p.headers
  /\ p.state \in {"header_lws", "header_name", "space_before_header_value",
                  "header_value", "expecting_newline_2"} => p.headers

(* A step in the line of the request. *)
LEMMA FirstStep ==
  ASSUME NEW w \in Seq(Symbols), NEW n \in 1..Len(w), NEW p \in Parsers, ~Judged(p),
         FirstShape(w, n - 1, p.state)
  PROVE  FirstShape(w, n, Taken(p, w[n]).state)
<1> DEFINE x == Taken(p, w[n]).state
           s == w[n]
<1>0. s \in Symbols
  OBVIOUS
<1> HIDE DEF x, s
<1>1. ASSUME x = "method" PROVE n >= 1 /\ All(w, 1, n, Token)
  <2>1. p.state \in {"method_start", "method"} /\ s \in Token
    BY <1>0, <1>1, CameFrom DEF x, s
  <2> QED BY <2>1 DEF FirstShape, All, s
<1>2. ASSUME x = "uri" PROVE \E i \in 2..n : UriTo(w, n, i)
  <2>1. \/ p.state = "method" /\ s = "sp"
        \/ p.state = "uri" /\ s \in NotCtl \ {"sp"}
    BY <1>0, <1>2, CameFrom DEF x, s
  <2>2. CASE p.state = "method"
    <3>1. n \in 2..n /\ All(w, 1, n - 1, Token) /\ All(w, n + 1, n, NotCtl \ {"sp"})
      BY <2>2 DEF FirstShape, All
    <3> QED BY <2>1, <2>2, <3>1 DEF UriTo, s
  <2>3. CASE p.state = "uri"
    <3>1. PICK i \in 2..(n - 1) : UriTo(w, n - 1, i)
      BY <2>3 DEF FirstShape
    <3> QED BY <2>1, <2>3, <3>1 DEF UriTo, All, s
  <2> QED BY <2>1, <2>2, <2>3
<1>3. ASSUME NEW m \in 1..6, x = ProtocolStates[m]
      PROVE  \E i, j \in 2..n : ProtocolTo(w, n, i, j) /\ n = j + m - 1
  <2>1. CASE m = 1
    <3>1. p.state = "uri" /\ s = "sp"
      BY <1>0, <1>3, <2>1, CameFrom DEF x, s, ProtocolStates
    <3>2. PICK i \in 2..(n - 1) : UriTo(w, n - 1, i)
      BY <3>1 DEF FirstShape
    <3>3. ProtocolTo(w, n, i, n)
      BY <3>1, <3>2 DEF ProtocolTo, Spaces, s
    <3> QED BY <2>1, <3>2, <3>3
  <2>2. CASE m # 1
    <3>1. m - 1 \in 1..6 /\ p.state = ProtocolStates[m - 1] /\ s = Protocol[m - 1]
      BY <1>0, <1>3, <2>2, CameFrom DEF x, s, ProtocolStates, Protocol
    <3>2. PICK i \in 2..(n - 1), j \in 2..(n - 1) :
            ProtocolTo(w, n - 1, i, j) /\ n - 1 = j + (m - 1) - 1
      BY <3>1 DEF FirstShape
    <3>3. Spaces(w, i, j) /\ n \in j..(j + 5)
      BY <3>1, <3>2 DEF ProtocolTo
    <3>4. ASSUME NEW l \in 1..(n - j) PROVE w[j + l] = Protocol[l]
      <4>1. CASE l = m - 1
        <5>1. j + l = n
          BY <3>1, <3>2, <4>1
        <5> QED BY <3>1, <4>1, <5>1 DEF s
      <4>2. CASE l # m - 1
        <5>1. l \in 1..(n - 1 - j)
          BY <3>1, <3>2, <4>2
        <5> QED BY <3>2, <5>1 DEF ProtocolTo
      <4> QED BY <4>1, <4>2
    <3>5. ProtocolTo(w, n, i, j)
      BY <3>3, <3>4 DEF ProtocolTo
    <3> QED BY <3>2, <3>5
  <2> QED BY <2>1, <2>2
<1>4. ASSUME x = "http_version_major" PROVE \E i, j \in 2..n : MajorTo(w, n, i, j)
  <2>1. p.state \in {"http_version_major_start", "http_version_major"} /\ s \in Digits
    BY <1>0, <1>4, CameFrom DEF x, s
  <2>2. CASE p.state = "http_version_major_start"
    <3>1. p.state = ProtocolStates[6]
      BY <2>2 DEF ProtocolStates
    <3>2. PICK i \in 2..(n - 1), j \in 2..(n - 1) : ProtocolTo(w, n - 1, i, j) /\ n - 1 = j + 6 - 1
      BY <3>1 DEF FirstShape
    <3>3. MajorTo(w, n, i, j)
      BY <2>1, <3>2 DEF MajorTo, All, s
    <3> QED BY <3>2, <3>3
  <2>3. CASE p.state = "http_version_major"
    <3>1. PICK i \in 2..(n - 1), j \in 2..(n - 1) : MajorTo(w, n - 1, i, j)
      BY <2>3 DEF FirstShape
    <3>2. MajorTo(w, n, i, j)
      BY <2>1, <3>1 DEF MajorTo, All, s
    <3> QED BY <3>1, <3>2
  <2> QED BY <2>1, <2>2, <2>3
<1>5. ASSUME x = "http_version_minor_start" PROVE \E i, j \in 2..n : DotAt(w, n, i, j)
  <2>1. p.state = "http_version_major" /\ s = "."
    BY <1>0, <1>5, CameFrom DEF x, s
  <2>2. PICK i \in 2..(n - 1), j \in 2..(n - 1) : MajorTo(w, n - 1, i, j)
    BY <2>1 DEF FirstShape
  <2>3. DotAt(w, n, i, j)
    BY <2>1, <2>2 DEF DotAt, s
  <2> QED BY <2>2, <2>3
<1>6. ASSUME x = "http_version_minor"
      PROVE  \E i, j, dot \in 2..n : MinorTo(w, n, i, j, dot)
  <2>1. p.state \in {"http_version_minor_start", "http_version_minor"} /\ s \in Digits
    BY <1>0, <1>6, CameFrom DEF x, s
  <2>2. CASE p.state = "http_version_minor_start"
    <3>1. PICK i \in 2..(n - 1), j \in 2..(n - 1) : DotAt(w, n - 1, i, j)
      BY <2>2 DEF FirstShape
    <3>2. MinorTo(w, n, i, j, n - 1)
      BY <2>1, <3>1 DEF MinorTo, All, s
    <3> QED BY <3>1, <3>2
  <2>3. CASE p.state = "http_version_minor"
    <3>1. PICK i \in 2..(n - 1), j \in 2..(n - 1), dot \in 2..(n - 1) : MinorTo(w, n - 1, i, j, dot)
      BY <2>3 DEF FirstShape
    <3>2. MinorTo(w, n, i, j, dot)
      BY <2>1, <3>1 DEF MinorTo, All, s
    <3> QED BY <3>1, <3>2
  <2> QED BY <2>1, <2>2, <2>3
<1>7. ASSUME x = "expecting_newline_1"
      PROVE  w[n] = "cr" /\ n >= 1 /\ \E i, j, dot \in 2..n : MinorTo(w, n - 1, i, j, dot)
  <2>1. p.state = "http_version_minor" /\ s = "cr"
    BY <1>0, <1>7, CameFrom DEF x, s
  <2>2. PICK i \in 2..(n - 1), j \in 2..(n - 1), dot \in 2..(n - 1) : MinorTo(w, n - 1, i, j, dot)
    BY <2>1 DEF FirstShape
  <2> QED BY <2>1, <2>2 DEF s
<1>8. x # "method_start"
  BY <1>0, CameFrom DEF x, s
<1> QED BY <1>1, <1>2, <1>3, <1>4, <1>5, <1>6, <1>7, <1>8 DEF FirstShape, x

(* The line of a request, when it is complete. *)
LEMMA RequestLineFound ==
  ASSUME NEW w \in Seq(Symbols), NEW n \in 1..Len(w), NEW i \in Nat, NEW j \in Nat,
         NEW dot \in Nat, MinorTo(w, n, i, j, dot)
  PROVE  IsRequestLine(w, 1, n) /\ Clean(w, 1, n)
<1>1. /\ i \in 2..(j - 1) /\ w[i] = "sp" /\ w[j] = "sp"
      /\ All(w, 1, i - 1, Token) /\ All(w, i + 1, j - 1, NotCtl \ {"sp"})
  BY DEF MinorTo, DotAt, MajorTo, ProtocolTo, Spaces, UriTo
<1>2. \A m \in 1..5 : w[j + m] = Protocol[m]
  BY DEF MinorTo, DotAt, MajorTo, ProtocolTo
<1>3. /\ dot >= j + 7 /\ w[dot] = "." /\ dot < n
      /\ All(w, j + 6, dot - 1, Digits) /\ All(w, dot + 1, n, Digits)
  BY DEF MinorTo, DotAt, MajorTo
<1>4. SubSeq(w, j + 1, j + 5) = Protocol
  <2> DEFINE u == SubSeq(w, j + 1, j + 5)
  <2>1. Protocol \in Seq(Symbols) /\ Len(Protocol) = 5
    BY DEF Protocol, Symbols
  <2>2. u \in Seq(Symbols) /\ Len(u) = 5 /\ \A m \in 1..5 : u[m] = w[j + m]
    BY <1>1, <1>3
  <2>3. \A m \in 1..5 : u[m] = Protocol[m]
    BY <1>2, <2>2
  <2> HIDE DEF u
  <2>4. u = Protocol
    <3>1. Len(u) = Len(Protocol) /\ \A m \in 1..Len(u) : u[m] = Protocol[m]
      BY <2>1, <2>2, <2>3
    <3> HIDE DEF Protocol
    <3> QED BY <2>1, <2>2, <3>1, SeqEqual
  <2> QED BY <2>4 DEF u
<1>5. IsVersion(w, j + 1, n)
  <2>1. /\ n >= j + 1 + 7 /\ dot \in (j + 1 + 6)..(n - 1)
        /\ j + 1 + 4 = j + 5 /\ j + 1 + 5 = j + 6
    BY <1>3
  <2> QED BY <1>3, <1>4, <2>1 DEF IsVersion, Protocol
<1>6. IsRequestLine(w, 1, n)
  <2>1. i \in 1..n /\ j \in 1..n /\ 1 < i /\ i < j
    BY <1>1, <1>3
  <2> QED BY <1>1, <1>5, <2>1 DEF IsRequestLine
<1>7. ASSUME NEW l \in 1..n PROVE w[l] # "cr" /\ w[l] # "lf"
  <2>1. CASE l <= j
    BY <1>1, <2>1, KindsOf DEF All
  <2>2. CASE l \in (j + 1)..(j + 5)
    <3>1. l - j \in 1..5 /\ j + (l - j) = l
      BY <2>2
    <3>2. w[l] = Protocol[l - j]
      BY <1>2, <3>1
    <3> QED BY <3>1, <3>2 DEF Protocol
  <2>3. CASE l > j + 5
    BY <1>3, <2>3, KindsOf DEF All
  <2> QED BY <2>1, <2>2, <2>3
<1> QED BY <1>6, <1>7 DEF Clean

(* A line of a header, when it is complete. *)
LEMMA FieldFound ==
  ASSUME NEW w \in Seq(Symbols), NEW n \in 1..Len(w), NEW k \in 1..n, FieldTo(w, n, k)
  PROVE  IsField(w, k + 1, n) /\ Clean(w, k + 1, n) /\ Lined(w, k) /\ k < n
<1>1. CASE BlanksTo(w, n, k)
  <2>0. Lined(w, k) /\ k < n /\ Later(w, k + 1) /\ All(w, k + 1, n, Blank)
    BY <1>1 DEF BlanksTo, Open
  <2>1. IsContinuation(w, k + 1, n)
    <3>1. n \in (k + 1)..n /\ All(w, n + 1, n, NotCtl)
      BY <2>0 DEF All
    <3> QED BY <2>0, <3>1 DEF IsContinuation
  <2>2. Clean(w, k + 1, n)
    BY <2>0, KindsOf DEF Clean, All
  <2> QED BY <2>0, <2>1, <2>2 DEF IsField
<1>2. ASSUME NEW i \in 1..n, HeaderTo(w, n, k, i)
      PROVE  IsField(w, k + 1, n) /\ Clean(w, k + 1, n) /\ Lined(w, k) /\ k < n
  <2>1. /\ Lined(w, k) /\ k < i - 1 /\ i < n /\ w[i] = ":" /\ w[i + 1] = "sp"
        /\ All(w, k + 1, i - 1, Token) /\ All(w, i + 2, n, NotCtl)
    BY <1>2 DEF HeaderTo, ColonAt, NameTo, Open
  <2>2. IsHeader(w, k + 1, n)
    BY <2>1 DEF IsHeader
  <2>3. Clean(w, k + 1, n)
    BY <2>1, KindsOf DEF Clean, All
  <2> QED BY <2>1, <2>2, <2>3 DEF IsField
<1>3. ASSUME NEW i \in 1..n, ContinuationTo(w, n, k, i)
      PROVE  IsField(w, k + 1, n) /\ Clean(w, k + 1, n) /\ Lined(w, k) /\ k < n
  <2>1. /\ Lined(w, k) /\ k < i /\ i < n /\ Later(w, k + 1)
        /\ All(w, k + 1, i, Blank) /\ All(w, i + 1, n, NotCtl)
    BY <1>3 DEF ContinuationTo, BlanksTo, Open
  <2>2. IsContinuation(w, k + 1, n)
    BY <2>1 DEF IsContinuation
  <2>3. Clean(w, k + 1, n)
    BY <2>1, KindsOf DEF Clean, All
  <2> QED BY <2>1, <2>2, <2>3 DEF IsField
<1> QED BY <1>1, <1>2, <1>3 DEF FieldTo

(* One more line; the first begins at byte 1. *)
LEMMA LinesGrow ==
  ASSUME NEW w \in Seq(Symbols), NEW m \in Nat, m + 2 <= Len(w), NEW k \in 0..m,
         k = 0 \/ Lined(w, k), Clean(w, k + 1, m), w[m + 1] = "cr", w[m + 2] = "lf",
         Fits(w, k + 1, m)
  PROVE  Lined(w, m + 2)
<1>1. Cut(w, m + 1)
  BY DEF Cut
<1>2. k # 0 => k - 1 \in 1..(Len(w) - 1) /\ w[k - 1] = "cr" /\ w[k] = "lf"
  BY DEF Lined, Cut
<1>3. ASSUME NEW i \in 1..(m + 2)
      PROVE  /\ w[i] = "cr" => i < m + 2 /\ w[i + 1] = "lf"
             /\ w[i] = "lf" => i > 1 /\ w[i - 1] = "cr"
  <2>1. CASE i <= k
    BY <2>1 DEF Lined
  <2>2. CASE i \in (k + 1)..m
    BY <2>2 DEF Clean
  <2>3. CASE i = m + 1
    BY <2>3
  <2>4. CASE i = m + 2
    BY <2>4
  <2> QED BY <2>1, <2>2, <2>3, <2>4
<1>4. ASSUME NEW from \in 1..(m + 2), NEW to \in 0..m, IsLine(w, from, to)
      PROVE  Fits(w, from, to)
  <2>1. /\ from <= to + 1 /\ w[to + 1] = "cr" /\ \A i \in from..to : ~Cut(w, i)
        /\ from = 1 \/ (from - 2 >= 1 /\ w[from - 2] = "cr" /\ w[from - 1] = "lf")
    BY <1>4 DEF IsLine, Cut
  <2>2. CASE to + 1 <= k
    <3>1. to + 1 # k
      BY <1>2, <2>1, <2>2
    <3>2. from \in 1..k /\ to \in 0..(k - 2) /\ k # 0
      BY <2>1, <2>2, <3>1
    <3> QED BY <1>4, <3>2 DEF Lined
  <2>3. CASE to + 1 > k
    <3>1. to = m
      <4>1. ~(to + 1 \in (k + 1)..m)
        BY <2>1 DEF Clean
      <4> QED BY <2>3, <4>1
    <3>2. from = k + 1
      <4>1. CASE k = 0
        <5>1. ~(from - 2 \in 1..m)
          BY <2>1, <4>1 DEF Clean
        <5> QED BY <2>1, <3>1, <4>1, <5>1
      <4>2. CASE k # 0
        <5>1. ~(from <= k - 1)
          <6>1. Cut(w, k - 1)
            BY <4>2 DEF Lined
          <6> QED BY <1>2, <2>1, <3>1, <4>2, <6>1
        <5>2. from # k
          BY <1>2, <2>1, <4>2
        <5>3. from - 2 # k
          BY <1>2, <2>1, <4>2
        <5>4. ~(from - 2 \in (k + 1)..m)
          BY <2>1 DEF Clean
        <5> QED BY <2>1, <3>1, <5>1, <5>2, <5>3, <5>4
      <4> QED BY <4>1, <4>2
    <3> QED BY <3>1, <3>2
  <2> QED BY <2>2, <2>3
<1>5. /\ m + 2 - 1 = m + 1 /\ m + 2 - 2 = m
  OBVIOUS
<1> QED BY <1>1, <1>3, <1>4, <1>5 DEF Lined

(* A step in a later line, or to it. *)
LEMMA LaterStep ==
  ASSUME NEW w \in Seq(Symbols), NEW n \in 1..Len(w), NEW p \in Parsers, ~Judged(p),
         Shape(w, n - 1, p)
  PROVE  LET q == Taken(p, w[n]) IN LaterShape(w, n, q.state, q.headers)
<1> DEFINE q == Taken(p, w[n])
           x == q.state
           s == w[n]
           was(h) == LaterShape(w, n - 1, p.state, h)
<1>0. s \in Symbols /\ LaterShape(w, n - 1, p.state, p.headers) /\ FirstShape(w, n - 1, p.state)
  BY DEF Shape
<1>1. ASSUME x = "header_line_start" PROVE Lined(w, n) /\ (q.headers <=> Later(w, n + 1))
  <2>1. s = "lf" /\ p.state \in {"expecting_newline_1", "expecting_newline_2"}
    BY <1>0, <1>1, CameFrom
  <2>2. CASE p.state = "expecting_newline_1"
    <3>1. PICK i \in 2..(n - 1), j \in 2..(n - 1), dot \in 2..(n - 1) :
            MinorTo(w, n - 2, i, j, dot)
      BY <1>0, <2>2 DEF FirstShape
    <3>2. w[n - 1] = "cr" /\ n - 1 >= 1
      BY <1>0, <2>2 DEF FirstShape
    <3>3. n - 2 \in 1..Len(w)
      BY <3>1 DEF MinorTo
    <3>4. IsRequestLine(w, 1, n - 2) /\ Clean(w, 1, n - 2)
      BY <3>1, <3>3, RequestLineFound
    <3>5. Lined(w, n)
      <4> DEFINE m == n - 2
      <4>1. m \in Nat /\ m + 2 = n /\ m + 1 = n - 1 /\ 0 + 1 = 1 /\ 0 \in 0..m
        BY <3>3
      <4>2. Fits(w, 0 + 1, m) /\ Clean(w, 0 + 1, m)
        BY <3>4, <4>1 DEF Fits
      <4>3. w[m + 1] = "cr" /\ w[m + 2] = "lf" /\ m + 2 <= Len(w)
        BY <2>1, <3>2, <4>1
      <4> HIDE DEF m
      <4>4. Lined(w, m + 2)
        BY <4>1, <4>2, <4>3, LinesGrow
      <4> QED BY <4>1, <4>4
    <3>6. ~Later(w, n + 1)
      <4>1. \A l \in 1..(n - 2) : w[l] # "cr"
        BY <3>4 DEF Clean
      <4> QED BY <4>1 DEF Later, Cut
    <3>7. ~q.headers
      <4>1. ~p.headers
        BY <2>2 DEF Shape
      <4> QED BY <1>0, <1>1, <4>1, TakenMoves
    <3> QED BY <3>5, <3>6, <3>7
  <2>3. CASE p.state = "expecting_newline_2"
    <3>1. PICK k \in 2..(n - 1) : FieldTo(w, n - 2, k)
      BY <1>0, <2>3 DEF LaterShape
    <3>2. w[n - 1] = "cr" /\ n - 1 >= 1
      BY <1>0, <2>3 DEF LaterShape
    <3>3. n - 2 \in 1..Len(w) /\ k \in 1..(n - 2)
      <4>1. k < n - 2 \/ \E i \in 1..(n - 2) : i < n - 2 /\ (k < i \/ k < i - 1)
        BY <3>1 DEF FieldTo, BlanksTo, HeaderTo, ContinuationTo, ColonAt, NameTo, Open
      <4> QED BY <4>1
    <3>4. IsField(w, k + 1, n - 2) /\ Clean(w, k + 1, n - 2) /\ Lined(w, k) /\ k < n - 2
      BY <3>1, <3>3, FieldFound
    <3>5. Lined(w, n)
      <4> DEFINE m == n - 2
      <4>1. m \in Nat /\ m + 2 = n /\ m + 1 = n - 1 /\ k \in 0..m
        BY <3>3
      <4>2. Fits(w, k + 1, m)
        BY <3>3, <3>4 DEF Fits
      <4> HIDE DEF m
      <4> QED BY <2>1, <3>2, <3>4, <4>1, <4>2, LinesGrow DEF m
    <3>6. Later(w, n + 1)
      <4>1. Cut(w, k - 1) /\ k - 1 \in 1..(n - 2)
        BY <3>3, <3>4 DEF Lined, Cut
      <4> QED BY <4>1 DEF Later
    <3>7. q.headers
      <4>1. p.headers
        BY <2>3 DEF Shape
      <4> QED BY <1>0, <4>1, TakenMoves
    <3> QED BY <3>5, <3>6, <3>7
  <2> QED BY <2>1, <2>2, <2>3
<1>2. ASSUME x = "header_lws" PROVE \E k \in 2..n : BlanksTo(w, n, k)
  <2>1. /\ s \in Blank
        /\ \/ p.state = "header_lws"
           \/ p.state = "header_line_start" /\ p.headers
    BY <1>0, <1>2, CameFrom
  <2>2. CASE p.state = "header_lws"
    <3>1. PICK k \in 2..(n - 1) : BlanksTo(w, n - 1, k)
      BY <1>0, <2>2 DEF LaterShape
    <3>2. BlanksTo(w, n, k)
      BY <2>1, <3>1 DEF BlanksTo, Open, All
    <3> QED BY <3>1, <3>2
  <2>3. CASE p.state = "header_line_start" /\ p.headers
    <3>1. Lined(w, n - 1) /\ Later(w, n - 1 + 1)
      BY <1>0, <2>3 DEF LaterShape
    <3>2. n - 1 \in 2..n
      BY <3>1 DEF Lined, Cut
    <3>3. BlanksTo(w, n, n - 1)
      BY <2>1, <3>1, <3>2 DEF BlanksTo, Open, All
    <3> QED BY <3>2, <3>3
  <2> QED BY <2>1, <2>2, <2>3
<1>3. ASSUME x = "header_name" PROVE \E k \in 2..n : NameTo(w, n, k)
  <2>1. s \in Token /\ p.state \in {"header_line_start", "header_name"}
    BY <1>0, <1>3, CameFrom
  <2>2. CASE p.state = "header_name"
    <3>1. PICK k \in 2..(n - 1) : NameTo(w, n - 1, k)
      BY <1>0, <2>2 DEF LaterShape
    <3>2. NameTo(w, n, k)
      BY <2>1, <3>1 DEF NameTo, Open, All
    <3> QED BY <3>1, <3>2
  <2>3. CASE p.state = "header_line_start"
    <3>1. Lined(w, n - 1)
      BY <1>0, <2>3 DEF LaterShape
    <3>2. n - 1 \in 2..n
      BY <3>1 DEF Lined, Cut
    <3>3. NameTo(w, n, n - 1)
      BY <2>1, <3>1, <3>2 DEF NameTo, Open, All
    <3> QED BY <3>2, <3>3
  <2> QED BY <2>1, <2>2, <2>3
<1>4. ASSUME x = "space_before_header_value" PROVE \E k \in 2..n : ColonAt(w, n, k)
  <2>1. s = ":" /\ p.state = "header_name"
    BY <1>0, <1>4, CameFrom
  <2>2. PICK k \in 2..(n - 1) : NameTo(w, n - 1, k)
    BY <1>0, <2>1 DEF LaterShape
  <2> QED BY <2>1, <2>2 DEF ColonAt
<1>5. ASSUME x = "header_value"
      PROVE  \E k, i \in 2..n : HeaderTo(w, n, k, i) \/ ContinuationTo(w, n, k, i)
  <2>1. \/ p.state = "space_before_header_value" /\ s = "sp"
        \/ p.state = "header_value" /\ s \in NotCtl
        \/ p.state = "header_lws" /\ s \in NotCtl \ Blank
    BY <1>0, <1>5, CameFrom
  <2>2. CASE p.state = "space_before_header_value"
    <3>1. PICK k \in 2..(n - 1) : ColonAt(w, n - 1, k)
      BY <1>0, <2>2 DEF LaterShape
    <3>2. n - 1 \in 2..n /\ HeaderTo(w, n, k, n - 1)
      BY <2>1, <2>2, <3>1 DEF HeaderTo, All
    <3> QED BY <3>1, <3>2
  <2>3. CASE p.state = "header_value"
    <3>1. PICK k \in 2..(n - 1), i \in 2..(n - 1) :
            HeaderTo(w, n - 1, k, i) \/ ContinuationTo(w, n - 1, k, i)
      BY <1>0, <2>3 DEF LaterShape
    <3>2. HeaderTo(w, n, k, i) \/ ContinuationTo(w, n, k, i)
      BY <2>1, <2>3, <3>1 DEF HeaderTo, ContinuationTo, All
    <3> QED BY <3>1, <3>2
  <2>4. CASE p.state = "header_lws"
    <3>1. PICK k \in 2..(n - 1) : BlanksTo(w, n - 1, k)
      BY <1>0, <2>4 DEF LaterShape
    <3>2. n - 1 \in 2..n /\ ContinuationTo(w, n, k, n - 1)
      BY <2>1, <2>4, <3>1 DEF ContinuationTo, All
    <3> QED BY <3>1, <3>2
  <2> QED BY <2>1, <2>2, <2>3, <2>4
<1>6. ASSUME x = "expecting_newline_2"
      PROVE  w[n] = "cr" /\ n >= 1 /\ \E k \in 2..n : FieldTo(w, n - 1, k)
  <2>1. s = "cr" /\ p.state \in {"header_lws", "header_value"}
    BY <1>0, <1>6, CameFrom
  <2>2. CASE p.state = "header_lws"
    <3>1. PICK k \in 2..(n - 1) : BlanksTo(w, n - 1, k)
      BY <1>0, <2>2 DEF LaterShape
    <3> QED BY <2>1, <3>1 DEF FieldTo
  <2>3. CASE p.state = "header_value"
    <3>1. PICK k \in 2..(n - 1), i \in 2..(n - 1) :
            HeaderTo(w, n - 1, k, i) \/ ContinuationTo(w, n - 1, k, i)
      BY <1>0, <2>3 DEF LaterShape
    <3> QED BY <2>1, <3>1 DEF FieldTo
  <2> QED BY <2>1, <2>2, <2>3
<1>7. ASSUME x = "expecting_newline_3" PROVE w[n] = "cr" /\ Lined(w, n - 1)
  <2>1. s = "cr" /\ p.state = "header_line_start"
    BY <1>0, <1>7, CameFrom
  <2> QED BY <1>0, <2>1 DEF LaterShape
<1> HIDE DEF q
<1> QED BY <1>1, <1>2, <1>3, <1>4, <1>5, <1>6, <1>7 DEF LaterShape, q

(* A step that is not the last. *)
LEMMA ShapeStep ==
  ASSUME NEW w \in Seq(Symbols), NEW n \in 1..Len(w), NEW p \in Parsers, ~Judged(p),
         Shape(w, n - 1, p)
  PROVE  Shape(w, n, Taken(p, w[n]))
<1> DEFINE q == Taken(p, w[n])
           s == w[n]
           InLater == {"header_lws", "header_name", "space_before_header_value",
                       "header_value", "expecting_newline_2"}
<1>0. s \in Symbols
  OBVIOUS
<1>1. FirstShape(w, n, q.state)
  BY FirstStep DEF Shape
<1>2. LaterShape(w, n, q.state, q.headers)
  BY LaterStep
<1> HIDE DEF s
<1>3. ASSUME q.state \in FirstLine \cup {"expecting_newline_1"} PROVE ~q.headers
  <2>1. p.state \in FirstLine
    BY <1>0, <1>3, CameFrom DEF FirstLine, s
  <2>2. ~p.headers
    BY <2>1 DEF Shape
  <2>3. q.state # "header_name"
    BY <1>3 DEF FirstLine
  <2> QED BY <1>0, <2>2, <2>3, TakenMoves DEF s
<1>4. ASSUME q.state \in InLater PROVE q.headers
  <2>1. CASE p.headers
    BY <1>0, <2>1, TakenMoves DEF s
  <2>2. CASE ~p.headers
    <3>1. p.state \notin InLater
      BY <2>2 DEF Shape
    <3>2. q.state = "header_name" /\ p.state = "header_line_start" /\ s \in Token
      BY <1>0, <1>4, <2>2, <3>1, CameFrom DEF s
    <3> QED BY <3>2, HeaderBegins DEF s
  <2> QED BY <2>1, <2>2
<1> HIDE DEF q
<1> QED BY <1>1, <1>2, <1>3, <1>4 DEF Shape, q

(* A verdict stays. *)
LEMMA VerdictStays ==
  ASSUME NEW p \in Parsers, NEW w \in Seq(Symbols), NEW g, Run(p, w, g),
         NEW m \in 0..Len(w), NEW n \in m..Len(w), Judged(g[m])
  PROVE  g[n] = g[m]
<1> DEFINE Bad == {i \in m..Len(w) : g[i] # g[m]}
<1> SUFFICES ASSUME Bad # {} PROVE FALSE
  OBVIOUS
<1>1. Bad \in SUBSET Nat
  OBVIOUS
<1>2. PICK i \in Bad : \A j \in Bad : i <= j
  <2> HIDE DEF Bad
  <2> QED BY <1>1, LeastExists
<1>3. i \in (m + 1)..Len(w) /\ i - 1 \in m..Len(w)
  BY <1>2
<1>4. g[i - 1] = g[m]
  BY <1>2, <1>3
<1>5. g[i] = Taken(g[i - 1], w[i])
  BY <1>3 DEF Run
<1> QED BY <1>2, <1>4, <1>5 DEF Taken

(* Parsing a first part goes the same way. *)
LEMMA PrefixRuns ==
  ASSUME NEW p \in Parsers, NEW w \in Seq(Symbols), NEW g, Run(p, w, g),
         NEW n \in 0..Len(w)
  PROVE  parse(p, SubSeq(w, 1, n)) = g[n]
<1> DEFINE u == SubSeq(w, 1, n)
           h == [i \in 0..n |-> g[i]]
<1>1. u \in Seq(Symbols) /\ Len(u) = n /\ \A i \in 1..n : u[i] = w[i]
  OBVIOUS
<1>2. g \in [0..Len(w) -> Parsers] /\ g[0] = p /\ \A i \in 1..n : g[i] = Taken(g[i - 1], w[i])
  BY DEF Run
<1>3. h \in [0..n -> Parsers] /\ \A i \in 0..n : h[i] = g[i]
  BY <1>2
<1> HIDE DEF u, h
<1>4. ASSUME NEW i \in 1..n PROVE h[i] = Taken(h[i - 1], u[i])
  <2>1. i \in 0..n /\ i - 1 \in 0..n
    OBVIOUS
  <2>2. h[i] = g[i] /\ h[i - 1] = g[i - 1] /\ u[i] = w[i]
    BY <1>1, <1>3, <2>1
  <2> QED BY <1>2, <2>2
<1>5. h[0] = p /\ h[n] = g[n]
  BY <1>2, <1>3
<1>6. Run(p, u, h)
  BY <1>1, <1>3, <1>4, <1>5 DEF Run
<1>7. parse(p, u) = h[n]
  BY <1>1, <1>6, ParseRuns
<1> QED BY <1>5, <1>7 DEF u

(* Until there is a verdict, what has been seen is what the state says. *)
LEMMA RunShapes ==
  ASSUME NEW w \in Seq(Symbols), NEW g, Run(NewParser, w, g),
         NEW n \in 0..Len(w), ~Judged(g[n])
  PROVE  Shape(w, n, g[n])
<1> DEFINE Bad == {i \in 0..Len(w) : ~Judged(g[i]) /\ ~Shape(w, i, g[i])}
<1> SUFFICES ASSUME Bad # {} PROVE FALSE
  OBVIOUS
<1>1. Bad \in SUBSET Nat
  OBVIOUS
<1>2. PICK i \in Bad : \A j \in Bad : i <= j
  <2> HIDE DEF Bad
  <2> QED BY <1>1, LeastExists
<1>3. NewParser \in Parsers /\ g[0] = NewParser
  BY ParseNothing DEF Run
<1>4. CASE i = 0
  <2>1. g[i].state = "method_start" /\ ~g[i].headers
    BY <1>3, <1>4 DEF NewParser
  <2>2. FirstShape(w, 0, "method_start")
    BY DEF FirstShape, ProtocolStates
  <2>3. LaterShape(w, 0, "method_start", g[i].headers)
    BY DEF LaterShape
  <2>4. Shape(w, i, g[i])
    BY <1>4, <2>1, <2>2, <2>3 DEF Shape
  <2> QED BY <1>2, <2>4
<1>5. CASE i # 0
  <2>1. i \in 1..Len(w) /\ i - 1 \in 0..Len(w) /\ i \in (i - 1)..Len(w)
    BY <1>2, <1>5
  <2>2. g[i - 1] \in Parsers /\ g[i] = Taken(g[i - 1], w[i])
    BY <2>1 DEF Run
  <2>3. ~Judged(g[i - 1])
    BY <1>2, <2>2 DEF Taken
  <2>4. Shape(w, i - 1, g[i - 1])
    BY <1>2, <2>1, <2>3
  <2>5. Shape(w, i, g[i])
    BY <2>1, <2>2, <2>3, <2>4, ShapeStep
  <2> QED BY <1>2, <2>5
<1> QED BY <1>4, <1>5

-----------------------------------------------------------------------------
(* A request, by its lines: the last is empty. *)
AsLines(w) ==
  Lined(w, Len(w) - 2) /\ w[Len(w) - 1] = "cr" /\ w[Len(w)] = "lf"

(* What the parser accepts is made of the lines of a request. *)
LEMMA AcceptedAsLines ==
  ASSUME NEW w \in Seq(Symbols), NEW g, Run(NewParser, w, g), Len(w) >= 1,
         g[Len(w)].state = "good", ~Judged(g[Len(w) - 1])
  PROVE  AsLines(w)
<1> DEFINE n == Len(w)
           p == g[n - 1]
<1>1. n \in Nat /\ n \in 1..n /\ n - 1 \in 0..n /\ w[n] \in Symbols
  OBVIOUS
<1>2. p \in Parsers /\ g[n] = Taken(p, w[n])
  BY <1>1 DEF Run
<1>3. p.state = "expecting_newline_3" /\ w[n] = "lf"
  BY <1>1, <1>2, CameFrom
<1>4. Shape(w, n - 1, p)
  BY <1>1, RunShapes
<1>5. w[n - 1] = "cr" /\ Lined(w, n - 1 - 1)
  BY <1>3, <1>4 DEF Shape, LaterShape
<1>6. n - 1 - 1 = n - 2
  BY <1>1
<1> QED BY <1>3, <1>5, <1>6 DEF AsLines

(* The ends of lines, where lines begin, and where they end, as IsRequest  *)
(* has them.                                                               *)
Cuts(w) == {i \in 1..(Len(w) - 1) : w[i] = "cr" /\ w[i + 1] = "lf"}
Starts(w) == {1} \cup {i + 2 : i \in Cuts(w) \ {Len(w) - 1}}
EndCut(w, from) ==
  CHOOSE i \in Cuts(w) : i >= from /\ \A j \in Cuts(w) : j >= from => i <= j

(* The conditions of IsRequest, one by one. *)
LEMMA RequestParts ==
  ASSUME NEW w
  PROVE  IsRequest(w) <=>
           /\ Len(w) - 1 \in Cuts(w)
           /\ \A i \in DOMAIN w : /\ w[i] = "cr" => i \in Cuts(w)
                                  /\ w[i] = "lf" => i - 1 \in Cuts(w)
           /\ \A from \in Starts(w) :
                IF from = 1 THEN IsRequestLine(w, 1, EndCut(w, 1) - 1)
                ELSE IF from = Len(w) - 1 THEN TRUE
                ELSE \/ IsHeader(w, from, EndCut(w, from) - 1)
                     \/ /\ EndCut(w, 1) - 1 + 3 < from
                        /\ IsContinuation(w, from, EndCut(w, from) - 1)
           /\ Len(w) - 1 \in Starts(w)
  BY DEF IsRequest, Cuts, Starts, EndCut

(* The ends of lines are positions in the text. *)
LEMMA CutsTyped ==
  ASSUME NEW w \in Seq(Symbols)
  PROVE  /\ \A i \in Cuts(w) : i \in Nat /\ i >= 1 /\ i <= Len(w) - 1
         /\ \A i : i \in Cuts(w) <=> Cut(w, i)
<1>1. Len(w) \in Nat
  OBVIOUS
<1> QED BY <1>1 DEF Cuts, Cut

(* The next end of a line, if there is one. *)
LEMMA EndCutIs ==
  ASSUME NEW w \in Seq(Symbols), NEW from \in Nat, NEW k \in Cuts(w), k >= from
  PROVE  /\ EndCut(w, from) \in Cuts(w) /\ EndCut(w, from) >= from
         /\ \A j \in Cuts(w) : j >= from => EndCut(w, from) <= j
<1> DEFINE S == {i \in Cuts(w) : i >= from}
           P(i) == i >= from /\ \A j \in Cuts(w) : j >= from => i <= j
<1>1. S \in SUBSET Nat /\ S # {}
  BY CutsTyped
<1>2. PICK m \in S : \A i \in S : m <= i
  <2> HIDE DEF S
  <2> QED BY <1>1, LeastExists
<1>3. m \in Cuts(w) /\ P(m)
  BY <1>2
<1>4. EndCut(w, from) = CHOOSE i \in Cuts(w) : P(i)
  BY DEF EndCut
<1> HIDE DEF P
<1>5. EndCut(w, from) \in Cuts(w) /\ P(EndCut(w, from))
  BY <1>3, <1>4
<1> QED BY <1>5 DEF P

(* Its lines are those of the grammar. *)
LEMMA RequestAsLines ==
  ASSUME NEW w \in Seq(Symbols)
  PROVE  IsRequest(w) <=> AsLines(w)
<1> DEFINE n == Len(w)
<1>0. /\ n \in Nat /\ DOMAIN w = 1..n
      /\ \A i : i \in Cuts(w) <=> Cut(w, i)
      /\ \A i \in Cuts(w) : i \in Nat /\ i >= 1 /\ i <= n - 1
  BY CutsTyped
<1> HIDE DEF n
<1>1. ASSUME IsRequest(w) PROVE AsLines(w)
  <2>1. /\ n - 1 \in Cuts(w)
        /\ \A i \in 1..n : /\ w[i] = "cr" => i \in Cuts(w)
                           /\ w[i] = "lf" => i - 1 \in Cuts(w)
        /\ n - 1 \in Starts(w)
    BY <1>0, <1>1, RequestParts DEF n
  <2>2. ASSUME NEW from \in Starts(w)
        PROVE  IF from = 1 THEN IsRequestLine(w, 1, EndCut(w, 1) - 1)
               ELSE IF from = n - 1 THEN TRUE
               ELSE \/ IsHeader(w, from, EndCut(w, from) - 1)
                    \/ /\ EndCut(w, 1) - 1 + 3 < from
                       /\ IsContinuation(w, from, EndCut(w, from) - 1)
    BY <1>0, <1>1, <2>2, RequestParts DEF n
  <2>3. Cut(w, n - 1) /\ n - 1 >= 1 /\ w[n - 1] = "cr" /\ w[n] = "lf"
    BY <1>0, <2>1 DEF Cuts, Cut, n
  <2>4. EndCut(w, 1) \in Cuts(w) /\ EndCut(w, 1) >= 1 /\ \A j \in Cuts(w) : EndCut(w, 1) <= j
    <3>1. \A j \in Cuts(w) : j >= 1
      BY DEF Cuts
    <3> QED BY <2>1, <3>1, EndCutIs
  <2>5. n - 1 # 1
    <3>1. SUFFICES ASSUME n - 1 = 1 PROVE FALSE
      OBVIOUS
    <3>2. EndCut(w, 1) = 1
      <4>1. 1 \in Cuts(w)
        BY <2>1, <3>1
      <4>2. EndCut(w, 1) <= 1 /\ EndCut(w, 1) \in Nat
        BY <1>0, <2>4, <4>1
      <4> QED BY <2>4, <4>2
    <3>3. IsRequestLine(w, 1, 0)
      BY <2>2, <3>2 DEF Starts
    <3> QED BY <3>3 DEF IsRequestLine
  <2>6. n - 3 \in Cuts(w)
    <3>1. PICK i \in Cuts(w) : i + 2 = n - 1
      BY <2>1, <2>5 DEF Starts
    <3>2. i = n - 3
      BY <1>0, <3>1
    <3> QED BY <3>1, <3>2
  <2>7. ASSUME NEW i \in 1..(n - 2)
        PROVE  /\ w[i] = "cr" => i < n - 2 /\ w[i + 1] = "lf"
               /\ w[i] = "lf" => i > 1 /\ w[i - 1] = "cr"
    <3>1. i \in 1..n
      BY <1>0
    <3>2. w[i] = "cr" => Cut(w, i)
      BY <1>0, <2>1, <3>1
    <3>3. w[i] = "lf" => Cut(w, i - 1)
      BY <1>0, <2>1, <3>1
    <3>4. w[n - 2 + 1] = "cr"
      BY <1>0, <2>3
    <3> QED BY <1>0, <3>2, <3>3, <3>4 DEF Cut
  <2>8. ASSUME NEW from \in 1..(n - 2), NEW to \in 0..(n - 2 - 2), IsLine(w, from, to)
        PROVE  Fits(w, from, to)
    <3>1. from <= to + 1 /\ Cut(w, to + 1) /\ \A i \in from..to : ~Cut(w, i)
      BY <2>8 DEF IsLine
    <3>2. EndCut(w, from) = to + 1
      <4>1. to + 1 \in Cuts(w) /\ to + 1 >= from
        BY <1>0, <3>1
      <4>2. /\ EndCut(w, from) \in Cuts(w) /\ EndCut(w, from) >= from
            /\ EndCut(w, from) <= to + 1
        BY <4>1, EndCutIs
      <4>3. EndCut(w, from) \in Nat /\ EndCut(w, from) \notin from..to
        BY <1>0, <3>1, <4>2 DEF Cuts
      <4> QED BY <4>2, <4>3
    <3>3. from \in Starts(w) /\ from # n - 1
      <4>1. CASE from = 1
        BY <1>0, <2>5, <4>1 DEF Starts
      <4>2. CASE from # 1
        <5>1. from - 2 \in Cuts(w) /\ from - 2 # n - 1 /\ from = (from - 2) + 2
          BY <1>0, <2>8, <4>2 DEF IsLine
        <5>2. from \in {i + 2 : i \in Cuts(w) \ {n - 1}}
          BY <5>1
        <5>3. from # n - 1
          BY <1>0
        <5> QED BY <5>2, <5>3 DEF Starts, n
      <4> QED BY <4>1, <4>2
    <3>4. EndCut(w, from) - 1 = to
      BY <3>2
    <3>5. CASE from = 1
      BY <2>2, <3>3, <3>4, <3>5 DEF Fits
    <3>6. CASE from # 1
      <4>1. \/ IsHeader(w, from, to)
            \/ EndCut(w, 1) - 1 + 3 < from /\ IsContinuation(w, from, to)
        BY <2>2, <3>3, <3>4, <3>6
      <4>2. EndCut(w, 1) - 1 + 3 < from => Later(w, from)
        <5>1. Cut(w, EndCut(w, 1)) /\ EndCut(w, 1) \in Nat
          BY <1>0, <2>4 DEF Cuts
        <5> QED BY <2>4, <5>1 DEF Later
      <4> QED BY <3>6, <4>1, <4>2 DEF Fits, IsField
    <3> QED BY <3>5, <3>6
  <2>9. Lined(w, n - 2)
    <3>1. Cut(w, n - 2 - 1)
      <4>1. n - 3 = n - 2 - 1
        BY <1>0
      <4> QED BY <1>0, <2>6, <4>1
    <3> QED BY <2>7, <2>8, <3>1 DEF Lined
  <2> QED BY <2>3, <2>9 DEF AsLines, n
<1>2. ASSUME AsLines(w) PROVE IsRequest(w)
  <2>1. Lined(w, n - 2) /\ w[n - 1] = "cr" /\ w[n] = "lf"
    BY <1>2 DEF AsLines, n
  <2>2. Cut(w, n - 3) /\ n - 3 >= 1 /\ w[n - 3] = "cr" /\ w[n - 2] = "lf"
    <3>1. n - 2 - 1 = n - 3 /\ n - 3 + 1 = n - 2
      BY <1>0
    <3> QED BY <2>1, <3>1 DEF Lined, Cut
  <2>3. Cut(w, n - 1)
    <3>1. n - 1 + 1 = n /\ n - 1 \in 1..(n - 1)
      BY <1>0, <2>2
    <3> QED BY <2>1, <3>1 DEF Cut, n
  <2>4. ASSUME NEW i \in 1..n
        PROVE  /\ w[i] = "cr" => Cut(w, i)
               /\ w[i] = "lf" => Cut(w, i - 1)
    <3>1. CASE i <= n - 2
      <4>1. /\ w[i] = "cr" => i < n - 2 /\ w[i + 1] = "lf"
            /\ w[i] = "lf" => i > 1 /\ w[i - 1] = "cr"
        BY <1>0, <2>1, <3>1 DEF Lined
      <4>2. i - 1 + 1 = i
        OBVIOUS
      <4> QED BY <1>0, <3>1, <4>1, <4>2 DEF Cut, n
    <3>2. CASE i = n - 1
      BY <2>1, <2>3, <3>2
    <3>3. CASE i = n
      BY <2>1, <2>3, <3>3
    <3> QED BY <1>0, <3>1, <3>2, <3>3
  <2>5. n - 1 \in Starts(w)
    <3>1. n - 3 \in Cuts(w) /\ n - 3 # n - 1 /\ (n - 3) + 2 = n - 1
      BY <1>0, <2>2
    <3> QED BY <3>1 DEF Starts, n
  <2>6. /\ EndCut(w, 1) \in Cuts(w) /\ EndCut(w, 1) >= 1
        /\ \A j \in Cuts(w) : EndCut(w, 1) <= j
    <3>1. \A j \in Cuts(w) : j >= 1
      BY DEF Cuts
    <3> QED BY <1>0, <2>2, <3>1, EndCutIs
  <2>7. ASSUME NEW from \in Starts(w), from # n - 1
        PROVE  /\ from \in 1..(n - 2) /\ EndCut(w, from) - 1 \in 0..(n - 2 - 2)
               /\ IsLine(w, from, EndCut(w, from) - 1)
    <3>1. \/ from = 1
          \/ from - 2 \in 1..(n - 1) /\ Cut(w, from - 2) /\ from - 2 # n - 1
      <4> SUFFICES ASSUME NEW i \in Cuts(w), i # n - 1, from = i + 2
                   PROVE  from - 2 \in 1..(n - 1) /\ Cut(w, from - 2) /\ from - 2 # n - 1
        BY DEF Starts, n
      <4>1. i \in Nat /\ i >= 1 /\ i <= n - 1 /\ from - 2 = i
        BY <1>0
      <4> QED BY <1>0, <4>1
    <3>2. from \in Nat /\ from >= 1 /\ from <= n - 3
      <4>1. CASE from = 1
        BY <1>0, <2>2, <4>1
      <4>2. CASE from # 1
        <5>1. w[from - 2] = "cr" /\ w[from - 1] = "lf" /\ from - 2 \in 1..(n - 2)
          <6>1. from - 2 \in 1..(n - 1) /\ Cut(w, from - 2) /\ from - 2 # n - 1
            BY <3>1, <4>2
          <6>2. from - 2 \in 1..(n - 2) /\ from - 2 + 1 = from - 1
            BY <1>0, <6>1 DEF Starts, Cuts
          <6> QED BY <6>1, <6>2 DEF Cut
        <5>2. from \in Nat
          BY <1>0, <5>1 DEF Starts, Cuts
        <5>3. from - 2 # n - 2 /\ from - 2 # n - 3 /\ from - 2 # n - 4
          <6>1. from - 2 # n - 2
            BY <2>2, <5>1
          <6>2. from - 2 # n - 3
            BY <1>0, <2>7, <5>2
          <6>3. ASSUME from - 2 = n - 4 PROVE FALSE
            <7>1. from - 1 = n - 3
              BY <1>0, <5>2, <6>3
            <7> QED BY <2>2, <5>1, <7>1
          <6> QED BY <6>1, <6>2, <6>3
        <5> QED BY <1>0, <5>1, <5>2, <5>3
      <4> QED BY <4>1, <4>2
    <3>3. /\ EndCut(w, from) \in Cuts(w) /\ EndCut(w, from) >= from
          /\ \A j \in Cuts(w) : j >= from => EndCut(w, from) <= j
      BY <1>0, <2>2, <3>2, EndCutIs
    <3>4. EndCut(w, from) \in Nat /\ EndCut(w, from) <= n - 3
      BY <1>0, <2>2, <3>2, <3>3 DEF Cuts
    <3>5. IsLine(w, from, EndCut(w, from) - 1)
      <4> DEFINE e == EndCut(w, from)
      <4>1. e \in Nat /\ e - 1 + 1 = e /\ e >= from /\ Cut(w, e)
        BY <1>0, <3>3, <3>4
      <4>2. \A i \in from..(e - 1) : ~Cut(w, i)
        <5> SUFFICES ASSUME NEW i \in from..(e - 1), Cut(w, i) PROVE FALSE
          OBVIOUS
        <5>1. i \in Cuts(w) /\ i >= from /\ i < e
          BY <1>0, <3>2, <4>1
        <5> QED BY <3>3, <4>1, <5>1
      <4> HIDE DEF e
      <4> QED BY <3>1, <3>2, <4>1, <4>2 DEF IsLine, e
    <3> QED BY <1>0, <3>2, <3>3, <3>4, <3>5
  <2>8. ASSUME NEW from \in Starts(w)
        PROVE  IF from = 1 THEN IsRequestLine(w, 1, EndCut(w, 1) - 1)
               ELSE IF from = n - 1 THEN TRUE
               ELSE \/ IsHeader(w, from, EndCut(w, from) - 1)
                    \/ /\ EndCut(w, 1) - 1 + 3 < from
                       /\ IsContinuation(w, from, EndCut(w, from) - 1)
    <3> DEFINE to == EndCut(w, from) - 1
    <3>1. CASE from # n - 1
      <4>1. Fits(w, from, to)
        BY <2>1, <2>7, <3>1 DEF Lined
      <4>2. CASE from = 1
        BY <4>1, <4>2 DEF Fits
      <4>3. CASE from # 1
        <5>1. IsField(w, from, to)
          BY <4>1, <4>3 DEF Fits
        <5>2. Later(w, from) => EndCut(w, 1) - 1 + 3 < from
          <6> SUFFICES ASSUME NEW i \in 1..(from - 3), Cut(w, i)
                       PROVE  EndCut(w, 1) - 1 + 3 < from
            BY DEF Later
          <6>1. EndCut(w, 1) <= i /\ EndCut(w, 1) \in Nat /\ from \in Nat /\ i <= from - 3
            <7>1. i \in Cuts(w)
              BY <1>0
            <7>2. EndCut(w, 1) <= i /\ EndCut(w, 1) \in Nat
              BY <1>0, <2>6, <7>1
            <7>3. from \in Nat
              BY <2>7, <3>1
            <7> QED BY <7>2, <7>3
          <6> QED BY <6>1
        <5> HIDE DEF to
        <5> QED BY <3>1, <4>3, <5>1, <5>2 DEF IsField, to
      <4> QED BY <4>2, <4>3
    <3>2. CASE from = n - 1
      <4>1. n - 1 # 1
        BY <1>0, <2>2
      <4> QED BY <3>2, <4>1
    <3> QED BY <3>1, <3>2
  <2>9. /\ n - 1 \in Cuts(w)
        /\ \A i \in DOMAIN w : /\ w[i] = "cr" => i \in Cuts(w)
                               /\ w[i] = "lf" => i - 1 \in Cuts(w)
    BY <1>0, <2>3, <2>4
  <2> QED BY <2>5, <2>8, <2>9, RequestParts DEF n
<1> QED BY <1>1, <1>2

(* What the line of a request is made of. *)
LEMMA RequestLineParts ==
  ASSUME NEW w, NEW n \in Nat, NEW i \in Nat, NEW j \in Nat, NEW dot \in Nat,
         MinorTo(w, n, i, j, dot)
  PROVE  /\ i \in 2..(j - 1) /\ w[i] = "sp" /\ w[j] = "sp"
         /\ All(w, 1, i - 1, Token) /\ All(w, i + 1, j - 1, NotCtl \ {"sp"})
         /\ \A m \in 1..5 : w[j + m] = Protocol[m]
         /\ dot >= j + 7 /\ w[dot] = "." /\ dot < n
         /\ All(w, j + 6, dot - 1, Digits) /\ All(w, dot + 1, n, Digits)
         /\ Spaces(w, i, j) /\ DotAt(w, dot, i, j)
<1>1. DotAt(w, dot, i, j) /\ dot < n /\ All(w, dot + 1, n, Digits)
  BY DEF MinorTo
<1>2. /\ ProtocolTo(w, j + 5, i, j) /\ dot >= j + 7 /\ w[dot] = "."
      /\ All(w, j + 6, dot - 1, Digits)
  BY <1>1 DEF DotAt, MajorTo
<1>3. Spaces(w, i, j) /\ \A m \in 1..5 : w[j + m] = Protocol[m]
  BY <1>2 DEF ProtocolTo
<1>4. UriTo(w, j - 1, i) /\ w[j] = "sp"
  BY <1>3 DEF Spaces
<1> QED BY <1>1, <1>2, <1>3, <1>4 DEF UriTo

(* Its spaces and its dot are where they are. *)
LEMMA OneSpace ==
  ASSUME NEW w, NEW a \in Nat, NEW b \in Nat, NEW i \in Nat, NEW j \in Nat,
         UriTo(w, a, i), UriTo(w, b, j)
  PROVE  i = j
<1>1. i >= 2 /\ j >= 2 /\ w[i] = "sp" /\ w[j] = "sp"
  BY DEF UriTo
<1>2. ~(i \in 1..(j - 1)) /\ ~(j \in 1..(i - 1))
  BY <1>1, KindsOf DEF UriTo, All
<1> QED BY <1>1, <1>2

(* There is one place for the protocol. *)
LEMMA OneProtocol ==
  ASSUME NEW w, NEW i \in Nat, NEW j \in Nat, NEW x \in Nat, NEW y \in Nat,
         Spaces(w, i, j), Spaces(w, x, y)
  PROVE  i = x /\ j = y
<1>1. /\ UriTo(w, j - 1, i) /\ UriTo(w, y - 1, x) /\ i \in 2..(j - 1) /\ x \in 2..(y - 1)
      /\ w[j] = "sp" /\ w[y] = "sp"
  BY DEF Spaces, UriTo
<1>2. j - 1 \in Nat /\ y - 1 \in Nat
  BY <1>1
<1>3. i = x
  BY <1>1, <1>2, OneSpace
<1>4. ~(j \in (i + 1)..(y - 1)) /\ ~(y \in (i + 1)..(j - 1))
  BY <1>1, <1>3 DEF UriTo, All
<1> QED BY <1>1, <1>3, <1>4

(* There is one dot in the version. *)
LEMMA OneDot ==
  ASSUME NEW w, NEW i \in Nat, NEW j \in Nat, NEW d \in Nat, NEW e \in Nat,
         DotAt(w, d, i, j), DotAt(w, e, i, j)
  PROVE  d = e
<1>1. /\ d >= j + 7 /\ e >= j + 7 /\ w[d] = "." /\ w[e] = "."
      /\ All(w, j + 6, d - 1, Digits) /\ All(w, j + 6, e - 1, Digits)
  BY DEF DotAt, MajorTo
<1>2. ~(d \in (j + 6)..(e - 1)) /\ ~(e \in (j + 6)..(d - 1))
  BY <1>1, KindsOf DEF All
<1> QED BY <1>1, <1>2

(* A byte for which there is a move that is always allowed. *)
Finds(q, s) == \E m \in Moves[q] : s \in m[1] /\ m[2] # "header_lws"

(* The bytes of the protocol lead from one of its states to the next. *)
LEMMA ProtocolMoves ==
  ASSUME NEW m \in 1..5
  PROVE  /\ <<{Protocol[m]}, ProtocolStates[m + 1]>> \in Moves[ProtocolStates[m]]
         /\ ProtocolStates[m + 1] # "header_lws"
<1> USE DEF Protocol, ProtocolStates
<1>1. CASE m = 1
  BY <1>1, MovesOf
<1>2. CASE m = 2
  BY <1>2, MovesOf
<1>3. CASE m = 3
  BY <1>3, MovesOf
<1>4. CASE m = 4
  BY <1>4, MovesOf
<1>5. CASE m = 5
  BY <1>5, MovesOf
<1> QED BY <1>1, <1>2, <1>3, <1>4, <1>5

(* Every byte of the line of a request finds its move. *)
LEMMA FirstFinds ==
  ASSUME NEW w \in Seq(Symbols), NEW l \in Nat, NEW i \in Nat, NEW j \in Nat,
         NEW dot \in Nat, MinorTo(w, l, i, j, dot), w[l + 1] = "cr",
         NEW n \in Nat \ {0}, NEW q \in FirstLine, FirstShape(w, n - 1, q)
  PROVE  Finds(q, w[n])
<1> DEFINE s == w[n]
<1>1. /\ i \in 2..(j - 1) /\ w[i] = "sp" /\ w[j] = "sp"
      /\ All(w, 1, i - 1, Token) /\ All(w, i + 1, j - 1, NotCtl \ {"sp"})
      /\ \A m \in 1..5 : w[j + m] = Protocol[m]
      /\ dot >= j + 7 /\ w[dot] = "." /\ dot < l
      /\ All(w, j + 6, dot - 1, Digits) /\ All(w, dot + 1, l, Digits)
      /\ Spaces(w, i, j) /\ DotAt(w, dot, i, j)
  BY RequestLineParts
<1>2. UriTo(w, j - 1, i) /\ j - 1 \in Nat
  BY <1>1 DEF Spaces
<1> HIDE DEF s
<1>a. CASE q = "method_start"
  <2>1. n = 1
    BY <1>a DEF FirstShape
  <2>2. s \in Token
    BY <1>1, <2>1 DEF All, s
  <2> QED BY <1>a, <2>2, MovesOf DEF Finds, s
<1>b. CASE q = "method"
  <2>1. n - 1 >= 1 /\ All(w, 1, n - 1, Token)
    BY <1>b DEF FirstShape
  <2>2. ~(i \in 1..(n - 1))
    BY <1>1, <2>1, KindsOf DEF All
  <2>3. s \in Token \/ s = "sp"
    <3>1. n = i \/ n \in 1..(i - 1)
      BY <1>1, <2>1, <2>2
    <3> QED BY <1>1, <3>1 DEF All, s
  <2> QED BY <1>b, <2>3, MovesOf DEF Finds, s
<1>c. CASE q = "uri"
  <2>1. PICK x \in 2..(n - 1) : UriTo(w, n - 1, x)
    BY <1>c DEF FirstShape
  <2>2. n - 1 \in Nat /\ x \in Nat /\ x >= 2 /\ n > x
    BY <2>1
  <2>3. x = i
    BY <1>2, <2>1, <2>2, OneSpace
  <2>4. All(w, i + 1, n - 1, NotCtl \ {"sp"})
    BY <2>1, <2>3 DEF UriTo
  <2>5. ~(j \in (i + 1)..(n - 1))
    BY <1>1, <2>4 DEF All
  <2>6. s \in NotCtl \ {"sp"} \/ s = "sp"
    <3>1. n = j \/ n \in (i + 1)..(j - 1)
      BY <1>1, <2>2, <2>3, <2>5
    <3> QED BY <1>1, <3>1 DEF All, s
  <2> QED BY <1>c, <2>6, MovesOf DEF Finds, s
<1>d. ASSUME NEW m \in 1..6, q = ProtocolStates[m] PROVE Finds(q, s)
  <2>1. PICK x \in 2..(n - 1), y \in 2..(n - 1) : ProtocolTo(w, n - 1, x, y) /\ n - 1 = y + m - 1
    BY <1>d DEF FirstShape
  <2>2. x \in Nat /\ y \in Nat /\ Spaces(w, x, y)
    BY <2>1 DEF ProtocolTo
  <2>3. y = j
    BY <1>1, <2>2, OneProtocol
  <2>4. n = j + m
    BY <2>1, <2>3
  <2>5. CASE m = 6
    <3>1. s \in Digits
      BY <1>1, <2>4, <2>5 DEF All, s
    <3>2. q = "http_version_major_start"
      BY <1>d, <2>5 DEF ProtocolStates
    <3> QED BY <3>1, <3>2, MovesOf DEF Finds
  <2>6. CASE m # 6
    <3>1. m \in 1..5
      BY <2>6
    <3>2. s = Protocol[m]
      BY <1>1, <2>4, <3>1 DEF s
    <3>3. <<{Protocol[m]}, ProtocolStates[m + 1]>> \in Moves[q] /\ ProtocolStates[m + 1] # "header_lws"
      BY <1>d, <3>1, ProtocolMoves
    <3> QED BY <3>2, <3>3 DEF Finds
  <2> QED BY <2>5, <2>6
<1>e. CASE q = "http_version_major"
  <2>1. PICK x \in 2..(n - 1), y \in 2..(n - 1) : MajorTo(w, n - 1, x, y)
    BY <1>e DEF FirstShape
  <2>2. x \in Nat /\ y \in Nat /\ Spaces(w, x, y) /\ n - 1 >= y + 6 /\ All(w, y + 6, n - 1, Digits)
    BY <2>1 DEF MajorTo, ProtocolTo
  <2>3. y = j
    BY <1>1, <2>2, OneProtocol
  <2>4. ~(dot \in (j + 6)..(n - 1))
    BY <1>1, <2>2, <2>3, KindsOf DEF All
  <2>5. s \in Digits \/ s = "."
    <3>1. n = dot \/ n \in (j + 6)..(dot - 1)
      BY <1>1, <2>2, <2>3, <2>4
    <3> QED BY <1>1, <3>1 DEF All, s
  <2> QED BY <1>e, <2>5, MovesOf DEF Finds, s
<1>f. CASE q = "http_version_minor_start"
  <2>1. PICK x \in 2..(n - 1), y \in 2..(n - 1) : DotAt(w, n - 1, x, y)
    BY <1>f DEF FirstShape
  <2>2. x \in Nat /\ y \in Nat /\ Spaces(w, x, y) /\ n - 1 \in Nat
    BY <2>1 DEF DotAt, MajorTo, ProtocolTo
  <2>3. y = j /\ x = i
    BY <1>1, <2>2, OneProtocol
  <2>4. n - 1 = dot
    BY <1>1, <2>1, <2>2, <2>3, OneDot
  <2>5. s \in Digits
    BY <1>1, <2>4 DEF All, s
  <2> QED BY <1>f, <2>5, MovesOf DEF Finds, s
<1>g. CASE q = "http_version_minor"
  <2>1. PICK x \in 2..(n - 1), y \in 2..(n - 1), d \in 2..(n - 1) : MinorTo(w, n - 1, x, y, d)
    BY <1>g DEF FirstShape
  <2>2. /\ x \in Nat /\ y \in Nat /\ d \in Nat /\ Spaces(w, x, y) /\ DotAt(w, d, x, y)
        /\ d < n - 1 /\ All(w, d + 1, n - 1, Digits)
    <3>1. x \in Nat /\ y \in Nat /\ d \in Nat /\ n - 1 \in Nat
      BY <2>1
    <3>2. Spaces(w, x, y) /\ DotAt(w, d, x, y) /\ d < n - 1 /\ All(w, d + 1, n - 1, Digits)
      BY <2>1, <3>1, RequestLineParts
    <3> QED BY <3>1, <3>2
  <2>3. y = j /\ x = i
    BY <1>1, <2>2, OneProtocol
  <2>4. d = dot
    BY <1>1, <2>2, <2>3, OneDot
  <2>5. ~(l + 1 \in (dot + 1)..(n - 1))
    BY <2>2, <2>4, KindsOf DEF All
  <2>6. s \in Digits \/ s = "cr"
    <3>1. n = l + 1 \/ n \in (dot + 1)..l
      BY <1>1, <2>2, <2>4, <2>5
    <3> QED BY <1>1, <3>1 DEF All, s
  <2> QED BY <1>g, <2>6, MovesOf DEF Finds, s
<1>h. \/ \E m \in 1..6 : q = ProtocolStates[m]
      \/ q \in {"method_start", "method", "uri", "http_version_major",
                "http_version_minor_start", "http_version_minor"}
  BY DEF FirstLine, ProtocolStates
<1> QED BY <1>a, <1>b, <1>c, <1>d, <1>e, <1>f, <1>g, <1>h DEF s

(* There is no end of a line within a header or a continuation. *)
LEMMA FieldClean ==
  ASSUME NEW w \in Seq(Symbols), NEW from \in Nat, NEW to \in Nat, IsField(w, from, to)
  PROVE  from <= to /\ Clean(w, from, to)
<1>1. CASE IsHeader(w, from, to)
  <2>1. PICK i \in (from + 1)..(to - 1) :
          /\ w[i] = ":" /\ w[i + 1] = "sp"
          /\ All(w, from, i - 1, Token) /\ All(w, i + 2, to, NotCtl)
    BY <1>1 DEF IsHeader
  <2>2. \A l \in from..to : l \in from..(i - 1) \/ l = i \/ l = i + 1 \/ l \in (i + 2)..to
    BY <2>1
  <2> QED BY <2>1, <2>2, KindsOf DEF Clean, All
<1>2. CASE IsContinuation(w, from, to)
  <2>1. PICK i \in from..to : All(w, from, i, Blank) /\ All(w, i + 1, to, NotCtl)
    BY <1>2 DEF IsContinuation
  <2>2. \A l \in from..to : l \in from..i \/ l \in (i + 1)..to
    BY <2>1
  <2> QED BY <2>1, <2>2, KindsOf DEF Clean, All
<1> QED BY <1>1, <1>2 DEF IsField

(* Behind a line there is another, or the empty one that is the last. *)
LEMMA NextLine ==
  ASSUME NEW w \in Seq(Symbols), AsLines(w), NEW k \in Nat, k = 0 \/ Lined(w, k),
         k < Len(w) - 2
  PROVE  \E to \in k..(Len(w) - 4) : Fits(w, k + 1, to) /\ w[to + 1] = "cr" /\ w[to + 2] = "lf"
<1> DEFINE n == Len(w)
           e == EndCut(w, k + 1)
<1>1. n \in Nat /\ Lined(w, n - 2) /\ (n - 2) - 1 = n - 3
  BY DEF AsLines
<1>2. Cut(w, n - 3) /\ n - 3 \in Nat /\ w[n - 3] = "cr" /\ n - 3 >= 1
  <2>1. Cut(w, n - 3)
    BY <1>1 DEF Lined
  <2> HIDE DEF n
  <2> QED BY <1>1, <2>1 DEF Cut
<1> HIDE DEF n
<1>3. k + 1 <= n - 3
  <2>1. k # n - 3
    <3>1. CASE k = 0
      BY <1>2, <3>1
    <3>2. CASE k # 0
      <4>1. w[k] = "lf"
        <5>1. Cut(w, k - 1) /\ (k - 1) + 1 = k
          BY <3>2 DEF Lined
        <5> QED BY <5>1 DEF Cut
      <4> QED BY <1>2, <4>1
    <3> QED BY <3>1, <3>2
  <2>2. k < n - 2
    BY DEF n
  <2> QED BY <1>1, <1>2, <2>1, <2>2
<1>4. /\ e \in Cuts(w) /\ e >= k + 1 /\ e \in Nat
      /\ \A j \in Cuts(w) : j >= k + 1 => e <= j
  <2>1. n - 3 \in Cuts(w) /\ k + 1 \in Nat /\ n - 3 >= k + 1
    BY <1>2, <1>3, CutsTyped
  <2> QED BY <2>1, EndCutIs, CutsTyped
<1>5. e <= n - 3 /\ Cut(w, e)
  BY <1>2, <1>3, <1>4, CutsTyped
<1> HIDE DEF e
<1>6. IsLine(w, k + 1, e - 1)
  <2>1. k + 1 = 1 \/ Cut(w, k + 1 - 2)
    <3>1. k # 0 => Cut(w, k - 1) /\ k + 1 - 2 = k - 1
      BY DEF Lined
    <3> QED BY <3>1
  <2>2. k + 1 <= (e - 1) + 1 /\ (e - 1) + 1 = e
    BY <1>4
  <2>3. ASSUME NEW i \in (k + 1)..(e - 1), Cut(w, i) PROVE FALSE
    <3>1. i \in Cuts(w) /\ i >= k + 1 /\ i < e /\ i \in Nat
      BY <1>4, <2>3, CutsTyped
    <3> QED BY <1>4, <3>1
  <2> QED BY <1>5, <2>1, <2>2, <2>3 DEF IsLine
<1>7. Fits(w, k + 1, e - 1)
  <2>1. k + 1 \in 1..(n - 2) /\ e - 1 \in 0..((n - 2) - 2)
    BY <1>1, <1>3, <1>4, <1>5
  <2> QED BY <1>1, <1>6, <2>1 DEF Lined
<1>8. w[(e - 1) + 1] = "cr" /\ w[(e - 1) + 2] = "lf"
  <2>1. (e - 1) + 1 = e /\ (e - 1) + 2 = e + 1
    BY <1>4
  <2> QED BY <1>5, <2>1 DEF Cut
<1>9. e - 1 \in k..(n - 4)
  BY <1>1, <1>4, <1>5
<1> QED BY <1>7, <1>8, <1>9 DEF n

(* The line of a request, in terms of what the parser sees. *)
LEMMA RequestLineIs ==
  ASSUME NEW w \in Seq(Symbols), NEW l \in Nat, l <= Len(w), IsRequestLine(w, 1, l)
  PROVE  \E i, j, dot \in Nat : MinorTo(w, l, i, j, dot)
<1>1. PICK i \in 1..l, j \in 1..l :
        /\ 1 < i /\ i < j /\ w[i] = "sp" /\ w[j] = "sp"
        /\ All(w, 1, i - 1, Token) /\ All(w, i + 1, j - 1, NotCtl \ {"sp"})
        /\ IsVersion(w, j + 1, l)
  BY DEF IsRequestLine
<1>2. /\ l >= j + 1 + 7 /\ SubSeq(w, j + 1, j + 1 + 4) = <<"H", "T", "T", "P", "/">>
      /\ \E dot \in (j + 1 + 6)..(l - 1) :
           /\ w[dot] = "."
           /\ All(w, j + 1 + 5, dot - 1, Digits) /\ All(w, dot + 1, l, Digits)
  BY <1>1 DEF IsVersion
<1>3. PICK dot \in (j + 1 + 6)..(l - 1) :
           /\ w[dot] = "."
           /\ All(w, j + 1 + 5, dot - 1, Digits) /\ All(w, dot + 1, l, Digits)
  BY <1>2
<1>4. \A m \in 1..5 : w[j + m] = Protocol[m]
  <2> DEFINE u == SubSeq(w, j + 1, j + 1 + 4)
  <2>1. \A m \in 1..5 : u[m] = w[j + m]
    BY <1>1, <1>2
  <2>2. u = Protocol
    BY <1>2 DEF Protocol
  <2> HIDE DEF u
  <2> QED BY <2>1, <2>2
<1>5. j + 1 + 5 = j + 6 /\ j + 1 + 6 = j + 7
  BY <1>1
<1>6. Spaces(w, i, j)
  BY <1>1 DEF Spaces, UriTo
<1>7. ProtocolTo(w, j + 5, i, j)
  <2>1. j + 5 \in j..(j + 5) /\ (j + 5) - j = 5
    BY <1>1
  <2> QED BY <1>4, <1>6, <2>1 DEF ProtocolTo
<1>8. DotAt(w, dot, i, j)
  <2>1. dot - 1 >= j + 6 /\ All(w, j + 6, dot - 1, Digits)
    BY <1>1, <1>3, <1>5
  <2> QED BY <1>3, <1>7, <2>1 DEF DotAt, MajorTo
<1>9. MinorTo(w, l, i, j, dot)
  BY <1>1, <1>3, <1>8 DEF MinorTo
<1>10. i \in Nat /\ j \in Nat /\ dot \in Nat
  BY <1>1, <1>3
<1> QED BY <1>9, <1>10

(* Behind a line, every byte finds its move, if it is not of the last. *)
LEMMA LaterFinds ==
  ASSUME NEW w \in Seq(Symbols), AsLines(w), NEW n \in 1..(Len(w) - 1), NEW p \in Parsers,
         p.state \in {"header_line_start", "header_lws", "header_name",
                     "space_before_header_value", "header_value"},
         LaterShape(w, n - 1, p.state, p.headers)
  PROVE  \E m \in Moves[p.state] : Allowed(p, w[n], m)
<1> DEFINE q == p.state
           s == w[n]
           z == Len(w) - 2
<1>1. z \in Nat /\ w[z + 1] = "cr" /\ n <= z + 1
  <2>1. z + 1 = Len(w) - 1
    OBVIOUS
  <2>2. z >= 1
    BY DEF AsLines, Lined, Cut
  <2> QED BY <2>1, <2>2 DEF AsLines
<1> HIDE DEF q, s, z
<1>2. ASSUME NEW m \in Moves[q], s \in m[1], m[2] = "header_lws" => q # "header_line_start"
      PROVE  \E l \in Moves[p.state] : Allowed(p, w[n], l)
  BY <1>2 DEF Allowed, q, s
(* The next line, where there is one. *)
<1>3. ASSUME NEW k \in Nat, Lined(w, k), k >= 2, k < z
      PROVE  \E to \in (k + 1)..(z - 2) :
               /\ IsField(w, k + 1, to) /\ Clean(w, k + 1, to)
               /\ w[to + 1] = "cr"
  <2>1. PICK to \in k..(Len(w) - 4) : Fits(w, k + 1, to) /\ w[to + 1] = "cr" /\ w[to + 2] = "lf"
    BY <1>3, NextLine DEF z
  <2>2. IsField(w, k + 1, to)
    BY <1>3, <2>1 DEF Fits
  <2>3. k + 1 <= to /\ Clean(w, k + 1, to)
    BY <2>1, <2>2, FieldClean
  <2> QED BY <1>1, <2>1, <2>2, <2>3 DEF z
(* A line that has begun with something is not the last. *)
<1>4. ASSUME NEW k \in Nat, Lined(w, k), k < n - 1, w[k + 1] # "cr"
      PROVE  k >= 2 /\ k < z
  <2>1. k # z
    BY <1>1, <1>4
  <2>2. k >= 2
    BY <1>4 DEF Lined, Cut
  <2> QED BY <1>1, <1>4, <2>1, <2>2
<1>5. CASE q = "header_line_start"
  <2>1. Lined(w, n - 1) /\ (p.headers <=> Later(w, (n - 1) + 1)) /\ (n - 1) + 1 = n
    BY <1>5 DEF LaterShape, q
  <2>2. CASE n - 1 = z
    <3>1. s = "cr"
      BY <1>1, <2>2 DEF s
    <3> QED BY <1>2, <1>5, <3>1, MovesOf
  <2>3. CASE n - 1 # z
    <3>1. n - 1 \in Nat /\ n - 1 >= 2 /\ n - 1 < z
      BY <1>1, <2>1, <2>3 DEF Lined, Cut
    <3>2. PICK to \in n..(z - 2) : IsField(w, n, to)
      BY <1>3, <2>1, <3>1
    <3>3. CASE IsHeader(w, n, to)
      <4>1. s \in Token
        BY <3>3 DEF IsHeader, All, s
      <4> QED BY <1>2, <1>5, <4>1, MovesOf
    <3>4. CASE Later(w, n) /\ IsContinuation(w, n, to)
      <4>1. s \in Blank
        BY <3>4 DEF IsContinuation, All, s
      <4>2. p.headers
        BY <2>1, <3>4
      <4>3. <<Blank, "header_lws">> \in Moves[q]
        BY <1>5, MovesOf
      <4>4. Allowed(p, s, <<Blank, "header_lws">>)
        BY <4>1, <4>2, <4>3 DEF Allowed, q
      <4> QED BY <4>3, <4>4 DEF q, s
    <3> QED BY <3>2, <3>3, <3>4 DEF IsField
  <2> QED BY <2>2, <2>3
<1>6. CASE q = "header_lws"
  <2>1. PICK k \in 2..(n - 1) : BlanksTo(w, n - 1, k)
    BY <1>6 DEF LaterShape, q
  <2>2. Lined(w, k) /\ k < n - 1 /\ All(w, k + 1, n - 1, Blank) /\ w[k + 1] \in Blank
    BY <2>1 DEF BlanksTo, Open, All
  <2>3. PICK to \in (k + 1)..(z - 2) :
          IsField(w, k + 1, to) /\ Clean(w, k + 1, to) /\ w[to + 1] = "cr"
    BY <1>3, <1>4, <2>2, KindsOf
  <2>4. IsContinuation(w, k + 1, to)
    BY <2>2, <2>3, KindsOf DEF IsField, IsHeader, All
  <2>5. PICK i \in (k + 1)..to : All(w, k + 1, i, Blank) /\ All(w, i + 1, to, NotCtl)
    BY <2>4 DEF IsContinuation
  <2>6. ~(to + 1 \in (k + 1)..(n - 1))
    BY <2>2, <2>3, KindsOf DEF All
  <2>7. n = to + 1 \/ n \in (k + 1)..i \/ n \in (i + 1)..to
    BY <2>2, <2>5, <2>6
  <2>8. s = "cr" \/ s \in Blank \/ s \in NotCtl
    BY <2>3, <2>5, <2>7 DEF All, s
  <2>9. s = "cr" \/ s \in Blank \/ s \in NotCtl \ Blank
    BY <2>8
  <2> QED BY <1>2, <1>6, <2>9, MovesOf
<1>7. CASE q = "header_name"
  <2>1. PICK k \in 2..(n - 1) : NameTo(w, n - 1, k)
    BY <1>7 DEF LaterShape, q
  <2>2. Lined(w, k) /\ k < n - 1 /\ All(w, k + 1, n - 1, Token) /\ w[k + 1] \in Token
    BY <2>1 DEF NameTo, Open, All
  <2>3. PICK to \in (k + 1)..(z - 2) :
          IsField(w, k + 1, to) /\ Clean(w, k + 1, to) /\ w[to + 1] = "cr"
    BY <1>3, <1>4, <2>2, KindsOf
  <2>4. IsHeader(w, k + 1, to)
    BY <2>2, <2>3, KindsOf DEF IsField, IsContinuation, All
  <2>5. PICK i \in (k + 2)..(to - 1) : w[i] = ":" /\ All(w, k + 1, i - 1, Token)
    BY <2>4 DEF IsHeader
  <2>6. ~(i \in (k + 1)..(n - 1))
    BY <2>2, <2>5, KindsOf DEF All
  <2>7. n = i \/ n \in (k + 1)..(i - 1)
    BY <2>2, <2>5, <2>6
  <2>8. s = ":" \/ s \in Token
    BY <2>5, <2>7 DEF All, s
  <2> QED BY <1>2, <1>7, <2>8, MovesOf
<1>8. CASE q = "space_before_header_value"
  <2>1. PICK k \in 2..(n - 1) : ColonAt(w, n - 1, k)
    BY <1>8 DEF LaterShape, q
  <2>2. /\ Lined(w, k) /\ k < n - 2 /\ All(w, k + 1, n - 2, Token) /\ w[k + 1] \in Token
        /\ w[n - 1] = ":"
    <3>1. (n - 1) - 1 = n - 2
      OBVIOUS
    <3> QED BY <2>1, <3>1 DEF ColonAt, NameTo, Open, All
  <2>3. PICK to \in (k + 1)..(z - 2) :
          IsField(w, k + 1, to) /\ Clean(w, k + 1, to) /\ w[to + 1] = "cr"
    <3>1. k < n - 1
      BY <2>2
    <3> QED BY <1>3, <1>4, <2>2, <3>1, KindsOf
  <2>4. IsHeader(w, k + 1, to)
    BY <2>2, <2>3, KindsOf DEF IsField, IsContinuation, All
  <2>5. PICK i \in (k + 2)..(to - 1) :
          w[i] = ":" /\ w[i + 1] = "sp" /\ All(w, k + 1, i - 1, Token)
    BY <2>4 DEF IsHeader
  <2>6. i = n - 1
    <3>1. ~(i \in (k + 1)..(n - 2))
      BY <2>2, <2>5, KindsOf DEF All
    <3>2. ~(n - 1 \in (k + 1)..(i - 1))
      BY <2>2, <2>5, KindsOf DEF All
    <3> QED BY <2>2, <2>5, <3>1, <3>2
  <2>7. s = "sp"
    <3>1. i + 1 = n
      BY <2>6
    <3> QED BY <2>5, <3>1 DEF s
  <2> QED BY <1>2, <1>8, <2>7, MovesOf
<1>9. CASE q = "header_value"
  <2>1. PICK k \in 2..(n - 1), i \in 2..(n - 1) :
          HeaderTo(w, n - 1, k, i) \/ ContinuationTo(w, n - 1, k, i)
    BY <1>9 DEF LaterShape, q
  <2>2. CASE HeaderTo(w, n - 1, k, i)
    <3>1. /\ Lined(w, k) /\ k < i - 1 /\ All(w, k + 1, i - 1, Token) /\ w[k + 1] \in Token
          /\ w[i] = ":" /\ i < n - 1 /\ All(w, i + 2, n - 1, NotCtl) /\ w[i + 1] = "sp"
      BY <2>2 DEF HeaderTo, ColonAt, NameTo, Open, All
    <3>2. PICK to \in (k + 1)..(z - 2) :
            IsField(w, k + 1, to) /\ Clean(w, k + 1, to) /\ w[to + 1] = "cr"
      <4>1. k < n - 1
        BY <3>1
      <4> QED BY <1>3, <1>4, <3>1, <4>1, KindsOf
    <3>3. IsHeader(w, k + 1, to)
      BY <3>1, <3>2, KindsOf DEF IsField, IsContinuation, All
    <3>4. PICK x \in (k + 2)..(to - 1) :
            w[x] = ":" /\ All(w, k + 1, x - 1, Token) /\ All(w, x + 2, to, NotCtl)
      BY <3>3 DEF IsHeader
    <3>5. x = i
      <4>1. ~(i \in (k + 1)..(x - 1)) /\ ~(x \in (k + 1)..(i - 1))
        BY <3>1, <3>4, KindsOf DEF All
      <4> QED BY <3>1, <3>4, <4>1
    <3>6. ~(to + 1 \in (i + 2)..(n - 1))
      BY <3>1, <3>2, KindsOf DEF All
    <3>7. n = to + 1 \/ n \in (x + 2)..to
      BY <3>1, <3>4, <3>5, <3>6
    <3>8. s = "cr" \/ s \in NotCtl
      BY <3>2, <3>4, <3>7 DEF All, s
    <3> QED BY <1>2, <1>9, <3>8, MovesOf
  <2>3. CASE ContinuationTo(w, n - 1, k, i)
    <3>1. /\ Lined(w, k) /\ k < i /\ All(w, k + 1, i, Blank) /\ w[k + 1] \in Blank
          /\ i < n - 1 /\ All(w, i + 1, n - 1, NotCtl) /\ w[i + 1] \notin Blank
      BY <2>3 DEF ContinuationTo, BlanksTo, Open, All
    <3>2. PICK to \in (k + 1)..(z - 2) :
            IsField(w, k + 1, to) /\ Clean(w, k + 1, to) /\ w[to + 1] = "cr"
      <4>1. k < n - 1
        BY <3>1
      <4> QED BY <1>3, <1>4, <3>1, <4>1, KindsOf
    <3>3. IsContinuation(w, k + 1, to)
      BY <3>1, <3>2, KindsOf DEF IsField, IsHeader, All
    <3>4. PICK x \in (k + 1)..to : All(w, k + 1, x, Blank) /\ All(w, x + 1, to, NotCtl)
      BY <3>3 DEF IsContinuation
    <3>5. ~(to + 1 \in (k + 1)..(n - 1))
      <4>1. ~(to + 1 \in (k + 1)..i) /\ ~(to + 1 \in (i + 1)..(n - 1))
        BY <3>1, <3>2, KindsOf DEF All
      <4> QED BY <3>1, <4>1
    <3>6. n = to + 1 \/ n \in (x + 1)..to
      <4>1. ~(i + 1 \in (k + 1)..x)
        BY <3>1, <3>4 DEF All
      <4> QED BY <3>1, <3>2, <3>4, <3>5, <4>1
    <3>7. s = "cr" \/ s \in NotCtl
      BY <3>2, <3>4, <3>6 DEF All, s
    <3> QED BY <1>2, <1>9, <3>7, MovesOf
  <2> QED BY <2>1, <2>2, <2>3
<1> QED BY <1>5, <1>6, <1>7, <1>8, <1>9 DEF q

(* No move is a refusal, and only the last is a request. *)
LEMMA MovesLead ==
  ASSUME NEW q \in DOMAIN Moves, NEW m \in Moves[q]
  PROVE  m[2] # "bad" /\ (m[2] = "good" => q = "expecting_newline_3")
  BY MovesOf DEF Moves

(* A byte that has been seen, by the state of a later line. *)
LEMMA LastSeen ==
  ASSUME NEW w, NEW n \in Nat \ {0}, NEW p \in Parsers,
         p.state \in {"header_line_start", "header_lws", "header_name",
                     "space_before_header_value", "header_value"},
         LaterShape(w, n, p.state, p.headers)
  PROVE  w[n] # "cr"
<1>1. CASE p.state = "header_line_start"
  <2>1. Cut(w, n - 1) /\ (n - 1) + 1 = n
    BY <1>1 DEF LaterShape, Lined
  <2> QED BY <2>1 DEF Cut
<1>2. CASE p.state = "header_lws"
  <2>1. PICK k \in 2..n : BlanksTo(w, n, k)
    BY <1>2 DEF LaterShape
  <2> QED BY <2>1, KindsOf DEF BlanksTo, Open, All
<1>3. CASE p.state = "header_name"
  <2>1. PICK k \in 2..n : NameTo(w, n, k)
    BY <1>3 DEF LaterShape
  <2> QED BY <2>1, KindsOf DEF NameTo, Open, All
<1>4. CASE p.state = "space_before_header_value"
  BY <1>4 DEF LaterShape, ColonAt
<1>5. CASE p.state = "header_value"
  <2>1. PICK k \in 2..n, i \in 2..n : HeaderTo(w, n, k, i) \/ ContinuationTo(w, n, k, i)
    BY <1>5 DEF LaterShape
  <2>2. CASE HeaderTo(w, n, k, i)
    <3>1. i < n /\ w[i + 1] = "sp" /\ All(w, i + 2, n, NotCtl)
      BY <2>2 DEF HeaderTo
    <3>2. n = i + 1 \/ n \in (i + 2)..n
      BY <3>1
    <3> QED BY <3>1, <3>2, KindsOf DEF All
  <2>3. CASE ContinuationTo(w, n, k, i)
    BY <2>3, KindsOf DEF ContinuationTo, All
  <2> QED BY <2>1, <2>2, <2>3
<1> QED BY <1>1, <1>2, <1>3, <1>4, <1>5

(* Every byte of a request finds its move. *)
LEMMA EveryByteFinds ==
  ASSUME NEW w \in Seq(Symbols), AsLines(w), NEW n \in 1..Len(w), NEW p \in Parsers,
         ~Judged(p), Shape(w, n - 1, p)
  PROVE  \E m \in Moves[p.state] : Allowed(p, w[n], m)
<1> DEFINE z == Len(w) - 2
<1>1. /\ Lined(w, z) /\ w[z + 1] = "cr" /\ w[z + 2] = "lf" /\ z \in Nat /\ z >= 1
      /\ z + 2 = Len(w)
  <2>1. z + 1 = Len(w) - 1 /\ z + 2 = Len(w) /\ Lined(w, z)
    BY DEF AsLines
  <2>2. z >= 1
    BY <2>1 DEF Lined, Cut
  <2> QED BY <2>1, <2>2 DEF AsLines
<1>2. /\ FirstShape(w, n - 1, p.state) /\ LaterShape(w, n - 1, p.state, p.headers)
      /\ n \in Nat \ {0} /\ n <= z + 2 /\ p.state \in DOMAIN Moves
  BY <1>1 DEF Shape, Parsers, Judged
<1> HIDE DEF z
<1>3. CASE p.state \in FirstLine
  <2>1. PICK to \in 0..(Len(w) - 4) :
          Fits(w, 0 + 1, to) /\ w[to + 1] = "cr" /\ w[to + 2] = "lf"
    <3>1. 0 \in Nat /\ 0 < Len(w) - 2
      BY <1>1
    <3> QED BY <3>1, NextLine
  <2>2. IsRequestLine(w, 1, to) /\ to \in Nat /\ to <= Len(w)
    BY <2>1 DEF Fits
  <2>3. PICK i \in Nat, j \in Nat, dot \in Nat : MinorTo(w, to, i, j, dot)
    BY <2>2, RequestLineIs
  <2>4. Finds(p.state, w[n])
    BY <1>2, <1>3, <2>1, <2>2, <2>3, FirstFinds
  <2> QED BY <2>4 DEF Finds, Allowed
<1>4. CASE p.state \in {"expecting_newline_1", "expecting_newline_2", "expecting_newline_3"}
  <2>1. w[n - 1] = "cr" /\ n - 1 >= 1
    <3>1. CASE p.state = "expecting_newline_1"
      BY <1>2, <3>1 DEF FirstShape
    <3>2. CASE p.state = "expecting_newline_2"
      BY <1>2, <3>2 DEF LaterShape
    <3>3. CASE p.state = "expecting_newline_3"
      <4>1. w[n - 1] = "cr" /\ Lined(w, (n - 1) - 1)
        BY <1>2, <3>3 DEF LaterShape
      <4> QED BY <1>2, <4>1 DEF Lined, Cut
    <3> QED BY <1>4, <3>1, <3>2, <3>3
  <2>2. w[n] = "lf"
    <3>1. CASE n = z + 2
      BY <1>1, <3>1
    <3>2. CASE n # z + 2
      <4>1. n - 1 \in 1..z
        BY <1>1, <1>2, <2>1, <3>2
      <4>2. (n - 1) + 1 = n
        BY <1>2
      <4> QED BY <1>1, <2>1, <4>1, <4>2 DEF Lined
    <3> QED BY <3>1, <3>2
  <2>3. Finds(p.state, "lf")
    <3>1. Finds("expecting_newline_1", "lf")
      BY MovesOf DEF Finds
    <3>2. Finds("expecting_newline_2", "lf")
      BY MovesOf DEF Finds
    <3>3. Finds("expecting_newline_3", "lf")
      BY MovesOf DEF Finds
    <3> QED BY <1>4, <3>1, <3>2, <3>3
  <2> QED BY <2>2, <2>3 DEF Finds, Allowed
<1>5. CASE p.state \in {"header_line_start", "header_lws", "header_name",
                        "space_before_header_value", "header_value"}
  <2>1. n # z + 2
    <3>1. SUFFICES ASSUME n = z + 2 PROVE FALSE
      OBVIOUS
    <3>2. n - 1 = z + 1 /\ n - 1 \in Nat \ {0}
      BY <1>1, <3>1
    <3>3. w[n - 1] = "cr"
      BY <1>1, <3>2
    <3> QED BY <1>2, <1>5, <3>2, <3>3, LastSeen
  <2>2. n \in 1..(Len(w) - 1)
    BY <1>1, <1>2, <2>1
  <2> QED BY <1>2, <1>5, <2>2, LaterFinds
<1> QED BY <1>2, <1>3, <1>4, <1>5 DEF Moves, FirstLine

(* The empty line is the last. *)
LEMMA EmptyIsLast ==
  ASSUME NEW w \in Seq(Symbols), AsLines(w), NEW n \in 1..Len(w), NEW p \in Parsers,
         Shape(w, n - 1, p), p.state = "expecting_newline_3"
  PROVE  n = Len(w)
<1>1. w[n - 1] = "cr" /\ Lined(w, (n - 1) - 1)
  BY DEF Shape, LaterShape
<1> DEFINE k == n - 2
<1>2. k \in Nat /\ k >= 2 /\ Lined(w, k) /\ k + 1 = n - 1
  <2>1. (n - 1) - 1 = k
    OBVIOUS
  <2>2. k >= 2
    BY <1>1, <2>1 DEF Lined, Cut
  <2> QED BY <1>1, <2>1, <2>2
<1> SUFFICES ASSUME n # Len(w) PROVE FALSE
  OBVIOUS
<1>3. k < Len(w) - 2
  OBVIOUS
<1> HIDE DEF k
<1>4. PICK to \in k..(Len(w) - 4) : Fits(w, k + 1, to) /\ w[to + 1] = "cr" /\ w[to + 2] = "lf"
  BY <1>2, <1>3, NextLine
<1>5. IsField(w, k + 1, to)
  BY <1>2, <1>4 DEF Fits
<1>6. k + 1 <= to /\ Clean(w, k + 1, to)
  <2>1. k + 1 \in Nat /\ to \in Nat
    BY <1>2, <1>4
  <2> QED BY <1>5, <2>1, FieldClean
<1> QED BY <1>1, <1>2, <1>6 DEF Clean

(* No part of a request gets a verdict but the whole. *)
LEMMA Unjudged ==
  ASSUME NEW w \in Seq(Symbols), AsLines(w), NEW g, Run(NewParser, w, g)
  PROVE  /\ \A n \in 0..(Len(w) - 1) : ~Judged(g[n])
         /\ g[Len(w)].state # "bad"
<1>1. NewParser \in Parsers /\ g[0] = NewParser /\ ~Judged(NewParser)
  BY ParseNothing DEF Run, NewParser, Judged
<1>2. ASSUME NEW n \in 1..Len(w), ~Judged(g[n - 1])
      PROVE  /\ g[n].state # "bad" /\ (g[n].state = "good" => n = Len(w))
  <2> DEFINE p == g[n - 1]
  <2>1. p \in Parsers /\ g[n] = Taken(p, w[n]) /\ n - 1 \in 0..Len(w) /\ w[n] \in Symbols
    BY DEF Run
  <2>2. Shape(w, n - 1, p)
    BY <1>2, <2>1, RunShapes
  <2>3. p.state \in DOMAIN Moves
    BY <1>2, <2>1 DEF Parsers, Judged
  <2>4. \E m \in Moves[p.state] : Allowed(p, w[n], m)
    BY <1>2, <2>1, <2>2, EveryByteFinds
  <2>5. \E m \in Moves[p.state] : g[n].state = m[2]
    BY <1>2, <2>1, <2>4, TakenMoves
  <2>6. g[n].state # "bad" /\ (g[n].state = "good" => p.state = "expecting_newline_3")
    BY <2>3, <2>5, MovesLead
  <2>7. p.state = "expecting_newline_3" => n = Len(w)
    BY <2>1, <2>2, EmptyIsLast
  <2> QED BY <2>6, <2>7
<1>3. \A n \in 0..(Len(w) - 1) : ~Judged(g[n])
  <2> DEFINE Bad == {i \in 0..(Len(w) - 1) : Judged(g[i])}
  <2> SUFFICES ASSUME Bad # {} PROVE FALSE
    OBVIOUS
  <2>1. Bad \in SUBSET Nat
    OBVIOUS
  <2>2. PICK i \in Bad : \A j \in Bad : i <= j
    <3> HIDE DEF Bad
    <3> QED BY <2>1, LeastExists
  <2>3. i # 0 /\ Judged(g[i])
    BY <1>1, <2>2
  <2>4. i \in 1..Len(w) /\ i # Len(w) /\ i - 1 \in 0..(Len(w) - 1)
    BY <2>2, <2>3
  <2>5. ~Judged(g[i - 1])
    BY <2>2, <2>4
  <2>6. g[i].state # "bad" /\ g[i].state # "good"
    BY <1>2, <2>4, <2>5
  <2> QED BY <2>3, <2>6 DEF Judged
<1>4. Len(w) >= 1
  BY DEF AsLines, Lined, Cut
<1>5. Len(w) \in 1..Len(w) /\ Len(w) - 1 \in 0..(Len(w) - 1)
  BY <1>4
<1> QED BY <1>2, <1>3, <1>5

(* Whatever is a request the parser accepts. *)
LEMMA LinesAccepted ==
  ASSUME NEW w \in Seq(Symbols), AsLines(w), NEW g, Run(NewParser, w, g)
  PROVE  Len(w) >= 3 /\ g[Len(w)].state = "good"
<1> DEFINE n == Len(w)
<1>1. n \in Nat /\ n >= 3 /\ w[n - 1] = "cr" /\ w[n] = "lf" /\ w[n - 2] = "lf"
  <2>1. Lined(w, n - 2) /\ w[n - 1] = "cr" /\ w[n] = "lf"
    BY DEF AsLines
  <2>2. Cut(w, (n - 2) - 1) /\ ((n - 2) - 1) + 1 = n - 2
    BY <2>1 DEF Lined
  <2> QED BY <2>1, <2>2 DEF Cut
<1>2. n \in 1..Len(w) /\ n - 1 \in 1..Len(w) /\ n - 2 \in 1..Len(w) /\ n - 3 \in 0..Len(w)
  BY <1>1
<1>3. (n - 1) - 1 = n - 2 /\ (n - 2) - 1 = n - 3
  BY <1>1
<1>4. ~Judged(g[n - 1]) /\ ~Judged(g[n - 2]) /\ ~Judged(g[n - 3]) /\ g[n].state # "bad"
  BY <1>1, <1>2, Unjudged
<1>5. /\ g[n] = Taken(g[n - 1], w[n]) /\ g[n - 1] = Taken(g[n - 2], w[n - 1])
      /\ g[n - 2] = Taken(g[n - 3], w[n - 2])
      /\ g[n - 1] \in Parsers /\ g[n - 2] \in Parsers /\ g[n - 3] \in Parsers
  <2>1. \A i \in 1..Len(w) : g[i] = Taken(g[i - 1], w[i])
    BY DEF Run
  <2>2. g \in [0..Len(w) -> Parsers]
    BY DEF Run
  <2> HIDE DEF n
  <2> QED BY <1>1, <1>2, <1>3, <2>1, <2>2 DEF n
<1> HIDE DEF n
<1>6. "lf" \in Symbols /\ "cr" \in Symbols
  BY DEF Symbols
<1>7. \A p \in Parsers : ~Judged(p) => p.state \in DOMAIN Moves
  BY DEF Parsers, Judged
<1>8. g[n - 2].state = "header_line_start"
  <2>1. g[n - 2].state \in DOMAIN Moves
    BY <1>4, <1>5, <1>7
  <2> QED BY <1>1, <1>4, <1>5, <1>6, <2>1, CameFrom, KindsOf DEF Moves
<1>9. g[n - 1].state = "expecting_newline_3"
  <2>1. g[n - 1].state \in DOMAIN Moves
    BY <1>4, <1>5, <1>7
  <2> QED BY <1>1, <1>4, <1>5, <1>6, <1>8, <2>1, CameFrom, KindsOf DEF Moves
<1>10. g[n].state = "good"
  <2>1. \/ \E m \in Moves[g[n - 1].state] : g[n].state = m[2]
        \/ g[n].state = "bad"
    BY <1>1, <1>4, <1>5, <1>6, TakenMoves
  <2> QED BY <1>4, <1>9, <2>1, MovesOf
<1> QED BY <1>1, <1>10 DEF n

(* What is a request, in terms of a run of the parser. *)
LEMMA RunIsGrammar ==
  ASSUME NEW w \in Seq(Symbols), NEW g, Run(NewParser, w, g)
  PROVE  IsRequest(w) <=> /\ g[Len(w)].state = "good"
                          /\ \A n \in 0..(Len(w) - 1) : ~Judged(g[n])
<1>1. g[0] = NewParser /\ NewParser.state = "method_start" /\ Len(w) \in Nat
  BY DEF Run, NewParser
<1>2. ASSUME g[Len(w)].state = "good", \A n \in 0..(Len(w) - 1) : ~Judged(g[n])
      PROVE  AsLines(w)
  <2>1. Len(w) # 0
    BY <1>1, <1>2
  <2>2. Len(w) >= 1 /\ ~Judged(g[Len(w) - 1])
    BY <1>1, <1>2, <2>1
  <2> QED BY <1>2, <2>2, AcceptedAsLines
<1>3. ASSUME AsLines(w)
      PROVE  g[Len(w)].state = "good" /\ \A n \in 0..(Len(w) - 1) : ~Judged(g[n])
  BY <1>3, LinesAccepted, Unjudged
<1> QED BY <1>2, <1>3, RequestAsLines

-----------------------------------------------------------------------------
(* The verdict of the grammar.                                             *)

(* A beginning of a beginning. *)
LEMMA SubSub ==
  ASSUME NEW w \in Seq(Symbols), NEW n \in 0..Len(w), NEW i \in 0..n
  PROVE  /\ SubSeq(w, 1, n) \in Seq(Symbols) /\ Len(SubSeq(w, 1, n)) = n
         /\ SubSeq(SubSeq(w, 1, n), 1, i) = SubSeq(w, 1, i)
<1> DEFINE u == SubSeq(w, 1, n)
           x == SubSeq(u, 1, i)
           y == SubSeq(w, 1, i)
<1>1. u \in Seq(Symbols) /\ Len(u) = n /\ \A l \in 1..n : u[l] = w[l]
  OBVIOUS
<1>2. y \in Seq(Symbols) /\ Len(y) = i /\ \A l \in 1..i : y[l] = w[l]
  OBVIOUS
<1> HIDE DEF u, y
<1>3. x \in Seq(Symbols) /\ Len(x) = i /\ \A l \in 1..i : x[l] = u[l]
  BY <1>1
<1> HIDE DEF x
<1>4. x = y
  BY <1>1, <1>2, <1>3, SeqEqual
<1> QED BY <1>1, <1>4 DEF u, x, y

(* A beginning of two pieces. *)
LEMMA SubJoined ==
  ASSUME NEW u \in Seq(Symbols), NEW s \in Seq(Symbols)
  PROVE  /\ u \o s \in Seq(Symbols) /\ Len(u \o s) = Len(u) + Len(s)
         /\ \A i \in 0..Len(u) : SubSeq(u \o s, 1, i) = SubSeq(u, 1, i)
         /\ \A i \in 0..Len(s) : SubSeq(u \o s, 1, Len(u) + i) = u \o SubSeq(s, 1, i)
<1> DEFINE v == u \o s
           n == Len(u)
<1>1. /\ v \in Seq(Symbols) /\ Len(v) = n + Len(s) /\ n \in Nat /\ Len(s) \in Nat
      /\ \A l \in 1..n : v[l] = u[l]
      /\ \A l \in 1..Len(s) : v[n + l] = s[l]
  OBVIOUS
<1> HIDE DEF v
<1>2. ASSUME NEW i \in 0..n PROVE SubSeq(v, 1, i) = SubSeq(u, 1, i)
  <2> DEFINE x == SubSeq(v, 1, i)
             y == SubSeq(u, 1, i)
  <2>1. i <= Len(v)
    BY <1>1
  <2>2. x \in Seq(Symbols) /\ Len(x) = i /\ \A l \in 1..i : x[l] = v[l]
    BY <1>1, <2>1
  <2>3. y \in Seq(Symbols) /\ Len(y) = i /\ \A l \in 1..i : y[l] = u[l]
    OBVIOUS
  <2> HIDE DEF x, y
  <2>4. ASSUME NEW l \in 1..i PROVE x[l] = y[l]
    <3>1. x[l] = v[l] /\ y[l] = u[l]
      BY <2>2, <2>3
    <3>2. l \in 1..n
      BY <1>1
    <3> QED BY <1>1, <3>1, <3>2
  <2>5. x = y
    BY <2>2, <2>3, <2>4, SeqEqual
  <2> QED BY <2>5 DEF x, y
<1>3. ASSUME NEW i \in 0..Len(s) PROVE SubSeq(v, 1, n + i) = u \o SubSeq(s, 1, i)
  <2> DEFINE x == SubSeq(v, 1, n + i)
             b == SubSeq(s, 1, i)
             y == u \o b
  <2>1. n + i \in Nat /\ n + i <= Len(v)
    BY <1>1
  <2>2. x \in Seq(Symbols) /\ Len(x) = n + i /\ \A l \in 1..(n + i) : x[l] = v[l]
    BY <1>1, <2>1
  <2>3. b \in Seq(Symbols) /\ Len(b) = i /\ \A l \in 1..i : b[l] = s[l]
    OBVIOUS
  <2> HIDE DEF x, b
  <2>4. /\ y \in Seq(Symbols) /\ Len(y) = n + i
        /\ \A l \in 1..n : y[l] = u[l]
        /\ \A l \in 1..i : y[n + l] = b[l]
    <3>1. /\ y \in Seq(Symbols) /\ Len(y) = Len(u) + Len(b)
          /\ \A l \in 1..Len(u) : y[l] = u[l]
      BY <2>3
    <3>2. ASSUME NEW l \in 1..i PROVE y[n + l] = b[l]
      <4>1. n + l \in 1..(Len(u) + Len(b)) /\ ~(n + l <= Len(u)) /\ (n + l) - Len(u) = l
        BY <1>1, <2>3
      <4>2. y[n + l] = b[(n + l) - Len(u)]
        BY <2>3, <4>1
      <4> QED BY <4>1, <4>2
    <3> HIDE DEF y
    <3> QED BY <2>3, <3>1, <3>2
  <2> HIDE DEF y
  <2>5. ASSUME NEW l \in 1..(n + i) PROVE x[l] = y[l]
    <3>1. CASE l <= n
      BY <1>1, <2>2, <2>4, <3>1
    <3>2. CASE l > n
      <4>1. l - n \in 1..i /\ l - n \in 1..Len(s) /\ n + (l - n) = l
        BY <1>1, <3>2
      <4>2. x[l] = s[l - n]
        BY <1>1, <2>2, <4>1
      <4>3. y[l] = s[l - n]
        BY <2>3, <2>4, <4>1
      <4> QED BY <4>2, <4>3
    <3> QED BY <1>1, <3>1, <3>2
  <2>6. x = y
    BY <2>2, <2>4, <2>5, SeqEqual
  <2> QED BY <2>6 DEF x, y, b
<1> QED BY <1>1, <1>2, <1>3 DEF v

(* What the parser accepts is exactly what the grammar says is a request,  *)
(* for every text (http.cpp:477-742).                                      *)
THEOREM ParserIsGrammar ==
  ASSUME NEW w \in Seq(Symbols)
  PROVE  IsRequest(w) <=> Finishes(NewParser, w)
<1>1. NewParser \in Parsers /\ Len(w) \in Nat
  BY ParseNothing
<1>2. PICK g : Run(NewParser, w, g)
  BY <1>1, RunExists
<1>3. parse(NewParser, w) = g[Len(w)]
  BY <1>1, <1>2, ParseRuns
<1>4. \A i \in 0..(Len(w) - 1) : parse(NewParser, SubSeq(w, 1, i)) = g[i]
  BY <1>1, <1>2, PrefixRuns
<1> QED BY <1>2, <1>3, <1>4, RunIsGrammar DEF Finishes

(* The course of the parser does not depend on what the URI is. *)
LEMMA SameCourse ==
  ASSUME NEW p \in Parsers, NEW q \in Parsers, p.state = q.state, p.headers = q.headers,
         NEW s \in Seq(Symbols)
  PROVE  parse(p, s).state = parse(q, s).state
<1>1. PICK f : Run(p, s, f)
  BY RunExists
<1>2. PICK g : Run(q, s, g)
  BY RunExists
<1> DEFINE Same(i) == f[i].state = g[i].state /\ f[i].headers = g[i].headers
           Bad == {i \in 0..Len(s) : ~Same(i)}
<1>3. ASSUME Bad # {} PROVE FALSE
  <2>1. Bad \in SUBSET Nat
    OBVIOUS
  <2>2. PICK i \in Bad : \A j \in Bad : i <= j
    <3> HIDE DEF Bad
    <3> QED BY <1>3, <2>1, LeastExists
  <2>3. i # 0
    BY <1>1, <1>2, <2>2 DEF Run
  <2>4. i \in 1..Len(s) /\ i - 1 \in 0..Len(s)
    BY <2>2, <2>3
  <2>5. Same(i - 1)
    BY <2>2, <2>4
  <2>6. /\ f[i] = Taken(f[i - 1], s[i]) /\ g[i] = Taken(g[i - 1], s[i])
        /\ f[i - 1] \in Parsers /\ g[i - 1] \in Parsers
    BY <1>1, <1>2, <2>4 DEF Run
  <2>7. Same(i)
    <3>1. Judged(f[i - 1]) <=> Judged(g[i - 1])
      BY <2>5 DEF Judged
    <3>2. Targets(f[i - 1], s[i]) = Targets(g[i - 1], s[i])
      BY <2>5 DEF Targets
    <3>3. CASE Judged(f[i - 1])
      BY <2>5, <2>6, <3>1, <3>3 DEF Taken
    <3>4. CASE ~Judged(f[i - 1])
      <4>1. f[i] = consume(f[i - 1], s[i]) /\ g[i] = consume(g[i - 1], s[i])
        BY <2>6, <3>1, <3>4 DEF Taken
      <4> QED BY <2>5, <3>2, <4>1 DEF consume
    <3> QED BY <3>3, <3>4
  <2> QED BY <2>2, <2>7
<1>4. Len(s) \in 0..Len(s)
  OBVIOUS
<1>5. Same(Len(s))
  BY <1>3, <1>4
<1>6. parse(p, s) = f[Len(s)] /\ parse(q, s) = g[Len(s)]
  BY <1>1, <1>2, ParseRuns
<1> QED BY <1>5, <1>6

(* The parser after the first n bytes of a text. *)
Upto(w, n) == parse(NewParser, SubSeq(w, 1, n))

(* As long as there is no verdict, the beginning of a text can become a    *)
(* request with one of the endings.                                        *)
LEMMA CanEnd ==
  ASSUME NEW u \in Seq(Symbols), \A i \in 0..Len(u) : ~Judged(Upto(u, i))
  PROVE  ~IsRequest(u) /\ \E s \in Endings : IsRequest(u \o s)
<1> DEFINE p == parse(NewParser, u)
<1>0. NewParser \in Parsers /\ Len(u) \in 0..Len(u) /\ SubSeq(u, 1, Len(u)) = u
  BY ParseNothing
<1>1. p \in Parsers /\ ~Judged(p)
  BY <1>0, ParseTyped DEF Upto
<1>2. ~IsRequest(u)
  BY <1>1, ParserIsGrammar DEF Finishes, Judged
<1> HIDE DEF p
<1>3. p.state \in DOMAIN Moves /\ p.headers \in BOOLEAN
  BY <1>1 DEF Parsers, Judged
<1> DEFINE q == [state |-> p.state, headers |-> p.headers, uri |-> <<>>]
<1>4. q \in Parsers /\ q.state = p.state /\ q.headers = p.headers
  BY <1>3 DEF Parsers
<1>5. PICK s \in Endings : Finishes(q, s)
  BY <1>3, EndingsAssumption
<1> HIDE DEF q
<1>6. s \in Seq(Symbols)
  BY EndingsAssumption
<1>7. parse(p, s).state = "good"
  BY <1>1, <1>4, <1>5, <1>6, SameCourse DEF Finishes
<1>8. ASSUME NEW i \in 0..(Len(s) - 1) PROVE ~Judged(parse(p, SubSeq(s, 1, i)))
  <2>1. SubSeq(s, 1, i) \in Seq(Symbols)
    BY <1>6
  <2>2. parse(p, SubSeq(s, 1, i)).state = parse(q, SubSeq(s, 1, i)).state
    BY <1>1, <1>4, <2>1, SameCourse
  <2>3. ~Judged(parse(q, SubSeq(s, 1, i)))
    BY <1>5 DEF Finishes
  <2> QED BY <2>2, <2>3 DEF Judged
<1>9. /\ u \o s \in Seq(Symbols) /\ Len(u \o s) = Len(u) + Len(s)
      /\ \A i \in 0..Len(u) : SubSeq(u \o s, 1, i) = SubSeq(u, 1, i)
      /\ \A i \in 0..Len(s) : SubSeq(u \o s, 1, Len(u) + i) = u \o SubSeq(s, 1, i)
  BY <1>6, SubJoined
<1>10. parse(NewParser, u \o s).state = "good"
  BY <1>0, <1>6, <1>7, ParsedInPieces DEF p
<1>11. ASSUME NEW i \in 0..(Len(u \o s) - 1)
       PROVE  ~Judged(parse(NewParser, SubSeq(u \o s, 1, i)))
  <2>1. CASE i <= Len(u)
    <3>1. i \in 0..Len(u)
      BY <1>0, <1>9, <2>1
    <3>2. ~Judged(Upto(u, i)) /\ SubSeq(u \o s, 1, i) = SubSeq(u, 1, i)
      BY <1>9, <3>1
    <3> QED BY <3>2 DEF Upto
  <2>2. CASE i > Len(u)
    <3> DEFINE j == i - Len(u)
    <3>1. j \in 0..(Len(s) - 1) /\ j \in 0..Len(s) /\ Len(u) + j = i
      BY <1>0, <1>6, <1>9, <2>2
    <3>2. SubSeq(u \o s, 1, i) = u \o SubSeq(s, 1, j)
      BY <1>9, <3>1
    <3>3. SubSeq(s, 1, j) \in Seq(Symbols)
      BY <1>6, <3>1
    <3> HIDE DEF j
    <3>4. parse(p, SubSeq(s, 1, j)) = parse(NewParser, u \o SubSeq(s, 1, j))
      BY <1>0, <3>3, ParsedInPieces DEF p
    <3> QED BY <1>8, <3>1, <3>2, <3>4
  <2> QED BY <1>0, <1>9, <2>1, <2>2
<1>12. Finishes(NewParser, u \o s)
  BY <1>10, <1>11 DEF Finishes
<1>13. IsRequest(u \o s)
  BY <1>9, <1>12, ParserIsGrammar
<1> QED BY <1>2, <1>13

(* After a refusal there is no way to a request. *)
LEMMA NoWay ==
  ASSUME NEW u \in Seq(Symbols), NEW n \in 0..Len(u), Upto(u, n).state = "bad"
  PROVE  ~IsRequest(u) /\ \A s \in Endings : ~IsRequest(u \o s)
<1>1. ASSUME NEW s \in Seq(Symbols) PROVE ~IsRequest(u \o s)
  <2>1. /\ u \o s \in Seq(Symbols) /\ Len(u \o s) = Len(u) + Len(s)
        /\ SubSeq(u \o s, 1, n) = SubSeq(u, 1, n) /\ Len(s) \in Nat /\ Len(u) \in Nat
    BY SubJoined
  <2>2. Upto(u \o s, n).state = "bad"
    BY <2>1 DEF Upto
  <2>3. CASE n < Len(u \o s)
    <3>1. n \in 0..(Len(u \o s) - 1)
      BY <2>1, <2>3
    <3>2. ~Finishes(NewParser, u \o s)
      BY <2>2, <3>1 DEF Finishes, Upto, Judged
    <3> QED BY <2>1, <3>2, ParserIsGrammar
  <2>4. CASE n = Len(u \o s)
    <3>1. SubSeq(u \o s, 1, n) = u \o s
      BY <2>1, <2>4
    <3>2. ~Finishes(NewParser, u \o s)
      BY <2>2, <3>1 DEF Finishes, Upto
    <3> QED BY <2>1, <3>2, ParserIsGrammar
  <2>5. n <= Len(u \o s)
    BY <2>1
  <2> QED BY <2>1, <2>3, <2>4, <2>5
<1>2. u \o <<>> = u /\ <<>> \in Seq(Symbols)
  OBVIOUS
<1>3. ~IsRequest(u)
  BY <1>1, <1>2
<1> QED BY <1>1, <1>3, EndingsAssumption

(* What is parsed of a text is what has come and gone through the buffer. *)
LEMMA SeenOf ==
  ASSUME DataOK, NEW c \in Connections, text[c] # 0
  PROVE  /\ text[c] \in DOMAIN Texts /\ Texts[text[c]] \in Seq(Symbols)
         /\ Seen(c) \in 0..Len(Texts[text[c]])
<1>1. text[c] \in 1..Len(Texts) /\ rest[c] \in Seq(Symbols) /\ buffer[c] \in Seq(Symbols)
  BY HttpServerAssumption DEF DataOK
<1>2. PICK seen \in Seq(Symbols) : Texts[text[c]] = (seen \o buffer[c]) \o rest[c]
  BY DEF DataOK, InPieces
<1> DEFINE b == buffer[c]
           r == rest[c]
           w == Texts[text[c]]
<1>3. w = (seen \o b) \o r /\ b \in Seq(Symbols) /\ r \in Seq(Symbols)
  BY <1>1, <1>2
<1>4. text[c] \in DOMAIN Texts /\ w \in Seq(Symbols)
  BY <1>1, HttpServerAssumption
<1>5. Seen(c) = Len(w) - Len(r) - Len(b)
  BY DEF Seen
<1> HIDE DEF b, r, w
<1>6. Len(w) = Len(seen) + Len(b) + Len(r)
  BY <1>3
<1>7. Len(seen) \in Nat /\ Len(b) \in Nat /\ Len(r) \in Nat
  BY <1>3
<1>8. Len(w) - Len(r) - Len(b) \in 0..Len(w)
  BY <1>6, <1>7
<1> QED BY <1>4, <1>5, <1>8 DEF w

(* The verdict of the grammar, byte by byte: none for as long as the parser *)
(* has none, and then that of the parser.                                  *)
LEMMA SaysOf ==
  ASSUME NEW t \in DOMAIN Texts, NEW n \in 0..Len(Texts[t]),
         \A i \in 0..(n - 1) : ~Judged(Upto(Texts[t], i))
  PROVE  GrammarSays[t][n] =
           IF Judged(Upto(Texts[t], n)) THEN Upto(Texts[t], n).state ELSE "indeterminate"
<1> DEFINE w == Texts[t]
           u == SubSeq(w, 1, n)
<1>1. w \in Seq(Symbols) /\ n \in 0..Len(w)
  BY HttpServerAssumption
<1>2. GrammarSays[t][n] =
        IF IsRequest(u) THEN "good"
        ELSE IF \E s \in Endings : IsRequest(u \o s) THEN "indeterminate" ELSE "bad"
  BY DEF GrammarSays
<1> HIDE DEF w
<1>3. /\ u \in Seq(Symbols) /\ Len(u) = n
      /\ \A i \in 0..n : SubSeq(u, 1, i) = SubSeq(w, 1, i)
  BY <1>1, SubSub
<1>4. \A i \in 0..n : Upto(u, i) = Upto(w, i)
  BY <1>3 DEF Upto
<1>5. Upto(w, n) = parse(NewParser, u)
  BY DEF Upto
<1>6. \A i \in 0..(n - 1) : ~Judged(Upto(w, i))
  BY DEF w
<1> HIDE DEF u
<1>7. CASE ~Judged(Upto(w, n))
  <2>1. \A i \in 0..Len(u) : ~Judged(Upto(u, i))
    <3> SUFFICES ASSUME NEW i \in 0..n PROVE ~Judged(Upto(w, i))
      BY <1>3, <1>4
    <3>1. i = n \/ i \in 0..(n - 1)
      BY <1>1
    <3> QED BY <1>6, <1>7, <3>1
  <2>2. ~IsRequest(u) /\ \E s \in Endings : IsRequest(u \o s)
    BY <1>3, <2>1, CanEnd
  <2> QED BY <1>2, <1>7, <2>2 DEF w
<1>8. CASE Upto(w, n).state = "good"
  <2>1. Finishes(NewParser, u)
    <3>1. parse(NewParser, u).state = "good"
      BY <1>5, <1>8
    <3>2. \A i \in 0..(Len(u) - 1) : ~Judged(parse(NewParser, SubSeq(u, 1, i)))
      <4> SUFFICES ASSUME NEW i \in 0..(n - 1) PROVE ~Judged(Upto(u, i))
        BY <1>3 DEF Upto
      <4>1. i \in 0..n
        BY <1>1
      <4> QED BY <1>4, <1>6, <4>1
    <3> QED BY <3>1, <3>2 DEF Finishes
  <2>2. IsRequest(u)
    BY <1>3, <2>1, ParserIsGrammar
  <2> QED BY <1>2, <1>8, <2>2 DEF w, Judged
<1>9. CASE Upto(w, n).state = "bad"
  <2>1. n \in 0..Len(u) /\ Upto(u, n).state = "bad"
    BY <1>1, <1>3, <1>4, <1>9
  <2>2. ~IsRequest(u) /\ \A s \in Endings : ~IsRequest(u \o s)
    BY <1>3, <2>1, NoWay
  <2> QED BY <1>2, <1>9, <2>2 DEF w, Judged
<1> QED BY <1>7, <1>8, <1>9 DEF Judged

(* What the server knows of a request is what the grammar says of the bytes *)
(* it has seen, whatever is sent and however it comes in pieces: a request  *)
(* is complete at the byte where it is, what can no longer become one is    *)
(* refused, and what can is read on (http.cpp:477-742, 845-873).            *)
THEOREM VerdictsAreRight == Spec => []VerdictOfGrammar
<1>1. ASSUME DataOK, CutsDoNotMatter, NEW c \in Connections, text[c] # 0
      PROVE  LET says == GrammarSays[text[c]]
                 undecided(n) == \A i \in 0..n : says[i] = "indeterminate"
             IN  IF Judged(parser[c])
                 THEN \E n \in 1..Seen(c) : says[n] = parser[c].state /\ undecided(n - 1)
                 ELSE undecided(Seen(c))
  <2> DEFINE w == Texts[text[c]]
             seen == Seen(c)
             says == GrammarSays[text[c]]
             Verdicts == {i \in 0..seen : Judged(Upto(w, i))}
  <2>1. text[c] \in DOMAIN Texts /\ w \in Seq(Symbols) /\ seen \in 0..Len(w)
    BY <1>1, SeenOf
  <2>2. parser[c] = Upto(w, seen)
    BY <1>1 DEF CutsDoNotMatter, Upto
  <2>3. ASSUME NEW n \in 0..seen, \A i \in 0..(n - 1) : ~Judged(Upto(w, i))
        PROVE  says[n] = IF Judged(Upto(w, n)) THEN Upto(w, n).state ELSE "indeterminate"
    <3>1. n \in 0..Len(w)
      BY <2>1
    <3> QED BY <2>1, <2>3, <3>1, SaysOf
  <2>4. ASSUME NEW n \in 0..seen, \A i \in 0..n : ~Judged(Upto(w, i))
        PROVE  \A i \in 0..n : says[i] = "indeterminate"
    <3> SUFFICES ASSUME NEW i \in 0..n PROVE says[i] = "indeterminate"
      OBVIOUS
    <3>1. i \in 0..seen /\ \A l \in 0..(i - 1) : l \in 0..n
      BY <2>1
    <3>2. ~Judged(Upto(w, i)) /\ \A l \in 0..(i - 1) : ~Judged(Upto(w, l))
      BY <2>4, <3>1
    <3> QED BY <2>3, <3>1, <3>2
  <2>5. ~Judged(Upto(w, 0))
    <3>1. SubSeq(w, 1, 0) = <<>>
      BY <2>1
    <3>2. Upto(w, 0) = NewParser
      BY <3>1, ParseNothing DEF Upto
    <3>3. ~Judged(NewParser)
      BY DEF NewParser, Judged
    <3> QED BY <3>2, <3>3
  <2>6. ASSUME NEW m \in 0..seen, NEW n \in m..seen, Judged(Upto(w, m))
        PROVE  Upto(w, n) = Upto(w, m)
    <3>1. PICK g : Run(NewParser, w, g)
      BY <2>1, ParseNothing, RunExists
    <3>2. m \in 0..Len(w) /\ n \in m..Len(w) /\ n \in 0..Len(w)
      BY <2>1
    <3>3. Upto(w, m) = g[m] /\ Upto(w, n) = g[n]
      BY <2>1, <3>1, <3>2, ParseNothing, PrefixRuns DEF Upto
    <3> QED BY <2>1, <2>6, <3>1, <3>2, <3>3, ParseNothing, VerdictStays
  <2> HIDE DEF w, seen, says
  <2>7. CASE Judged(parser[c])
    <3>1. Verdicts \in SUBSET Nat /\ Verdicts # {}
      BY <2>1, <2>2, <2>7
    <3>2. PICK m \in Verdicts : \A i \in Verdicts : m <= i
      <4> HIDE DEF Verdicts
      <4> QED BY <3>1, LeastExists
    <3>3. m \in 1..seen /\ Judged(Upto(w, m))
      <4>1. m # 0
        BY <2>5, <3>2
      <4> QED BY <2>1, <3>2, <4>1
    <3>4. \A i \in 0..(m - 1) : ~Judged(Upto(w, i))
      <4> SUFFICES ASSUME NEW i \in 0..(m - 1), Judged(Upto(w, i)) PROVE FALSE
        OBVIOUS
      <4>1. i \in Verdicts /\ i < m
        BY <2>1, <3>3
      <4> QED BY <3>2, <3>3, <4>1
    <3>5. m \in 0..seen /\ m - 1 \in 0..seen /\ seen \in m..seen
      BY <2>1, <3>3
    <3>6. says[m] = Upto(w, m).state
      BY <2>3, <3>3, <3>4, <3>5
    <3>7. Upto(w, seen) = Upto(w, m)
      BY <2>6, <3>3, <3>5
    <3>8. \A i \in 0..(m - 1) : says[i] = "indeterminate"
      BY <2>4, <3>4, <3>5
    <3>9. says[m] = parser[c].state
      BY <2>2, <3>6, <3>7
    <3> QED BY <2>7, <3>3, <3>8, <3>9 DEF says, seen
  <2>8. CASE ~Judged(parser[c])
    <3>1. \A i \in 0..seen : ~Judged(Upto(w, i))
      <4> SUFFICES ASSUME NEW i \in 0..seen, Judged(Upto(w, i)) PROVE FALSE
        OBVIOUS
      <4>1. seen \in i..seen
        BY <2>1
      <4> QED BY <2>2, <2>6, <2>8, <4>1
    <3>2. seen \in 0..seen
      BY <2>1
    <3>3. \A i \in 0..seen : says[i] = "indeterminate"
      BY <2>4, <3>1, <3>2
    <3> QED BY <2>8, <3>3 DEF says, seen
  <2> QED BY <2>7, <2>8
<1>2. DataOK /\ CutsDoNotMatter => VerdictOfGrammar
  BY <1>1 DEF VerdictOfGrammar, Seen
<1> QED BY <1>2, InductiveData, ReadsDoNotMatter, PTL
=============================================================================
