----------------------------- MODULE HttpServer -----------------------------
(***************************************************************************)
(* The HTTP server (http.cpp): the acceptor, the set of connections, and   *)
(* the one operation that each connection has outstanding.                 *)
(*                                                                         *)
(* An operation is pending until the reactor completes it; then its        *)
(* handler is ready, and runs later.  In between the server may be stopped:*)
(* that aborts what is pending, but a handler that is ready already still  *)
(* runs with the result it has.  A handler runs to its end.                *)
(***************************************************************************)
EXTENDS RequestParser

CONSTANTS
  Connections,   (* the connections that clients may make                    *)
  Texts,         (* a sequence of texts that may be sent                     *)
  TextsOf,       (* for each connection, which its client may send           *)
  Patient,       (* those whose client sends a text with a verdict to its    *)
                 (* end and takes the reply                                  *)
  ReadSizes,     (* of each connection, how many bytes a read may bring      *)
  Endings        (* ways in which a request may go on, for the properties    *)

ASSUME HttpServerAssumption ==
  /\ Devices \in Seq([id : Seq(Symbols), name : Seq(Symbols)])
  /\ Processors \in Seq([name : Seq(Symbols)])
  /\ Texts \in Seq(Seq(Symbols))
  /\ TextsOf \in [Connections -> SUBSET DOMAIN Texts]
  /\ Patient \subseteq Connections
  /\ \A c \in Patient, t \in UNION {TextsOf[d] : d \in Patient} :
       t \in TextsOf[c] => Judged(parse(NewParser, Texts[t]))
  /\ ReadSizes \in [Connections -> SUBSET (Nat \ {0})]

(* With exactly the symbols of s the parser comes to accept. *)
Finishes(p, s) ==
  /\ parse(p, s).state = "good"
  /\ \A i \in 0..(Len(s) - 1) : ~Judged(parse(p, SubSeq(s, 1, i)))

(* There is an ending for every state in which a request may be left. *)
ASSUME EndingsAssumption ==
  /\ Endings \subseteq Seq(Symbols)
  /\ \A state \in DOMAIN Moves, headers \in BOOLEAN :
       \E s \in Endings :
         Finishes([state |-> state, headers |-> headers, uri |-> <<>>], s)

VARIABLES
  acceptor,  (* whether it is open, and its operation                        *)
  members,   (* connections_ of the Connection_manager                       *)
  open,      (* connections whose socket is open                             *)
  operation, (* of each connection: its kind, its state, what it has brought *)
  parser,    (* request_parser_ and request_ of each connection              *)
  reply,     (* reply_ of each connection                                    *)
  client,    (* of each connection: whether its client has come, or gone     *)
  text,      (* which text each client sends, 0 before it has come           *)
  rest,      (* what each client has still to send                           *)
  buffer,    (* buffer_ of each connection, as far as a read has filled it   *)
  replies    (* how many replies have been written to each client            *)

vars == <<acceptor, members, open, operation, parser, reply, client, text,
          rest, buffer, replies>>
line == <<client, text, rest, buffer, replies>>

NoOperation == [kind |-> "none", state |-> "none", result |-> "none"]
Pending(kind) == [kind |-> kind, state |-> "pending", result |-> "none"]
Ready(kind, result) == [kind |-> kind, state |-> "ready", result |-> result]

Results == {"ok", "aborted", "error"}
Kinds == {"read", "write"}

TypeOK ==
  /\ acceptor \in [open : BOOLEAN, state : {"none", "pending", "ready"},
                   socket : Connections \cup {"none"}]
  /\ members \subseteq Connections /\ open \subseteq Connections
  /\ \A c \in Connections :
       /\ operation[c] \in {NoOperation} \cup {Pending(k) : k \in Kinds}
            \cup {Ready(k, r) : k \in Kinds, r \in Results}
       /\ parser[c] \in Parsers /\ reply[c] \in Replies
       /\ client[c] \in {"away", "waiting", "there", "gone"}
       /\ text[c] \in 0..Len(Texts)
       /\ rest[c] \in Seq(Symbols) /\ buffer[c] \in Seq(Symbols)
       /\ replies[c] \in 0..1

Listening == [open |-> TRUE, state |-> "pending", socket |-> "none"]

(* The constructor of the server: bind, listen, do_accept. *)
Init ==
  /\ acceptor = Listening
  /\ members = {} /\ open = {}
  /\ operation = [c \in Connections |-> NoOperation]
  /\ parser = [c \in Connections |-> NewParser]
  /\ reply = [c \in Connections |-> NoReply]
  /\ client = [c \in Connections |-> "away"]
  /\ text = [c \in Connections |-> 0]
  /\ rest = [c \in Connections |-> <<>>] /\ buffer = [c \in Connections |-> <<>>]
  /\ replies = [c \in Connections |-> 0]

-----------------------------------------------------------------------------
(* Accepting *)

(* A client connects, with a text in mind: it waits in the backlog. *)
Connect(c) ==
  /\ client[c] = "away"
  /\ client' = [client EXCEPT ![c] = "waiting"]
  /\ \E t \in TextsOf[c] :
       text' = [text EXCEPT ![c] = t] /\ rest' = [rest EXCEPT ![c] = Texts[t]]
  /\ UNCHANGED <<acceptor, members, open, operation, parser, reply, buffer,
                 replies>>

AcceptCompletes(c) ==
  /\ acceptor.state = "pending" /\ client[c] = "waiting"
  /\ acceptor' = [acceptor EXCEPT !.state = "ready", !.socket = c]
  /\ client' = [client EXCEPT ![c] = "there"]
  /\ UNCHANGED <<members, open, operation, parser, reply, text, rest, buffer,
                 replies>>

(* The client has given up in the meantime. *)
AcceptFails(c) ==
  /\ acceptor.state = "pending" /\ client[c] = "waiting" /\ c \notin Patient
  /\ acceptor' = [acceptor EXCEPT !.state = "ready"]
  /\ client' = [client EXCEPT ![c] = "gone"]
  /\ UNCHANGED <<members, open, operation, parser, reply, text, rest, buffer,
                 replies>>

(* The handler of async_accept.  If the acceptor has been closed the new   *)
(* socket is dropped, which closes it.                                     *)
Accept ==
  /\ acceptor.state = "ready"
  /\ \/ /\ ~acceptor.open
        /\ acceptor' = [acceptor EXCEPT !.state = "none", !.socket = "none"]
        /\ UNCHANGED <<members, open, operation>>
     \/ /\ acceptor.open /\ acceptor.socket = "none"
        /\ acceptor' = Listening
        /\ UNCHANGED <<members, open, operation>>
     \/ /\ acceptor.open /\ acceptor.socket # "none"
        /\ acceptor' = Listening
        /\ members' = members \cup {acceptor.socket}
        /\ open' = open \cup {acceptor.socket}
        /\ operation' = [operation EXCEPT ![acceptor.socket] = Pending("read")]
  /\ UNCHANGED <<parser, reply, line>>

-----------------------------------------------------------------------------
(* The reactor *)

Awaits(c, kind) == operation[c] = Pending(kind)
Completes(c, kind, result) ==
  /\ Awaits(c, kind)
  /\ operation' = [operation EXCEPT ![c] = Ready(kind, result)]
  /\ UNCHANGED <<acceptor, members, open, parser, reply, text>>

(* Some of what the client sends, or has sent before it went, has come. *)
BytesCome(c) ==
  /\ client[c] \in {"there", "gone"} /\ Completes(c, "read", "ok")
  /\ \E n \in ReadSizes[c] :
       /\ n <= Len(rest[c])
       /\ buffer' = [buffer EXCEPT ![c] = SubSeq(rest[c], 1, n)]
       /\ rest' = [rest EXCEPT ![c] = SubSeq(@, n + 1, Len(@))]
  /\ UNCHANGED <<client, replies>>

(* The reply is in the hands of the kernel. *)
ReplyGoes(c) ==
  /\ client[c] \in {"there", "gone"} /\ Completes(c, "write", "ok")
  /\ replies' = [replies EXCEPT ![c] = @ + 1]
  /\ UNCHANGED <<client, rest, buffer>>

(* The client closes or resets the connection. *)
ClientGoes(c) ==
  /\ client[c] = "there" /\ client' = [client EXCEPT ![c] = "gone"]
  /\ c \in Patient => replies[c] = 1
  /\ UNCHANGED <<acceptor, members, open, operation, parser, reply, text, rest,
                 buffer, replies>>

Fails(c) ==
  /\ client[c] = "gone"
  /\ \E kind \in Kinds : Completes(c, kind, "error")
  /\ UNCHANGED <<client, rest, buffer, replies>>

-----------------------------------------------------------------------------
(* The handlers of a connection *)

(* Closing the socket aborts what is pending. *)
Closed(set) ==
  [c \in Connections |->
     IF c \in set /\ operation[c].state = "pending"
     THEN Ready(operation[c].kind, "aborted") ELSE operation[c]]

(* An operation on a socket that is closed fails at once. *)
Start(c, kind) ==
  operation' = [operation EXCEPT
                  ![c] = IF c \in open THEN Pending(kind) ELSE Ready(kind, "error")]

(* connection_manager_.stop, by the handler of the last operation *)
StopConnection(c) ==
  /\ members' = members \ {c} /\ open' = open \ {c}
  /\ operation' = [operation EXCEPT ![c] = NoOperation]

(* Whoever has stopped this connection takes care of it. *)
Abandon(c) ==
  operation' = [operation EXCEPT ![c] = NoOperation] /\ UNCHANGED <<members, open>>

Handler(c, kind, result) ==
  /\ operation[c] = Ready(kind, result)
  /\ UNCHANGED <<acceptor, client, text, rest, replies>>

(* do_read: the parser sees what has come.  The handler goes on reading,   *)
(* or answers.                                                             *)
Read(c) ==
  /\ Handler(c, "read", "ok")
  /\ parser' = [parser EXCEPT ![c] = parse(@, buffer[c])]
  /\ reply' = [reply EXCEPT
                 ![c] = CASE parser'[c].state = "good" -> handle_request(parser'[c].uri)
                          [] parser'[c].state = "bad" -> StockReply("bad_request")
                          [] OTHER -> @]
  /\ Start(c, IF Judged(parser'[c]) THEN "write" ELSE "read")
  /\ buffer' = [buffer EXCEPT ![c] = <<>>]
  /\ UNCHANGED <<members, open>>

(* Mutant: a failed read is only given up. *)
ReadFailsSilently(c) ==
  /\ \/ Handler(c, "read", "aborted") \/ Handler(c, "read", "error")
  /\ Abandon(c)
  /\ UNCHANGED <<parser, reply, buffer>>

ReadFails(c) ==
  /\ \/ Handler(c, "read", "aborted") /\ Abandon(c)
     \/ Handler(c, "read", "error") /\ StopConnection(c)
  /\ UNCHANGED <<parser, reply, buffer>>

(* Mutant: a connection that has been answered is read again. *)
WrittenReads(c) ==
  /\ \/ Handler(c, "write", "aborted") /\ Abandon(c)
     \/ /\ \E r \in {"ok", "error"} : Handler(c, "write", r)
        /\ Start(c, "read") /\ UNCHANGED <<members, open>>
  /\ UNCHANGED <<parser, reply, buffer>>

(* Mutant: a reply that has been written is written once more. *)
WrittenAgain(c) ==
  /\ \/ Handler(c, "write", "aborted") /\ Abandon(c)
     \/ /\ \E r \in {"ok", "error"} : Handler(c, "write", r)
        /\ Start(c, "write") /\ UNCHANGED <<members, open>>
  /\ UNCHANGED <<parser, reply, buffer>>

(* do_write *)
Written(c) ==
  /\ \/ Handler(c, "write", "aborted") /\ Abandon(c)
     \/ /\ \E r \in {"ok", "error"} : Handler(c, "write", r)
        /\ StopConnection(c)
  /\ UNCHANGED <<parser, reply, buffer>>

(* Server::stop, between two handlers *)
Stop ==
  /\ acceptor.open
  /\ acceptor' = [acceptor EXCEPT
                    !.open = FALSE,
                    !.state = IF @ = "pending" THEN "ready" ELSE @]
  /\ operation' = Closed(members)
  /\ open' = open \ members /\ members' = {}
  /\ UNCHANGED <<parser, reply, line>>

Handlers(c) == Read(c) \/ ReadFails(c) \/ Written(c)
Reactor(c) == BytesCome(c) \/ ReplyGoes(c) \/ Fails(c)

Next ==
  \/ Accept \/ Stop
  \/ \E c \in Connections :
       \/ Connect(c) \/ AcceptCompletes(c) \/ AcceptFails(c) \/ ClientGoes(c)
       \/ Handlers(c) \/ Reactor(c)

(* A handler that is ready runs.  Patient clients connect to the port as   *)
(* long as it is open, send all of their text and take their reply; the    *)
(* others may do anything, or nothing for ever.                            *)
Fairness ==
  /\ WF_vars(Accept)
  /\ \A c \in Connections : WF_vars(Handlers(c))
  /\ \A c \in Patient : WF_vars(Reactor(c))

Spec == Init /\ [][Next]_vars /\ Fairness

-----------------------------------------------------------------------------
(* What the grammar says of the first i bytes of each text. *)
GrammarSays ==
  [t \in DOMAIN Texts |->
     [i \in 0..Len(Texts[t]) |->
        IF IsRequest(SubSeq(Texts[t], 1, i)) THEN "good"
        ELSE IF \E s \in Endings : IsRequest(SubSeq(Texts[t], 1, i) \o s)
        THEN "indeterminate" ELSE "bad"]]

(* However a text comes in pieces, what the parser says of it is what the  *)
(* grammar says: a request is complete at the byte where it is, anything   *)
(* that can no longer become one is refused, anything that can is read on  *)
(* (http.cpp:477-742).                                                     *)
VerdictOfGrammar ==
  \A c \in {d \in Connections : text[d] # 0} :
    LET says == GrammarSays[text[c]]
        seen == Len(Texts[text[c]]) - Len(rest[c]) - Len(buffer[c])
        undecided(n) == \A i \in 0..n : says[i] = "indeterminate"
    IN IF Judged(parser[c])
       THEN \E n \in 1..seen : says[n] = parser[c].state /\ undecided(n - 1)
       ELSE undecided(seen)

(* No connection is lost, and none is served twice: one that is managed    *)
(* has an open socket and an operation whose handler will go on with it;   *)
(* one that is not has a closed socket, and nothing but a result that is   *)
(* on its way; a reply goes out at most once, and only when the text has   *)
(* been judged (http.cpp:818-891).                                         *)
EveryConnectionAccounted ==
  \A c \in Connections :
    /\ c \in members <=> c \in open
    /\ c \in members => operation[c].kind # "none" /\ operation[c].result # "aborted"
    /\ c \notin members => operation[c].state # "pending"
    /\ operation[c].kind = "write" \/ replies[c] = 1 => Judged(parser[c])

(* A client that sends a text with a verdict and waits is answered, unless *)
(* the server stops; and a server that stops is left by all connections    *)
(* (http.cpp:845-891, 919-945).                                            *)
Served ==
  /\ \A c \in Patient :
       c \in members
         ~> (~acceptor.open \/ (c \notin members /\ replies[c] = 1))
  /\ ~acceptor.open ~> (/\ acceptor.state = "none"
                        /\ \A c \in Connections : operation[c] = NoOperation)
=============================================================================
