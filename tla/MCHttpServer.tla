---------------------------- MODULE MCHttpServer ----------------------------
(* Constants for TLC: one client that sends what it likes, one that sends  *)
(* a request and waits.                                                    *)
EXTENDS HttpServer

MCDevices == <<[id |-> <<"P">>, name |-> <<"1">>], [id |-> <<"H">>, name |-> <<"T">>]>>
MCProcessors == <<[name |-> <<"e">>]>>
MCConnections == {"one", "two"}
MCPatient == {"two"}

Crlf == <<"cr", "lf">>
Line(uri) == <<"T", "sp">> \o uri \o <<"sp", "H", "T", "T", "P", "/", "1", ".", "0">> \o Crlf
Get == Line(<<"/">>) \o Crlf
Full == Line(<<"/">>) \o <<"H", ":", "sp", "high">> \o Crlf \o <<"tab", "(">> \o Crlf \o Crlf

(* A text with one byte replaced, wherever it is, or one left out or inserted. *)
Cycle(symbols, k) == symbols[1 + (k % Len(symbols))]
Replaced(s, by) == [k \in 1..Len(s) |-> [s EXCEPT ![k] = Cycle(by, k)]]
LeftOut(s) ==
  [k \in 1..(Len(s) \div 2) |->
     SubSeq(s, 1, 2 * k - 2) \o SubSeq(s, 2 * k, Len(s))]
Inserted(s, new) ==
  [k \in 1..(Len(s) \div 2) |->
     SubSeq(s, 1, 2 * k) \o <<Cycle(new, k)>> \o SubSeq(s, 2 * k + 1, Len(s))]

Uris ==
  <<<<"/", "devices/", "1">>, <<"/", "processors/", "e">>, <<"/", "%", "2", "e", ".">>,
    <<"%", "2", "f">>, <<"/", "%", "+", "P">>>>
MCTexts ==
  <<Append(Get, "P"), <<"high">>, Full>>
    \o Replaced(Full, <<"2", "tab", "cr", "high", ":">>)
    \o LeftOut(Full) \o Inserted(Full, <<"lf", "sp", "tab">>)
    \o [k \in DOMAIN Uris |-> Line(Uris[k]) \o Crlf]
MCTextsOf ==
  [c \in MCConnections |-> IF c = "two" THEN {1} ELSE DOMAIN MCTexts \ {1}]
MCReadSizes == [c \in MCConnections |-> IF c = "two" THEN {17} ELSE {1}]

(* Whatever can become a request does so with the end of this one. *)
Ending == Line(<<>>) \o <<"H", ":", "sp">> \o Crlf \o Crlf
MCEndings == {SubSeq(Ending, i, Len(Ending)) : i \in 1..(Len(Ending) + 1)}
=============================================================================
