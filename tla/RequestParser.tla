---------------------------- MODULE RequestParser ----------------------------
(***************************************************************************)
(* The parser of HTTP requests and what a request is answered with, as     *)
(* operators (Request_parser and Request_handler in http.cpp).             *)
(*                                                                         *)
(* A byte is a symbol: itself where the code looks for it, else a          *)
(* representative of the bytes that it treats alike.  "e" and "f" are      *)
(* letters that are hexadecimal digits, "(" is any separator that has no   *)
(* meaning of its own, "ctl" any control character other than those named, *)
(* and "high" any byte above 127, which as a (signed) char is neither a    *)
(* character nor a control.  "devices/" and "processors/" are these words. *)
(***************************************************************************)
EXTENDS Naturals, Sequences, FiniteSets

CONSTANTS
  Devices,     (* the devices, in order: records of an id and a name     *)
  Processors   (* the processors, in order: records of a name            *)

Digits == {"0", "1", "2"}
is_digit(s) == s \in Digits
is_ctl(s) == s \in {"tab", "cr", "lf", "ctl"}
is_tspecial(s) == s \in {"(", ":", "/", "sp", "tab", "devices/", "processors/"}
Symbols ==
  Digits \cup {"H", "T", "P", ".", "e", "f", "%", "+", "/", ":", "sp", "tab",
               "cr", "lf", "ctl", "high", "(", "devices/", "processors/"}
Token == {s \in Symbols : s # "high" /\ ~is_ctl(s) /\ ~is_tspecial(s)}
NotCtl == {s \in Symbols : ~is_ctl(s)}
Blank == {"sp", "tab"}

(* The states of the parser: to which a byte leads, and with which bytes.  *)
(* A byte that leads nowhere is bad.                                       *)
Moves ==
  [method_start |-> {<<Token, "method">>},
   method |-> {<<Token, "method">>, <<{"sp"}, "uri">>},
   uri |-> {<<NotCtl \ {"sp"}, "uri">>, <<{"sp"}, "http_version_h">>},
   http_version_h |-> {<<{"H"}, "http_version_t_1">>},
   http_version_t_1 |-> {<<{"T"}, "http_version_t_2">>},
   http_version_t_2 |-> {<<{"T"}, "http_version_p">>},
   http_version_p |-> {<<{"P"}, "http_version_slash">>},
   http_version_slash |-> {<<{"/"}, "http_version_major_start">>},
   http_version_major_start |-> {<<Digits, "http_version_major">>},
   http_version_major |->
     {<<Digits, "http_version_major">>, <<{"."}, "http_version_minor_start">>},
   http_version_minor_start |-> {<<Digits, "http_version_minor">>},
   http_version_minor |->
     {<<Digits, "http_version_minor">>, <<{"cr"}, "expecting_newline_1">>},
   expecting_newline_1 |-> {<<{"lf"}, "header_line_start">>},
   header_line_start |->
     {<<Token, "header_name">>, <<Blank, "header_lws">>,
      <<{"cr"}, "expecting_newline_3">>},
   header_lws |->
     {<<Blank, "header_lws">>, <<NotCtl \ Blank, "header_value">>,
      <<{"cr"}, "expecting_newline_2">>},
   header_name |->
     {<<Token, "header_name">>, <<{":"}, "space_before_header_value">>},
   space_before_header_value |-> {<<{"sp"}, "header_value">>},
   header_value |->
     {<<NotCtl, "header_value">>, <<{"cr"}, "expecting_newline_2">>},
   expecting_newline_2 |-> {<<{"lf"}, "header_line_start">>},
   expecting_newline_3 |-> {<<{"lf"}, "good">>}]

(* What the parser keeps: its state, or its verdict; whether there is a    *)
(* header; the URI.                                                        *)
Parsers ==
  [state : DOMAIN Moves \cup {"good", "bad"}, headers : BOOLEAN,
   uri : Seq(Symbols)]
NewParser == [state |-> "method_start", headers |-> FALSE, uri |-> <<>>]

Judged(p) == p.state \in {"good", "bad"}

(* The targets of the byte s.  There is none to continue a header that has *)
(* not begun.                                                              *)
Targets(p, s) ==
  {m[2] : m \in {n \in Moves[p.state] :
      /\ s \in n[1]
      /\ n[2] = "header_lws" /\ p.state = "header_line_start" => p.headers}}

(* Mutant: a line may begin with a blank although there is no header. *)
consumeContinuation(p, s) ==
  LET to == {m[2] : m \in {n \in Moves[p.state] : s \in n[1]}}
  IN [state |-> IF to = {} THEN "bad" ELSE CHOOSE t \in to : TRUE,
      headers |-> p.headers \/ to = {"header_name"},
      uri |-> IF to = {"uri"} /\ p.state = "uri" THEN Append(p.uri, s) ELSE p.uri]

consume(p, s) ==
  LET to == Targets(p, s)
  IN [state |-> IF to = {} THEN "bad" ELSE CHOOSE t \in to : TRUE,
      headers |-> p.headers \/ to = {"header_name"},
      uri |-> IF to = {"uri"} /\ p.state = "uri" THEN Append(p.uri, s) ELSE p.uri]

(* parse: the bytes of a chunk until there is a verdict.  After[i] holds   *)
(* the parser after i bytes.                                               *)
parse(p, chunk) ==
  LET After[i \in 0..Len(chunk)] ==
        IF i = 0 THEN {p}
        ELSE {IF Judged(q) THEN q ELSE consume(q, chunk[i]) : q \in After[i - 1]}
  IN CHOOSE q \in After[Len(chunk)] : TRUE

-----------------------------------------------------------------------------
(* url_decode.  The two characters behind a "%" are read as a hexadecimal  *)
(* number: a sign is allowed, and what follows a first digit is ignored if *)
(* it is none.                                                             *)
Hex == Digits \cup {"e", "f"}
Readable(x, y) == x \in Hex \/ (x = "+" /\ y \in Hex)
Character(x, y) ==
  CASE x = "2" /\ y = "e" -> "."
    [] x = "2" /\ y = "f" -> "/"
    [] OTHER -> "ctl"

url_decode(in) ==
  LET Decoded[i \in 1..(Len(in) + 3)] ==
        IF i > Len(in) THEN [ok |-> TRUE, out |-> <<>>]
        ELSE IF in[i] # "%"
        THEN [Decoded[i + 1] EXCEPT
                !.out = <<IF in[i] = "+" THEN "sp" ELSE in[i]>> \o @]
        ELSE IF i + 2 > Len(in) \/ ~Readable(in[i + 1], in[i + 2])
        THEN [ok |-> FALSE, out |-> <<>>]
        ELSE [Decoded[i + 3] EXCEPT !.out = <<Character(in[i + 1], in[i + 2])>> \o @]
  IN Decoded[1]

(* get_content: of the devices (or processors) that an identification      *)
(* fits - by index, id or name - the last one is shown.                    *)
Index(i) == <<<<"0", "1", "2">>[i]>>
Shown(kind, fitting) ==
  IF fitting = {} THEN [status |-> "ok", content |-> <<"empty", 0>>]
  ELSE [status |-> "ok",
        content |-> <<kind, CHOOSE i \in fitting : \A j \in fitting : j <= i>>]

StockReply(status) == [status |-> status, content |-> <<"stock", 0>>]

get_content(path) ==
  LET identification == SubSeq(path, 3, IF Len(path) < 34 THEN Len(path) ELSE 34)
  IN IF path = <<"/">> THEN [status |-> "ok", content |-> <<"home", 0>>]
     ELSE IF Len(path) >= 2 /\ path[2] = "devices/"
     THEN Shown("device", {i \in DOMAIN Devices :
            identification \in {Index(i), Devices[i].id, Devices[i].name}})
     ELSE IF Len(path) >= 2 /\ path[2] = "processors/"
     THEN Shown("processor", {i \in DOMAIN Processors :
            identification \in {Index(i), Processors[i].name}})
     ELSE StockReply("not_found")

handle_request(uri) ==
  LET decoded == url_decode(uri)
      path == decoded.out
  IN IF \/ ~decoded.ok
        \/ path = <<>> \/ path[1] # "/"
        \/ \E i \in 1..(Len(path) - 1) : path[i] = "." /\ path[i + 1] = "."
     THEN StockReply("bad_request")
     ELSE get_content(path)

Replies ==
  [status : {"none", "ok", "bad_request", "not_found"},
   content : {"none", "stock", "empty", "home", "device", "processor"}
               \X (0..(Len(Devices) + Len(Processors)))]
NoReply == [status |-> "none", content |-> <<"none", 0>>]

-----------------------------------------------------------------------------
(* What a request is, by its lines instead of its bytes.                   *)

All(s, from, to, set) == \A i \in from..to : s[i] \in set

IsVersion(s, from, to) ==
  /\ to >= from + 7
  /\ SubSeq(s, from, from + 4) = <<"H", "T", "T", "P", "/">>
  /\ \E dot \in (from + 6)..(to - 1) :
       /\ s[dot] = "."
       /\ All(s, from + 5, dot - 1, Digits) /\ All(s, dot + 1, to, Digits)

IsRequestLine(s, from, to) ==
  \E i, j \in from..to :
    /\ from < i /\ i < j /\ s[i] = "sp" /\ s[j] = "sp"
    /\ All(s, from, i - 1, Token)
    /\ All(s, i + 1, j - 1, NotCtl \ {"sp"})
    /\ IsVersion(s, j + 1, to)

IsHeader(s, from, to) ==
  \E i \in (from + 1)..(to - 1) :
    /\ s[i] = ":" /\ s[i + 1] = "sp"
    /\ All(s, from, i - 1, Token) /\ All(s, i + 2, to, NotCtl)

IsContinuation(s, from, to) ==
  \E i \in from..to : All(s, from, i, Blank) /\ All(s, i + 1, to, NotCtl)

IsRequest(s) ==
  LET cuts == {i \in 1..(Len(s) - 1) : s[i] = "cr" /\ s[i + 1] = "lf"}
      starts == {1} \cup {i + 2 : i \in cuts \ {Len(s) - 1}}
      end(from) == (CHOOSE i \in cuts : i >= from /\ \A j \in cuts : j >= from => i <= j) - 1
  IN /\ Len(s) - 1 \in cuts
     /\ \A i \in DOMAIN s :
          /\ s[i] = "cr" => i \in cuts
          /\ s[i] = "lf" => i - 1 \in cuts
     /\ \A from \in starts :
          IF from = 1 THEN IsRequestLine(s, 1, end(1))
          ELSE IF from = Len(s) - 1 THEN TRUE
          ELSE \/ IsHeader(s, from, end(from))
               \/ end(1) + 3 < from /\ IsContinuation(s, from, end(from))
     /\ Len(s) - 1 \in starts
=============================================================================
