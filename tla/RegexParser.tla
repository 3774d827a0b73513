---------------------------- MODULE RegexParser ----------------------------
(***************************************************************************)
(* The parser of the devices that send text (Regex_parser,                 *)
(* devices/regex.h).  In each round every filter is searched from the same *)
(* place on, in the order of the quantities; the next round begins behind  *)
(* the last match, wherever the other filters' matches were.               *)
(*                                                                         *)
(* A filter's expression is the set of texts that match it.  It does not   *)
(* match the empty text: parse would not end.  A text in Unconvertible     *)
(* matches but its groups are not in the format (std::stod throws).        *)
(***************************************************************************)
EXTENDS Integers, Sequences, SequencesExt, FiniteSetsExt

CONSTANTS
  Filters,       (* sequence, in the order of the quantities, of sets of texts *)
  Unconvertible  (* texts whose conversion throws                              *)

ASSUME RegexParserAssumption ==
  /\ Filters \in Seq(SUBSET Seq(Nat))
  /\ \A i \in DOMAIN Filters : <<>> \notin Filters[i]

Matches(text, b, i) ==
  i + Len(text) - 1 <= Len(b) /\ SubSeq(b, i, i + Len(text) - 1) = text

(* The places from `from' on where the filter matches.                       *)
Found(filter, b, from) ==
  {i \in from..Len(b) : \E text \in filter : Matches(text, b, i)}

(* The longest of the texts at the first of them.                            *)
FirstMatch(filter, b, from) ==
  LET i == Min(Found(filter, b, from))
  IN  CHOOSE text \in filter :
        /\ Matches(text, b, i)
        /\ \A other \in filter : Matches(other, b, i) => Len(other) <= Len(text)

(* The text that each filter finds and where it ends, if it finds one.       *)
Round(b, cur) ==
  LET from[f \in 1..(Len(Filters) + 1)] ==
        IF f > Len(Filters) THEN <<>>
        ELSE IF Found(Filters[f], b, cur) = {} THEN from[f + 1]
        ELSE LET text == FirstMatch(Filters[f], b, cur)
             IN  <<[quantity |-> f, text |-> text,
                    end |-> Min(Found(Filters[f], b, cur)) + Len(text)]>>
                   \o from[f + 1]
  IN  from[1]

(* Where the next round begins.                                              *)
RoundEnd(round) == Max({round[k].end : k \in DOMAIN round})

RoundValues(round) ==
  [k \in DOMAIN round |-> <<round[k].quantity, round[k].text>>]

(* A conversion that throws leaves the values before it in the queue and the *)
(* whole buffer in place.                                                    *)
RegexParsed(b) ==
  LET parse[cur \in 1..(Len(b) + 1)] ==
        LET round == Round(b, cur)
            wrong == {k \in DOMAIN round : round[k].text \in Unconvertible}
            next  == parse[RoundEnd(round)]
        IN  IF cur > Len(b) \/ round = <<>>
            THEN [rest |-> SubSeq(b, cur, Len(b)), values |-> <<>>,
                  threw |-> FALSE]
            ELSE IF wrong # {}
            THEN [rest |-> b, threw |-> TRUE,
                  values |-> RoundValues(SubSeq(round, 1, Min(wrong) - 1))]
            ELSE [next EXCEPT !.values = RoundValues(round) \o @]
  IN  parse[1]
=============================================================================
