----------------------------- MODULE Responses -----------------------------
(***************************************************************************)
(* How exec_command (device.h) looks for an answer in the bytes it has     *)
(* read, as operators.  Positions count from 0, as in the code; -1 is "not *)
(* found".                                                                 *)
(***************************************************************************)
EXTENDS PacketFormat, FiniteSetsExt

(* The items agree with the container from position i on, as far as the      *)
(* container goes.                                                            *)
Agree(container, items, i) ==
  \A j \in 1..Len(items) :
    i + j <= Len(container) => container[i + j] = items[j]

(* Mutant: only the first place that looks like a beginning is a candidate.   *)
contains_atOnce(container, items) ==
  LET first == Min({i \in 0..Len(container) :
                      i < Len(container) /\ items # <<>>
                        => container[i + 1] = items[1]})
  IN  IF Agree(container, items, first)
           /\ first + Len(items) <= Len(container)
      THEN first ELSE -1

(* contains_at (tools.h): the first candidate that does not disagree decides; *)
(* when the container ends inside it there is no match.                       *)
contains_at(container, items) ==
  LET first == Min({i \in 0..Len(container) : Agree(container, items, i)})
  IN  IF first + Len(items) <= Len(container) THEN first ELSE -1

(* The byte at an offset, or 0 if it has not been read yet.                   *)
ByteAt(response, offset) ==
  IF offset < Len(response) THEN response[offset + 1] ELSE 0

(* What a caller asks for besides the expected response: nothing, a fixed     *)
(* number of bytes <<0xFF, n>>, or the offsets of the bytes of the length.    *)
Fixed(ask) == Len(ask) > 1 /\ ask[1] = Base - 1

(* An offset that is not given is SIZE_MAX, which is beyond each response and *)
(* wraps to 0 in expected_len when one is added.                              *)
ExpectedLen(ask, response, found) ==
  LET offset_1 == ask[1] + found
      offset_2 == ask[2] + found
  IN  CASE Fixed(ask)   -> ask[2]
        [] Len(ask) = 1 -> ByteAt(response, offset_1)
        [] OTHER        -> (ByteAt(response, offset_1)
                             + Base * ByteAt(response, offset_2)
                             + Max({offset_1, offset_2}) + 1) % (Base * Base)
=============================================================================
