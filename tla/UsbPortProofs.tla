--------------------------- MODULE UsbPortProofs ---------------------------
(***************************************************************************)
(* For any number of attempts to connect, operations and devices: no       *)
(* transfer is lost, freed early or handled twice, although two threads    *)
(* share them and handlers run within handlers.                            *)
(***************************************************************************)
EXTENDS UsbPort, FiniteSetTheorems, WellFoundedInduction, TLAPS

USE UsbPortAssumption

(* The coroutines that are under way. *)
Active == {c \in Attempts : co[c] \in {"init", "ready", "poll"}}

(* A cancellation holds its coroutine, which has no transfer meanwhile. *)
Holds(f, tr, at) ==
  /\ f.who \in Attempts /\ tr[f.who] = "free"
  /\ at[f.who] = IF f.then = "disconnect" THEN "poll" ELSE "init"

(* The deque has each transfer once, and its coroutine waits for it. *)
Accounted ==
  \A c \in Attempts :
    /\ transfers_[c] = IF transfer[c] = "free" THEN 0 ELSE 1
    /\ transfer[c] # "free" => co[c] \in {"init", "poll"}

(* The strand has each completed transfer once. *)
Queued ==
  /\ \A i \in DOMAIN strand_ : transfer[strand_[i]] = "posted"
  /\ \A i, j \in DOMAIN strand_ : strand_[i] = strand_[j] => i = j
  /\ \A c \in Attempts : transfer[c] = "posted" => \E i \in DOMAIN strand_ : strand_[i] = c

(* One cancellation at most is that of a coroutine. *)
Held ==
  \A i \in DOMAIN stack : stack[i].then # "timeout" =>
    /\ Holds(stack[i], transfer, co)
    /\ \A j \in DOMAIN stack : stack[j].then # "timeout" => i = j

(* Without an attempt that overtakes another there is one coroutine under  *)
(* way, and the port is open for it.                                       *)
Alone ==
  ~overtaken =>
    /\ \A b, c \in Active : b = c
    /\ \A c \in Active : co[c] # "init" => connected
    /\ Active # {} => device # None
    /\ crashed # "handle"
    /\ \A c \in Attempts : transfer[c] \notin {"lost", "dangling"}

(* The endpoints are those of the device that is open. *)
EndpointsSet == device # None => endpoints = setup_endpoints(device)

IInv == TypeOK /\ Accounted /\ Queued /\ Held /\ Alone /\ EndpointsSet

TransferStates ==
  InFlight \cup {"free", "unsubmitted", "empty", "dangling", "posted", "lost"}

-----------------------------------------------------------------------------
(* A cancellation has one of four continuations. *)
LEMMA FrameType ==
  ASSUME NEW c \in Attempts \cup {Nobody},
         NEW t \in {"timeout", "giveup", "close", "disconnect"}
  PROVE  Frame(c, t) \in Frames
  BY DEF Frame, Frames

(* The stack without its top. *)
LEMMA StackShrinks ==
  ASSUME NEW s \in Seq(Frames), s # <<>>
  PROVE  /\ Front(s) \in Seq(Frames) /\ Len(Front(s)) = Len(s) - 1
         /\ \A i \in DOMAIN Front(s) : i \in DOMAIN s /\ i # Len(s) /\ Front(s)[i] = s[i]
         /\ Last(s) \in Frames /\ Len(s) \in DOMAIN s /\ s[Len(s)] = Last(s)
<1>1. Len(s) \in Nat \ {0} /\ s \in [1..Len(s) -> Frames]
  OBVIOUS
<1>2. Front(s) = SubSeq(s, 1, Len(s) - 1)
  BY DEF Front
<1>3. /\ SubSeq(s, 1, Len(s) - 1) \in Seq(Frames)
      /\ Len(SubSeq(s, 1, Len(s) - 1)) = Len(s) - 1
      /\ \A i \in 1..(Len(s) - 1) : SubSeq(s, 1, Len(s) - 1)[i] = s[i]
  BY <1>1
<1> QED BY <1>1, <1>2, <1>3 DEF Last

(* The coroutine that a cancellation is that of. *)
LEMMA HolderType ==
  ASSUME TypeOK, Held, stack # <<>>, Last(stack).then # "timeout"
  PROVE  Holds(Last(stack), transfer, co) /\ Last(stack).who \in Attempts
<1>1. Len(stack) \in DOMAIN stack /\ stack[Len(stack)] = Last(stack)
  BY StackShrinks DEF TypeOK
<1> QED BY <1>1 DEF Held, Holds

(* What submit_operation does to the transfers. *)
LEMMA SubmitType ==
  ASSUME NEW c \in Attempts, NEW o \in {"read", "write"}, NEW handle, TypeOK,
         NEW tr \in [Attempts -> TransferStates],
         NEW queue \in [Attempts -> Nat],
         submit_operation(c, o, handle, tr, queue)
  PROVE  /\ transfer' \in [Attempts -> TransferStates]
         /\ transfer'[c] \in {"flying", "unsubmitted"}
         /\ \A b \in Attempts \ {c} : transfer'[b] = tr[b]
         /\ transfers_' = [queue EXCEPT ![c] = @ + 1]
         /\ transfers_' \in [Attempts -> Nat]
         /\ op' \in [Attempts -> {"read", "write"}]
         /\ crashed' \in {"no", "handle", "context"}
         /\ handle # None => crashed' = crashed
<1> USE DEF submit_operation
<1>1. \E t \in {"flying", "unsubmitted"} : transfer' = [tr EXCEPT ![c] = t]
  OBVIOUS
<1>2. \A t \in {"flying", "unsubmitted"} : t \in TransferStates
  BY DEF TransferStates, InFlight
<1>3. transfers_' = [queue EXCEPT ![c] = @ + 1]
  OBVIOUS
<1>4. transfers_' \in [Attempts -> Nat]
  BY <1>3
<1>5. op' \in [Attempts -> {"read", "write"}]
  BY DEF TypeOK
<1>6. crashed' \in {"no", "handle", "context"} /\ (handle # None => crashed' = crashed)
  BY DEF TypeOK
<1> QED BY <1>1, <1>2, <1>3, <1>4, <1>5, <1>6

(* An attempt that ends. *)
LEMMA EndedType ==
  ASSUME TypeOK, NEW c \in Attempts, Ended(c)
  PROVE  /\ co' \in [Attempts -> {"idle", "init", "ready", "poll", "done"}]
         /\ op' \in [Attempts -> {"read", "write"}]
         /\ left' \in [Attempts -> 0..MaxOps]
<1>1. 0 \in 0..MaxOps
  OBVIOUS
<1> QED BY <1>1 DEF TypeOK, Ended

(* What a cancellation does to the transfers. *)
LEMMA CancelType ==
  ASSUME TypeOK, NEW tr \in [Attempts -> TransferStates],
         NEW queue \in [Attempts -> Nat], NEW frames \in Seq(Frames),
         Cancel(frames, queue, tr)
  PROVE  /\ transfer' \in [Attempts -> TransferStates]
         /\ transfers_' = queue /\ stack' = frames
         /\ \A b \in Attempts : \/ transfer'[b] = tr[b]
                                \/ tr[b] = "flying" /\ transfer'[b] = "cancelling"
         /\ crashed' \in {"no", "handle", "context"}
         /\ (\A b \in Attempts : tr[b] # "lost") => crashed' = crashed
  BY DEF Cancel, Cancelled, TypeOK, TransferStates, InFlight

(* What closing the handle does to them. *)
LEMMA ForgottenType ==
  ASSUME NEW tr \in [Attempts -> TransferStates]
  PROVE  /\ Forgotten(tr) \in [Attempts -> TransferStates]
         /\ \A b \in Attempts :
              \/ Forgotten(tr)[b] = tr[b]
              \/ tr[b] \in InFlight /\ Forgotten(tr)[b] = "lost"
              \/ tr[b] = "empty" /\ Forgotten(tr)[b] = "dangling"
  BY DEF Forgotten, TransferStates, InFlight

(* What the strand hands over. *)
LEMMA ResumesType ==
  ASSUME TypeOK, NEW c \in Attempts, Resumes(c)
  PROVE  /\ Queue(c) \in [Attempts -> Nat] /\ Transfers(c) \in [Attempts -> TransferStates]
         /\ strand_' \in Seq(Attempts)
         /\ result' \in [Attempts -> {"success", "error"}]
  BY DEF Resumes, Queue, Transfers, delete_transfer, TypeOK, TransferStates

(* The variables keep their types, one action after the other.             *)
LEMMA NextTypeOK == TypeOK /\ Held /\ [Next]_vars => TypeOK'
<1> SUFFICES ASSUME TypeOK, Held, [Next]_vars PROVE TypeOK' OBVIOUS
<1> USE DEF InFlight
<1>t. transfer \in [Attempts -> TransferStates] /\ transfers_ \in [Attempts -> Nat]
  BY DEF TypeOK, TransferStates
<1>0. CASE UNCHANGED vars
  BY <1>0 DEF vars, TypeOK, port, coroutine, usb
<1>e. \A d : DOMAIN setup_endpoints(d) = {"read", "write", "packet"}
  BY DEF setup_endpoints
<1>1. ASSUME NEW c \in Attempts, OpenFails(c) PROVE TypeOK'
  <2>1. Ended(c) /\ overtaken' \in BOOLEAN
    BY <1>1 DEF OpenFails
  <2> QED BY <1>1, <1>t, <2>1, EndedType, ForgottenType DEF OpenFails, TypeOK, TransferStates
<1>2. ASSUME NEW c \in Attempts, OpenSucceeds(c) PROVE TypeOK'
  <2>1. submit_operation(c, "write", hardware, Forgotten(transfer), transfers_)
    BY <1>2 DEF OpenSucceeds
  <2> QED BY <1>2, <1>t, <1>e, <2>1, ForgottenType, SubmitType DEF OpenSucceeds, Ticks, TypeOK, TransferStates
<1>3. ASSUME NEW c \in Attempts, NextOperation(c) PROVE TypeOK'
  <2>1. Resumes(c) BY <1>3 DEF NextOperation
  <2>2. \/ submit_operation(c, "read", device, Transfers(c), Queue(c))
        \/ submit_operation(c, "write", device, Transfers(c), Queue(c))
    BY <1>3 DEF NextOperation
  <2>3. /\ transfer' \in [Attempts -> TransferStates] /\ transfers_' \in [Attempts -> Nat]
        /\ op' \in [Attempts -> {"read", "write"}]
        /\ crashed' \in {"no", "handle", "context"}
    BY <2>1, <2>2, ResumesType, SubmitType
  <2>4. left' \in [Attempts -> 0..MaxOps]
    <3>1. CASE left' = left
      BY <3>1 DEF TypeOK
    <3>2. CASE left[c] > 0 /\ left' = [left EXCEPT ![c] = @ - 1]
      <4>1. left[c] - 1 \in 0..MaxOps
        BY <3>2 DEF TypeOK
      <4> QED BY <3>2, <4>1 DEF TypeOK
    <3> QED BY <1>3, <3>1, <3>2 DEF NextOperation
  <2>5. armed' \in [Attempts -> BOOLEAN]
    BY <1>3 DEF NextOperation, TypeOK
  <2> QED BY <1>3, <2>1, <2>3, <2>4, <2>5, ResumesType DEF NextOperation, port, TypeOK, TransferStates
<1>4. ASSUME NEW c \in Attempts, InitSucceeds(c) PROVE TypeOK'
  <2>1. Resumes(c) BY <1>4 DEF InitSucceeds
  <2> QED BY <1>4, <2>1, ResumesType DEF InitSucceeds, port, TypeOK, TransferStates
<1>5. ASSUME NEW c \in Attempts, InitFails(c) \/ ReadFails(c) \/ PollFails(c) PROVE TypeOK'
  <2>1. Resumes(c) BY <1>5 DEF InitFails, ReadFails, PollFails
  <2>2. PICK t \in {"giveup", "close", "disconnect"} :
          Cancel(Append(stack, Frame(c, t)), Queue(c), Transfers(c))
    BY <1>5 DEF InitFails, ReadFails, PollFails
  <2>3. Append(stack, Frame(c, t)) \in Seq(Frames)
    BY FrameType DEF TypeOK
  <2>4. /\ transfer' \in [Attempts -> TransferStates] /\ transfers_' \in [Attempts -> Nat]
        /\ stack' \in Seq(Frames) /\ crashed' \in {"no", "handle", "context"}
    BY <2>1, <2>2, <2>3, ResumesType, CancelType
  <2>5. armed' \in [Attempts -> BOOLEAN]
    BY <1>5 DEF InitFails, ReadFails, PollFails, TypeOK, coroutine
  <2> QED BY <1>5, <2>1, <2>4, <2>5, ResumesType
     DEF InitFails, ReadFails, PollFails, port, coroutine, TypeOK, TransferStates
<1>6. ASSUME NEW c \in Attempts, PollReads(c) PROVE TypeOK'
  <2>1. Resumes(c) /\ submit_operation(c, "read", device, Transfers(c), Queue(c))
    BY <1>6 DEF PollReads
  <2> QED BY <1>6, <2>1, ResumesType, SubmitType DEF PollReads, port, TypeOK, TransferStates
<1>7. ASSUME NEW c \in Attempts, PollEnds(c) PROVE TypeOK'
  <2>1. Resumes(c) /\ Ended(c) BY <1>7 DEF PollEnds
  <2> QED BY <1>7, <2>1, EndedType, ResumesType DEF PollEnds, port, TypeOK, TransferStates
<1>8. ASSUME NEW c \in Attempts, PollStarts(c) PROVE TypeOK'
  <2>1. CASE connected
    <3>1. submit_operation(c, "read", device, transfer, transfers_)
      BY <1>8, <2>1 DEF PollStarts
    <3>2. 0 \in 0..MaxOps
      OBVIOUS
    <3>3. co' \in [Attempts -> {"idle", "init", "ready", "poll", "done"}]
          /\ left' \in [Attempts -> 0..MaxOps]
      BY <1>8, <2>1, <3>2 DEF PollStarts, TypeOK
    <3> QED BY <1>8, <2>1, <3>1, <3>3, <1>t, SubmitType DEF PollStarts, port, TypeOK, TransferStates
  <2>2. CASE ~connected
    BY <1>8, <2>2, EndedType DEF PollStarts, port, TypeOK
  <2> QED BY <2>1, <2>2
<1>9. ASSUME NEW c \in Attempts, Timeout(c) PROVE TypeOK'
  <2>0. Frame(Nobody, "timeout") \in Frames
    BY FrameType
  <2>1. Append(stack, Frame(Nobody, "timeout")) \in Seq(Frames)
    BY <2>0 DEF TypeOK
  <2>2. Cancel(Append(stack, Frame(Nobody, "timeout")), transfers_, transfer)
    BY <1>9 DEF Timeout
  <2>3. /\ transfer' \in [Attempts -> TransferStates] /\ transfers_' \in [Attempts -> Nat]
        /\ stack' \in Seq(Frames) /\ crashed' \in {"no", "handle", "context"}
    BY <2>1, <2>2, <1>t, CancelType
  <2> QED BY <1>9, <2>3 DEF Timeout, port, TypeOK, TransferStates
<1>10. ASSUME NEW c \in Attempts, Completes(c) \/ CompletesEmpty(c) \/ Resubmits(c) PROVE TypeOK'
  <2>1. CASE Completes(c)
    BY <2>1 DEF Completes, TypeOK, port, coroutine, TransferStates
  <2>2. CASE CompletesEmpty(c)
    BY <2>2 DEF CompletesEmpty, TypeOK, port, coroutine, TransferStates
  <2>3. CASE Resubmits(c)
    <3>1. transfer' \in [Attempts -> TransferStates]
      BY <2>3, <1>t DEF Resubmits, TransferStates
    <3>2. crashed' \in {"no", "handle", "context"}
      BY <2>3 DEF Resubmits, TypeOK
    <3> QED BY <2>3, <3>1, <3>2 DEF Resubmits, TypeOK, port, coroutine, TransferStates
  <2> QED BY <1>10, <2>1, <2>2, <2>3
<1>11. CASE PlugOrUnplug
  BY <1>11 DEF PlugOrUnplug, TypeOK, port, coroutine, usb
<1>12. CASE PollReturns
  <2>0. stack # <<>> /\ Front(stack) \in Seq(Frames) /\ Last(stack) \in Frames
    BY <1>12, StackShrinks
       DEF PollReturns, TimeoutEnds, TriesNext, GivesUp, ConnectFails, Disconnects, Closes, Returns, TypeOK
  <2>1. CASE TimeoutEnds
    BY <2>0, <2>1 DEF TimeoutEnds, TypeOK, port, coroutine, usb
  <2>2. CASE TriesNext
    <3> DEFINE c == Last(stack).who
    <3>1. c \in Attempts /\ left[c] > 0 /\ left' = [left EXCEPT ![c] = @ - 1]
          /\ armed' = [armed EXCEPT ![c] = TRUE]
          /\ submit_operation(c, "write", device, transfer, transfers_)
      BY <2>0, <2>2, HolderType DEF TriesNext, Returns
    <3> HIDE DEF c
    <3>2. left[c] - 1 \in 0..MaxOps
      BY <3>1 DEF TypeOK
    <3>3. left' \in [Attempts -> 0..MaxOps] /\ armed' \in [Attempts -> BOOLEAN]
      BY <3>1, <3>2 DEF TypeOK
    <3>4. /\ transfer' \in [Attempts -> TransferStates] /\ transfers_' \in [Attempts -> Nat]
          /\ op' \in [Attempts -> {"read", "write"}]
          /\ crashed' \in {"no", "handle", "context"}
      BY <1>t, <3>1, SubmitType
    <3> QED BY <2>0, <2>2, <3>3, <3>4 DEF TriesNext, TypeOK, port, TransferStates
  <2>3. CASE GivesUp
    <3> DEFINE f == Frame(Last(stack).who, "close")
    <3>1. Last(stack).who \in Attempts
      BY <2>0, <2>3, HolderType DEF GivesUp, Returns
    <3>2. f \in Frames
      BY <3>1, FrameType
    <3>3. Append(Front(stack), f) \in Seq(Frames)
      BY <2>0, <3>2
    <3>4. Cancel(Append(Front(stack), f), transfers_, transfer)
      BY <2>3 DEF GivesUp
    <3>5. /\ transfer' \in [Attempts -> TransferStates] /\ transfers_' \in [Attempts -> Nat]
          /\ stack' \in Seq(Frames) /\ crashed' \in {"no", "handle", "context"}
      BY <1>t, <3>3, <3>4, CancelType
    <3> QED BY <2>3, <3>5 DEF GivesUp, port, coroutine, TypeOK, TransferStates
  <2>4. CASE ConnectFails \/ Disconnects
    <3> DEFINE c == Last(stack).who
    <3>1. c \in Attempts /\ Ended(c)
      BY <2>0, <2>4, HolderType DEF ConnectFails, Disconnects, Closes, Returns
    <3>2. /\ device' = None /\ events' = FALSE /\ transfer' = Forgotten(transfer)
          /\ stack' = Front(stack) /\ crashed' \in {"no", "context"}
          /\ UNCHANGED <<hardware, endpoints, armed, result, transfers_, strand_, overtaken>>
          /\ connected' \in BOOLEAN
      BY <2>4 DEF ConnectFails, Disconnects, Closes, TypeOK
    <3> HIDE DEF c
    <3> QED BY <1>t, <2>0, <3>1, <3>2, EndedType, ForgottenType DEF TypeOK, TransferStates
  <2> QED BY <1>12, <2>1, <2>2, <2>3, <2>4 DEF PollReturns
<1> QED
  BY <1>0, <1>1, <1>2, <1>3, <1>4, <1>5, <1>6, <1>7, <1>8, <1>9, <1>10, <1>11, <1>12
     DEF Next, HandlerRuns
-----------------------------------------------------------------------------
(* What waits in the strand stays there. *)
LEMMA QueuedKept ==
  ASSUME Queued, strand_' = strand_, strand_ \in Seq(Attempts),
         \A b \in Attempts : (transfer'[b] = "posted") = (transfer[b] = "posted")
  PROVE  Queued'
<1>1. \A i \in DOMAIN strand_ : strand_[i] \in Attempts
  OBVIOUS
<1> QED BY <1>1 DEF Queued

(* The handler at the head of the strand is that of a completed transfer. *)
LEMMA StrandPops ==
  ASSUME TypeOK, Queued, NEW c \in Attempts, Resumes(c)
  PROVE  /\ transfer[c] = "posted"
         /\ (\A b \in Attempts : (transfer'[b] = "posted") = (b # c /\ transfer[b] = "posted"))
               => Queued'
<1>1. /\ strand_ \in Seq(Attempts) /\ strand_ # <<>> /\ c = strand_[1]
      /\ strand_' = Tail(strand_)
  BY DEF Resumes, TypeOK
<1>2. 1 \in DOMAIN strand_
  BY <1>1
<1>3. transfer[c] = "posted"
  BY <1>1, <1>2 DEF Queued
<1>4. /\ DOMAIN strand_' = 1 .. Len(strand_) - 1 /\ DOMAIN strand_ = 1 .. Len(strand_)
      /\ \A i \in DOMAIN strand_' : i + 1 \in DOMAIN strand_ /\ strand_'[i] = strand_[i + 1]
  BY <1>1
<1>5. ASSUME \A b \in Attempts : (transfer'[b] = "posted") = (b # c /\ transfer[b] = "posted")
      PROVE  Queued'
  <2>1. ASSUME NEW i \in DOMAIN strand_' PROVE transfer'[strand_'[i]] = "posted"
    <3>1. i + 1 \in DOMAIN strand_ /\ strand_'[i] = strand_[i + 1] /\ i + 1 # 1
      BY <1>4
    <3>2. strand_[i + 1] # c /\ strand_[i + 1] \in Attempts /\ transfer[strand_[i + 1]] = "posted"
      BY <1>1, <1>2, <3>1 DEF Queued
    <3> QED BY <1>5, <3>1, <3>2
  <2>2. ASSUME NEW i \in DOMAIN strand_', NEW j \in DOMAIN strand_', strand_'[i] = strand_'[j]
        PROVE  i = j
    <3>1. strand_[i + 1] = strand_[j + 1] /\ i + 1 \in DOMAIN strand_ /\ j + 1 \in DOMAIN strand_
      BY <1>4, <2>2
    <3>2. i + 1 = j + 1
      BY <3>1 DEF Queued
    <3> QED BY <1>4, <3>2
  <2>3. ASSUME NEW b \in Attempts, transfer'[b] = "posted"
        PROVE  \E i \in DOMAIN strand_' : strand_'[i] = b
    <3>1. b # c /\ transfer[b] = "posted"
      BY <1>5, <2>3
    <3>2. PICK i \in DOMAIN strand_ : strand_[i] = b
      BY <3>1 DEF Queued
    <3>3. i # 1
      BY <1>1, <3>1, <3>2
    <3>4. i - 1 \in DOMAIN strand_' /\ strand_'[i - 1] = b
      BY <1>1, <1>4, <3>2, <3>3
    <3> QED BY <3>4
  <2> QED BY <2>1, <2>2, <2>3 DEF Queued
<1> QED BY <1>3, <1>5

(* A handler is posted once. *)
LEMMA StrandGrows ==
  ASSUME TypeOK, Queued, NEW c \in Attempts, transfer[c] # "posted",
         strand_' = Append(strand_, c),
         transfer' = [transfer EXCEPT ![c] = "posted"]
  PROVE  Queued'
<1>1. /\ strand_ \in Seq(Attempts) /\ transfer'[c] = "posted"
      /\ \A b \in Attempts \ {c} : transfer'[b] = transfer[b]
  BY DEF TypeOK
<1>2. /\ DOMAIN strand_' = DOMAIN strand_ \cup {Len(strand_) + 1}
      /\ Len(strand_) + 1 \notin DOMAIN strand_
      /\ strand_'[Len(strand_) + 1] = c
      /\ \A i \in DOMAIN strand_ : strand_'[i] = strand_[i] /\ strand_[i] \in Attempts
  BY <1>1
<1>3. \A i \in DOMAIN strand_ : strand_[i] # c
  BY <1>1 DEF Queued
<1>4. \A i \in DOMAIN strand_' : transfer'[strand_'[i]] = "posted"
  BY <1>1, <1>2, <1>3 DEF Queued
<1>5. \A i, j \in DOMAIN strand_' : strand_'[i] = strand_'[j] => i = j
  BY <1>2, <1>3 DEF Queued
<1>6. ASSUME NEW b \in Attempts, transfer'[b] = "posted"
      PROVE  \E i \in DOMAIN strand_' : strand_'[i] = b
  BY <1>1, <1>2, <1>6 DEF Queued
<1> QED BY <1>4, <1>5, <1>6 DEF Queued

(* A step leaves coroutines that are inside a cancellation alone. *)
Undisturbed ==
  \A b \in Attempts :
    transfer[b] = "free" /\ co[b] \in {"init", "poll"} =>
      transfer'[b] = "free" /\ co'[b] = co[b]

(* A coroutine that is held stays so. *)
LEMMA HoldsOn ==
  ASSUME NEW f, Holds(f, transfer, co), Undisturbed
  PROVE  Holds(f, transfer', co')
  BY DEF Holds, Undisturbed

(* The stack stays. *)
LEMMA HeldKept ==
  ASSUME Held, stack' = stack, Undisturbed
  PROVE  Held'
  BY HoldsOn DEF Held

(* A cancellation begins above others. *)
LEMMA HeldPushed ==
  ASSUME TypeOK, Held, NEW f \in Frames, stack' = Append(stack, f), Undisturbed,
         f.then = "timeout" \/ (StrandFree /\ Holds(f, transfer', co'))
  PROVE  Held'
<1>1. /\ stack \in Seq(Frames)
      /\ DOMAIN stack' = DOMAIN stack \cup {Len(stack) + 1}
      /\ Len(stack) + 1 \notin DOMAIN stack
      /\ stack'[Len(stack) + 1] = f
      /\ \A i \in DOMAIN stack : stack'[i] = stack[i]
  BY DEF TypeOK
<1>2. ASSUME NEW i \in DOMAIN stack', stack'[i].then # "timeout"
      PROVE  Holds(stack'[i], transfer', co')
  <2>1. CASE i \in DOMAIN stack
    BY <1>1, <1>2, <2>1, HoldsOn DEF Held
  <2>2. CASE i = Len(stack) + 1
    BY <1>1, <1>2, <2>2
  <2> QED BY <1>1, <2>1, <2>2
<1>3. ASSUME NEW i \in DOMAIN stack', NEW j \in DOMAIN stack',
             stack'[i].then # "timeout", stack'[j].then # "timeout"
      PROVE  i = j
  BY <1>1, <1>3 DEF Held, StrandFree
<1> QED BY <1>2, <1>3 DEF Held

(* The topmost cancellation ends. *)
LEMMA HeldPopped ==
  ASSUME TypeOK, Held, stack # <<>>, stack' = Front(stack),
         Last(stack).then # "timeout" \/ Undisturbed
  PROVE  Held'
<1>1. /\ \A i \in DOMAIN stack' : i \in DOMAIN stack /\ i # Len(stack) /\ stack'[i] = stack[i]
      /\ Len(stack) \in DOMAIN stack /\ stack[Len(stack)] = Last(stack)
  BY StackShrinks DEF TypeOK
<1>2. CASE Last(stack).then # "timeout"
  <2>1. \A i \in DOMAIN stack' : stack'[i].then = "timeout"
    BY <1>1, <1>2 DEF Held
  <2> QED BY <2>1 DEF Held
<1>3. CASE Undisturbed
  <2>1. ASSUME NEW i \in DOMAIN stack', stack'[i].then # "timeout"
        PROVE  Holds(stack'[i], transfer', co')
    BY <1>1, <1>3, <2>1, HoldsOn DEF Held
  <2> QED BY <1>1, <2>1 DEF Held
<1> QED BY <1>2, <1>3

-----------------------------------------------------------------------------
Rest == Accounted /\ Queued /\ Held /\ Alone /\ EndpointsSet

(* The coroutine that is resumed has had its transfer deleted. *)
LEMMA Popped ==
  ASSUME IInv, NEW c \in Attempts, Resumes(c)
  PROVE  /\ transfer[c] = "posted" /\ co[c] \in {"init", "poll"}
         /\ Queue(c) \in [Attempts -> Nat] /\ Transfers(c) \in [Attempts -> TransferStates]
         /\ Queue(c)[c] = 0 /\ Transfers(c)[c] = "free"
         /\ \A b \in Attempts \ {c} : Queue(c)[b] = transfers_[b] /\ Transfers(c)[b] = transfer[b]
<1>1. transfer[c] = "posted"
  BY StrandPops DEF IInv
<1>2. co[c] \in {"init", "poll"}
  BY <1>1 DEF IInv, Accounted
<1>3. Queue(c) \in [Attempts -> Nat] /\ Transfers(c) \in [Attempts -> TransferStates]
  BY ResumesType DEF IInv
<1> QED BY <1>1, <1>2, <1>3 DEF Queue, Transfers, delete_transfer, IInv, TypeOK

(* A coroutine that goes on has a new transfer in place of the old one.    *)
LEMMA GoesOn ==
  ASSUME IInv, NEW c \in Attempts, NextOperation(c) \/ PollReads(c)
  PROVE  Rest'
<1>1. /\ Resumes(c)
      /\ \E o \in {"read", "write"} : submit_operation(c, o, device, Transfers(c), Queue(c))
      /\ UNCHANGED <<device, endpoints, connected, co, stack, overtaken>>
  BY DEF NextOperation, PollReads, port
<1>2. /\ transfer[c] = "posted" /\ co[c] \in {"init", "poll"}
      /\ transfers_'[c] = 1 /\ transfer'[c] \in {"flying", "unsubmitted"}
      /\ \A b \in Attempts \ {c} : transfers_'[b] = transfers_[b] /\ transfer'[b] = transfer[b]
      /\ device # None => crashed' = crashed
  <2>1. PICK o \in {"read", "write"} :
          submit_operation(c, o, device, Transfers(c), Queue(c))
    BY <1>1
  <2>2. /\ transfer[c] = "posted" /\ co[c] \in {"init", "poll"}
        /\ Queue(c) \in [Attempts -> Nat] /\ Transfers(c) \in [Attempts -> TransferStates]
        /\ Queue(c)[c] = 0
        /\ \A b \in Attempts \ {c} : Queue(c)[b] = transfers_[b] /\ Transfers(c)[b] = transfer[b]
    BY <1>1, Popped
  <2>3. /\ transfer'[c] \in {"flying", "unsubmitted"}
        /\ \A b \in Attempts \ {c} : transfer'[b] = Transfers(c)[b]
        /\ transfers_' = [Queue(c) EXCEPT ![c] = @ + 1]
        /\ device # None => crashed' = crashed
    <3> DEFINE tr == Transfers(c)  queue == Queue(c)
    <3>1. /\ tr \in [Attempts -> TransferStates] /\ queue \in [Attempts -> Nat]
          /\ submit_operation(c, o, device, tr, queue)
      BY <2>1, <2>2
    <3>t. TypeOK BY DEF IInv
    <3> HIDE DEF tr, queue
    <3>2. transfer'[c] \in {"flying", "unsubmitted"}
      BY <3>1, <3>t, SubmitType
    <3>3. \A b \in Attempts \ {c} : transfer'[b] = tr[b]
      BY <3>1 DEF submit_operation
    <3>4. transfers_' = [queue EXCEPT ![c] = @ + 1]
      BY <3>1 DEF submit_operation
    <3>5. device # None => crashed' = crashed
      BY <3>1 DEF submit_operation
    <3> QED BY <3>2, <3>3, <3>4, <3>5 DEF tr, queue
  <2> QED BY <2>2, <2>3
<1>3. Accounted'
  BY <1>1, <1>2 DEF IInv, Accounted
<1>4. Queued'
  BY <1>1, <1>2, StrandPops DEF IInv
<1>5. Held'
  BY <1>1, <1>2, HeldKept DEF IInv, Undisturbed
<1>6. Alone'
  BY <1>1, <1>2 DEF IInv, Alone, Active
<1>7. EndpointsSet'
  BY <1>1 DEF IInv, EndpointsSet
<1> QED BY <1>3, <1>4, <1>5, <1>6, <1>7 DEF Rest

(* One that needs the port no longer leaves nothing behind.                *)
LEMMA LetsGo ==
  ASSUME IInv, NEW c \in Attempts, InitSucceeds(c) \/ PollEnds(c)
  PROVE  Rest'
<1>1. /\ Resumes(c)
      /\ transfers_' = Queue(c) /\ transfer' = Transfers(c)
      /\ UNCHANGED <<device, endpoints, stack, crashed, overtaken>>
  BY DEF InitSucceeds, PollEnds, port
<1>2. /\ transfer[c] = "posted" /\ co[c] \in {"init", "poll"}
      /\ transfers_'[c] = 0 /\ transfer'[c] = "free"
      /\ \A b \in Attempts \ {c} : transfers_'[b] = transfers_[b] /\ transfer'[b] = transfer[b]
  BY <1>1, Popped
<1>3. \/ co[c] = "init" /\ co' = [co EXCEPT ![c] = "ready"] /\ connected'
      \/ co[c] = "poll" /\ co' = [co EXCEPT ![c] = "done"] /\ connected' = connected
  BY DEF InitSucceeds, PollEnds, Ended
<1>4. \A b \in Attempts \ {c} : co'[b] = co[b]
  BY <1>3 DEF IInv, TypeOK
<1>5. Accounted'
  BY <1>2, <1>4 DEF IInv, Accounted
<1>6. Queued'
  BY <1>1, <1>2, StrandPops DEF IInv
<1>7. Held'
  BY <1>1, <1>2, <1>4, HeldKept DEF IInv, Undisturbed
<1>8. Alone'
  <2>1. co'[c] \in {"ready", "done"} /\ (co'[c] = "ready" => connected')
    BY <1>3 DEF IInv, TypeOK
  <2>2. Active' \subseteq Active /\ c \in Active
    BY <1>2, <1>4, <2>1 DEF Active
  <2> QED BY <1>1, <1>2, <1>3, <1>4, <2>1, <2>2 DEF IInv, Alone, Active
<1>9. EndpointsSet'
  BY <1>1 DEF IInv, EndpointsSet
<1> QED BY <1>5, <1>6, <1>7, <1>8, <1>9 DEF Rest

(* One whose operation has failed begins a cancellation, and is held in it *)
(* without a transfer.                                                     *)
LEMMA CancelsItself ==
  ASSUME IInv, NEW c \in Attempts, InitFails(c) \/ ReadFails(c) \/ PollFails(c)
  PROVE  Rest'
<1>1. Resumes(c) /\ UNCHANGED <<device, endpoints, connected, co, overtaken>>
  BY DEF InitFails, ReadFails, PollFails, port, coroutine
<1>2. PICK t \in {"giveup", "close", "disconnect"} :
        /\ Cancel(Append(stack, Frame(c, t)), Queue(c), Transfers(c))
        /\ co[c] = IF t = "disconnect" THEN "poll" ELSE "init"
  BY DEF InitFails, ReadFails, PollFails
<1>3. /\ Frame(c, t) \in Frames /\ Frame(c, t).who = c /\ Frame(c, t).then = t
      /\ Append(stack, Frame(c, t)) \in Seq(Frames)
  <2>1. Frame(c, t) \in Frames
    BY FrameType
  <2> QED BY <2>1 DEF Frame, IInv, TypeOK
<1>4. /\ transfer[c] = "posted"
      /\ transfers_'[c] = 0 /\ transfer'[c] = "free"
      /\ \A b \in Attempts \ {c} :
            /\ transfers_'[b] = transfers_[b]
            /\ \/ transfer'[b] = transfer[b]
               \/ transfer[b] = "flying" /\ transfer'[b] = "cancelling"
      /\ (\A b \in Attempts : transfer[b] # "lost") => crashed' = crashed
      /\ stack' = Append(stack, Frame(c, t))
  <2>1. /\ transfer[c] = "posted"
        /\ Queue(c) \in [Attempts -> Nat] /\ Transfers(c) \in [Attempts -> TransferStates]
        /\ Queue(c)[c] = 0 /\ Transfers(c)[c] = "free"
        /\ \A b \in Attempts \ {c} : Queue(c)[b] = transfers_[b] /\ Transfers(c)[b] = transfer[b]
    BY <1>1, Popped
  <2> DEFINE tr == Transfers(c)  queue == Queue(c)  frames == Append(stack, Frame(c, t))
  <2>2. frames \in Seq(Frames) /\ Cancel(frames, queue, tr)
    BY <1>2, <1>3
  <2> HIDE DEF tr, queue, frames
  <2>3. /\ transfers_' = queue /\ stack' = frames
        /\ \A b \in Attempts : \/ tr[b] = transfer'[b]
                               \/ tr[b] = "flying" /\ transfer'[b] = "cancelling"
        /\ (\A b \in Attempts : tr[b] # "lost") => crashed' = crashed
    BY <2>1, <2>2, CancelType DEF IInv, tr, queue
  <2>4. \A b \in Attempts \ {c} :
            /\ transfers_'[b] = transfers_[b]
            /\ \/ transfer'[b] = transfer[b]
               \/ transfer[b] = "flying" /\ transfer'[b] = "cancelling"
    <3>1. \A b \in Attempts \ {c} : queue[b] = transfers_[b] /\ tr[b] = transfer[b]
      BY <2>1 DEF tr, queue
    <3> QED BY <2>3, <3>1
  <2>5. transfers_'[c] = 0 /\ transfer'[c] = "free"
    <3>1. queue[c] = 0 /\ tr[c] = "free"
      BY <2>1 DEF tr, queue
    <3> QED BY <2>3, <3>1
  <2>6. ASSUME \A b \in Attempts : transfer[b] # "lost" PROVE crashed' = crashed
    <3>1. \A b \in Attempts : tr[b] # "lost"
      BY <2>1, <2>6 DEF tr
    <3> QED BY <2>3, <3>1
  <2>7. stack' = Append(stack, Frame(c, t))
    BY <2>3 DEF frames
  <2> QED BY <2>1, <2>4, <2>5, <2>6, <2>7
<1>5. Accounted'
  BY <1>1, <1>4 DEF IInv, Accounted
<1>6. Queued'
  BY <1>1, <1>4, StrandPops DEF IInv
<1>7. Held'
  <2>1. Undisturbed
    BY <1>1, <1>4 DEF Undisturbed
  <2>2. StrandFree /\ Holds(Frame(c, t), transfer', co')
    BY <1>1, <1>2, <1>3, <1>4 DEF Resumes, Holds
  <2> QED BY <1>3, <1>4, <2>1, <2>2, HeldPushed DEF IInv
<1>8. Alone'
  BY <1>1, <1>4 DEF IInv, Alone, Active
<1>9. EndpointsSet'
  BY <1>1 DEF IInv, EndpointsSet
<1> QED BY <1>5, <1>6, <1>7, <1>8, <1>9 DEF Rest

(* An attempt to open the port forgets what another one has in flight.     *)
LEMMA OpenFailsRest ==
  ASSUME IInv, NEW c \in Attempts, OpenFails(c)
  PROVE  Rest'
<1>1. /\ co[c] = "idle" /\ ~connected /\ co' = [co EXCEPT ![c] = "done"]
      /\ device' = None /\ transfer' = Forgotten(transfer)
      /\ UNCHANGED <<endpoints, connected, transfers_, strand_, stack, crashed>>
  BY DEF OpenFails, Ticks, Ended
<1>2. ~overtaken' => ~overtaken /\ UnderWay = {}
  BY DEF OpenFails
<1>3. \A b \in Attempts : \/ transfer'[b] = transfer[b]
                          \/ transfer[b] \in InFlight /\ transfer'[b] = "lost"
                          \/ transfer[b] = "empty" /\ transfer'[b] = "dangling"
  BY <1>1, ForgottenType DEF IInv, TypeOK, TransferStates
<1>4. co'[c] = "done" /\ \A b \in Attempts \ {c} : co'[b] = co[b]
  BY <1>1 DEF IInv, TypeOK
<1>5. transfer[c] = "free"
  BY <1>1 DEF IInv, Accounted
<1>6. Accounted'
  BY <1>1, <1>3, <1>4, <1>5 DEF IInv, Accounted, InFlight
<1>7. Queued'
  BY <1>1, <1>3, QueuedKept DEF IInv, TypeOK, InFlight
<1>8. Held'
  BY <1>1, <1>3, <1>4, HeldKept DEF IInv, Undisturbed, InFlight
<1>9. Alone'
  <2> SUFFICES ASSUME ~overtaken' PROVE Alone'
    BY DEF Alone
  <2>1. Active = {}
    BY <1>1, <1>2 DEF IInv, Alone, Active, UnderWay
  <2>2. \A b \in Attempts : transfer[b] = "free"
    BY <2>1 DEF IInv, Accounted, Active
  <2>3. Active' = {}
    BY <1>4, <2>1 DEF Active
  <2> QED BY <1>1, <1>2, <1>3, <2>2, <2>3 DEF IInv, Alone, InFlight
<1>10. EndpointsSet'
  BY <1>1 DEF EndpointsSet
<1> QED BY <1>6, <1>7, <1>8, <1>9, <1>10 DEF Rest

(* So does one that succeeds; it has the first operation of its own. *)
LEMMA OpenSucceedsRest ==
  ASSUME IInv, NEW c \in Attempts, OpenSucceeds(c)
  PROVE  Rest'
<1>1. /\ co[c] = "idle" /\ ~connected /\ co' = [co EXCEPT ![c] = "init"]
      /\ device' = hardware /\ hardware # None /\ endpoints' = setup_endpoints(hardware)
      /\ submit_operation(c, "write", hardware, Forgotten(transfer), transfers_)
      /\ UNCHANGED <<connected, strand_, stack>>
  BY DEF OpenSucceeds, Ticks
<1>2. ~overtaken' => ~overtaken /\ UnderWay = {}
  BY DEF OpenSucceeds
<1>3. \A b \in Attempts : \/ Forgotten(transfer)[b] = transfer[b]
                          \/ transfer[b] \in InFlight /\ Forgotten(transfer)[b] = "lost"
                          \/ transfer[b] = "empty" /\ Forgotten(transfer)[b] = "dangling"
  BY ForgottenType DEF IInv, TypeOK, TransferStates
<1>4. co'[c] = "init" /\ \A b \in Attempts \ {c} : co'[b] = co[b]
  BY <1>1 DEF IInv, TypeOK
<1>5. transfer[c] = "free" /\ transfers_[c] = 0
  BY <1>1 DEF IInv, Accounted
<1>6. /\ transfer'[c] \in {"flying", "unsubmitted"} /\ transfers_'[c] = 1
      /\ \A b \in Attempts \ {c} :
           transfer'[b] = Forgotten(transfer)[b] /\ transfers_'[b] = transfers_[b]
      /\ crashed' = crashed
  <2> DEFINE tr == Forgotten(transfer)
  <2>1. /\ submit_operation(c, "write", hardware, tr, transfers_)
        /\ tr \in [Attempts -> TransferStates] /\ transfers_ \in [Attempts -> Nat]
    BY <1>1, ForgottenType DEF IInv, TypeOK, TransferStates
  <2> HIDE DEF tr
  <2>2. /\ transfer'[c] \in {"flying", "unsubmitted"} /\ transfers_'[c] = 1
        /\ \A b \in Attempts \ {c} : transfer'[b] = tr[b] /\ transfers_'[b] = transfers_[b]
        /\ crashed' = crashed
    BY <1>1, <1>5, <2>1 DEF submit_operation
  <2> QED BY <2>2 DEF tr
<1>7. Accounted'
  BY <1>3, <1>4, <1>6 DEF IInv, Accounted, InFlight
<1>8. Queued'
  <2>1. \A b \in Attempts : (transfer'[b] = "posted") = (transfer[b] = "posted")
    BY <1>3, <1>5, <1>6 DEF InFlight
  <2>2. Queued /\ strand_' = strand_ /\ strand_ \in Seq(Attempts)
    BY <1>1 DEF IInv, TypeOK
  <2> QED BY <2>1, <2>2, QueuedKept
<1>9. Held'
  <2>1. Undisturbed
    BY <1>1, <1>3, <1>4, <1>6 DEF Undisturbed, InFlight
  <2> QED BY <1>1, <2>1, HeldKept DEF IInv
<1>10. Alone'
  <2> SUFFICES ASSUME ~overtaken' PROVE Alone'
    BY DEF Alone
  <2>1. Active = {}
    BY <1>1, <1>2 DEF IInv, Alone, Active, UnderWay
  <2>2. \A b \in Attempts : transfer[b] = "free"
    BY <2>1 DEF IInv, Accounted, Active
  <2>3. Active' = {c}
    BY <1>4, <2>1 DEF Active
  <2>4. \A b \in Attempts : transfer'[b] \notin {"lost", "dangling"}
    BY <1>3, <1>6, <2>2 DEF InFlight
  <2>5. crashed # "handle"
    BY <1>2 DEF IInv, Alone
  <2> QED BY <1>1, <1>4, <1>6, <2>3, <2>4, <2>5 DEF Alone
<1>11. EndpointsSet'
  BY <1>1 DEF EndpointsSet
<1> QED BY <1>7, <1>8, <1>9, <1>10, <1>11 DEF Rest

(* The poll loop submits its first read, or finds the device disconnected. *)
LEMMA PollStartsRest ==
  ASSUME IInv, NEW c \in Attempts, PollStarts(c)
  PROVE  Rest'
<1>1. /\ co[c] = "ready"
      /\ UNCHANGED <<device, endpoints, connected, strand_, stack, overtaken>>
  BY DEF PollStarts, port
<1>2. transfer[c] = "free" /\ transfers_[c] = 0
  BY <1>1 DEF IInv, Accounted
<1>3. CASE connected
  <2>1. /\ co'[c] = "poll" /\ \A b \in Attempts \ {c} : co'[b] = co[b]
        /\ submit_operation(c, "read", device, transfer, transfers_)
    BY <1>3 DEF PollStarts, IInv, TypeOK
  <2>2. /\ transfer'[c] \in {"flying", "unsubmitted"} /\ transfers_'[c] = 1
        /\ \A b \in Attempts \ {c} : transfer'[b] = transfer[b] /\ transfers_'[b] = transfers_[b]
        /\ device # None => crashed' = crashed
    BY <1>2, <2>1 DEF submit_operation, IInv, TypeOK
  <2>3. Accounted'
    BY <2>1, <2>2 DEF IInv, Accounted
  <2>4. Queued'
    BY <1>1, <1>2, <2>2, QueuedKept DEF IInv, TypeOK
  <2>5. Held'
    <3>1. Undisturbed
      BY <1>1, <2>1, <2>2 DEF Undisturbed
    <3> QED BY <1>1, <3>1, HeldKept DEF IInv
  <2>6. Alone'
    <3>1. Active' = Active /\ c \in Active
      BY <1>1, <2>1 DEF Active
    <3> QED BY <1>1, <1>3, <2>1, <2>2, <3>1 DEF IInv, Alone
  <2>7. EndpointsSet'
    BY <1>1 DEF IInv, EndpointsSet
  <2> QED BY <2>3, <2>4, <2>5, <2>6, <2>7 DEF Rest
<1>4. CASE ~connected
  <2>1. /\ co'[c] = "done" /\ \A b \in Attempts \ {c} : co'[b] = co[b]
        /\ UNCHANGED <<transfer, transfers_, crashed>>
    BY <1>4 DEF PollStarts, Ended, IInv, TypeOK
  <2>2. Accounted'
    BY <1>2, <2>1 DEF IInv, Accounted
  <2>3. Queued'
    BY <1>1, <2>1, QueuedKept DEF IInv, TypeOK
  <2>4. Held'
    <3>1. Undisturbed
      BY <1>1, <2>1 DEF Undisturbed
    <3> QED BY <1>1, <3>1, HeldKept DEF IInv
  <2>5. Alone'
    <3>1. Active' \subseteq Active /\ \A b \in Active' : co'[b] = co[b]
      BY <2>1 DEF Active
    <3> QED BY <1>1, <2>1, <3>1 DEF IInv, Alone
  <2>6. EndpointsSet'
    BY <1>1 DEF IInv, EndpointsSet
  <2> QED BY <2>2, <2>3, <2>4, <2>5, <2>6 DEF Rest
<1> QED BY <1>3, <1>4

(* A timeout cancels the transfers of all, and so does the closing.        *)
LEMMA CancelsAll ==
  ASSUME IInv, (\E c \in Attempts : Timeout(c)) \/ GivesUp
  PROVE  Rest'
<1>1. UNCHANGED <<device, endpoints, connected, co, strand_, overtaken>>
  BY DEF Timeout, GivesUp, port, coroutine
<1>2. PICK frames \in Seq(Frames) : Cancel(frames, transfers_, transfer)
  <2>1. CASE GivesUp
    <3>1. stack # <<>> /\ Last(stack).then # "timeout"
      BY <2>1 DEF GivesUp, Returns
    <3>2. Last(stack).who \in Attempts /\ Front(stack) \in Seq(Frames)
      BY <3>1, HolderType, StackShrinks DEF IInv, TypeOK
    <3>3. Frame(Last(stack).who, "close") \in Frames
      BY <3>2, FrameType
    <3>4. Append(Front(stack), Frame(Last(stack).who, "close")) \in Seq(Frames)
      BY <3>2, <3>3
    <3> QED BY <2>1, <3>4 DEF GivesUp
  <2>2. CASE \E c \in Attempts : Timeout(c)
    <3>1. Frame(Nobody, "timeout") \in Frames
      BY FrameType
    <3>2. Append(stack, Frame(Nobody, "timeout")) \in Seq(Frames)
      BY <3>1 DEF IInv, TypeOK
    <3> QED BY <2>2, <3>2 DEF Timeout
  <2> QED BY <2>1, <2>2
<1>3. /\ transfers_' = transfers_
      /\ \A b \in Attempts : \/ transfer'[b] = transfer[b]
                             \/ transfer[b] = "flying" /\ transfer'[b] = "cancelling"
      /\ (\A b \in Attempts : transfer[b] # "lost") => crashed' = crashed
  BY <1>2, CancelType DEF IInv, TypeOK, TransferStates
<1>4. Undisturbed
  BY <1>1, <1>3 DEF Undisturbed
<1>5. Accounted'
  BY <1>1, <1>3 DEF IInv, Accounted
<1>6. Queued'
  BY <1>1, <1>3, QueuedKept DEF IInv, TypeOK
<1>7. Held'
  <2>1. CASE GivesUp
    <3>1. stack # <<>> /\ Last(stack).then = "giveup"
      BY <2>1 DEF GivesUp, Returns
    <3>2. Holds(Last(stack), transfer, co) /\ Last(stack).who \in Attempts
      BY <3>1, HolderType DEF IInv
    <3> DEFINE f == Frame(Last(stack).who, "close")
    <3>3. f \in Frames /\ f.who = Last(stack).who /\ f.then = "close"
      <4>1. f \in Frames BY <3>2, FrameType
      <4> QED BY <4>1 DEF Frame
    <3>4. Holds(f, transfer', co')
      BY <1>4, <3>1, <3>2, <3>3 DEF Holds, Undisturbed
    <3>5. stack' = Append(Front(stack), f)
      BY <2>1 DEF GivesUp, Cancel
    <3> HIDE DEF f
    <3>6. /\ Front(stack) \in Seq(Frames)
          /\ \A i \in DOMAIN Front(stack) : Front(stack)[i].then = "timeout"
      <4>1. /\ Front(stack) \in Seq(Frames)
            /\ \A i \in DOMAIN Front(stack) :
                 i \in DOMAIN stack /\ i # Len(stack) /\ Front(stack)[i] = stack[i]
            /\ Len(stack) \in DOMAIN stack /\ stack[Len(stack)].then = "giveup"
        BY <3>1, StackShrinks DEF IInv, TypeOK
      <4>2. \A i \in DOMAIN stack : i # Len(stack) => stack[i].then = "timeout"
        BY <4>1 DEF IInv, Held
      <4> QED BY <4>1, <4>2
    <3>7. /\ DOMAIN stack' = DOMAIN Front(stack) \cup {Len(Front(stack)) + 1}
          /\ stack'[Len(Front(stack)) + 1] = f
          /\ \A i \in DOMAIN Front(stack) : stack'[i] = Front(stack)[i]
      BY <3>3, <3>5, <3>6
    <3> QED BY <3>4, <3>6, <3>7 DEF Held
  <2>2. CASE \E c \in Attempts : Timeout(c)
    <3> DEFINE f == Frame(Nobody, "timeout")
    <3>1. stack' = Append(stack, f)
      BY <2>2 DEF Timeout, Cancel
    <3>2. f \in Frames /\ f.then = "timeout"
      <4>1. f \in Frames BY FrameType
      <4> QED BY <4>1 DEF Frame
    <3> HIDE DEF f
    <3> QED BY <1>4, <3>1, <3>2, HeldPushed DEF IInv
  <2> QED BY <2>1, <2>2
<1>8. Alone'
  BY <1>1, <1>3 DEF IInv, Alone, Active
<1>9. EndpointsSet'
  BY <1>1 DEF IInv, EndpointsSet
<1> QED BY <1>5, <1>6, <1>7, <1>8, <1>9 DEF Rest

(* What follows a cancellation when no handler is left to run.             *)
LEMMA ReturnsRest ==
  ASSUME IInv, TimeoutEnds \/ TriesNext \/ ConnectFails \/ Disconnects
  PROVE  Rest'
<1>1. /\ stack # <<>> /\ stack' = Front(stack) /\ strand_' = strand_
      /\ endpoints' = endpoints /\ overtaken' = overtaken
  BY DEF TimeoutEnds, TriesNext, ConnectFails, Disconnects, Closes, Returns, port, usb
<1>2. CASE TimeoutEnds
  <2>1. UNCHANGED <<device, connected, co, transfer, transfers_, crashed>>
    BY <1>2 DEF TimeoutEnds, port, coroutine, usb
  <2>2. Accounted' /\ Alone' /\ EndpointsSet'
    BY <1>1, <2>1 DEF IInv, Accounted, Alone, Active, EndpointsSet
  <2>3. Queued'
    BY <1>1, <2>1, QueuedKept DEF IInv, TypeOK
  <2>4. Held'
    <3>1. Undisturbed
      BY <2>1 DEF Undisturbed
    <3> QED BY <1>1, <3>1, HeldPopped DEF IInv
  <2> QED BY <2>2, <2>3, <2>4 DEF Rest
<1>3. CASE TriesNext
  <2>1. Last(stack).then = "giveup" /\ UNCHANGED <<device, connected, co>>
    BY <1>3 DEF TriesNext, Returns, port
  <2>2. PICK c \in Attempts :
          /\ transfer[c] = "free" /\ co[c] = "init"
          /\ submit_operation(c, "write", device, transfer, transfers_)
    <3>1. Holds(Last(stack), transfer, co) /\ Last(stack).who \in Attempts
      BY <1>1, <2>1, HolderType DEF IInv
    <3> QED BY <1>3, <2>1, <3>1 DEF TriesNext, Holds
  <2>3. /\ transfer'[c] \in {"flying", "unsubmitted"} /\ transfers_'[c] = 1
        /\ \A b \in Attempts \ {c} : transfer'[b] = transfer[b] /\ transfers_'[b] = transfers_[b]
        /\ device # None => crashed' = crashed
    BY <2>2 DEF submit_operation, IInv, TypeOK, Accounted
  <2>4. Accounted'
    BY <2>1, <2>2, <2>3 DEF IInv, Accounted
  <2>5. Queued'
    BY <1>1, <2>2, <2>3, QueuedKept DEF IInv, TypeOK
  <2>6. Held'
    BY <1>1, <2>1, HeldPopped DEF IInv
  <2>7. Alone'
    BY <1>1, <2>1, <2>2, <2>3 DEF IInv, Alone, Active
  <2>8. EndpointsSet'
    BY <1>1, <2>1 DEF IInv, EndpointsSet
  <2> QED BY <2>4, <2>5, <2>6, <2>7, <2>8 DEF Rest
<1>4. CASE ConnectFails \/ Disconnects
  <2>1. /\ Last(stack).then = IF ConnectFails THEN "close" ELSE "disconnect"
        /\ Ended(Last(stack).who) /\ device' = None /\ transfer' = Forgotten(transfer)
        /\ transfers_' = transfers_ /\ crashed' \in {"no", "context"}
        /\ \A b \in Attempts : transfer[b] \notin {"empty", "dangling"}
        /\ ConnectFails => connected' = connected
    BY <1>4 DEF ConnectFails, Disconnects, Closes, Returns
  <2>2. PICK c \in Attempts :
          /\ transfer[c] = "free" /\ Ended(c)
          /\ co[c] = IF ConnectFails THEN "init" ELSE "poll"
    <3>1. Holds(Last(stack), transfer, co) /\ Last(stack).who \in Attempts
      BY <1>1, <2>1, HolderType DEF IInv
    <3> QED BY <2>1, <3>1 DEF Holds
  <2>3. co'[c] = "done" /\ \A b \in Attempts \ {c} : co'[b] = co[b]
    BY <2>2 DEF Ended, IInv, TypeOK
  <2>4. \A b \in Attempts : \/ transfer'[b] = transfer[b]
                            \/ transfer[b] \in InFlight /\ transfer'[b] = "lost"
                            \/ transfer[b] = "empty" /\ transfer'[b] = "dangling"
    BY <2>1, ForgottenType DEF IInv, TypeOK, TransferStates
  <2>5. Accounted'
    BY <2>1, <2>2, <2>3, <2>4 DEF IInv, Accounted, InFlight
  <2>6. Queued'
    BY <1>1, <2>4, QueuedKept DEF IInv, TypeOK, InFlight
  <2>7. Held'
    BY <1>1, <2>1, HeldPopped DEF IInv
  <2>8. Alone'
    <3> SUFFICES ASSUME ~overtaken PROVE Alone'
      BY <1>1 DEF Alone
    <3>1. Active = {c}
      BY <2>2 DEF IInv, Alone, Active
    <3>2. Active' = {}
      BY <2>3, <3>1 DEF Active
    <3>3. \A b \in Attempts : transfer[b] \notin InFlight
      BY <2>2, <3>1 DEF IInv, Accounted, Active, InFlight
    <3>4. \A b \in Attempts : transfer'[b] \notin {"lost", "dangling"}
      BY <2>1, <2>4, <3>3 DEF IInv, Alone
    <3> QED BY <2>1, <3>2, <3>4 DEF Alone
  <2>9. EndpointsSet'
    BY <2>1 DEF EndpointsSet
  <2> QED BY <2>5, <2>6, <2>7, <2>8, <2>9 DEF Rest
<1> QED BY <1>2, <1>3, <1>4

(* The event thread passes on what it has, and the device comes and goes.  *)
LEMMA EventsRest ==
  ASSUME IInv, PlugOrUnplug \/ \E c \in Attempts :
                 Completes(c) \/ CompletesEmpty(c) \/ Resubmits(c)
  PROVE  Rest'
<1>1. UNCHANGED <<device, endpoints, connected, co, transfers_, stack, overtaken>>
  BY DEF PlugOrUnplug, Completes, CompletesEmpty, Resubmits, port, coroutine, usb
<1>2. CASE PlugOrUnplug
  <2>1. UNCHANGED <<transfer, strand_, crashed>>
    BY <1>2 DEF PlugOrUnplug, usb
  <2>2. Accounted' /\ Alone' /\ EndpointsSet'
    BY <1>1, <2>1 DEF IInv, Accounted, Alone, Active, EndpointsSet
  <2>3. Queued'
    BY <2>1, QueuedKept DEF IInv, TypeOK
  <2>4. Held'
    BY <1>1, <2>1, HeldKept DEF IInv, Undisturbed
  <2> QED BY <2>2, <2>3, <2>4 DEF Rest
<1>3. ASSUME NEW c \in Attempts, Completes(c) \/ CompletesEmpty(c) \/ Resubmits(c)
      PROVE  Rest'
  <2>1. /\ transfer[c] \in InFlight \cup {"empty", "dangling"}
        /\ transfer'[c] \in InFlight \cup {"posted", "empty", "unsubmitted", "lost"}
        /\ transfer'[c] = "lost" => transfer[c] = "dangling"
        /\ \A b \in Attempts \ {c} : transfer'[b] = transfer[b]
        /\ transfer[c] # "dangling" => crashed' = crashed
    BY <1>3 DEF Completes, CompletesEmpty, Resubmits, InFlight, IInv, TypeOK
  <2>2. Accounted'
    BY <1>1, <2>1 DEF IInv, Accounted, InFlight
  <2>3. Queued'
    <3>1. CASE Completes(c)
      BY <2>1, <3>1, StrandGrows DEF Completes, IInv, InFlight
    <3>2. CASE CompletesEmpty(c) \/ Resubmits(c)
      <4>1. strand_' = strand_ /\ transfer'[c] # "posted"
        BY <3>2 DEF CompletesEmpty, Resubmits, IInv, TypeOK
      <4> QED BY <2>1, <4>1, QueuedKept DEF IInv, TypeOK, InFlight
    <3> QED BY <1>3, <3>1, <3>2
  <2>4. Held'
    <3>1. Undisturbed
      BY <1>1, <2>1 DEF Undisturbed, InFlight
    <3> QED BY <1>1, <3>1, HeldKept DEF IInv
  <2>5. Alone'
    BY <1>1, <2>1 DEF IInv, Alone, Active, InFlight
  <2>6. EndpointsSet'
    BY <1>1 DEF IInv, EndpointsSet
  <2> QED BY <2>2, <2>3, <2>4, <2>5, <2>6 DEF Rest
<1> QED BY <1>2, <1>3

(* Every step keeps the inductive invariant. *)
LEMMA NextIInv == IInv /\ [Next]_vars => IInv'
<1> SUFFICES ASSUME IInv, [Next]_vars PROVE IInv' OBVIOUS
<1>1. TypeOK'
  BY NextTypeOK DEF IInv
<1>2. Rest'
  <2>1. CASE UNCHANGED vars
    <3>1. UNCHANGED <<device, endpoints, connected, co, transfer, transfers_, strand_, stack, crashed, overtaken>>
      BY <2>1 DEF vars, port, usb, coroutine
    <3>2. Queued' /\ Held'
      BY <3>1, QueuedKept, HeldKept DEF IInv, TypeOK, Undisturbed
    <3> QED BY <3>1, <3>2 DEF Rest, IInv, Accounted, Alone, Active, EndpointsSet
  <2>2. CASE Next
    BY <2>2, GoesOn, LetsGo, CancelsItself, OpenFailsRest, OpenSucceedsRest, PollStartsRest,
       CancelsAll, ReturnsRest, EventsRest DEF Next, HandlerRuns, PollReturns
  <2> QED BY <2>1, <2>2
<1> QED BY <1>1, <1>2 DEF IInv, Rest

(* At first no attempt has been made. *)
LEMMA InitIInv == Init => IInv
<1> SUFFICES ASSUME Init PROVE IInv OBVIOUS
<1>1. TypeOK
  <2>1. MaxOps \in 0..MaxOps /\ 0 \in Nat
    OBVIOUS
  <2>2. transfer \in [Attempts -> TransferStates] /\ transfers_ \in [Attempts -> Nat]
    BY <2>1 DEF Init, TransferStates
  <2>3. DOMAIN endpoints = {"read", "write", "packet"}
    BY DEF Init
  <2>4. left \in [Attempts -> 0..MaxOps]
    BY <2>1 DEF Init
  <2>5. strand_ \in Seq(Attempts) /\ stack \in Seq(Frames)
    BY DEF Init
  <2>6. /\ hardware \in Descriptors \cup {None} /\ device \in Descriptors \cup {None}
        /\ events \in BOOLEAN /\ connected \in BOOLEAN /\ overtaken \in BOOLEAN
        /\ crashed \in {"no", "handle", "context"}
    BY DEF Init
  <2>7. /\ co \in [Attempts -> {"idle", "init", "ready", "poll", "done"}]
        /\ op \in [Attempts -> {"read", "write"}] /\ armed \in [Attempts -> BOOLEAN]
        /\ result \in [Attempts -> {"success", "error"}]
    BY DEF Init
  <2> QED BY <2>2, <2>3, <2>4, <2>5, <2>6, <2>7 DEF TypeOK, TransferStates
<1>2. Accounted /\ Alone /\ EndpointsSet
  BY DEF Init, Accounted, Alone, Active, EndpointsSet
<1>3. Queued /\ Held
  BY DEF Init, Queued, Held
<1> QED BY <1>1, <1>2, <1>3 DEF IInv

(* So it holds for ever. *)
LEMMA Inductive == Spec => []IInv
  BY InitIInv, NextIInv, PTL DEF Spec

-----------------------------------------------------------------------------
(* A set of positions has a last one. *)
LEMMA MaxExists ==
  ASSUME NEW n \in Nat, NEW S \in SUBSET (1..n), S # {}
  PROVE  Max(S) \in S
<1> DEFINE T == {n - i : i \in S}
<1>1. T \subseteq Nat /\ T # {}
  <2>1. \A i \in S : n - i \in Nat
    OBVIOUS
  <2>2. PICK i \in S : TRUE
    OBVIOUS
  <2>3. n - i \in T
    OBVIOUS
  <2> QED BY <2>1, <2>3
<1>2. PICK x \in T : \A y \in T : ~(<<y, x>> \in OpToRel(<, Nat))
  <2> HIDE DEF T
  <2> QED BY <1>1, WFMin, NatLessThanWellFounded
<1>3. \A y \in T : ~(y < x)
  BY <1>1, <1>2 DEF OpToRel
<1>4. PICK i \in S : x = n - i
  BY <1>2
<1>5. ASSUME NEW j \in S PROVE i >= j
  <2>1. n - j \in T
    OBVIOUS
  <2>2. ~(n - j < n - i)
    BY <1>3, <1>4, <2>1
  <2> QED BY <2>2
<1> QED BY <1>5 DEF Max

(* The endpoint that is used fits, if any does. *)
LEMMA LastFits ==
  ASSUME NEW d \in Seq(Endpoints), NEW fitting \in SUBSET DOMAIN d, fitting # {}, NEW default
  PROVE  \E i \in fitting : LastOf(d, fitting, default) = d[i]
<1>1. Len(d) \in Nat /\ fitting \in SUBSET (1..Len(d))
  OBVIOUS
<1>2. Max(fitting) \in fitting
  BY <1>1, MaxExists
<1> QED BY <1>2 DEF LastOf

(* The endpoints in use have the right direction. *)
LEMMA EndpointsFit ==
  ASSUME TypeOK, EndpointsSet
  PROVE  EndpointsOfDevice
<1> SUFFICES ASSUME device # None PROVE EndpointsOfDevice
  BY DEF EndpointsOfDevice
<1>1. device \in Seq(Endpoints)
  BY DEF TypeOK
<1> DEFINE In == {i \in DOMAIN device : device[i].bulk /\ device[i].in}
           Out == {i \in DOMAIN device : device[i].bulk /\ ~device[i].in}
<1>2. /\ endpoints.read = LastOf(device, In, [address |-> 128]).address
      /\ endpoints.write = LastOf(device, Out, [address |-> 0]).address
  BY DEF EndpointsSet, setup_endpoints, ReadEndpoint, WriteEndpoint
<1>3. ASSUME In # {} PROVE \E i \in In : endpoints.read = device[i].address
  <2>1. PICK i \in In : LastOf(device, In, [address |-> 128]) = device[i]
    BY <1>1, <1>3, LastFits
  <2> QED BY <1>2, <2>1
<1>4. ASSUME Out # {} PROVE \E i \in Out : endpoints.write = device[i].address
  <2>1. PICK i \in Out : LastOf(device, Out, [address |-> 0]) = device[i]
    BY <1>1, <1>4, LastFits
  <2> QED BY <1>2, <2>1
<1> DEFINE Bulk(in) == {device[i].address : i \in {j \in DOMAIN device :
                          device[j].bulk /\ device[j].in = in}}
<1>5. \A j \in DOMAIN device : device[j].in \in BOOLEAN
  <2>1. \A j \in DOMAIN device : device[j] \in Endpoints
    BY <1>1
  <2>2. \A e \in Endpoints : e.in \in BOOLEAN
    BY DEF Endpoints
  <2> QED BY <2>1, <2>2
<1>6. Bulk(TRUE) # {} => endpoints.read \in Bulk(TRUE)
  BY <1>3, <1>5
<1>7. Bulk(FALSE) # {} => endpoints.write \in Bulk(FALSE)
  BY <1>4, <1>5
<1> QED BY <1>6, <1>7 DEF EndpointsOfDevice

(* A completed transfer is counted once in the strand, any other never. *)
LEMMA OnceInStrand ==
  ASSUME TypeOK, Queued, NEW c \in Attempts
  PROVE  Cardinality({i \in DOMAIN strand_ : strand_[i] = c})
           = (IF transfer[c] = "posted" THEN 1 ELSE 0)
<1> DEFINE S == {i \in DOMAIN strand_ : strand_[i] = c}
<1>1. CASE transfer[c] = "posted"
  <2>1. PICK i \in DOMAIN strand_ : strand_[i] = c
    BY <1>1 DEF Queued
  <2>2. S = {i}
    BY <2>1 DEF Queued
  <2> QED BY <1>1, <2>2, FS_Singleton
<1>2. CASE transfer[c] # "posted"
  <2>1. S = {}
    BY <1>2 DEF Queued
  <2> QED BY <1>2, <2>1, FS_EmptySet
<1> QED BY <1>1, <1>2

(* The variables keep their types: in particular the deque, the strand and *)
(* the stack of cancellations hold only what exists (usb.h:61-113).        *)
THEOREM TypeCorrect == Spec => []TypeOK
<1>1. IInv => TypeOK BY DEF IInv
<1> QED BY <1>1, Inductive, PTL

(* However the event thread, the handlers that cancel() runs within        *)
(* handlers and the attempts interleave, no transfer is lost, freed early  *)
(* or handled twice (usb.h:184-289); unless an attempt opens the port      *)
(* under another one, no handle is closed under a transfer or used when it *)
(* is closed (usb.cpp:461-477); and the endpoints are of the device that   *)
(* is open and of the right direction (usb.cpp:146-182).                   *)
THEOREM EveryTransferAccounted == Spec => []TransfersAccounted
<1>1. ASSUME IInv PROVE TransfersAccounted
  <2>1. EachTransferOnce
    BY <1>1, OnceInStrand DEF IInv, Accounted, EachTransferOnce, Live
  <2>2. NothingLost
    <3>1. ASSUME ~overtaken, device = None PROVE \A c \in Attempts : transfer[c] \notin InFlight
      BY <1>1, <3>1 DEF IInv, Alone, Active, Accounted, InFlight
    <3> QED BY <1>1, <3>1 DEF IInv, Alone, NothingLost
  <2>3. EndpointsOfDevice
    BY <1>1, EndpointsFit DEF IInv
  <2> QED BY <2>1, <2>2, <2>3 DEF TransfersAccounted
<1> QED BY <1>1, Inductive, PTL
=============================================================================
