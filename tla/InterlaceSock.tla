--------------------------- MODULE InterlaceSock ---------------------------
(***************************************************************************)
(* The synchronous socket pairs of LocalEvaluator: InterlaceSock          *)
(* (interlace mode) and BlockingSock (blocking mode) with recv, send and  *)
(* cancel, the fault injector LocalEvaluator::getError, and              *)
(* LocalEvaluator::sendMsgs, which hands one party's outbound chunks to    *)
(* the other party after each evaluate() in interlace mode.  In blocking   *)
(* mode outbound[p] holds the chunks p has emplaced into the peer's        *)
(* mInbound that the peer cannot see yet (see Blocking.tla).              *)
(*                                                                         *)
(* A chunk is what one Socket::send call hands over: either a frame header *)
(* (slot, declared length) or a frame body (length, and the send task it   *)
(* came from, so that properties can follow a message end to end).         *)
(* Byte contents are abstracted to these fields.                           *)
(***************************************************************************)
EXTENDS Integers, Sequences

CONSTANTS
  Parties,      \* the two parties, 0 and 1 (index into mSocks)
  NoError,      \* mErrorIdx = ~0ull: no fault is injected
  Blocking      \* TRUE: the parties use BlockingSock, else InterlaceSock

VARIABLES
  inbound,      \* inbound[p]  : InterlaceSock::mInbound of party p
  outbound,     \* outbound[p] : InterlaceSock::mOutbound of party p
  canceled,     \* canceled[p] : InterlaceSock::mCanceled
  opIdx,        \* LocalEvaluator::mOpIdx, counts socket calls on both parties
  errorIdx      \* LocalEvaluator::mErrorIdx, fixed for one execution

sockVars == <<inbound, outbound, canceled, opIdx, errorIdx>>

Other(p) == 1 - p

HdrChunk(s, n)  == [kind |-> "hdr", slot |-> s, len |-> n]
BodyChunk(n, t) == [kind |-> "body", len |-> n, src |-> t]
NoChunk         == [kind |-> "none"]
\* The empty vector BlockingSock::cancel emplaces into the peer's mInbound
EofChunk        == [kind |-> "eof"]

\* The outcome of a recv call: its code, the inbound queue and mOpIdx
\* after it, and the chunk it read.
RecvOut(e, inb, oi, c) == [ec |-> e, inb |-> inb, oi |-> oi, chunk |-> c]

(***************************************************************************)
(* InterlaceSock::recv (LocalEvaluator.cpp 9-43) as a function of the      *)
(* socket state it reads: a canceled socket fails without counting an      *)
(* operation; otherwise getError() counts the call and fails it when it is *)
(* the injected index; otherwise the front chunk is popped, or, when       *)
(* nothing has arrived, the call reports suspend.                          *)
(***************************************************************************)
InterlaceRecv(canc, inb, oi) ==
  CASE canc          -> RecvOut("ioError", inb, oi, NoChunk)
    [] oi = errorIdx -> RecvOut("ioError", inb, oi + 1, NoChunk)
    [] inb = <<>>    -> RecvOut("suspend", inb, oi + 1, NoChunk)
    [] OTHER         -> RecvOut("ok", Tail(inb), oi + 1, Head(inb))

(***************************************************************************)
(* BlockingSock::recv (LocalEvaluator.cpp 63-90): the same checks, then    *)
(* mInbound.pop(), which waits while the queue is empty ("block": the      *)
(* calling step cannot be taken yet).  The empty vector of a peer's        *)
(* cancel() fails the call; the socket's own cancel() that follows it is   *)
(* subsumed by the cancelRecvQueue every failed recv leads to, whose       *)
(* second empty vector the peer never pops, its mCanceled being set.       *)
(***************************************************************************)
BlockingRecv(canc, inb, oi) ==
  CASE canc                 -> RecvOut("ioError", inb, oi, NoChunk)
    [] oi = errorIdx        -> RecvOut("ioError", inb, oi + 1, NoChunk)
    [] inb = <<>>           -> RecvOut("block", inb, oi + 1, NoChunk)
    [] Head(inb) = EofChunk -> RecvOut("ioError", Tail(inb), oi + 1, NoChunk)
    [] OTHER                -> RecvOut("ok", Tail(inb), oi + 1, Head(inb))

\* A recv call that never consults getError()
RecvCallNoFault(canc, inb, oi) ==
  CASE canc                 -> RecvOut("ioError", inb, oi, NoChunk)
    [] inb = <<>>           -> RecvOut(IF Blocking THEN "block" ELSE "suspend", inb, oi + 1, NoChunk)
    [] Head(inb) = EofChunk -> RecvOut("ioError", Tail(inb), oi + 1, NoChunk)
    [] OTHER                -> RecvOut("ok", Tail(inb), oi + 1, Head(inb))

\* Socket::recv of the socket type in use
RecvCall(canc, inb, oi) ==
  IF Blocking THEN BlockingRecv(canc, inb, oi) ELSE InterlaceRecv(canc, inb, oi)

(***************************************************************************)
(* InterlaceSock::send (LocalEvaluator.cpp 45-61) and BlockingSock::send  *)
(* (LocalEvaluator.cpp 97-111): never suspend.                             *)
(***************************************************************************)
SendCall(canc, outb, oi, chunk) ==
  CASE canc           -> [ec |-> "ioError", outb |-> outb, oi |-> oi]
    [] oi = errorIdx  -> [ec |-> "ioError", outb |-> outb, oi |-> oi + 1]
    [] OTHER          -> [ec |-> "ok", outb |-> Append(outb, chunk), oi |-> oi + 1]

\* BlockingSock::cancel without the wake-up emplace into the peer's queue
CancelSockNoWake(p) ==
  /\ inbound'  = IF Blocking THEN inbound ELSE [inbound EXCEPT ![p] = <<>>]
  /\ outbound' = IF Blocking THEN outbound ELSE [outbound EXCEPT ![p] = <<>>]
  /\ canceled' = [canceled EXCEPT ![p] = TRUE]

(***************************************************************************)
(* InterlaceSock::cancel (LocalEvaluator.h 37-42) of party p's socket     *)
(* drops both chunk lists; BlockingSock::cancel (LocalEvaluator.h 79-83)   *)
(* emplaces an empty vector into the peer's mInbound.                      *)
(***************************************************************************)
CancelSock(p) ==
  /\ inbound'  = IF Blocking THEN inbound ELSE [inbound EXCEPT ![p] = <<>>]
  /\ outbound' = [outbound EXCEPT ![p] = IF Blocking THEN Append(@, EofChunk) ELSE <<>>]
  /\ canceled' = [canceled EXCEPT ![p] = TRUE]

(***************************************************************************)
(* LocalEvaluator::sendMsgs (LocalEvaluator.h 265-276), called after       *)
(* party `sender` returns from evaluate() with code ec: on an error, or    *)
(* when the sender's socket was canceled, the peer's socket is canceled;   *)
(* otherwise the peer's inbound list is REPLACED by the sender's outbound  *)
(* list (std::move assignment), which leaves the sender's list empty.      *)
(***************************************************************************)
SendMsgs(sender, ec) ==
  LET q == Other(sender) IN
  IF canceled[sender] \/ ec \notin {"ok", "suspend"}
  THEN /\ CancelSock(q)
  ELSE /\ inbound'  = [inbound EXCEPT ![q] = outbound[sender]]
       /\ outbound' = [outbound EXCEPT ![sender] = <<>>]
       /\ UNCHANGED canceled

SockInit(ErrorIdxs) ==
  /\ inbound  = [p \in Parties |-> <<>>]
  /\ outbound = [p \in Parties |-> <<>>]
  /\ canceled = [p \in Parties |-> FALSE]
  /\ opIdx = 0
  /\ errorIdx \in ErrorIdxs
=============================================================================
