----------------------------- MODULE Scheduler -----------------------------
(***************************************************************************)
(* coproto::Scheduler driven by synchronous sockets (Scheduler.cpp), with  *)
(* the tasks it schedules:                                                 *)
(*   "proto"  NativeProtoV: a body of CP_AWAIT / CP_END_OF_ROUND / throw   *)
(*            steps resumed through _resume_idx_ (NativeProto.h, Macros.h) *)
(*   "send"   RefSendProto / SpanSendProto (Buffers.h)                     *)
(*   "mvsend" MvSendProto, the send of a moved container (Buffers.h)       *)
(*   "recv"   RefRecvProto / SpanRecvProto / MoveRecvProto (Buffers.h)     *)
(*   "coro"   ProtoPromise, a C++20 coroutine protocol (AwaitProto.h)      *)
(*   "wrap"   WrapPromise<void> (Result.h)                                 *)
(*   "async"  AsyncPromise (Async.h), and "ctrl" its Async<T>::Controller  *)
(*                                                                         *)
(* The C++ call stack of nested resume() calls is Scheduler::mStack: a     *)
(* frame is pushed when a task is resumed and popped when its resume_      *)
(* returns, handing the returned error_code to the frame below (ret).      *)
(* Leaf operations whose resume never resumes another task (a send or      *)
(* recv completing, a Controller finishing) are single steps.              *)
(***************************************************************************)
EXTENDS InterlaceSock, SequencesExt

CONSTANTS
  Tasks,        \* every Resumable of both parties' protocols
  Prog,         \* Prog[t]: what task t is (see the header comment)
  Roots,        \* the root assignments to explore: each is a function from
                \* party to the task that party evaluates (one test each)
  NoSlot,       \* mSlotIdx = ~0: slot not yet assigned
  AsyncMode,    \* TRUE: the Scheduler has an AsyncSocket (mASock), else a Socket
  PairOf        \* PairOf[r]: the peer's send task that recv task r matches

Codes == {"ok", "suspend", "ioError", "badBufferSize",
          "sendLengthZeroMsg", "uncaughtException"}
\* code::success, suspend, ioError, badBufferSize, sendLengthZeroMsg,
\* uncaughtException (error_code.h); the others are never produced here.

VARIABLES
  \* per task (Resumable and its concrete type)
  status,     \* mStatus / mDone: "uninit", "inprogress" or "done"
  pc,         \* NativeProtoV::_resume_idx_, as the index of the next step
  ec,         \* mEc (WrapPromise: mRes); what getErrorCode() returns
  up,         \* Resumable::mUpstream, as a set
  down,       \* Resumable::mDwstream, in insertion order
  slot,       \* Resumable::mSlotIdx
  \* per party (one Scheduler each)
  ready,      \* mReady
  stack,      \* mStack
  ret,        \* value returned by the resume() that just popped a frame
  recvBufs,   \* mRecvBuffers: the registered recv tasks (keyed by slot)
  sendBufs,   \* mSendBuffers: <<slot, task, length>> records
  haveHeader, \* mHaveHeader
  hdr,        \* mRecvHeader, as the header chunk read
  sentHeader, \* mSentHeader
  nextSlot,   \* mNextSlot
  rounds,     \* mRoundIdx
  phase,      \* where run() is: "idle", "run" or "exit"
  \* history, for the properties only
  delivered,  \* delivered[p]: <<slot, send task, recv task>> of each body received
  wire,       \* wire[p]: <<slot, src>> of each body party p sent
  misread,    \* misread[p]: a socket recv was asked for the wrong chunk
  \* asynchronous socket path only
  activeRecv, \* mActiveRecv
  activeSend, \* mActiveSend
  workQueue,  \* requests made of the AsyncSocket, in order (the worker's mWorkQueue)
  \* the test being run
  root        \* root[p]: the protocol object execute() was given for party p

taskVars  == <<status, pc, ec, up, down, slot>>
schedVars == <<ready, stack, ret, recvBufs, sendBufs, haveHeader, hdr,
               sentHeader, nextSlot, rounds, phase>>
histVars  == <<delivered, wire, misread>>
asyncVars == <<activeRecv, activeSend, workQueue>>

Kind(t)   == Prog[t].kind
IsLeaf(t) == Kind(t) \in {"send", "mvsend", "recv"}
Top(p)    == Last(stack[p])
NoHdr     == [kind |-> "hdr", slot |-> NoSlot, len |-> 0]
HdrLen    == 8   \* sizeof(mRecvHeader): slot and size, two u32

\* RecvBuffer::asSpan(size) (Buffers.h 64-69, 137-143, 212-215): a resizable
\* container is resized to the announced byte count when it is a whole number
\* of elements (internal::tryResize, Resumable.h 75-86); the span has the
\* container's byte length either way.
SpanLen(r, n) ==
  IF Prog[r].resize /\ n % Prog[r].elem = 0 THEN n ELSE Prog[r].len

\* Scheduler::scheduleReady (Scheduler.cpp 548-555) of the tasks ds, in
\* order: a task on mStack is running and is not queued.
ScheduleReadyIgnoringStack(p, ds) == ds
ScheduleReady(p, ds) == SelectSeq(ds, LAMBDA d : ~Contains(stack[p], d))

\* fulfillDep's edge removal and test (Scheduler.cpp 575-581, 589): with
\* the edge from u removed, d waits on nothing.
ReleasedBeforeRemoval(u, d, upf) == upf[d] = {}
Released(u, d, upf) == upf[d] \ {u} = {}

\* fulfillDep's d->setError(ec) for each dependent d (Scheduler.cpp 583-584),
\* on the function ecf of every task's error code.
SetErrorDropped(ecf, ds, e) == ecf
SetError(ecf, ds, e) ==
  IF e = "ok" THEN ecf ELSE [d \in Tasks |-> IF d \in ds THEN e ELSE ecf[d]]

\* The task state fulfillDep works on: status st, ec, up, and rd, p's ready
\* queue.
TaskState(p, st0) == [st |-> st0, ec |-> ec, up |-> up, rd |-> ready[p]]

(***************************************************************************)
(* Scheduler::fulfillDep (Scheduler.cpp 564-594) for each task of the      *)
(* sequence us in turn, all finishing with code e, from the task state b:  *)
(* every dependent loses the edge, receives setError(e), and is scheduled  *)
(* once it waits on nothing more.  The finishing tasks become done.        *)
(***************************************************************************)
Fulfilled(p, us, e, b) ==
  LET Fulfill(acc, u) ==
        LET ds == ToSet(down[u]) IN
        [up |-> [d \in Tasks |-> IF d \in ds THEN acc.up[d] \ {u} ELSE acc.up[d]],
         rd |-> acc.rd \o ScheduleReady(p, SelectSeq(down[u],
                                                     LAMBDA d : Released(u, d, acc.up))),
         ec |-> SetError(acc.ec, ds, e)]
      r == FoldLeft(Fulfill, [up |-> b.up, rd |-> b.rd, ec |-> b.ec], us)
  IN [st |-> [t \in Tasks |-> IF t \in ToSet(us) THEN "done" ELSE b.st[t]],
      ec |-> r.ec, up |-> r.up, rd |-> r.rd]

\* The task state after a step is b.
TaskStateIs(p, b) ==
  /\ status' = b.st
  /\ ec'     = b.ec
  /\ up'     = b.up
  /\ ready'  = [ready EXCEPT ![p] = b.rd]

\* fulfillDep of us from status st0, ec0, up0 and ready queue rd0.
Complete(p, us, e, st0, ec0, up0, rd0) ==
  TaskStateIs(p, Fulfilled(p, us, e, [st |-> st0, ec |-> ec0, up |-> up0, rd |-> rd0]))

\* Push without the slot inheritance
PushNoInherit(p, c) ==
  /\ stack' = [stack EXCEPT ![p] = Append(@, c)]
  /\ UNCHANGED slot

\* Scheduler::resume (Scheduler.cpp 14-36): push onto mStack; a task
\* without a slot inherits the slot of the task that resumes it.
Push(p, c) ==
  /\ stack' = [stack EXCEPT ![p] = Append(@, c)]
  /\ slot'  = IF slot[c] = NoSlot /\ stack[p] # <<>>
              THEN [slot EXCEPT ![c] = slot[Top(p)]] ELSE slot

\* resume_ returns e: pop the frame and hand e to the caller's frame.
Return(p, e) ==
  /\ stack' = [stack EXCEPT ![p] = Front(@)]
  /\ ret'   = [ret EXCEPT ![p] = IF Len(stack[p]) > 1 THEN e ELSE "none"]

\* Scheduler::addDep (Scheduler.cpp 558-562)
AddDep(dn, u) ==
  /\ up'   = [up EXCEPT ![dn] = @ \cup {u}]
  /\ down' = [down EXCEPT ![u] = Append(@, dn)]

-----------------------------------------------------------------------------
\* mASock->cancel() or mSock->cancel() (Scheduler.cpp 511-514, 540-543):
\* the AsyncSocket queues a cancel request for its worker.
SockCancel(p, oi) ==
  IF AsyncMode
  THEN /\ workQueue' = Append(workQueue, [type |-> "cancel", idx |-> p, len |-> 0,
                                          dst |-> "none", chunk |-> NoChunk, next |-> NoChunk])
       /\ UNCHANGED <<inbound, outbound, canceled, opIdx>>
  ELSE /\ CancelSock(p)
       /\ opIdx' = oi
       /\ UNCHANGED workQueue

(***************************************************************************)
(* Scheduler::cancelRecvQueue (Scheduler.cpp 485-517): every registered    *)
(* recv task gets setError(e) and is resumed, in the unspecified iteration *)
(* order of the unordered_map; the header state is cleared and the socket  *)
(* canceled.  ec0 and rd0 are the error codes and p's ready queue before   *)
(* the call.  Its final run() is left to the caller: inside run() it is a  *)
(* no-op, from a socket callback it runs the loop.                         *)
(***************************************************************************)
CancelRecvQueue(p, e, rb0, st0, ec0, rd0, oi) ==
  /\ \E ord \in SetToSeqs(rb0) :
       Complete(p, ord, e, st0, [t \in Tasks |-> IF t \in rb0 THEN e ELSE ec0[t]],
                up, rd0)
  /\ recvBufs'   = [recvBufs EXCEPT ![p] = {}]
  /\ haveHeader' = [haveHeader EXCEPT ![p] = FALSE]
  /\ activeRecv' = [activeRecv EXCEPT ![p] = FALSE]
  /\ SockCancel(p, oi)
  /\ UNCHANGED <<hdr, delivered, misread, activeSend>>

\* initRecv leaves the tasks and the recv table as they were.
RecvNoTaskChange(p, st0, rb0) ==
  /\ status' = st0
  /\ recvBufs' = [recvBufs EXCEPT ![p] = rb0]
  /\ UNCHANGED <<ec, up, ready, outbound, canceled, delivered, asyncVars>>

\* The socket handed a chunk of the other kind than asked for: the
\* assert in InterlaceSock::recv (LocalEvaluator.cpp 26); recorded, and
\* nothing else is modelled after it.
Misread(p, st0, rb0, r) ==
  /\ RecvNoTaskChange(p, st0, rb0)
  /\ misread' = [misread EXCEPT ![p] = TRUE]
  /\ inbound' = [inbound EXCEPT ![p] = r.inb]
  /\ opIdx' = r.oi
  /\ UNCHANGED <<haveHeader, hdr>>

\* recvHeader sets mHaveHeader (Scheduler.cpp 294); initRecv clears it
\* once the body is read (Scheduler.cpp 162).
HeaderKept(p) == haveHeader' = [haveHeader EXCEPT ![p] = TRUE]
HeaderConsumed(p) == haveHeader' = [haveHeader EXCEPT ![p] = FALSE]

\* A lookup that takes any registered recv, whatever its slot
SlotRecvsAny(rb0, s) == rb0
\* mRecvBuffers.find(slot): the recv registered for slot s (Scheduler.cpp
\* 132, 210, 222); Scheduler::recv keeps one per slot (Scheduler.cpp 304).
SlotRecvs(rb0, s) == {r \in rb0 : slot[r] = s}

(***************************************************************************)
(* Scheduler::initRecv and Scheduler::recvHeader (Scheduler.cpp 124-180,   *)
(* 278-297) with status st0 and recv table rb0: read the 8-byte header     *)
(* unless one is held; find the recv task registered for its slot; if      *)
(* none is, hold the header; if the task's buffer has another length,      *)
(* fail with badBufferSize; otherwise read the body and resume the task.   *)
(* Any failure cancels the whole recv queue.  On a BlockingSock a read of  *)
(* an empty mInbound waits: the step is taken once the chunk is there.     *)
(***************************************************************************)
InitRecv(p, st0, rb0) ==
  LET h == IF haveHeader[p]
           THEN [ec |-> "ok", inb |-> inbound[p], oi |-> opIdx, chunk |-> hdr[p]]
           ELSE RecvCall(canceled[p], inbound[p], opIdx)
      rs == SlotRecvs(rb0, h.chunk.slot)
      r  == CHOOSE x \in rs : TRUE
      b  == RecvCall(canceled[p], h.inb, h.oi)
  IN
  CASE h.ec = "block" -> FALSE
    [] h.ec = "suspend" ->
         /\ RecvNoTaskChange(p, st0, rb0)
         /\ opIdx' = h.oi
         /\ UNCHANGED <<inbound, haveHeader, hdr, misread>>
    [] h.ec # "ok" -> CancelRecvQueue(p, h.ec, rb0, st0, ec, ready[p], h.oi)
    [] h.chunk.kind # "hdr" -> Misread(p, st0, rb0, h)
    [] rs = {} ->
         \* no recv for this slot yet: hold the header
         /\ RecvNoTaskChange(p, st0, rb0)
         /\ haveHeader' = [haveHeader EXCEPT ![p] = TRUE]
         /\ hdr' = [hdr EXCEPT ![p] = h.chunk]
         /\ inbound' = [inbound EXCEPT ![p] = h.inb]
         /\ opIdx' = h.oi
         /\ UNCHANGED misread
    [] SpanLen(r, h.chunk.len) # h.chunk.len ->
         CancelRecvQueue(p, "badBufferSize", rb0, st0, ec, ready[p], h.oi)
    [] b.ec = "block" -> FALSE
    [] b.ec = "suspend" ->
         /\ RecvNoTaskChange(p, st0, rb0)
         /\ haveHeader' = [haveHeader EXCEPT ![p] = TRUE]
         /\ hdr' = [hdr EXCEPT ![p] = h.chunk]
         /\ inbound' = [inbound EXCEPT ![p] = b.inb]
         /\ opIdx' = b.oi
         /\ UNCHANGED misread
    [] b.ec # "ok" -> CancelRecvQueue(p, b.ec, rb0, st0, ec, ready[p], b.oi)
    [] b.chunk.kind # "body" -> Misread(p, st0, rb0, b)
    [] OTHER ->
         /\ Complete(p, <<r>>, "ok", st0, [ec EXCEPT ![r] = "ok"], up, ready[p])
         /\ recvBufs' = [recvBufs EXCEPT ![p] = rb0 \ {r}]
         /\ HeaderConsumed(p)
         /\ inbound' = [inbound EXCEPT ![p] = b.inb]
         /\ opIdx' = b.oi
         /\ hdr' = [hdr EXCEPT ![p] = h.chunk]
         /\ delivered' = [delivered EXCEPT ![p] =
                            Append(@, [slot |-> h.chunk.slot, src |-> b.chunk.src, dst |-> r])]
         /\ UNCHANGED <<outbound, canceled, misread, asyncVars>>

-----------------------------------------------------------------------------
\* The send queue's tasks, without the null check
ResumedAll(sb) == [i \in 1..Len(sb) |-> sb[i].res]
\* The Resumables of the send queue sb: "if (res)" skips the entries of
\* MvSendProto, queued with nullptr (Buffers.h 454).
Resumed(sb) == SelectSeq([i \in 1..Len(sb) |-> sb[i].res], LAMBDA t : Kind(t) = "send")

(***************************************************************************)
(* Scheduler::cancelSendQueue (Scheduler.cpp 519-546): every queued send   *)
(* task gets setError(e) and is resumed, in queue order; the socket is     *)
(* canceled.  mSentHeader is left as it was; the final run() is left to    *)
(* the caller, as for CancelRecvQueue.                                     *)
(***************************************************************************)
CancelSendQueue(p, e, sb0, b, oi) ==
  LET rs == Resumed(sb0) IN
  /\ Complete(p, rs, e, b.st, [t \in Tasks |-> IF t \in ToSet(rs) THEN e ELSE b.ec[t]],
              b.up, b.rd)
  /\ sendBufs' = [sendBufs EXCEPT ![p] = <<>>]
  /\ activeSend' = [activeSend EXCEPT ![p] = FALSE]
  /\ SockCancel(p, oi)
  /\ UNCHANGED <<wire, activeRecv>>

\* initSend's mSendBuffers.pop_front() after the send completed
\* (Scheduler.cpp 479)
SendDoneNoPop(p, sb0) == sendBufs' = [sendBufs EXCEPT ![p] = sb0]
SendDone(p, sb0) == sendBufs' = [sendBufs EXCEPT ![p] = Tail(sb0)]

(***************************************************************************)
(* Scheduler::initSend (Scheduler.cpp 414-482) on the queue sb0 from the  *)
(* task state b0: send the header unless mSentHeader, then the body; on       *)
(* success clear mSentHeader and resume the send task, which completes;    *)
(* on a failure cancel the send queue.  InterlaceSock::send never returns  *)
(* suspend, so the queue is always empty again when initSend returns and  *)
(* it never holds more than the one entry send_ just added (checked in     *)
(* TypeOK); the loop is modelled for that one entry.                       *)
(***************************************************************************)
InitSend(p, b0, sb0) ==
  LET f == Head(sb0)
      h == IF sentHeader[p]
           THEN [ec |-> "ok", outb |-> outbound[p], oi |-> opIdx]
           ELSE SendCall(canceled[p], outbound[p], opIdx, HdrChunk(f.slot, f.len))
      b == SendCall(canceled[p], h.outb, h.oi, BodyChunk(f.len, f.res))
  IN
  CASE h.ec # "ok" ->
         /\ CancelSendQueue(p, h.ec, sb0, b0, h.oi)
         /\ UNCHANGED sentHeader
    [] b.ec # "ok" ->
         /\ CancelSendQueue(p, b.ec, sb0, b0, b.oi)
         /\ sentHeader' = [sentHeader EXCEPT ![p] = TRUE]
    [] OTHER ->
         /\ Complete(p, Resumed(<<f>>), "ok", b0.st, [b0.ec EXCEPT ![f.res] = "ok"], b0.up, b0.rd)
         /\ SendDone(p, sb0)
         /\ sentHeader' = [sentHeader EXCEPT ![p] = FALSE]
         /\ outbound' = [outbound EXCEPT ![p] = b.outb]
         /\ opIdx' = b.oi
         /\ wire' = [wire EXCEPT ![p] = Append(@, [slot |-> f.slot, src |-> f.res])]
         /\ UNCHANGED <<inbound, canceled, asyncVars>>

-----------------------------------------------------------------------------
(***************************************************************************)
(* The steps of one Scheduler.  The frame on top of mStack is the task     *)
(* being resumed; ret[p] # "none" means a nested resume() just returned to *)
(* it.                                                                     *)
(***************************************************************************)
netVars == <<recvBufs, sendBufs, haveHeader, hdr, sentHeader,
             delivered, wire, misread, inbound, outbound, canceled, opIdx, errorIdx, root,
             asyncVars>>

Entered(p, k) ==
  /\ phase[p] = "run"
  /\ stack[p] # <<>>
  /\ ret[p] = "none"
  /\ Kind(Top(p)) = k

Returned(p, k) ==
  /\ phase[p] = "run"
  /\ stack[p] # <<>>
  /\ ret[p] # "none"
  /\ Kind(Top(p)) = k

\* Step of the task at pc of NativeProtoV t
Instr(t) == Prog[t].body[pc[t]]
AtInstr(t, op) == pc[t] <= Len(Prog[t].body) /\ Instr(t).op = op

\* NativeProtoV::resume_ (NativeProto.h 157-162): the task is done with
\* code e; fulfillDep and return e.
Finish(p, t, e) ==
  /\ Complete(p, <<t>>, e, status, [ec EXCEPT ![t] = e], up, ready[p])
  /\ Return(p, e)

\* Scheduler::run (Scheduler.cpp 68-70): pop the front of mReady, resume it.
RunResume(p) ==
  /\ phase[p] = "run"
  /\ stack[p] = <<>>
  /\ ready[p] # <<>>
  /\ ready' = [ready EXCEPT ![p] = Tail(@)]
  /\ Push(p, Head(ready[p]))
  /\ UNCHANGED <<status, pc, ec, up, down, ret, nextSlot, rounds, phase, netVars>>

\* NativeProtoV::resume_ (NativeProto.h 137-147): a task that was given an
\* error by setError while suspended is done without running its body.
ProtoCanceled(p) ==
  /\ Entered(p, "proto")
  /\ ec[Top(p)] # "ok"
  /\ Finish(p, Top(p), ec[Top(p)])
  /\ UNCHANGED <<pc, down, slot, nextSlot, rounds, phase, netVars>>

\* The body runs past CP_END(): resume() returns success.
ProtoEnd(p) ==
  LET t == Top(p) IN
  /\ Entered(p, "proto")
  /\ ec[t] = "ok"
  /\ pc[t] > Len(Prog[t].body)
  /\ Finish(p, t, "ok")
  /\ UNCHANGED <<pc, down, slot, nextSlot, rounds, phase, netVars>>

\* The body ends by returning the code a wrapped await captured (return ec
\* after CP_END()): resume_ (NativeProto.h 138-144) finishes the task with
\* it, success included.
ProtoReturnEc(p) ==
  LET t == Top(p) IN
  /\ Entered(p, "proto")
  /\ ec[t] = "ok"
  /\ AtInstr(t, "retec")
  /\ Finish(p, t, ec[Instr(t).task])
  /\ UNCHANGED <<pc, down, slot, nextSlot, rounds, phase, netVars>>

\* An exception escapes the body: caught in resume_ (NativeProto.h 150-155).
ProtoThrow(p) ==
  LET t == Top(p) IN
  /\ Entered(p, "proto")
  /\ ec[t] = "ok"
  /\ AtInstr(t, "throw")
  /\ Finish(p, t, "uncaughtException")
  /\ UNCHANGED <<pc, down, slot, nextSlot, rounds, phase, netVars>>

\* NativeProtoV::await(const EndOfRound&) (NativeProto.h 68-76) under
\* CP_END_OF_ROUND: if other tasks are ready, requeue this one behind them
\* and suspend; otherwise continue.
ProtoEndOfRound(p) ==
  LET t == Top(p) IN
  /\ Entered(p, "proto")
  /\ ec[t] = "ok"
  /\ AtInstr(t, "eor")
  /\ pc' = [pc EXCEPT ![t] = @ + 1]
  /\ IF ready[p] # <<>>
     THEN /\ ready' = [ready EXCEPT ![p] = Append(@, t)]
          /\ Return(p, "suspend")
     ELSE UNCHANGED <<ready, stack, ret>>
  /\ UNCHANGED <<status, ec, up, down, slot, nextSlot, rounds, phase, netVars>>

\* NativeProtoV::await(ProtoV&&) (NativeProto.h 78-88) under CP_AWAIT:
\* the child becomes this task's upstream and is resumed at once.
ProtoAwait(p) ==
  LET t == Top(p)
      c == Instr(t).task
  IN
  /\ Entered(p, "proto")
  /\ ec[t] = "ok"
  /\ AtInstr(t, "await")
  /\ AddDep(t, c)
  /\ Push(p, c)
  /\ UNCHANGED <<status, pc, ec, ready, ret, nextSlot, rounds, phase, netVars>>

\* ProtoReturned with CP_AWAIT testing ec != suspend instead of ec: a child
\* that suspended is taken for one that finished
ProtoReturnedOnSuspend(p) ==
  LET t == Top(p)
      e == ret[p]
  IN
  /\ Returned(p, "proto")
  /\ pc' = [pc EXCEPT ![t] = @ + 1]
  /\ IF e \in {"ok", "suspend"}
     THEN /\ ret' = [ret EXCEPT ![p] = "none"]
          /\ UNCHANGED <<status, ec, up, ready, stack>>
     ELSE Finish(p, t, e)
  /\ UNCHANGED <<down, slot, nextSlot, rounds, phase, netVars>>

\* CP_AWAIT (Macros.h 13-23) after the awaited resume() returned e: the
\* resume point moves past the await; a non-success e is returned, and
\* resume_ turns anything but suspend into the task's result.
ProtoReturned(p) ==
  LET t == Top(p)
      e == ret[p]
  IN
  /\ Returned(p, "proto")
  /\ pc' = [pc EXCEPT ![t] = @ + 1]
  /\ CASE e = "ok"      -> /\ ret' = [ret EXCEPT ![p] = "none"]
                           /\ UNCHANGED <<status, ec, up, ready, stack>>
       [] e = "suspend" -> /\ Return(p, "suspend")
                           /\ UNCHANGED <<status, ec, up, ready>>
       [] OTHER         -> Finish(p, t, e)
  /\ UNCHANGED <<down, slot, nextSlot, rounds, phase, netVars>>

\* NativeProtoV::await(Async<T>&) (NativeProto.h 105-115) under CP_AWAIT:
\* joining the operation started by the AsyncPromise a.  If the spawned
\* task is done its getErrorCode() is the result of the await, otherwise
\* this task waits on it and suspends.
ProtoJoin(p) ==
  LET t == Top(p)
      j == Prog[Instr(t).task].inner
  IN
  /\ Entered(p, "proto")
  /\ ec[t] = "ok"
  /\ AtInstr(t, "join")
  /\ pc' = [pc EXCEPT ![t] = @ + 1]
  /\ CASE status[j] = "done" /\ ec[j] = "ok" ->
            UNCHANGED <<status, ec, up, down, ready, stack, ret>>
       [] status[j] = "done" ->
            /\ Finish(p, t, ec[j])
            /\ UNCHANGED down
       [] OTHER ->
            /\ AddDep(t, j)
            /\ Return(p, "suspend")
            /\ UNCHANGED <<status, ec, ready>>
  /\ UNCHANGED <<slot, nextSlot, rounds, phase, netVars>>

\* NativeProtoV::await(Async<T>&&) (NativeProto.h 91-103) under CP_AWAIT,
\* the join of a moved handle: a spawned task that is done is passed over
\* with success, whatever its error; otherwise this task waits on it and
\* suspends, and fulfillDep hands it the task's error.
ProtoJoinMv(p) ==
  LET t == Top(p)
      j == Prog[Instr(t).task].inner
  IN
  /\ Entered(p, "proto")
  /\ ec[t] = "ok"
  /\ AtInstr(t, "joinmv")
  /\ pc' = [pc EXCEPT ![t] = @ + 1]
  /\ IF status[j] = "done"
     THEN UNCHANGED <<status, ec, up, down, ready, stack, ret>>
     ELSE /\ AddDep(t, j)
          /\ Return(p, "suspend")
          /\ UNCHANGED <<status, ec, ready>>
  /\ UNCHANGED <<slot, nextSlot, rounds, phase, netVars>>

\* The body inspects the error_code a wrapped await produced
\* (CP_AWAIT_VAL(ec, x.wrap()), or co_await x.wrap() in a coroutine, whose
\* value is WrapPromise<void>::mRes, Result.h 321-325) and throws unless it
\* is the code it expects.
ProtoCheck(p) ==
  LET t == Top(p)
      w == Instr(t).task
  IN
  /\ Entered(p, "proto") \/ Entered(p, "coro")
  /\ ec[t] = "ok"
  /\ AtInstr(t, "check")
  /\ IF ec[w] = Instr(t).want
     THEN /\ pc' = [pc EXCEPT ![t] = @ + 1]
          /\ UNCHANGED <<status, ec, up, ready, stack, ret>>
     ELSE /\ Finish(p, t, "uncaughtException")
          /\ UNCHANGED pc
  /\ UNCHANGED <<down, slot, nextSlot, rounds, phase, netVars>>

-----------------------------------------------------------------------------
(***************************************************************************)
(* C++20 coroutine protocols: ProtoPromise (AwaitProto.h 62-175).  Each    *)
(* resume_ clears mEc and resumes the coroutine handle unless the task is *)
(* done; done() is hasError() or the handle finished; then it fulfills    *)
(* its dependents, and in every case it returns mEc.                       *)
(***************************************************************************)

\* resume_ (AwaitProto.h 120-141) of a task setError failed while it was
\* suspended: done() holds, so the body is not resumed.
CoroCanceled(p) ==
  /\ Entered(p, "coro")
  /\ ec[Top(p)] # "ok"
  /\ Finish(p, Top(p), ec[Top(p)])
  /\ UNCHANGED <<pc, down, slot, nextSlot, rounds, phase, netVars>>

\* The coroutine runs to final_suspend (AwaitProto.h 97): the handle is
\* done and resume_ fulfills with mEc, success.
CoroEnd(p) ==
  LET t == Top(p) IN
  /\ Entered(p, "coro")
  /\ ec[t] = "ok"
  /\ pc[t] > Len(Prog[t].body)
  /\ Finish(p, t, "ok")
  /\ UNCHANGED <<pc, down, slot, nextSlot, rounds, phase, netVars>>

\* An exception escapes the coroutine body: unhandled_exception
\* (AwaitProto.h 99-102) sets mEc = uncaughtException, the coroutine runs
\* to final_suspend, and resume_ fulfills its dependents with that code.
CoroThrow(p) ==
  LET t == Top(p) IN
  /\ Entered(p, "coro")
  /\ ec[t] = "ok"
  /\ AtInstr(t, "throw")
  /\ Finish(p, t, "uncaughtException")
  /\ UNCHANGED <<pc, down, slot, nextSlot, rounds, phase, netVars>>

\* await_transform(const EndOfRound&) (AwaitProto.h 207-218): with other
\* tasks ready, requeue behind them and suspend with mEc = suspend.
CoroEndOfRound(p) ==
  LET t == Top(p) IN
  /\ Entered(p, "coro")
  /\ ec[t] = "ok"
  /\ AtInstr(t, "eor")
  /\ pc' = [pc EXCEPT ![t] = @ + 1]
  /\ IF ready[p] # <<>>
     THEN /\ ready' = [ready EXCEPT ![p] = Append(@, t)]
          /\ Return(p, "suspend")
     ELSE UNCHANGED <<ready, stack, ret>>
  /\ UNCHANGED <<status, ec, up, down, slot, nextSlot, rounds, phase, netVars>>

\* ProtoAwaiter::await_ready (AwaitProto.h 29-37): co_await of a ProtoV
\* makes it this task's upstream and resumes it.
CoroAwait(p) ==
  LET t == Top(p)
      c == Instr(t).task
  IN
  /\ Entered(p, "coro")
  /\ ec[t] = "ok"
  /\ AtInstr(t, "await")
  /\ AddDep(t, c)
  /\ Push(p, c)
  /\ UNCHANGED <<status, pc, ec, ready, ret, nextSlot, rounds, phase, netVars>>

\* CoroReturned with a suspended child taken for a finished one
CoroReturnedOnSuspend(p) ==
  LET t == Top(p)
      e == ret[p]
  IN
  /\ Returned(p, "coro")
  /\ pc' = [pc EXCEPT ![t] = @ + 1]
  /\ IF e \in {"ok", "suspend"}
     THEN /\ ret' = [ret EXCEPT ![p] = "none"]
          /\ UNCHANGED <<status, ec, up, ready, stack>>
     ELSE Finish(p, t, e)
  /\ UNCHANGED <<down, slot, nextSlot, rounds, phase, netVars>>

(***************************************************************************)
(* ProtoAwaiter::await_ready (AwaitProto.h 40-58) after resume(child)      *)
(* returned e into mEc: on success the coroutine goes on (await_resume);   *)
(* otherwise it suspends, and resume_ fulfills with e unless e is suspend, *)
(* which it returns.                                                       *)
(***************************************************************************)
CoroReturned(p) ==
  LET t == Top(p)
      e == ret[p]
  IN
  /\ Returned(p, "coro")
  /\ pc' = [pc EXCEPT ![t] = @ + 1]
  /\ CASE e = "ok"      -> /\ ret' = [ret EXCEPT ![p] = "none"]
                           /\ UNCHANGED <<status, ec, up, ready, stack>>
       [] e = "suspend" -> /\ Return(p, "suspend")
                           /\ UNCHANGED <<status, ec, up, ready>>
       [] OTHER         -> Finish(p, t, e)
  /\ UNCHANGED <<down, slot, nextSlot, rounds, phase, netVars>>

\* What resume_ returns when the coroutine suspended with mEc untouched
\* since it was cleared (AwaitProto.h 126-140).
CoroSuspendCode == "ok"

(***************************************************************************)
(* AsyncAwaiter::await_ready (Async.h 207-252), for co_await on an Async  *)
(* handle whether moved or not (await_transform moves both, AwaitProto.h  *)
(* 188-203).  It tests the Controller, not the spawned task: a finished    *)
(* Controller is passed over, whatever its error; otherwise the coroutine *)
(* waits on it and suspends without setting mEc, and resume_ returns       *)
(* CoroSuspendCode.                                                        *)
(***************************************************************************)
CoroJoin(p) ==
  LET t == Top(p)
      c == Prog[Instr(t).task].ctrl
  IN
  /\ Entered(p, "coro")
  /\ ec[t] = "ok"
  /\ AtInstr(t, "join") \/ AtInstr(t, "joinmv")
  /\ pc' = [pc EXCEPT ![t] = @ + 1]
  /\ IF status[c] = "done"
     THEN UNCHANGED <<status, ec, up, down, ready, stack, ret>>
     ELSE /\ AddDep(t, c)
          /\ Return(p, CoroSuspendCode)
          /\ UNCHANGED <<status, ec, ready>>
  /\ UNCHANGED <<slot, nextSlot, rounds, phase, netVars>>

-----------------------------------------------------------------------------
\* WrapPromise::resume_ (Result.h 269-282), first resume: wait on the
\* wrapped task and resume it.
WrapStart(p) ==
  LET w == Top(p) IN
  /\ Entered(p, "wrap")
  /\ status[w] = "uninit"
  /\ status' = [status EXCEPT ![w] = "inprogress"]
  /\ AddDep(w, Prog[w].inner)
  /\ Push(p, Prog[w].inner)
  /\ UNCHANGED <<pc, ec, ready, ret, nextSlot, rounds, phase, netVars>>

\* WrapPromise::resume_ (Result.h 280-293), after the wrapped task
\* returned e (or, resumed from mReady, after it completed): on suspend
\* return suspend; otherwise the wrapper is done and fulfills its
\* dependents with success, keeping the wrapped error in mRes.
WrapReturned(p) ==
  LET w == Top(p) IN
  /\ Returned(p, "wrap")
  /\ IF ret[p] = "suspend"
     THEN /\ Return(p, "suspend")
          /\ UNCHANGED <<status, ec, up, ready>>
     ELSE /\ Complete(p, <<w>>, "ok", status, ec, up, ready[p])
          /\ Return(p, "ok")
  /\ UNCHANGED <<pc, down, slot, nextSlot, rounds, phase, netVars>>

WrapResumed(p) ==
  LET w == Top(p) IN
  /\ Entered(p, "wrap")
  /\ status[w] = "inprogress"
  /\ Complete(p, <<w>>, "ok", status, ec, up, ready[p])
  /\ Return(p, "ok")
  /\ UNCHANGED <<pc, down, slot, nextSlot, rounds, phase, netVars>>

\* AsyncResume with the Controller not waiting on the spawned task
AsyncResumeNoCtrlDep(p) ==
  LET a == Top(p)
      c == Prog[a].ctrl
      j == Prog[a].inner
  IN
  /\ Entered(p, "async")
  /\ slot' = [slot EXCEPT ![j] = nextSlot[p], ![c] = slot[a]]
  /\ nextSlot' = [nextSlot EXCEPT ![p] = @ + 1]
  /\ Complete(p, <<a>>, "ok", [status EXCEPT ![c] = "inprogress"], ec, up,
              Append(ready[p], j))
  /\ Return(p, "ok")
  /\ UNCHANGED <<pc, down, rounds, phase, netVars>>

(***************************************************************************)
(* AsyncPromise::resume_ (Async.h 162-181) with the nested resume of its   *)
(* Controller c (Async.h 41-52): the spawned task j gets slot mNextSlot++, *)
(* is scheduled, and c waits on it; then the AsyncPromise is done and      *)
(* fulfills its awaiting task with success.                                *)
(***************************************************************************)
AsyncResume(p) ==
  LET a == Top(p)
      c == Prog[a].ctrl
      j == Prog[a].inner
  IN
  /\ Entered(p, "async")
  /\ slot' = [slot EXCEPT ![j] = nextSlot[p], ![c] = slot[a]]
  /\ nextSlot' = [nextSlot EXCEPT ![p] = @ + 1]
  /\ Complete(p, <<a>>, "ok", [status EXCEPT ![c] = "inprogress"], ec,
              [up EXCEPT ![c] = {j}], Append(ready[p], j))
  /\ down' = [down EXCEPT ![j] = Append(@, c)]
  /\ Return(p, "ok")
  /\ UNCHANGED <<pc, rounds, phase, netVars>>

\* Async<T>::Controller::resume_ (Async.h 65-72): the spawned task is done;
\* the controller is done with the error setError gave it, if any.
CtrlResume(p) ==
  LET c == Top(p) IN
  /\ Entered(p, "ctrl")
  /\ Complete(p, <<c>>, ec[c], status, ec, up, ready[p])
  /\ Return(p, "ok")
  /\ UNCHANGED <<pc, down, slot, nextSlot, rounds, phase, netVars>>

-----------------------------------------------------------------------------
\* A leaf's resume_ returns mEc once it is done, suspend otherwise.
LeafReturn(p, l) ==
  Return(p, IF status'[l] = "done" THEN ec'[l] ELSE "suspend")

\* RefRecvProto::resume_ (Buffers.h 145-167), first resume, with
\* Scheduler::recv (Scheduler.cpp 299-318), Socket case: register the
\* buffer under the task's slot and try to receive at once.
RecvResume(p) ==
  LET l == Top(p) IN
  /\ ~AsyncMode
  /\ Entered(p, "recv")
  /\ status[l] = "uninit"
  /\ InitRecv(p, [status EXCEPT ![l] = "inprogress"], recvBufs[p] \cup {l})
  /\ LeafReturn(p, l)
  /\ UNCHANGED <<pc, down, slot, sendBufs, sentHeader, nextSlot, rounds, phase, wire,
                 errorIdx, root>>

\* A request made of the AsyncSocket (LocalEvaluator.h 89-125): a recv
\* of len bytes into dst ("hdr" is mRecvHeader), a send of chunk whose
\* continuation then sends next, or a cancel.
SockOp(type, p, len, dst, chunk, next) ==
  [type |-> type, idx |-> p, len |-> len, dst |-> dst, chunk |-> chunk, next |-> next]

\* The asynchronous recv path leaves the tasks, the sockets of the
\* synchronous path and the send side as they were.
AsyncRecvNoTaskChange(p, st0, rb0, rd0) ==
  /\ status' = st0
  /\ recvBufs' = [recvBufs EXCEPT ![p] = rb0]
  /\ ready' = [ready EXCEPT ![p] = rd0]
  /\ UNCHANGED <<ec, up, hdr, delivered, misread, activeSend,
                 inbound, outbound, canceled, opIdx>>

\* A bad frame cancels the other recvs with the sync path's code
BadFrameCancelCodeSync == "badBufferSize"
\* asyncRecvBody cancels the other recvs after a bad frame with ioError
\* (Scheduler.cpp 262).
BadFrameCancelCode == "ioError"

(***************************************************************************)
(* Scheduler::asyncRecvBody (Scheduler.cpp 203-275), the dispatched job,   *)
(* which runs inline on the executor thread: look up the task registered   *)
(* for the held header's slot.  None: mActiveRecv = false, the header      *)
(* stays held.  Its span fits: ask the socket for the body.  It does not:  *)
(* that task gets badBufferSize and is pushed on mReady, every other recv  *)
(* is canceled with ioError.                                               *)
(***************************************************************************)
AsyncRecvBody(p, st0, rb0, rd0) ==
  LET h  == hdr[p]
      rs == SlotRecvs(rb0, h.slot)
      r  == CHOOSE x \in rs : TRUE
  IN
  CASE rs = {} ->
         /\ AsyncRecvNoTaskChange(p, st0, rb0, rd0)
         /\ activeRecv' = [activeRecv EXCEPT ![p] = FALSE]
         /\ haveHeader' = [haveHeader EXCEPT ![p] = TRUE]
         /\ UNCHANGED workQueue
    [] SpanLen(r, h.len) = h.len ->
         /\ AsyncRecvNoTaskChange(p, st0, rb0, rd0)
         /\ activeRecv' = [activeRecv EXCEPT ![p] = TRUE]
         /\ haveHeader' = [haveHeader EXCEPT ![p] = TRUE]
         /\ workQueue' = Append(workQueue, SockOp("recv", p, h.len, r, NoChunk, NoChunk))
    [] OTHER ->
         CancelRecvQueue(p, BadFrameCancelCode, rb0 \ {r}, st0,
                         [ec EXCEPT ![r] = "badBufferSize"],
                         Append(rd0, r), opIdx)

\* Scheduler::initAsyncRecv (Scheduler.cpp 106-122) and asyncRecvHeader
\* (182-201), with mHaveHeader = held: mActiveRecv = true; go on with the
\* held header, or ask the socket for the next one.
InitAsyncRecv(p, held, st0, rb0, rd0) ==
  IF held
  THEN AsyncRecvBody(p, st0, rb0, rd0)
  ELSE /\ AsyncRecvNoTaskChange(p, st0, rb0, rd0)
       /\ activeRecv' = [activeRecv EXCEPT ![p] = TRUE]
       /\ workQueue' = Append(workQueue, SockOp("recv", p, HdrLen, "hdr", NoChunk, NoChunk))
       /\ haveHeader' = [haveHeader EXCEPT ![p] = held]

\* RefRecvProto::resume_, first resume, with Scheduler::recv, AsyncSocket
\* case: register the buffer; start a receive unless one is active.
RecvResumeAsync(p) ==
  LET l   == Top(p)
      st0 == [status EXCEPT ![l] = "inprogress"]
      rb0 == recvBufs[p] \cup {l}
  IN
  /\ AsyncMode
  /\ Entered(p, "recv")
  /\ status[l] = "uninit"
  /\ IF activeRecv[p]
     THEN /\ AsyncRecvNoTaskChange(p, st0, rb0, ready[p])
          /\ UNCHANGED <<haveHeader, activeRecv, workQueue>>
     ELSE InitAsyncRecv(p, haveHeader[p], st0, rb0, ready[p])
  /\ LeafReturn(p, l)
  /\ UNCHANGED <<pc, down, slot, sendBufs, sentHeader, nextSlot, rounds, phase, wire,
                 errorIdx, root>>

\* RefSendProto::resume_ (Buffers.h 288-318) or MvSendProto::resume_
\* (Buffers.h 444-451), first resume, of an empty buffer: fail with
\* sendLengthZeroMsg without touching the socket.
SendZero(p) ==
  LET l == Top(p) IN
  /\ Entered(p, "send") \/ Entered(p, "mvsend")
  /\ status[l] = "uninit"
  /\ Prog[l].len = 0
  /\ Complete(p, <<l>>, "sendLengthZeroMsg", status,
              [ec EXCEPT ![l] = "sendLengthZeroMsg"], up, ready[p])
  /\ LeafReturn(p, l)
  /\ UNCHANGED <<pc, down, slot, nextSlot, rounds, phase, netVars>>

\* The entry send_ queues for send task l
SendEntry(l) == [slot |-> slot[l], res |-> l, len |-> Prog[l].len]

\* RefSendProto::resume_, first resume, with Scheduler::send_ (Scheduler.cpp
\* 320-346), Socket case: queue the buffer and, the queue being otherwise
\* empty, initSend sends it at once.
SendResume(p) ==
  LET l == Top(p) IN
  /\ ~AsyncMode
  /\ Entered(p, "send")
  /\ status[l] = "uninit"
  /\ Prog[l].len > 0
  /\ InitSend(p, TaskState(p, [status EXCEPT ![l] = "inprogress"]),
              Append(sendBufs[p], SendEntry(l)))
  /\ LeafReturn(p, l)
  /\ UNCHANGED <<pc, down, slot, recvBufs, haveHeader, hdr, nextSlot, rounds, phase,
                 delivered, misread, errorIdx, root>>

\* Scheduler::initAsyncSend (Scheduler.cpp 348-365): mActiveSend = true;
\* fill mSendHeader from the front entry and send it; its continuation
\* sends the body (367-371).
InitAsyncSend(p, sb0) ==
  LET f == Head(sb0) IN
  /\ activeSend' = [activeSend EXCEPT ![p] = TRUE]
  /\ sendBufs' = [sendBufs EXCEPT ![p] = sb0]
  /\ workQueue' = Append(workQueue, SockOp("send", p, HdrLen, "none",
                                           HdrChunk(f.slot, f.len), BodyChunk(f.len, f.res)))

\* send_ starts a send whatever is in flight
StartsSendAlways(p) == TRUE
\* send_, AsyncSocket case: "if (mActiveSend == false) initAsyncSend();"
\* (Scheduler.cpp 340-344)
StartsSend(p) == ~activeSend[p]

\* send_, AsyncSocket case (Scheduler.cpp 333, 340-344): queue the entry;
\* start sending unless a send is active.
QueueAsyncSend(p, sb0) ==
  IF StartsSend(p)
  THEN InitAsyncSend(p, sb0)
  ELSE /\ sendBufs' = [sendBufs EXCEPT ![p] = sb0]
       /\ UNCHANGED <<activeSend, workQueue>>

\* RefSendProto::resume_, first resume, with send_, AsyncSocket case: queue
\* the buffer; start sending unless a send is active.
SendResumeAsync(p) ==
  LET l == Top(p)
      sb0 == Append(sendBufs[p], SendEntry(l))
  IN
  /\ AsyncMode
  /\ Entered(p, "send")
  /\ status[l] = "uninit"
  /\ Prog[l].len > 0
  /\ status' = [status EXCEPT ![l] = "inprogress"]
  /\ QueueAsyncSend(p, sb0)
  /\ LeafReturn(p, l)
  /\ UNCHANGED <<pc, ec, up, down, slot, ready, nextSlot, rounds, phase, recvBufs,
                 haveHeader, hdr, sentHeader, delivered, wire, misread,
                 inbound, outbound, canceled, opIdx, errorIdx, root, activeRecv>>

(***************************************************************************)
(* MvSendProto::resume_ (Buffers.h 444-458) of a non-empty container:      *)
(* send_ the moved buffer with no Resumable, then fulfillDep with success; *)
(* the task is done at once.  send_ changes no task (its entry resumes     *)
(* nothing, and the run() of a cancel inside run() returns at once), so    *)
(* fulfillDep is applied first.                                            *)
(***************************************************************************)
MvSendResume(p) ==
  LET l   == Top(p)
      b   == Fulfilled(p, <<l>>, "ok", [TaskState(p, status) EXCEPT !.ec[l] = "ok"])
      sb0 == Append(sendBufs[p], SendEntry(l))
  IN
  /\ Entered(p, "mvsend")
  /\ status[l] = "uninit"
  /\ Prog[l].len > 0
  /\ IF AsyncMode
     THEN /\ TaskStateIs(p, b)
          /\ QueueAsyncSend(p, sb0)
          /\ UNCHANGED <<sentHeader, wire, inbound, outbound, canceled, opIdx, activeRecv>>
     ELSE InitSend(p, b, sb0)
  /\ LeafReturn(p, l)
  /\ UNCHANGED <<pc, down, slot, recvBufs, haveHeader, hdr, nextSlot, rounds, phase,
                 delivered, misread, errorIdx, root>>

\* The leaf keeps the suspend code it was created with
ResolvedKeep(e) == e
\* "if (mEc == code::suspend) mEc = {};" (Buffers.h 156-157, 306-307)
Resolved(e) == IF e = "suspend" THEN "ok" ELSE e

\* RefRecvProto/RefSendProto::resume_ of a task in progress (Buffers.h
\* 153-159, 303-309): the socket callback pushed it on mReady; it is done,
\* with success unless setError gave it an error.
LeafResumed(p) ==
  LET l == Top(p)
      e == Resolved(ec[l])
  IN
  /\ Entered(p, Kind(l))
  /\ IsLeaf(l)
  /\ status[l] = "inprogress"
  /\ Complete(p, <<l>>, e, status, [ec EXCEPT ![l] = e], up, ready[p])
  /\ Return(p, e)
  /\ UNCHANGED <<pc, down, slot, nextSlot, rounds, phase, netVars>>

\* done() that forgets the send queue
SchedDoneNoSends(p) == ready[p] = <<>> /\ recvBufs[p] = {}
\* Scheduler::done (Scheduler.cpp 99-104)
SchedDone(p) == ready[p] = <<>> /\ recvBufs[p] = {} /\ sendBufs[p] = <<>>

\* run()'s "if (mReady.size() == 0) break;" after initRecv (Scheduler.cpp
\* 63-64), given the ready queue rd then.
LoopPhaseAlwaysExit(rd) == "exit"
LoopPhase(rd) == IF rd = <<>> THEN "exit" ELSE "run"

\* Scheduler::run (Scheduler.cpp 51-66), Socket case: nothing is ready but
\* operations are outstanding: try to receive; if still nothing is ready,
\* leave the loop.  (mSendBuffers is empty here: see InitSend.)
RunIdle(p) ==
  /\ ~AsyncMode
  /\ phase[p] = "run"
  /\ stack[p] = <<>>
  /\ ready[p] = <<>>
  /\ ~SchedDone(p)
  /\ IF recvBufs[p] # {}
     THEN InitRecv(p, status, recvBufs[p])
     ELSE UNCHANGED <<status, ec, up, ready, recvBufs, haveHeader, hdr,
                      inbound, outbound, canceled, opIdx, delivered, misread, asyncVars>>
  /\ phase' = [phase EXCEPT ![p] = LoopPhase(ready'[p])]
  /\ UNCHANGED <<pc, down, slot, stack, ret, sendBufs, sentHeader, nextSlot, rounds, wire,
                 errorIdx, root>>

\* Scheduler::run, AsyncSocket case (Scheduler.cpp 55-59): nothing is
\* ready: leave the loop; the socket callbacks will call run() again.
RunIdleAsync(p) ==
  /\ AsyncMode
  /\ phase[p] = "run"
  /\ stack[p] = <<>>
  /\ ready[p] = <<>>
  /\ ~SchedDone(p)
  /\ phase' = [phase EXCEPT ![p] = "exit"]
  /\ UNCHANGED <<taskVars, ready, stack, ret, nextSlot, rounds, netVars>>

\* Every step party p's Scheduler can take inside run().
SchedStep(p) ==
  \/ RunResume(p)
  \/ RunIdle(p)
  \/ ProtoCanceled(p)
  \/ ProtoEnd(p)
  \/ ProtoThrow(p)
  \/ ProtoReturnEc(p)
  \/ ProtoEndOfRound(p)
  \/ ProtoAwait(p)
  \/ ProtoReturned(p)
  \/ ProtoJoin(p)
  \/ ProtoJoinMv(p)
  \/ MvSendResume(p)
  \/ ProtoCheck(p)
  \/ CoroCanceled(p)
  \/ CoroEnd(p)
  \/ CoroThrow(p)
  \/ CoroEndOfRound(p)
  \/ CoroAwait(p)
  \/ CoroReturned(p)
  \/ CoroJoin(p)
  \/ WrapStart(p)
  \/ WrapReturned(p)
  \/ WrapResumed(p)
  \/ AsyncResume(p)
  \/ CtrlResume(p)
  \/ RecvResume(p)
  \/ SendResume(p)
  \/ SendZero(p)
  \/ RecvResumeAsync(p)
  \/ SendResumeAsync(p)
  \/ LeafResumed(p)
  \/ RunIdleAsync(p)

SchedInit ==
  /\ root \in Roots
  /\ status = [t \in Tasks |-> "uninit"]
  /\ pc = [t \in Tasks |-> 1]
  /\ ec = [t \in Tasks |-> IF IsLeaf(t) THEN "suspend" ELSE "ok"]
  /\ up = [t \in Tasks |-> {}]
  /\ down = [t \in Tasks |-> <<>>]
  /\ slot = [t \in Tasks |-> IF \E p \in Parties : root[p] = t THEN 0 ELSE NoSlot]
  /\ ready = [p \in Parties |-> <<root[p]>>]
  /\ stack = [p \in Parties |-> <<>>]
  /\ ret = [p \in Parties |-> "none"]
  /\ recvBufs = [p \in Parties |-> {}]
  /\ sendBufs = [p \in Parties |-> <<>>]
  /\ haveHeader = [p \in Parties |-> FALSE]
  /\ hdr = [p \in Parties |-> NoHdr]
  /\ sentHeader = [p \in Parties |-> FALSE]
  /\ nextSlot = [p \in Parties |-> 1]
  /\ rounds = [p \in Parties |-> 0]
  /\ phase = [p \in Parties |-> "idle"]
  /\ delivered = [p \in Parties |-> <<>>]
  /\ wire = [p \in Parties |-> <<>>]
  /\ misread = [p \in Parties |-> FALSE]
  /\ activeRecv = [p \in Parties |-> FALSE]
  /\ activeSend = [p \in Parties |-> FALSE]
  /\ workQueue = <<>>
-----------------------------------------------------------------------------
RootDone(p) == status[root[p]] = "done"
AllDone == \A p \in Parties : RootDone(p)

\* ProtoImpl::evaluate's return value (Proto.h 48-51)
EvalResult(p) == IF RootDone(p) THEN ec[root[p]] ELSE "suspend"

\* The code execute returns once both protocols are done (LocalEvaluator.cpp
\* 208-223): an error of either party, preferring one that is not ioError.
ExecuteResult ==
  LET e0 == ec[root[0]]
      e1 == ec[root[1]]
  IN CASE e0 # "ok" /\ e1 # "ok" -> IF e0 = "ioError" THEN e1 ELSE e0
       [] e0 # "ok"              -> e0
       [] e1 # "ok"              -> e1
       [] OTHER                  -> "ok"

-----------------------------------------------------------------------------
\* Properties of a Scheduler pair, whichever socket drives it

(***************************************************************************)
(* Scheduler::resume asserts that a task has no upstream dependency left   *)
(* (Scheduler.cpp 31), and a done task must never be resumed again: every  *)
(* task in mReady is unfinished, waits on nothing, and is queued once.     *)
(* fulfillDep, scheduleReady's call-stack check and CP_END_OF_ROUND's      *)
(* requeue must agree for this to hold.                                    *)
(***************************************************************************)
ReadyQueueSound ==
  \A p \in Parties :
    /\ IsInjective(ready[p])
    /\ \A i \in 1..Len(ready[p]) :
         status[ready[p][i]] # "done" /\ up[ready[p][i]] = {}

(***************************************************************************)
(* A task runs only while it waits on nothing: the task on top of mStack   *)
(* has no upstream edge, unless it is receiving the suspend of the child   *)
(* it just awaited.  This is the resume() contract of Resumable: a task    *)
(* that cannot finish reports suspend, so the protocol awaiting it        *)
(* (CP_AWAIT or ProtoAwaiter) stops instead of running on past it.         *)
(***************************************************************************)
ResumedUnblocked ==
  \A p \in Parties :
    stack[p] # <<>> /\ ret[p] # "suspend" => up[Top(p)] = {}

(***************************************************************************)
(* A task is done only when it waits on no other task: fulfillDep asserts  *)
(* upstream.mUpstream.size() == 0 (Scheduler.cpp 567) before it hands the  *)
(* result on, since a task that finished while an edge to it was still in  *)
(* place would be scheduled, and resumed, once more when that edge is      *)
(* fulfilled.                                                              *)
(***************************************************************************)
FulfilledUnblocked == \A t \in Tasks : status[t] = "done" => up[t] = {}

(***************************************************************************)
(* Every body a recv task receives is the message of the peer's send task  *)
(* that the protocol pairs it with: the two schedulers number their slots  *)
(* alike, headers for a slot whose recv is not yet registered are held,    *)
(* and the framing of headers and bodies stays aligned.                    *)
(***************************************************************************)
MatchedDelivery ==
  \A p \in Parties :
    /\ ~misread[p]
    /\ \A i \in 1..Len(delivered[p]) :
         delivered[p][i].src = PairOf[delivered[p][i].dst]

\* The message identities of a sequence of wire or delivered records
MsgIds(s) == [i \in 1..Len(s) |-> s[i].src]

\* The synchronous evaluators seen as the connection they offer: what each
\* party's initSend finished sending, and what its initRecv handed to a
\* recv task.
Chan == INSTANCE Channel WITH
          Msgs <- Tasks,
          sent <- [p \in Parties |-> MsgIds(wire[p])],
          got  <- [p \in Parties |-> MsgIds(delivered[p])]

(***************************************************************************)
(* The scheduler pair implements a FIFO channel (Channel.tla): every step  *)
(* sends at most one message or delivers at most one, and each party       *)
(* receives the peer's messages in the order initSend wrote them, with     *)
(* none lost in the middle and none twice, across held headers, rounds,    *)
(* sendMsgs (interlace) and the BlockingQueue (blocking).                  *)
(***************************************************************************)
ChannelRefined == Chan!Spec

(***************************************************************************)
(* Spec 4.4 and 8: a frame whose declared length the receiving buffer     *)
(* cannot take fails that one recv with badBufferSize; every other         *)
(* outstanding operation on the connection fails with ioError.  So a recv  *)
(* ends with badBufferSize only if its buffer does not fit its message.    *)
(***************************************************************************)
BadSizeConfined ==
  \A r \in DOMAIN PairOf :
    ec[r] = "badBufferSize" =>
      SpanLen(r, Prog[PairOf[r]].len) # Prog[PairOf[r]].len
=============================================================================
